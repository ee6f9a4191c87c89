---------------------------- MODULE MetaLogProofs ----------------------------
(***************************************************************************)
(* Proofs about MetaLog, for any sizes of the entries, the blocks and the  *)
(* log: every entry fits, and an entry is lost only in the ways that       *)
(* NothingElseLost names.  A pending entry lies whole before the end of    *)
(* the range to digest, and an append writes behind that end, unless       *)
(* logstart has moved since it computed logaddr; then nothing is pending.  *)
(***************************************************************************)
EXTENDS MetaLog, TLAPS

\* The sizes that are appended.
Sizes == {ExtentSize, DentrySize}

\* shutdown_fs has called munmap.
Unmapped == {"call", "digest", "move", "done"}

\* The append that has the lock: there is room for its entry, its address is
\* behind what is pending, and it is at risk when it meets another call.
AppendInv ==
  /\ append.step # "none" =>
       /\ append.size \in Sizes /\ logoffset + DentrySize <= LogSpace
       /\ count < MaxEntries
       /\ sync # "none" \/ shut # "none" => append.risk
  /\ append.step = "pad" => Crosses
  /\ append.step \in {"copy", "count"} => ~Crosses
  /\ append.step \in {"pad", "copy", "count"} =>
       /\ logoffset <= append.at /\ append.at <= logoffset + LogSpace
       /\ append.at = logstart + logoffset \/ (Pending = {} /\ append.risk)
       /\ syncs = 0 /\ shut # "done" => append.at = logoffset
  /\ append.step = "count" /\ ~append.risk => count + 1 \in whole

\* synclog and shutdown_fs: what is pending is in the range that the kernel
\* was given, and nothing is pending once it is digested.
CallsInv ==
  /\ shut \notin Unmapped => mapped = LogSpace
  /\ syncs = 0 => sync = "none"
  /\ syncs = 0 /\ shut # "done" => logstart = 0
  /\ sync = "digest" => \A e \in Pending : Within(e, range["sync"][1], range["sync"][2])
  /\ shut = "digest" => \A e \in Pending : Within(e, range["shut"][1], range["shut"][2])
  /\ sync = "move" \/ shut \in {"move", "done"} => Pending = {}

IInv == TypeOK /\ EntriesFit /\ NothingElseLost /\ AppendInv /\ CallsInv

\* The next multiple of a number, and the order of multiples.
LEMMA Multiples ==
  ASSUME NEW m \in Nat, m > 0, NEW p \in Nat, NEW q \in Nat, p * m < q * m
  PROVE  p * m + m <= q * m
<1>1. p < q
  <2>1. SUFFICES ASSUME q <= p PROVE FALSE
    OBVIOUS
  <2>2. PICK d \in Nat : p = q + d
    BY <2>1
  <2>3. p * m = q * m + d * m /\ d * m >= 0
    BY <2>2
  <2> QED
    BY <2>3
<1>2. PICK d \in Nat : q = (p + 1) + d
  BY <1>1
<1>3. q * m = (p + 1) * m + d * m /\ d * m >= 0 /\ (p + 1) * m = p * m + m
  BY <1>2
<1> QED
  BY <1>3

\* A dentry that is moved to the next block ends inside the log, as the log
\* is made of whole blocks.
LEMMA PaddedFits ==
  ASSUME NEW b \in Nat, b + DentrySize <= LogSpace,
         (b % LogBlock) + DentrySize > LogBlock
  PROVE  /\ b + (LogBlock - (b % LogBlock)) + DentrySize <= LogSpace
         /\ (b + (LogBlock - (b % LogBlock))) % LogBlock = 0
<1> DEFINE q == b \div LogBlock
           r == b % LogBlock
           n == LogSpace \div LogBlock
<1>1. LogBlock \in Nat /\ LogBlock > 0 /\ LogSpace \in Nat /\ LogSpace % LogBlock = 0
      /\ DentrySize \in Nat /\ DentrySize <= LogBlock
  BY MetaLogAssumption
<1>2. q \in Nat /\ r \in 0..LogBlock-1 /\ b = LogBlock * q + r
  BY <1>1
<1>3. n \in Nat /\ LogSpace = LogBlock * n
  BY <1>1
<1> HIDE DEF q, r, n
<1>4. b + (LogBlock - r) = (q + 1) * LogBlock
  BY <1>1, <1>2
<1>5. (q + 1) * LogBlock < n * LogBlock
  <2>1. b + (LogBlock - r) < LogSpace
    BY <1>1, <1>2 DEF r
  <2> QED
    BY <1>1, <1>3, <1>4, <2>1
<1>6. (q + 1) * LogBlock + LogBlock <= n * LogBlock
  BY <1>1, <1>2, <1>3, <1>5, Multiples
<1>7. ((q + 1) * LogBlock) % LogBlock = 0
  BY <1>1, <1>2
<1> QED
  BY <1>1, <1>2, <1>3, <1>4, <1>6, <1>7 DEF r


\* There is room for a dentry at the beginning of the log.
LEMMA BlockFits == LogBlock <= LogSpace /\ DentrySize <= LogSpace
<1> DEFINE n == LogSpace \div LogBlock
<1>1. /\ LogBlock \in Nat /\ LogBlock > 0 /\ LogSpace \in Nat /\ LogSpace > 0
      /\ LogSpace % LogBlock = 0 /\ DentrySize \in Nat /\ DentrySize <= LogBlock
  BY MetaLogAssumption
<1>2. n \in Nat /\ LogSpace = n * LogBlock
  BY <1>1
<1> HIDE DEF n
<1>3. 0 * LogBlock < n * LogBlock
  BY <1>1, <1>2
<1>4. 0 * LogBlock + LogBlock <= n * LogBlock
  BY <1>1, <1>2, <1>3, Multiples
<1> QED
  BY <1>1, <1>2, <1>4

\* The rounded offset of the address information is not behind the log.
LEMMA RoundedFits ==
  ASSUME NEW n \in Nat
  PROVE  (n \div (2 * LogBlock)) * LogBlock \in 0..n
<1> DEFINE m == 2 * LogBlock
           q == n \div m
<1>1. LogBlock \in Nat /\ LogBlock > 0 /\ m \in Nat /\ m > 0
  BY MetaLogAssumption
<1>2. q \in Nat /\ m * q <= n
  BY <1>1
<1>3. m * q = q * LogBlock + q * LogBlock /\ q * LogBlock >= 0
  BY <1>1, <1>2
<1> HIDE DEF m, q
<1>4. q * LogBlock \in 0..n
  BY <1>1, <1>2, <1>3
<1> QED
  BY <1>4 DEF q, m

\* What is a whole number of blocks away is as far from the end of its block.
LEMMA SameInBlock ==
  ASSUME NEW n \in Nat, NEW d \in Nat, d % LogBlock = 0
  PROVE  (n + d) % LogBlock = n % LogBlock
<1> DEFINE q == d \div LogBlock
           p == n \div LogBlock
           r == n % LogBlock
<1>1. LogBlock \in Nat /\ LogBlock > 0
  BY MetaLogAssumption
<1>2. q \in Nat /\ d = LogBlock * q
  BY <1>1
<1>3. p \in Nat /\ r \in 0..LogBlock-1 /\ n = LogBlock * p + r
  BY <1>1
<1> HIDE DEF p, q, r
<1>4. n + d = LogBlock * (p + q) + r
  BY <1>1, <1>2, <1>3
<1>5. (LogBlock * (p + q) + r) % LogBlock = r
  BY <1>1, <1>2, <1>3
<1> QED
  BY <1>4, <1>5 DEF r

\* The numbers of a state.
LEMMA Numbers ==
  ASSUME TypeOK
  PROVE  /\ logoffset \in 0..LogSpace /\ logstart \in 0..LogSpace /\ mapped \in 0..LogSpace
         /\ count \in 0..MaxEntries /\ offset \in 0..LogSpace
         /\ append.at \in 0..2*LogSpace /\ append.size \in Nat
         /\ LogSpace \in Nat /\ LogBlock \in Nat /\ LogBlock > 0 /\ DentrySize \in Nat
         /\ ExtentSize \in Nat /\ ExtentSize > 0 /\ ExtentSize <= DentrySize
         /\ AddrInfoSize \in Nat /\ MaxEntries \in Nat /\ MaxSyncs \in Nat
         /\ append.risk \in BOOLEAN
BY MetaLogAssumption DEF TypeOK

\* The place of an entry is made of numbers.
LEMMA PlaceNumbers ==
  ASSUME TypeOK, NEW e \in Entries
  PROVE  /\ e \in 1..MaxEntries /\ e \in Nat /\ e <= count
         /\ place[e].at \in Nat /\ place[e].size \in Nat /\ place[e].off \in Nat
<1>1. e \in 1..MaxEntries /\ e \in Nat /\ e <= count
  BY Numbers DEF Entries
<1>2. place[e] \in [at : 0..2*LogSpace, off : 0..LogSpace, size : {0, ExtentSize, DentrySize}]
  BY <1>1 DEF TypeOK
<1>3. /\ place[e].at \in 0..2*LogSpace /\ place[e].off \in 0..LogSpace
      /\ place[e].size \in {0, ExtentSize, DentrySize}
  BY <1>2
<1> QED
  BY <1>1, <1>3, MetaLogAssumption

\* What is written behind the range to digest meets nothing that is pending.
LEMMA BehindPending ==
  ASSUME TypeOK, NothingElseLost, NEW at \in Nat, NEW size, NEW e \in Pending,
         logstart + logoffset <= at
  PROVE  e \notin Meet(at, size)
<1>1. /\ place[e].at \in Nat /\ place[e].size \in Nat
      /\ place[e].at + place[e].size <= logstart + logoffset
  BY PlaceNumbers DEF NothingElseLost, InRange, Within, Pending
<1>2. ~(at < place[e].at + place[e].size)
  BY <1>1, Numbers
<1> QED
  BY <1>2 DEF Meet

-----------------------------------------------------------------------------
\* An append takes the lock: there is room for a dentry behind logoffset.
LEMMA BeginKeeps == ASSUME IInv, NEW size \in Sizes, AppendBegin(size) PROVE IInv'
<1>1. /\ ended = "no" /\ shut # "done" /\ append.step = "none" /\ count < MaxEntries
      /\ logoffset' = IF Wraps THEN 0 ELSE logoffset
      /\ atRisk' = atRisk \cup (IF Wraps THEN Pending ELSE {})
      /\ append' = [step |-> "aim", size |-> size, at |-> 0,
                    risk |-> sync # "none" \/ shut # "none"]
      /\ UNCHANGED <<logstart, mapped, count, place, whole, syncs, sync, shut, range,
                     offset, ended, digested>>
  BY DEF AppendBegin, Running
<1>2. TypeOK /\ Entries' = Entries
  BY <1>1 DEF IInv, Entries
<1>3. Pending' = IF Wraps THEN {} ELSE Pending
  BY <1>1, <1>2 DEF Pending
<1>4. logoffset' \in 0..LogSpace /\ logoffset' + DentrySize <= LogSpace
  BY <1>1, <1>2, Numbers, BlockFits DEF Wraps
<1>5. TypeOK'
  <2>1. append' \in [step : {"none", "aim", "pad", "copy", "count"}, at : 0..2*LogSpace,
                     size : {0, ExtentSize, DentrySize}, risk : BOOLEAN]
    BY <1>1, <1>2, Numbers DEF Sizes
  <2>2. atRisk' \subseteq Entries'
    BY <1>1, <1>2 DEF Pending, TypeOK
  <2> QED
    BY <1>1, <1>2, <1>4, <2>1, <2>2 DEF TypeOK
<1>6. EntriesFit'
  BY <1>1, <1>2 DEF IInv, EntriesFit
<1>7. NothingElseLost'
  BY <1>1, <1>3 DEF IInv, NothingElseLost, InRange, Within
<1>8. AppendInv'
  BY <1>1, <1>4 DEF AppendInv
<1>9. CallsInv'
  BY <1>1, <1>3 DEF IInv, CallsInv, Within
<1> QED
  BY <1>5, <1>6, <1>7, <1>8, <1>9 DEF IInv

\* logaddr is behind what is pending.
LEMMA AimKeeps == ASSUME IInv, AppendAim PROVE IInv'
<1>1. /\ ended = "no" /\ append.step = "aim"
      /\ append' = [append EXCEPT !.at = logstart + logoffset,
                                  !.step = IF Crosses THEN "pad" ELSE "copy"]
      /\ UNCHANGED <<logoffset, logstart, mapped, count, place, whole, syncs, sync, shut,
                     range, offset, ended, digested, atRisk>>
  BY DEF AppendAim
<1>2. TypeOK /\ Entries' = Entries /\ Pending' = Pending
  BY <1>1 DEF IInv, Entries, Pending
<1>3. /\ append'.at = logstart + logoffset /\ append'.size = append.size
      /\ append'.risk = append.risk /\ append'.step = IF Crosses THEN "pad" ELSE "copy"
  BY <1>1, <1>2 DEF TypeOK
<1>4. TypeOK'
  <2>1. append' \in [step : {"none", "aim", "pad", "copy", "count"}, at : 0..2*LogSpace,
                     size : {0, ExtentSize, DentrySize}, risk : BOOLEAN]
    <3>1. logstart + logoffset \in 0..2*LogSpace
      BY <1>2, Numbers
    <3> QED
      BY <1>1, <1>2, <3>1 DEF TypeOK
  <2> QED
    BY <1>1, <1>2, <2>1 DEF TypeOK
<1>5. EntriesFit' /\ NothingElseLost' /\ CallsInv'
  BY <1>1, <1>2 DEF IInv, EntriesFit, NothingElseLost, CallsInv, InRange, Within
<1>6. AppendInv'
  <2>1. Crosses' <=> Crosses
    BY <1>1, <1>3 DEF Crosses
  <2>2. logoffset <= append'.at /\ append'.at <= logoffset + LogSpace
    BY <1>2, <1>3, Numbers
  <2>3. syncs = 0 /\ shut # "done" => append'.at = logoffset
    BY <1>2, <1>3, Numbers DEF IInv, CallsInv
  <2> QED
    BY <1>1, <1>2, <1>3, <2>1, <2>2, <2>3 DEF IInv, AppendInv
<1> QED
  BY <1>4, <1>5, <1>6 DEF IInv

\* A write of the append leaves what is pending whole, as it is behind it or as
\* nothing is pending; before a synclog and before munmap it cannot fault.
LEMMA WriteKeeps ==
  ASSUME IInv, append.step \in {"pad", "copy"}, NEW size \in Nat, NEW new,
         new \subseteq 1..count+1, Write(append.at, size, new),
         logoffset + size <= LogSpace, ended = "no"
  PROVE  /\ Pending \subseteq whole' /\ whole' \subseteq 1..count+1
         /\ ended' \in {"no", "fault"}
         /\ ended' = "fault" => syncs > 0 \/ shut \in Unmapped
<1>1. TypeOK /\ NothingElseLost
  BY DEF IInv
<1>2. /\ whole' = (whole \ Meet(append.at, size)) \cup new
      /\ ended' = "no" \/ (append.at + size > mapped /\ ended' = "fault")
  BY DEF Write
<1>3. ASSUME NEW e \in Pending PROVE e \in whole'
  <2>1. append.at = logstart + logoffset /\ append.at \in Nat
    BY <1>1, Numbers DEF IInv, AppendInv
  <2>2. e \notin Meet(append.at, size)
    BY <1>1, <2>1, BehindPending
  <2> QED
    BY <1>1, <1>2, <2>2 DEF NothingElseLost
<1>4. ASSUME ended' = "fault" PROVE syncs > 0 \/ shut \in Unmapped
  <2>1. SUFFICES ASSUME syncs = 0, shut \notin Unmapped PROVE FALSE
    BY <1>1 DEF TypeOK
  <2>2. append.at = logoffset /\ mapped = LogSpace
    BY <2>1 DEF IInv, AppendInv, CallsInv, Unmapped
  <2> QED
    BY <1>1, <1>2, <1>4, <2>2, Numbers
<1> QED
  BY <1>1, <1>2, <1>3, <1>4 DEF TypeOK

\* The padding ends at the beginning of a block that has room for the dentry.
LEMMA PadKeeps == ASSUME IInv, AppendPad PROVE IInv'
<1>1. /\ ended = "no" /\ append.step = "pad"
      /\ Write(append.at, Padding, {})
      /\ logoffset' = logoffset + Padding
      /\ append' = [append EXCEPT !.step = "aim"]
      /\ UNCHANGED <<logstart, mapped, count, place, syncs, sync, shut, range, offset,
                     digested, atRisk>>
  BY DEF AppendPad
<1>2. TypeOK /\ Entries' = Entries /\ Pending' = Pending
  BY <1>1 DEF IInv, Entries, Pending
<1>3. Crosses /\ logoffset + DentrySize <= LogSpace /\ append.size \in Sizes
      /\ count < MaxEntries /\ (sync # "none" \/ shut # "none" => append.risk)
  BY <1>1 DEF IInv, AppendInv
<1>4. Padding \in Nat /\ logoffset + Padding + DentrySize <= LogSpace
  BY <1>2, <1>3, Numbers, PaddedFits DEF Padding, Crosses
<1>5. /\ Pending \subseteq whole' /\ whole' \subseteq 1..count+1 /\ ended' \in {"no", "fault"}
      /\ ended' = "fault" => syncs > 0 \/ shut \in Unmapped
  <2>1. logoffset + Padding <= LogSpace
    BY <1>2, <1>4, Numbers
  <2> QED
    BY <1>1, <1>4, <2>1, WriteKeeps
<1>6. logoffset' \in 0..LogSpace /\ logoffset <= logoffset' /\ logoffset' + DentrySize <= LogSpace
  BY <1>1, <1>2, <1>4, Numbers
<1>7. append'.step = "aim" /\ append'.size = append.size /\ append'.risk = append.risk
  BY <1>1, <1>2 DEF TypeOK
<1>8. TypeOK'
  <2>1. append' \in [step : {"none", "aim", "pad", "copy", "count"}, at : 0..2*LogSpace,
                     size : {0, ExtentSize, DentrySize}, risk : BOOLEAN]
    BY <1>1, <1>2 DEF TypeOK
  <2> QED
    BY <1>1, <1>2, <1>5, <1>6, <2>1 DEF TypeOK
<1>9. EntriesFit'
  BY <1>1, <1>2, <1>5 DEF IInv, EntriesFit, Unmapped
<1>10. NothingElseLost'
  <2>1. ASSUME NEW e \in Pending
        PROVE  shut # "done" /\ logstart <= place[e].at
               /\ place[e].at + place[e].size <= logstart + logoffset'
    <3>1. shut # "done" /\ InRange(e) /\ e \in Entries
      BY DEF IInv, NothingElseLost, Pending
    <3> QED
      BY <1>2, <1>6, <3>1, PlaceNumbers, Numbers DEF InRange, Within
  <2> QED
    BY <1>1, <1>2, <1>5, <2>1 DEF IInv, NothingElseLost, InRange, Within
<1>11. AppendInv'
  BY <1>1, <1>3, <1>6, <1>7 DEF AppendInv
<1>12. CallsInv'
  BY <1>1, <1>2 DEF IInv, CallsInv, Within
<1> QED
  BY <1>8, <1>9, <1>10, <1>11, <1>12 DEF IInv

\* The entry is written behind what is pending.
LEMMA CopyKeeps == ASSUME IInv, AppendCopy PROVE IInv'
<1> DEFINE new == IF append.at + append.size <= mapped THEN {count + 1} ELSE {}
<1>1. /\ ended = "no" /\ append.step = "copy"
      /\ Write(append.at, append.size, new)
      /\ append' = [append EXCEPT !.step = "count",
                                  !.risk = @ \/ append.at + append.size > mapped]
      /\ UNCHANGED <<logoffset, logstart, mapped, count, place, syncs, sync, shut, range,
                     offset, digested, atRisk>>
  BY DEF AppendCopy
<1>2. TypeOK /\ Entries' = Entries /\ Pending' = Pending
  BY <1>1 DEF IInv, Entries, Pending
<1>3. append.size \in Sizes /\ logoffset + DentrySize <= LogSpace
  BY <1>1 DEF IInv, AppendInv
<1>4. append.size \in Nat /\ logoffset + append.size <= LogSpace /\ new \subseteq 1..count+1
  BY <1>2, <1>3, Numbers DEF Sizes
<1>5. /\ Pending \subseteq whole' /\ whole' \subseteq 1..count+1 /\ ended' \in {"no", "fault"}
      /\ ended' = "fault" => syncs > 0 \/ shut \in Unmapped
  BY <1>1, <1>4, WriteKeeps
<1>6. /\ append'.step = "count" /\ append'.size = append.size /\ append'.at = append.at
      /\ append'.risk = (append.risk \/ append.at + append.size > mapped)
  BY <1>1, <1>2 DEF TypeOK
<1>7. ASSUME ~append'.risk PROVE count + 1 \in whole'
  <2>1. ~(append.at + append.size > mapped)
    BY <1>6, <1>7, Zenon
  <2>2. count + 1 \in new
    BY <1>2, <2>1, Numbers
  <2> QED
    BY <1>1, <2>2 DEF Write
<1> HIDE DEF new
<1>8. TypeOK'
  <2>1. append' \in [step : {"none", "aim", "pad", "copy", "count"}, at : 0..2*LogSpace,
                     size : {0, ExtentSize, DentrySize}, risk : BOOLEAN]
    <3>1. (append.risk \/ append.at + append.size > mapped) \in BOOLEAN
      OBVIOUS
    <3> QED
      BY <1>1, <1>2, <3>1 DEF TypeOK
  <2> QED
    BY <1>1, <1>2, <1>5, <2>1 DEF TypeOK
<1>9. EntriesFit'
  BY <1>1, <1>2, <1>5 DEF IInv, EntriesFit, Unmapped
<1>10. NothingElseLost'
  BY <1>1, <1>2, <1>5 DEF IInv, NothingElseLost, InRange, Within
<1>11. AppendInv'
  <2>1. Crosses' <=> Crosses
    BY <1>1, <1>6 DEF Crosses
  <2> QED
    BY <1>1, <1>2, <1>6, <1>7, <2>1 DEF IInv, AppendInv
<1>12. CallsInv'
  BY <1>1, <1>2 DEF IInv, CallsInv, Within
<1> QED
  BY <1>8, <1>9, <1>10, <1>11, <1>12 DEF IInv

\* The entry is counted: it fits, and it is pending unless it is at risk.
LEMMA CountKeeps == ASSUME IInv, AppendCount PROVE IInv'
<1> DEFINE n == count + 1
           entry == [at |-> append.at, off |-> logoffset, size |-> append.size]
<1>1. /\ ended = "no" /\ append.step = "count" /\ count' = n
      /\ place' = [place EXCEPT ![n] = entry]
      /\ logoffset' = logoffset + append.size
      /\ atRisk' = atRisk \cup (IF append.risk THEN {n} ELSE {})
      /\ append' = NoAppend
      /\ UNCHANGED <<logstart, mapped, whole, syncs, sync, shut, range, offset, ended, digested>>
  BY DEF AppendCount
<1>2. TypeOK
  BY DEF IInv
<1>3. /\ append.size \in Sizes /\ logoffset + DentrySize <= LogSpace /\ count < MaxEntries
      /\ (sync # "none" \/ shut # "none" => append.risk) /\ ~Crosses
      /\ logoffset <= append.at /\ append.at <= logoffset + LogSpace
      /\ ~append.risk => append.at = logstart + logoffset /\ n \in whole
      /\ syncs = 0 /\ shut # "done" => append.at = logoffset
  BY <1>1 DEF IInv, AppendInv
<1>4. /\ n \in 1..MaxEntries /\ n \in Nat /\ n \notin Entries /\ Entries' = Entries \cup {n}
      /\ Entries \subseteq 1..MaxEntries
  BY <1>1, <1>2, <1>3, Numbers DEF Entries
<1>5. \A e \in Entries : place'[e] = place[e]
  BY <1>1, <1>2, <1>4 DEF TypeOK
<1>6. place'[n].at = append.at /\ place'[n].off = logoffset /\ place'[n].size = append.size
  BY <1>1, <1>2, <1>4 DEF TypeOK
<1>7. append.size \in Nat /\ append.size <= DentrySize
  BY <1>2, <1>3, Numbers DEF Sizes
<1>8. logoffset' \in 0..LogSpace /\ logoffset <= logoffset' /\ logoffset + append.size <= LogSpace
  BY <1>1, <1>2, <1>3, <1>7, Numbers
<1>9. TypeOK'
  <2>1. entry \in [at : 0..2*LogSpace, off : 0..LogSpace, size : {0, ExtentSize, DentrySize}]
    BY <1>2, <1>3, Numbers DEF Sizes
  <2> HIDE DEF entry
  <2>2. place' \in [1..MaxEntries -> [at : 0..2*LogSpace, off : 0..LogSpace,
                                      size : {0, ExtentSize, DentrySize}]]
    BY <1>1, <1>2, <2>1 DEF TypeOK
  <2>3. append' \in [step : {"none", "aim", "pad", "copy", "count"}, at : 0..2*LogSpace,
                     size : {0, ExtentSize, DentrySize}, risk : BOOLEAN]
    BY <1>1, <1>2, Numbers DEF NoAppend
  <2>4. count' \in 0..MaxEntries /\ whole' \subseteq 1..count'+1
    BY <1>1, <1>2, <1>4, Numbers DEF TypeOK
  <2>5. digested' \subseteq Entries' /\ atRisk' \subseteq Entries'
    BY <1>1, <1>2, <1>4 DEF TypeOK
  <2> QED
    BY <1>1, <1>2, <1>8, <2>2, <2>3, <2>4, <2>5 DEF TypeOK
<1>10. EntriesFit'
  <2>1. ASSUME append.size = DentrySize PROVE (logoffset % LogBlock) + DentrySize <= LogBlock
    BY <1>2, <1>3, <2>1, Numbers DEF Crosses
  <2>2. ASSUME append.size = DentrySize, (append.at - logoffset) % LogBlock = 0
        PROVE  (append.at % LogBlock) + DentrySize <= LogBlock
    <3> DEFINE d == append.at - logoffset
    <3>1. d \in Nat /\ append.at = logoffset + d /\ logoffset \in Nat
      BY <1>2, <1>3, Numbers
    <3>2. d % LogBlock = 0
      BY <2>2
    <3> HIDE DEF d
    <3>3. append.at % LogBlock = logoffset % LogBlock
      BY <3>1, <3>2, SameInBlock
    <3> QED
      BY <2>1, <2>2, <3>3
  <2>3. ASSUME NEW e \in Entries'
        PROVE  /\ place'[e].off + place'[e].size <= LogSpace
               /\ place'[e].size = DentrySize =>
                    /\ (place'[e].off % LogBlock) + DentrySize <= LogBlock
                    /\ (place'[e].at - place'[e].off) % LogBlock = 0 =>
                         (place'[e].at % LogBlock) + DentrySize <= LogBlock
               /\ syncs = 0 /\ shut # "done" => place'[e].at = place'[e].off
    <3>1. CASE e = n
      BY <1>3, <1>6, <1>8, <2>1, <2>2, <3>1
    <3>2. CASE e \in Entries
      BY <1>5, <3>2 DEF IInv, EntriesFit
    <3> QED
      BY <1>4, <3>1, <3>2
  <2> QED
    BY <1>1, <2>3 DEF EntriesFit
<1>11. Pending' = IF append.risk THEN Pending ELSE Pending \cup {n}
  <2>1. n \notin digested /\ n \notin atRisk
    BY <1>2, <1>4 DEF TypeOK
  <2>2. append.risk \in BOOLEAN
    BY <1>2, Numbers
  <2> QED
    BY <1>1, <1>4, <2>1, <2>2 DEF Pending
<1>12. \A e \in Pending : e \in Entries
  BY DEF Pending
<1>13. NothingElseLost'
  <2> DEFINE Kept(e) == /\ logstart <= place'[e].at
                        /\ place'[e].at + place'[e].size <= logstart + logoffset'
  <2>1. ASSUME NEW e \in Pending PROVE e \in whole /\ Kept(e) /\ shut # "done"
    <3>1. e \in whole /\ InRange(e) /\ e \in Entries /\ shut # "done"
      BY <1>12 DEF IInv, NothingElseLost
    <3>2. place'[e] = place[e] /\ place[e].at \in Nat /\ place[e].size \in Nat
      BY <1>2, <1>5, <3>1, PlaceNumbers
    <3>3. logstart <= place[e].at /\ place[e].at + place[e].size <= logstart + logoffset'
      BY <1>2, <1>8, <3>1, <3>2, Numbers DEF InRange, Within
    <3> QED
      BY <3>1, <3>2, <3>3
  <2>2. ASSUME ~append.risk PROVE n \in whole /\ Kept(n) /\ shut # "done"
    <3>1. n \in whole /\ append.at = logstart + logoffset /\ shut # "done"
      BY <1>3, <2>2
    <3>2. logstart <= append.at /\ append.at + append.size <= logstart + logoffset'
      BY <1>1, <1>2, <1>7, <3>1, Numbers
    <3> QED
      BY <1>6, <3>1, <3>2
  <2>3. \A e \in Pending' : e \in Pending \/ (e = n /\ ~append.risk)
    BY <1>11
  <2>4. \A e \in Pending' : e \in whole /\ Kept(e) /\ shut # "done"
    BY <2>1, <2>2, <2>3
  <2>5. ended = "panic" => syncs > 0
    BY DEF IInv, NothingElseLost
  <2> QED
    BY <1>1, <2>4, <2>5 DEF NothingElseLost, InRange, Within
<1>14. AppendInv'
  BY <1>1 DEF AppendInv, NoAppend
<1>15. CallsInv'
  <2>1. CASE sync = "none" /\ shut = "none"
    BY <1>1, <2>1 DEF IInv, CallsInv, Unmapped
  <2>2. CASE append.risk
    <3>1. Pending' = Pending /\ \A e \in Pending : place'[e] = place[e]
      BY <1>5, <1>11, <1>12, <2>2
    <3> QED
      BY <1>1, <3>1 DEF IInv, CallsInv, Within
  <2> QED
    BY <1>3, <2>1, <2>2
<1> QED
  BY <1>9, <1>10, <1>13, <1>14, <1>15 DEF IInv

-----------------------------------------------------------------------------
\* An append that meets synclog or shutdown_fs is marked.
LEMMA RiskedIs ==
  ASSUME TypeOK
  PROVE  /\ Risked.step = append.step /\ Risked.size = append.size /\ Risked.at = append.at
         /\ Risked.risk = (append.step # "none")
         /\ Risked \in [step : {"none", "aim", "pad", "copy", "count"}, at : 0..2*LogSpace,
                        size : {0, ExtentSize, DentrySize}, risk : BOOLEAN]
<1>1. append \in [step : {"none", "aim", "pad", "copy", "count"}, at : 0..2*LogSpace,
                  size : {0, ExtentSize, DentrySize}, risk : BOOLEAN]
  BY DEF TypeOK
<1>2. (append.step # "none") \in BOOLEAN
  OBVIOUS
<1> QED
  BY <1>1, <1>2 DEF Risked

\* The range that is given to the kernel: what is pending is in it.
LEMMA RangeIs ==
  ASSUME TypeOK, NothingElseLost, NEW c \in {"sync", "shut"}, GiveRange(c)
  PROVE  /\ range' \in [{"sync", "shut"} -> (0..LogSpace) \X (0..2*LogSpace)]
         /\ \A e \in Pending : Within(e, range'[c][1], range'[c][2])
         /\ \A d \in {"sync", "shut"} : d # c => range'[d] = range[d]
<1>1. logstart \in 0..LogSpace /\ logstart + logoffset \in 0..2*LogSpace
  BY Numbers
<1>2. range' = [range EXCEPT ![c] = <<logstart, logstart + logoffset>>]
      /\ range \in [{"sync", "shut"} -> (0..LogSpace) \X (0..2*LogSpace)]
  BY DEF GiveRange, TypeOK
<1>3. range'[c] = <<logstart, logstart + logoffset>>
  BY <1>2
<1>4. range' \in [{"sync", "shut"} -> (0..LogSpace) \X (0..2*LogSpace)]
  BY <1>1, <1>2
<1>5. \A d \in {"sync", "shut"} : d # c => range'[d] = range[d]
  BY <1>2
<1>6. range'[c][1] = logstart /\ range'[c][2] = logstart + logoffset
  BY <1>3
<1> QED
  BY <1>4, <1>5, <1>6 DEF NothingElseLost, InRange

\* synclog begins.
LEMMA SyncCallKeeps == ASSUME IInv, SyncCall PROVE IInv'
<1>1. /\ ended = "no" /\ shut # "done" /\ sync = "none" /\ syncs < MaxSyncs
      /\ sync' = "digest" /\ syncs' = syncs + 1 /\ GiveRange("sync") /\ append' = Risked
      /\ UNCHANGED <<logoffset, logstart, mapped, count, place, whole, shut, offset, ended,
                     digested, atRisk>>
  BY DEF SyncCall, Running
<1>2. TypeOK /\ NothingElseLost /\ Entries' = Entries /\ Pending' = Pending
  BY <1>1 DEF IInv, Entries, Pending
<1>3. syncs' \in 0..MaxSyncs /\ syncs' > 0
  BY <1>1, <1>2, MetaLogAssumption DEF TypeOK
<1>4. /\ range' \in [{"sync", "shut"} -> (0..LogSpace) \X (0..2*LogSpace)]
      /\ \A e \in Pending : Within(e, range'["sync"][1], range'["sync"][2])
      /\ range'["shut"] = range["shut"]
  BY <1>1, <1>2, RangeIs
<1>5. /\ append'.step = append.step /\ append'.size = append.size /\ append'.at = append.at
      /\ append'.risk = (append.step # "none")
      /\ append' \in [step : {"none", "aim", "pad", "copy", "count"}, at : 0..2*LogSpace,
                      size : {0, ExtentSize, DentrySize}, risk : BOOLEAN]
  BY <1>1, <1>2, RiskedIs
<1>6. TypeOK'
  BY <1>1, <1>2, <1>3, <1>4, <1>5 DEF TypeOK
<1>7. EntriesFit' /\ NothingElseLost'
  BY <1>1, <1>2, <1>3 DEF IInv, EntriesFit, NothingElseLost, InRange, Within
<1>8. AppendInv'
  <2>1. Crosses' <=> Crosses
    BY <1>1, <1>5 DEF Crosses
  <2> QED
    BY <1>1, <1>2, <1>3, <1>5, <2>1 DEF IInv, AppendInv
<1>9. CallsInv'
  BY <1>1, <1>2, <1>3, <1>4 DEF IInv, CallsInv, Within
<1> QED
  BY <1>6, <1>7, <1>8, <1>9 DEF IInv

\* The kernel digests all that is pending.
LEMMA DigestEmpties ==
  ASSUME TypeOK, NothingElseLost, NEW c \in {"sync", "shut"}, Digest(c),
         \A e \in Pending : Within(e, range[c][1], range[c][2]),
         UNCHANGED <<count, atRisk>>
  PROVE  Pending' = {} /\ Entries' = Entries /\ digested' \subseteq Entries'
BY DEF Digest, Pending, Entries, NothingElseLost, TypeOK

\* So it does in synclog.
LEMMA SyncDigestKeeps == ASSUME IInv, SyncDigest PROVE IInv'
<1>1. /\ ended = "no" /\ sync = "digest" /\ sync' = "move" /\ Digest("sync")
      /\ UNCHANGED <<logoffset, logstart, mapped, count, place, whole, append, syncs, shut,
                     range, offset, ended, atRisk>>
  BY DEF SyncDigest
<1>2. TypeOK /\ NothingElseLost
  BY DEF IInv
<1>3. Pending' = {} /\ Entries' = Entries /\ digested' \subseteq Entries'
  BY <1>1, <1>2, DigestEmpties DEF IInv, CallsInv
<1>4. TypeOK'
  BY <1>1, <1>2, <1>3 DEF TypeOK
<1>5. EntriesFit' /\ NothingElseLost'
  BY <1>1, <1>3 DEF IInv, EntriesFit, NothingElseLost
<1>6. AppendInv'
  BY <1>1, <1>3 DEF IInv, AppendInv, Crosses
<1>7. CallsInv'
  BY <1>1, <1>3 DEF IInv, CallsInv
<1> QED
  BY <1>4, <1>5, <1>6, <1>7 DEF IInv

\* logstart moves when nothing is pending.
LEMMA SyncMoveKeeps == ASSUME IInv, SyncMove PROVE IInv'
<1>1. /\ ended = "no" /\ sync = "move" /\ sync' = "none" /\ logstart' = logoffset
      /\ range' = [range EXCEPT !["sync"] = <<0, 0>>]
      /\ UNCHANGED <<logoffset, mapped, count, place, whole, append, syncs, shut, offset,
                     ended, digested, atRisk>>
  BY DEF SyncMove
<1>2. TypeOK /\ Entries' = Entries /\ Pending' = Pending
  BY <1>1 DEF IInv, Entries, Pending
<1>3. Pending = {} /\ syncs # 0
  BY <1>1 DEF IInv, CallsInv
<1>4. range' \in [{"sync", "shut"} -> (0..LogSpace) \X (0..2*LogSpace)]
  <2>1. <<0, 0>> \in (0..LogSpace) \X (0..2*LogSpace)
    BY <1>2, Numbers
  <2> QED
    BY <1>1, <1>2, <2>1 DEF TypeOK
<1>5. TypeOK'
  BY <1>1, <1>2, <1>4 DEF TypeOK
<1>6. EntriesFit' /\ NothingElseLost'
  BY <1>1, <1>2, <1>3 DEF IInv, EntriesFit, NothingElseLost
<1>7. AppendInv'
  <2>1. append.step # "none" => append.risk
    BY <1>1 DEF IInv, AppendInv
  <2> QED
    BY <1>1, <1>2, <1>3, <2>1 DEF IInv, AppendInv, Crosses
<1>8. CallsInv'
  BY <1>1, <1>2, <1>3 DEF IInv, CallsInv
<1> QED
  BY <1>5, <1>6, <1>7, <1>8 DEF IInv

-----------------------------------------------------------------------------
\* append_addrinfo_log reads logoffset.
LEMMA AddrReadKeeps == ASSUME IInv, AddrRead PROVE IInv'
<1>1. /\ ended = "no" /\ shut = "none" /\ shut' = "test" /\ offset' = logoffset
      /\ append' = Risked
      /\ UNCHANGED <<logoffset, logstart, mapped, count, place, whole, syncs, sync, range,
                     ended, digested, atRisk>>
  BY DEF AddrRead, Running
<1>2. TypeOK /\ Entries' = Entries /\ Pending' = Pending
  BY <1>1 DEF IInv, Entries, Pending
<1>3. /\ append'.step = append.step /\ append'.size = append.size /\ append'.at = append.at
      /\ append'.risk = (append.step # "none")
      /\ append' \in [step : {"none", "aim", "pad", "copy", "count"}, at : 0..2*LogSpace,
                      size : {0, ExtentSize, DentrySize}, risk : BOOLEAN]
  BY <1>1, <1>2, RiskedIs
<1>4. TypeOK'
  BY <1>1, <1>2, <1>3 DEF TypeOK
<1>5. EntriesFit' /\ NothingElseLost'
  BY <1>1, <1>2 DEF IInv, EntriesFit, NothingElseLost, InRange, Within
<1>6. AppendInv'
  <2>1. Crosses' <=> Crosses
    BY <1>1, <1>3 DEF Crosses
  <2> QED
    BY <1>1, <1>2, <1>3, <2>1 DEF IInv, AppendInv
<1>7. CallsInv'
  BY <1>1, <1>2 DEF IInv, CallsInv, Within, Unmapped
<1> QED
  BY <1>4, <1>5, <1>6, <1>7 DEF IInv

\* The block is tested, and the offset rounded.
LEMMA AddrPlaceKeeps == ASSUME IInv, AddrTest \/ AddrRound PROVE IInv'
<1>1. /\ ended = "no" /\ shut \in {"test", "round"} /\ shut' \in {"round", "write"}
      /\ offset' = offset \/ offset' = (logoffset \div (2 * LogBlock)) * LogBlock
      /\ UNCHANGED <<logoffset, logstart, mapped, count, place, whole, append, syncs, sync,
                     range, ended, digested, atRisk>>
  BY DEF AddrTest, AddrRound
<1>2. TypeOK /\ Entries' = Entries /\ Pending' = Pending
  BY <1>1 DEF IInv, Entries, Pending
<1>3. offset' \in 0..LogSpace
  <2>1. logoffset \in Nat /\ logoffset <= LogSpace /\ LogSpace \in Nat /\ offset \in 0..LogSpace
    BY <1>2, Numbers
  <2>2. (logoffset \div (2 * LogBlock)) * LogBlock \in 0..logoffset
    BY <2>1, RoundedFits
  <2> QED
    BY <1>1, <2>1, <2>2
<1>4. TypeOK'
  BY <1>1, <1>2, <1>3 DEF TypeOK
<1>5. EntriesFit' /\ NothingElseLost'
  BY <1>1, <1>2 DEF IInv, EntriesFit, NothingElseLost, InRange, Within
<1>6. AppendInv' /\ CallsInv'
  BY <1>1, <1>2 DEF IInv, AppendInv, CallsInv, Within, Unmapped, Crosses
<1> QED
  BY <1>4, <1>5, <1>6 DEF IInv

\* The record is written behind what is pending, or what it meets is excepted.
LEMMA AddrWriteKeeps == ASSUME IInv, AddrWrite PROVE IInv'
<1>1. /\ ended = "no" /\ shut = "write" /\ append.step = "none" /\ shut' = "unmap"
      /\ whole' = whole \ Meet(logstart + offset, AddrInfoSize)
      /\ ended' = "no" \/ (logstart + offset + AddrInfoSize > mapped /\ ended' = "fault")
      /\ atRisk' = IF offset = logoffset THEN atRisk ELSE atRisk \cup (Pending \ whole')
      /\ UNCHANGED <<logoffset, logstart, mapped, count, place, append, syncs, sync, range,
                     offset, digested>>
  BY DEF AddrWrite, Write
<1>2. TypeOK /\ NothingElseLost /\ Entries' = Entries
  BY <1>1 DEF IInv, Entries
<1>3. Pending' \subseteq Pending
  BY <1>1, <1>2 DEF Pending
<1>4. Pending' \subseteq whole'
  <2>1. CASE offset = logoffset
    <3>1. ASSUME NEW e \in Pending PROVE e \in whole'
      <4>1. logstart + offset \in Nat /\ logstart + logoffset <= logstart + offset
        BY <1>2, <2>1, Numbers
      <4>2. e \notin Meet(logstart + offset, AddrInfoSize)
        BY <1>2, <4>1, BehindPending
      <4> QED
        BY <1>1, <1>2, <4>2 DEF NothingElseLost
    <3> QED
      BY <1>3, <3>1
  <2>2. CASE offset # logoffset
    BY <1>1, <1>2, <2>2 DEF Pending
  <2> QED
    BY <2>1, <2>2
<1>5. TypeOK'
  <2>1. atRisk' \subseteq Entries'
    BY <1>1, <1>2 DEF TypeOK, Pending
  <2> QED
    BY <1>1, <1>2, <2>1 DEF TypeOK
<1>6. EntriesFit'
  <2>1. ASSUME ended' = "fault", syncs = 0 PROVE offset + AddrInfoSize > LogSpace
    <3>1. logstart = 0 /\ mapped = LogSpace
      BY <1>1, <2>1 DEF IInv, CallsInv, Unmapped
    <3> QED
      BY <1>1, <1>2, <2>1, <3>1, Numbers
  <2>2. syncs = 0 \/ syncs > 0
    BY <1>2 DEF TypeOK
  <2> QED
    BY <1>1, <1>2, <2>1, <2>2 DEF IInv, EntriesFit
<1>7. NothingElseLost'
  BY <1>1, <1>3, <1>4 DEF IInv, NothingElseLost, InRange, Within
<1>8. AppendInv' /\ CallsInv'
  BY <1>1, <1>3 DEF IInv, AppendInv, CallsInv, Within, Unmapped
<1> QED
  BY <1>5, <1>6, <1>7, <1>8 DEF IInv

\* munmap fails only when logstart has been moved by a synclog.
LEMMA ShutUnmapKeeps == ASSUME IInv, ShutUnmap PROVE IInv'
<1>1. /\ ended = "no" /\ shut = "unmap"
      /\ IF logstart % LogBlock = 0
         THEN shut' = "call" /\ mapped' = logstart /\ ended' = ended
         ELSE ended' = "panic" /\ shut' = shut /\ mapped' = mapped
      /\ UNCHANGED <<logoffset, logstart, count, place, whole, append, syncs, sync, range,
                     offset, digested, atRisk>>
  BY DEF ShutUnmap
<1>2. TypeOK /\ Entries' = Entries /\ Pending' = Pending
  BY <1>1 DEF IInv, Entries, Pending
<1>3. ended' = "panic" => syncs > 0
  <2>1. SUFFICES ASSUME syncs = 0 PROVE logstart % LogBlock = 0
    BY <1>1, <1>2 DEF TypeOK
  <2>2. logstart = 0
    BY <1>1, <2>1 DEF IInv, CallsInv
  <2> QED
    BY <1>2, <2>2, Numbers
<1>4. TypeOK'
  BY <1>1, <1>2 DEF TypeOK
<1>5. EntriesFit' /\ NothingElseLost'
  BY <1>1, <1>2, <1>3 DEF IInv, EntriesFit, NothingElseLost, InRange, Within
<1>6. AppendInv' /\ CallsInv'
  BY <1>1, <1>2 DEF IInv, AppendInv, CallsInv, Within, Unmapped, Crosses
<1> QED
  BY <1>4, <1>5, <1>6 DEF IInv

\* shutdown_fs calls the kernel, ...
LEMMA ShutCallKeeps == ASSUME IInv, ShutCall PROVE IInv'
<1>1. /\ ended = "no" /\ shut = "call" /\ shut' = "digest" /\ GiveRange("shut")
      /\ UNCHANGED <<logoffset, logstart, mapped, count, place, whole, append, syncs, sync,
                     offset, ended, digested, atRisk>>
  BY DEF ShutCall
<1>2. TypeOK /\ NothingElseLost /\ Entries' = Entries /\ Pending' = Pending
  BY <1>1 DEF IInv, Entries, Pending
<1>3. /\ range' \in [{"sync", "shut"} -> (0..LogSpace) \X (0..2*LogSpace)]
      /\ \A e \in Pending : Within(e, range'["shut"][1], range'["shut"][2])
      /\ range'["sync"] = range["sync"]
  BY <1>1, <1>2, RangeIs
<1>4. TypeOK'
  BY <1>1, <1>2, <1>3 DEF TypeOK
<1>5. EntriesFit' /\ NothingElseLost'
  BY <1>1, <1>2 DEF IInv, EntriesFit, NothingElseLost, InRange, Within
<1>6. AppendInv' /\ CallsInv'
  BY <1>1, <1>2, <1>3 DEF IInv, AppendInv, CallsInv, Within, Unmapped, Crosses
<1> QED
  BY <1>4, <1>5, <1>6 DEF IInv

\* ... which digests all that is pending, ...
LEMMA ShutDigestKeeps == ASSUME IInv, ShutDigest PROVE IInv'
<1>1. /\ ended = "no" /\ shut = "digest" /\ shut' = "move" /\ Digest("shut")
      /\ UNCHANGED <<logoffset, logstart, mapped, count, place, whole, append, syncs, sync,
                     range, offset, ended, atRisk>>
  BY DEF ShutDigest
<1>2. TypeOK /\ NothingElseLost
  BY DEF IInv
<1>3. Pending' = {} /\ Entries' = Entries /\ digested' \subseteq Entries'
  BY <1>1, <1>2, DigestEmpties DEF IInv, CallsInv
<1>4. TypeOK'
  BY <1>1, <1>2, <1>3 DEF TypeOK
<1>5. EntriesFit' /\ NothingElseLost'
  BY <1>1, <1>3 DEF IInv, EntriesFit, NothingElseLost
<1>6. AppendInv' /\ CallsInv'
  BY <1>1, <1>3 DEF IInv, AppendInv, CallsInv, Unmapped, Crosses
<1> QED
  BY <1>4, <1>5, <1>6 DEF IInv

\* ... and logstart moves when nothing is pending.
LEMMA ShutMoveKeeps == ASSUME IInv, ShutMove PROVE IInv'
<1>1. /\ ended = "no" /\ shut = "move" /\ shut' = "done" /\ logstart' = logoffset
      /\ range' = [range EXCEPT !["shut"] = <<0, 0>>]
      /\ UNCHANGED <<logoffset, mapped, count, place, whole, append, syncs, sync, offset,
                     ended, digested, atRisk>>
  BY DEF ShutMove
<1>2. TypeOK /\ Entries' = Entries /\ Pending' = Pending /\ Pending = {}
  BY <1>1 DEF IInv, Entries, Pending, CallsInv
<1>3. range' \in [{"sync", "shut"} -> (0..LogSpace) \X (0..2*LogSpace)]
  <2>1. <<0, 0>> \in (0..LogSpace) \X (0..2*LogSpace)
    BY <1>2, Numbers
  <2> QED
    BY <1>1, <1>2, <2>1 DEF TypeOK
<1>4. TypeOK'
  BY <1>1, <1>2, <1>3 DEF TypeOK
<1>5. EntriesFit' /\ NothingElseLost'
  BY <1>1, <1>2 DEF IInv, EntriesFit, NothingElseLost
<1>6. AppendInv'
  <2>1. append.step # "none" => append.risk
    BY <1>1 DEF IInv, AppendInv
  <2> QED
    BY <1>1, <1>2, <2>1 DEF IInv, AppendInv, Crosses
<1>7. CallsInv'
  BY <1>1, <1>2 DEF IInv, CallsInv, Unmapped
<1> QED
  BY <1>4, <1>5, <1>6, <1>7 DEF IInv

-----------------------------------------------------------------------------
\* The inductive invariant.
THEOREM LogInvariant == Spec => []IInv
<1>1. Init => IInv
  <2> SUFFICES ASSUME Init PROVE IInv
    OBVIOUS
  <2>1. Entries = {} /\ Pending = {}
    BY DEF Init, Entries, Pending
  <2>2. EntriesFit /\ NothingElseLost
    BY <2>1 DEF Init, EntriesFit, NothingElseLost
  <2>3. AppendInv /\ CallsInv
    BY <2>1 DEF Init, AppendInv, CallsInv, NoAppend, Unmapped
  <2>4. place \in [1..MaxEntries -> [at : 0..2*LogSpace, off : 0..LogSpace,
                                     size : {0, ExtentSize, DentrySize}]]
    BY MetaLogAssumption DEF Init, Unset
  <2>5. append \in [step : {"none", "aim", "pad", "copy", "count"}, at : 0..2*LogSpace,
                    size : {0, ExtentSize, DentrySize}, risk : BOOLEAN]
    BY MetaLogAssumption DEF Init, NoAppend
  <2>6. range \in [{"sync", "shut"} -> (0..LogSpace) \X (0..2*LogSpace)]
    <3>1. <<0, 0>> \in (0..LogSpace) \X (0..2*LogSpace)
      BY MetaLogAssumption
    <3> QED
      BY <3>1 DEF Init
  <2>7. /\ logoffset \in 0..LogSpace /\ logstart \in 0..LogSpace /\ mapped \in 0..LogSpace
        /\ count \in 0..MaxEntries /\ syncs \in 0..MaxSyncs /\ offset \in 0..LogSpace
        /\ whole \subseteq 1..count+1 /\ digested \subseteq Entries /\ atRisk \subseteq Entries
        /\ sync = "none" /\ shut = "none" /\ ended = "no"
    BY MetaLogAssumption DEF Init
  <2> QED
    BY <2>2, <2>3, <2>4, <2>5, <2>6, <2>7 DEF IInv, TypeOK
<1>2. IInv /\ [Next]_vars => IInv'
  <2> SUFFICES ASSUME IInv, [Next]_vars PROVE IInv'
    OBVIOUS
  <2>1. CASE append_entry_log
    BY <2>1, BeginKeeps, AimKeeps, PadKeeps, CopyKeeps, CountKeeps
       DEF append_entry_log, Sizes
  <2>2. CASE synclog
    BY <2>2, SyncCallKeeps, SyncDigestKeeps, SyncMoveKeeps DEF synclog
  <2>3. CASE shutdown_fs
    BY <2>3, AddrReadKeeps, AddrPlaceKeeps, AddrWriteKeeps, ShutUnmapKeeps, ShutCallKeeps,
       ShutDigestKeeps, ShutMoveKeeps
       DEF shutdown_fs, append_addrinfo_log
  <2>4. CASE UNCHANGED vars
    BY <2>4 DEF vars, IInv, TypeOK, EntriesFit, NothingElseLost, AppendInv, CallsInv,
                Pending, Entries, InRange, Within, Crosses
  <2> QED
    BY <2>1, <2>2, <2>3, <2>4 DEF Next
<1> QED
  BY <1>1, <1>2, PTL DEF Spec

\* logoffset stays inside the log, and every entry is numbered and placed.
THEOREM LogTypeCorrect == Spec => []TypeOK
<1>1. IInv => TypeOK
  BY DEF IInv
<1> QED
  BY <1>1, LogInvariant, PTL

\* Counted from the logstart it was written from, every entry ends inside the
\* log and every dentry inside a block; without a synclog they are so in the
\* mapping itself, and no append writes outside it before munmap.
THEOREM EntriesAlwaysFit == Spec => []EntriesFit
<1>1. IInv => EntriesFit
  BY DEF IInv
<1> QED
  BY <1>1, LogInvariant, PTL

\* An entry is lost only in the ways that are named.
THEOREM LostOnlyAsNamed == Spec => []NothingElseLost
<1>1. IInv => NothingElseLost
  BY DEF IInv
<1> QED
  BY <1>1, LogInvariant, PTL
=============================================================================
