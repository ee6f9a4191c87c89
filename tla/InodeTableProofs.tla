--------------------------- MODULE InodeTableProofs ---------------------------
(***************************************************************************)
(* The free-number table for every table length, every range and every set *)
(* of files of earlier sessions.  The inductive invariant is IInv: none of *)
(* its parts but the type is inductive alone, because what a search finds  *)
(* depends on StackShape, and what a number put back does to FreeOnce      *)
(* depends on FreeNotLive.                                                 *)
(***************************************************************************)
EXTENDS InodeTable, TLAPS

\* The inductive invariant of the table.
IInv == TypeOK /\ FreeOnce /\ FreeNotLive /\ StackShape

\* With the stack shape, the upward search of find_inode_bitmap stops at its
\* first slot.
LEMMA FindStopsAtStart ==
  ASSUME IInv, Occupied # {}
  PROVE  /\ FirstOccupied = bitmapnum
         /\ bitmapnum \in Slots
         /\ fsinode_table[bitmapnum] # 0
<1> USE InodeTableAssumption DEF IInv, TypeOK, StackShape, Slots, Occupied
<1>1. bitmapnum \in Slots /\ fsinode_table[bitmapnum] # 0
  OBVIOUS
<1>2. bitmapnum \in Occupied /\ \A j \in Occupied : bitmapnum <= j
  BY <1>1
<1>3. FirstOccupied \in Occupied /\ \A j \in Occupied : FirstOccupied <= j
  BY <1>2 DEF FirstOccupied
<1> QED
  BY <1>1, <1>2, <1>3

\* With the stack shape, the downward search of put_inode_bitmap stops at its
\* first slot.
LEMMA PutStopsBelowStart ==
  ASSUME IInv, Vacant # {}
  PROVE  /\ LastVacant = bitmapnum - 1
         /\ bitmapnum - 1 \in Slots
         /\ fsinode_table[bitmapnum - 1] = 0
<1> USE InodeTableAssumption DEF IInv, TypeOK, StackShape, Slots, Vacant
<1>1. bitmapnum - 1 \in Slots /\ fsinode_table[bitmapnum - 1] = 0
  OBVIOUS
<1>2. bitmapnum - 1 \in Vacant /\ \A j \in Vacant : j <= bitmapnum - 1
  BY <1>1
<1>3. LastVacant \in Vacant /\ \A j \in Vacant : j <= LastVacant
  BY <1>2 DEF LastVacant
<1> QED
  BY <1>1, <1>2, <1>3

\* The table init_fs fills satisfies the inductive invariant.
LEMMA InitIInv == Init => IInv
<1> SUFFICES ASSUME Init PROVE IInv
  OBVIOUS
<1>1. \A i \in Slots : fsinode_table[i] = InodeBase + 128 * i
  BY DEF Init
<1>2. \A i \in Slots : InodeBase + 128 * i \in Nat \ {0}
  BY InodeTableAssumption DEF Slots
<1>3. TypeOK
  <2>1. fsinode_table \in [Slots -> Nat]
    BY <1>2 DEF Init
  <2>2. bitmapnum \in 0..InoNum /\ live \subseteq Nat \ {0}
    BY InodeTableAssumption DEF Init
  <2>3. panicked \in BOOLEAN
    BY DEF Init
  <2> QED
    BY <2>1, <2>2, <2>3 DEF TypeOK
<1>4. FreeOnce
  BY <1>1, InodeTableAssumption DEF FreeOnce, Slots
<1>5. FreeNotLive
  BY <1>1, InodeTableAssumption DEF Init, FreeNotLive, Slots
<1>6. StackShape
  BY <1>1, <1>2, InodeTableAssumption DEF Init, StackShape, Slots
<1> QED
  BY <1>3, <1>4, <1>5, <1>6 DEF IInv

\* Every step preserves the inductive invariant.
LEMMA NextIInv == IInv /\ [Next]_vars => IInv'
<1> SUFFICES ASSUME IInv, [Next]_vars PROVE IInv'
  OBVIOUS
<1> USE InodeTableAssumption
<1>1. CASE find_inode_bitmap
  <2>1. /\ FirstOccupied = bitmapnum
        /\ bitmapnum \in Slots
        /\ fsinode_table[bitmapnum] # 0
    BY <1>1, FindStopsAtStart DEF find_inode_bitmap
  <2>2. /\ fsinode_table' = [fsinode_table EXCEPT ![bitmapnum] = 0]
        /\ bitmapnum' = bitmapnum + 1
        /\ live' = live \cup {fsinode_table[bitmapnum]}
        /\ panicked' = panicked
    BY <1>1, <2>1 DEF find_inode_bitmap
  <2>3. TypeOK'
    <3>1. fsinode_table[bitmapnum] \in Nat \ {0}
      BY <2>1 DEF IInv, TypeOK
    <3>2. fsinode_table' \in [Slots -> Nat] /\ bitmapnum' \in 0..InoNum
      BY <2>1, <2>2 DEF IInv, TypeOK, Slots
    <3>3. live' \subseteq Nat \ {0}
      BY <2>2, <3>1 DEF IInv, TypeOK
    <3>4. panicked' \in BOOLEAN
      BY <2>2 DEF IInv, TypeOK
    <3> QED
      BY <3>2, <3>3, <3>4 DEF TypeOK
  <2>4. FreeOnce'
    BY <2>1, <2>2 DEF IInv, TypeOK, FreeOnce, Slots
  <2>5. FreeNotLive'
    BY <2>1, <2>2 DEF IInv, TypeOK, FreeOnce, FreeNotLive, Slots
  <2>6. StackShape'
    BY <2>1, <2>2 DEF IInv, TypeOK, StackShape, Slots
  <2> QED
    BY <2>3, <2>4, <2>5, <2>6 DEF IInv
<1>2. CASE OutOfInodes
  BY <1>2 DEF OutOfInodes, IInv, TypeOK, FreeOnce, FreeNotLive, StackShape
<1>3. ASSUME NEW ino \in live, put_inode_bitmap(ino)
      PROVE  IInv'
  <2>1. /\ LastVacant = bitmapnum - 1
        /\ bitmapnum - 1 \in Slots
        /\ fsinode_table[bitmapnum - 1] = 0
    BY <1>3, PutStopsBelowStart DEF put_inode_bitmap
  <2>2. /\ fsinode_table' = [fsinode_table EXCEPT ![bitmapnum - 1] = ino]
        /\ bitmapnum' = bitmapnum - 1
        /\ live' = live \ {ino}
        /\ panicked' = panicked
    BY <1>3, <2>1 DEF put_inode_bitmap
  <2>3. TypeOK'
    BY <2>1, <2>2 DEF IInv, TypeOK, Slots
  <2>4. FreeOnce'
    BY <2>1, <2>2 DEF IInv, TypeOK, FreeOnce, FreeNotLive, Slots
  <2>5. FreeNotLive'
    BY <2>1, <2>2 DEF IInv, TypeOK, FreeNotLive, Slots
  <2>6. StackShape'
    BY <2>1, <2>2 DEF IInv, TypeOK, StackShape, Slots
  <2> QED
    BY <2>3, <2>4, <2>5, <2>6 DEF IInv
<1>4. ASSUME NEW ino \in live, PutDropped(ino)
      PROVE  IInv'
  BY <1>4 DEF PutDropped, IInv, TypeOK, FreeOnce, FreeNotLive, StackShape
<1>5. CASE UNCHANGED vars
  BY <1>5 DEF vars, IInv, TypeOK, FreeOnce, FreeNotLive, StackShape
<1> QED
  BY <1>1, <1>2, <1>3, <1>4, <1>5 DEF Next, Unlink

\* The inductive invariant holds in every reachable state.
THEOREM TableInvariant == Spec => []IInv
BY InitIInv, NextIInv, PTL DEF Spec

\* Two creations never get the same number, nor one the number of a file that
\* still exists: find_inode_bitmap and put_inode_bitmap are a correct allocator
\* whatever the order in which files are created and unlinked.
THEOREM NoDoubleAllocation == Spec => [](FreeOnce /\ FreeNotLive)
<1>1. IInv => FreeOnce /\ FreeNotLive
  BY DEF IInv
<1> QED
  BY <1>1, TableInvariant, PTL

\* The searches may start at bitmapnum: the table is a stack.
THEOREM TableIsStack == Spec => []StackShape
<1>1. IInv => StackShape
  BY DEF IInv
<1> QED
  BY <1>1, TableInvariant, PTL

\* userfs_open_file panics only when every number of the table is in use.
THEOREM PanicMeansExhausted == Spec => []PanicOnlyWhenExhausted
<1>1. Init => PanicOnlyWhenExhausted
  BY DEF Init, PanicOnlyWhenExhausted
<1>2. IInv /\ PanicOnlyWhenExhausted /\ [Next]_vars => PanicOnlyWhenExhausted'
  <2> SUFFICES ASSUME IInv, PanicOnlyWhenExhausted, [Next]_vars
               PROVE  PanicOnlyWhenExhausted'
    OBVIOUS
  <2>1. CASE OutOfInodes
    <3>1. \A i \in Slots : fsinode_table[i] = 0
      BY <2>1, InodeTableAssumption
      DEF OutOfInodes, Occupied, IInv, TypeOK, StackShape, Slots
    <3> QED
      BY <2>1, <3>1 DEF OutOfInodes, PanicOnlyWhenExhausted
  <2>2. CASE Next /\ ~OutOfInodes
    <3>1. ~panicked'
      BY <2>2 DEF Next, Unlink, find_inode_bitmap, put_inode_bitmap, PutDropped
    <3> QED
      BY <3>1 DEF PanicOnlyWhenExhausted
  <2>3. CASE UNCHANGED vars
    BY <2>3 DEF vars, PanicOnlyWhenExhausted
  <2> QED
    BY <2>1, <2>2, <2>3
<1> QED
  BY <1>1, <1>2, TableInvariant, PTL DEF Spec

\* A free number leaves its slot only to name a file that did not exist.
THEOREM NumbersLeaveToNewFiles == Spec => NumberLeavesToNewFile
<1> DEFINE Kept == \A i \in Slots :
             fsinode_table[i] # 0 /\ fsinode_table'[i] # fsinode_table[i]
               => fsinode_table[i] \in live' \ live
<1>1. IInv /\ [Next]_vars => [Kept]_vars
  <2> SUFFICES ASSUME IInv, Next PROVE Kept
    OBVIOUS
  <2>1. CASE find_inode_bitmap
    BY <2>1, FindStopsAtStart
    DEF find_inode_bitmap, IInv, TypeOK, FreeNotLive, Slots
  <2>2. CASE OutOfInodes
    BY <2>2 DEF OutOfInodes
  <2>3. ASSUME NEW ino \in live, put_inode_bitmap(ino)
        PROVE  Kept
    BY <2>3, PutStopsBelowStart DEF put_inode_bitmap, IInv, TypeOK, Slots
  <2>4. ASSUME NEW ino \in live, PutDropped(ino)
        PROVE  Kept
    BY <2>4 DEF PutDropped
  <2> QED
    BY <2>1, <2>2, <2>3, <2>4 DEF Next, Unlink
<1> QED
  BY <1>1, TableInvariant, PTL DEF Spec, NumberLeavesToNewFile
=============================================================================
