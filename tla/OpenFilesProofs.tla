---------------------------- MODULE OpenFilesProofs ----------------------------
(***************************************************************************)
(* Proofs about OpenFiles, for any number of threads, descriptors and      *)
(* files: the descriptor table and its locks, the busy flags of the        *)
(* inodes, and the refinement of DescriptorTable.                          *)
(*                                                                         *)
(* A call is what is left of its steps.  The argument has three layers:    *)
(* what can be left of a call (Todos, Shape); what a thread may rely on    *)
(* between two of its steps (Shared); and what the steps do to the table   *)
(* seen as one that is changed atomically.                                 *)
(***************************************************************************)
EXTENDS OpenFiles, TLAPS

USE SMTT(60), Zenon, SMTT(30)

\* What an open has left to do once the table has been found full.
FullSteps == <<"iunlock", "unbusy", "iput", "put">>

\* The calls, step by step.
Programs == {OpenSteps, StatSteps, AccessSteps, TruncateSteps, UnlinkSteps, CloseSteps,
             ReadSteps, FstatSteps, FtruncateSteps, SeekSteps, FullSteps}

\* A step and the one after it in some call.
Before(s, n) ==
  /\ n \in {"incr", "decr", "load", "iput", "put", "lock_table", "scan", "take", "fill",
            "ilock", "end", "readi", "clip", "short", "advance", "iunlock", "unbusy",
            "rdunlock", "itrunc", "seek_end", "remove", "idealloc", "delete"}
  /\ s \notin {"rdunlock", "seek_end"}
  /\ s = "lock_table" <=> n = "scan"
  /\ s = "scan" <=> n = "take"
  /\ s = "take" <=> n = "fill"
  /\ s = "iput" <=> n = "put"
  /\ n = "end" => s = "ilock"
  /\ s = "end" <=> n = "readi"
  /\ s = "readi" <=> n = "clip"
  /\ s = "clip" <=> n = "short"
  /\ s = "short" <=> n = "advance"
  /\ s = "seek" <=> n = "seek_end"

\* The steps a call may end with.
LastSteps == {"fill", "decr", "put", "unbusy", "rdunlock", "itrunc", "seek_end"}

\* The steps of a read.
Reading == {"rdlock", "ilock", "end", "readi", "clip", "short", "advance", "iunlock", "unbusy",
            "rdunlock"}

\* The steps between ilock and the end of iunlock.
Inside == {"end", "readi", "clip", "short", "advance", "delete", "iunlock", "unbusy"}

\* The steps made with the mutex of the inode held.
InLock == {"end", "readi", "clip", "short", "advance", "put"}

\* The steps that look for an entry of g_fd_table, fill it, free it, or seek.
TableSteps == {"scan", "take", "fill", "drop", "seek", "seek_end"}

\* The steps of a read between its lock of the descriptor and its release.
Holding == {"rdlock", "end", "readi", "clip", "short", "advance", "rdunlock"}

\* Step s comes at place k of P or after it.
Later(P, k, s) == \E j \in k..Len(P) : P[j] = s

\* What the proofs use of place k of a call.
Fits(P, k) ==
  /\ k = Len(P) => P[k] \in LastSteps
  /\ k # Len(P) => Before(P[k], P[k + 1])
  /\ Later(P, k, "rdunlock") => P[k] \in Reading
  /\ P[k] \in Holding => Later(P, k, "rdunlock")
  /\ Later(P, k, "ilock") => Later(P, k, "unbusy")
  /\ P[k] = "ilock" => ~Later(P, k + 1, "ilock")
  /\ Later(P, k, "unbusy") /\ ~Later(P, k, "ilock") => P[k] \in Inside

\* Every call fits at each of its places.
LEMMA ProgramsFit ==
  ASSUME NEW P \in Programs
  PROVE  P \in Seq(Steps) /\ Len(P) \in 1..12 /\ \A k \in 1..Len(P) : Fits(P, k)
<1>1. CASE P = OpenSteps
  BY <1>1 DEF OpenSteps, Steps, Fits, Before, LastSteps, Later, Reading, Inside, Holding
<1>2. CASE P = StatSteps
  BY <1>2 DEF StatSteps, Steps, Fits, Before, LastSteps, Later, Reading, Inside, Holding
<1>3. CASE P = AccessSteps
  BY <1>3 DEF AccessSteps, Steps, Fits, Before, LastSteps, Later, Reading, Inside, Holding
<1>4. CASE P = TruncateSteps
  BY <1>4 DEF TruncateSteps, Steps, Fits, Before, LastSteps, Later, Reading, Inside, Holding
<1>5. CASE P = UnlinkSteps
  BY <1>5 DEF UnlinkSteps, Steps, Fits, Before, LastSteps, Later, Reading, Inside, Holding
<1>6. CASE P = CloseSteps
  BY <1>6 DEF CloseSteps, Steps, Fits, Before, LastSteps, Later, Reading, Inside, Holding
<1>7. CASE P = ReadSteps
  BY <1>7 DEF ReadSteps, Steps, Fits, Before, LastSteps, Later, Reading, Inside, Holding
<1>8. CASE P = FstatSteps
  BY <1>8 DEF FstatSteps, Steps, Fits, Before, LastSteps, Later, Reading, Inside, Holding
<1>9. CASE P = FtruncateSteps
  BY <1>9 DEF FtruncateSteps, Steps, Fits, Before, LastSteps, Later, Reading, Inside, Holding
<1>10. CASE P = SeekSteps
  BY <1>10 DEF SeekSteps, Steps, Fits, Before, LastSteps, Later, Reading, Inside, Holding
<1>11. CASE P = FullSteps
  BY <1>11 DEF FullSteps, Steps, Fits, Before, LastSteps, Later, Reading, Inside, Holding
<1> QED BY <1>1, <1>2, <1>3, <1>4, <1>5, <1>6, <1>7, <1>8, <1>9, <1>10, <1>11, Zenon DEF Programs

-----------------------------------------------------------------------------

\* What is left of a call from its step k on.
Rest(P, k) == [j \in 1..((Len(P) - k) + 1) |-> P[(k + j) - 1]]

\* What may be left of a call.
Todos == {q \in Seq(Steps) :
            \E P \in Programs, k \in 1..12 : k \in 1..Len(P) /\ q = Rest(P, k)}

\* A step is still to be made.
Has(q, step) == \E k \in DOMAIN q : q[k] = step

\* The rest of a call as a sequence: its length, its head and its tail.
LEMMA RestFacts ==
  ASSUME NEW P \in Seq(Steps), NEW k \in 1..Len(P)
  PROVE  /\ Rest(P, k) \in Seq(Steps)
         /\ Len(Rest(P, k)) = (Len(P) - k) + 1
         /\ Head(Rest(P, k)) = P[k]
         /\ Tail(Rest(P, k)) = Rest(P, k + 1)
         /\ DOMAIN Rest(P, k) = 1..((Len(P) - k) + 1)
         /\ \A j \in 1..((Len(P) - k) + 1) : Rest(P, k)[j] = P[(k + j) - 1]
<1> DEFINE q == Rest(P, k)
           n == (Len(P) - k) + 1
<1>1. Len(P) \in Nat /\ n \in Nat \ {0} /\ \A i \in k..Len(P) : P[i] \in Steps
  OBVIOUS
<1>2. \A j \in 1..n : (k + j) - 1 \in k..Len(P)
  BY <1>1
<1>3. DOMAIN q = 1..n /\ \A j \in 1..n : q[j] = P[(k + j) - 1]
  BY Zenon DEF Rest
<1>4. q \in Seq(Steps) /\ Len(q) = n
  <2>1. q \in [1..n -> Steps]
    BY <1>1, <1>2, Zenon DEF Rest
  <2> HIDE DEF q, n
  <2> QED BY <1>1, <2>1
<1>5. Head(q) = P[k]
  <2>1. (k + 1) - 1 = k /\ 1 \in 1..n
    BY <1>1
  <2>2. q[1] = P[k]
    BY <1>3, <2>1, Zenon
  <2> HIDE DEF q
  <2> QED BY <1>1, <1>4, <2>2
<1>6. Tail(q) = Rest(P, k + 1)
  <2> DEFINE r == Rest(P, k + 1)
  <2>1. (Len(P) - (k + 1)) + 1 = n - 1 /\ n - 1 \in Nat
    BY <1>1
  <2>2. DOMAIN r = 1..(n - 1) /\ \A j \in 1..(n - 1) : r[j] = P[((k + 1) + j) - 1]
    BY <2>1, Zenon DEF Rest
  <2>3. r = [j \in 1..(n - 1) |-> P[((k + 1) + j) - 1]]
    BY <2>1, Zenon DEF Rest
  <2>4. \A j \in 1..(n - 1) : j + 1 \in 1..n /\ (k + (j + 1)) - 1 = ((k + 1) + j) - 1
    BY <1>1
  <2>5. \A j \in 1..(n - 1) : q[j + 1] = r[j]
    BY <1>3, <2>2, <2>4, Zenon
  <2>6. r \in [1..(n - 1) -> Steps]
    BY <1>1, <1>2, <2>3, <2>4, Zenon
  <2> HIDE DEF q, r, n
  <2>7. r \in Seq(Steps) /\ Len(r) = n - 1
    BY <2>1, <2>6
  <2>8. q # <<>>
    BY <1>1, <1>4, Zenon
  <2>9. Tail(q) \in Seq(Steps) /\ Len(Tail(q)) = n - 1
    BY <1>1, <1>4, <2>8
  <2>10. \A j \in 1..(n - 1) : Tail(q)[j] = q[j + 1]
    BY <1>1, <1>4, <2>8
  <2>11. Tail(q) = r
    BY <2>1, <2>5, <2>7, <2>9, <2>10
  <2> QED BY <2>11, Zenon DEF r
<1> HIDE DEF q
<1> QED BY <1>3, <1>4, <1>5, <1>6, Zenon DEF q

\* What has to be made still has to be made after the first step, or is the
\* first step.
LEMMA HasTail ==
  ASSUME NEW q \in Seq(Steps), q # <<>>, NEW s
  PROVE  /\ Len(q) # 1 => (Has(q, s) <=> (Head(q) = s \/ Has(Tail(q), s)))
         /\ Len(q) = 1 => (Has(q, s) <=> Head(q) = s)
<1>1. Len(q) \in Nat \ {0} /\ DOMAIN q = 1..Len(q) /\ Head(q) = q[1]
  OBVIOUS
<1>2. CASE Len(q) = 1
  BY <1>1, <1>2 DEF Has
<1>3. CASE Len(q) # 1
  <2>1. /\ DOMAIN Tail(q) = 1..(Len(q) - 1)
        /\ \A i \in 1..(Len(q) - 1) : Tail(q)[i] = q[i + 1]
    BY <1>1, <1>3
  <2>2. ASSUME Has(q, s) PROVE Head(q) = s \/ Has(Tail(q), s)
    <3>1. PICK k \in 1..Len(q) : q[k] = s
      BY <1>1, <2>2, Zenon DEF Has
    <3>2. CASE k = 1
      BY <1>1, <3>1, <3>2, Zenon
    <3>3. CASE k # 1
      <4>1. k - 1 \in 1..(Len(q) - 1) /\ (k - 1) + 1 = k
        BY <1>1, <3>3
      <4>2. Tail(q)[k - 1] = s
        BY <2>1, <3>1, <4>1, Zenon
      <4> QED BY <2>1, <4>1, <4>2, Zenon DEF Has
    <3> QED BY <3>2, <3>3, Zenon
  <2>3. ASSUME Head(q) = s PROVE Has(q, s)
    BY <1>1, <2>3 DEF Has
  <2>4. ASSUME Has(Tail(q), s) PROVE Has(q, s)
    <3>1. PICK k \in 1..(Len(q) - 1) : Tail(q)[k] = s
      BY <2>1, <2>4, Zenon DEF Has
    <3>2. k + 1 \in 1..Len(q) /\ q[k + 1] = s
      BY <1>1, <2>1, <3>1
    <3> QED BY <1>1, <3>2, Zenon DEF Has
  <2> QED BY <2>2, <2>3, <2>4, <1>3, Zenon
<1> QED BY <1>2, <1>3, Zenon

\* What is still to come, given the step a call is at.
Shape(q) ==
  /\ q \in Seq(Steps) /\ q # <<>> /\ Len(q) \in 1..12 /\ Head(q) \in Steps
  /\ Len(q) = 1 => Head(q) \in LastSteps
  /\ Len(q) # 1 => Tail(q) \in Todos /\ Tail(q) # <<>> /\ Before(Head(q), Head(Tail(q)))
  /\ Has(q, "rdunlock") => Head(q) \in Reading
  /\ Head(q) \in Holding => Has(q, "rdunlock")
  /\ Has(q, "ilock") => Has(q, "unbusy")
  /\ Has(q, "unbusy") /\ ~Has(q, "ilock") => Head(q) \in Inside
  /\ Head(q) = "ilock" => Len(q) # 1 /\ ~Has(Tail(q), "ilock") /\ Has(Tail(q), "unbusy")

\* Whatever is left of a call has this shape.
LEMMA Shapes ==
  \A q \in Todos :
     Shape(q)
\* A step of the rest of a call is a later step of the call.
<1>HasIsLater.
    ASSUME NEW P \in Programs, NEW k \in 1..Len(P), NEW s
    PROVE  Has(Rest(P, k), s) <=> Later(P, k, s)
  <2> USE <1>HasIsLater
  <2>1. P \in Seq(Steps) /\ Len(P) \in 1..12
    BY ProgramsFit, Zenon
  <2> DEFINE q == Rest(P, k)
  <2>2. /\ DOMAIN q = 1..((Len(P) - k) + 1)
        /\ \A j \in 1..((Len(P) - k) + 1) : q[j] = P[(k + j) - 1]
    BY <2>1, RestFacts, Zenon
  <2> HIDE DEF q
  <2>3. ASSUME Has(q, s) PROVE Later(P, k, s)
    <3>1. PICK j \in 1..((Len(P) - k) + 1) : q[j] = s
      BY <2>2, <2>3, Zenon DEF Has
    <3>2. (k + j) - 1 \in k..Len(P) /\ P[(k + j) - 1] = s
      BY <2>1, <2>2, <3>1
    <3> QED BY <3>2, Zenon DEF Later
  <2>4. ASSUME Later(P, k, s) PROVE Has(q, s)
    <3>1. PICK j \in k..Len(P) : P[j] = s
      BY <2>4, Zenon DEF Later
    <3>2. (j - k) + 1 \in 1..((Len(P) - k) + 1) /\ (k + ((j - k) + 1)) - 1 = j
      BY <2>1
    <3>3. q[(j - k) + 1] = s
      BY <2>2, <3>1, <3>2, Zenon
    <3> QED BY <2>2, <3>2, <3>3, Zenon DEF Has
  <2> QED BY <2>3, <2>4, Zenon DEF q
<1> SUFFICES ASSUME NEW q \in Todos
             PROVE  Shape(q)
  BY Zenon
<1>1. PICK P \in Programs, k \in 1..12 : k \in 1..Len(P) /\ q = Rest(P, k)
  BY Zenon DEF Todos
<1>2. P \in Seq(Steps) /\ Len(P) \in 1..12 /\ Fits(P, k)
  BY <1>1, ProgramsFit, Zenon
<1>3. /\ q \in Seq(Steps) /\ Len(q) = (Len(P) - k) + 1 /\ Head(q) = P[k]
      /\ Tail(q) = Rest(P, k + 1)
  BY <1>1, <1>2, RestFacts, Zenon
<1>4. \A s : Has(q, s) <=> Later(P, k, s)
  BY <1>1, <1>HasIsLater, Zenon
<1>5. Len(q) \in 1..12 /\ (Len(q) = 1 <=> k = Len(P)) /\ q # <<>>
  <2>1. \A n \in 1..12 : \A m \in 1..n :
          (n - m) + 1 \in 1..12 /\ ((n - m) + 1 = 1 <=> m = n) /\ (n - m) + 1 # 0
    OBVIOUS
  <2>2. Len(P) \in 1..12 /\ k \in 1..Len(P)
    BY <1>1, <1>2, Zenon
  <2>3. /\ (Len(P) - k) + 1 \in 1..12 /\ (Len(P) - k) + 1 # 0
        /\ (Len(P) - k) + 1 = 1 <=> k = Len(P)
    BY <2>1, <2>2, Zenon
  <2>4. Len(q) = (Len(P) - k) + 1
    BY <1>3, Zenon
  <2>5. Len(q) \in 1..12 /\ (Len(q) = 1 <=> k = Len(P)) /\ Len(q) # 0
    BY <2>3, <2>4, Zenon
  <2> QED BY <2>5
<1>6. Head(q) \in Steps
  BY <1>3, <1>5
<1>7. ASSUME k # Len(P)
      PROVE  /\ Tail(q) \in Todos /\ Tail(q) # <<>> /\ Head(Tail(q)) = P[k + 1]
             /\ \A s : Has(Tail(q), s) <=> Later(P, k + 1, s)
  <2>1. k + 1 \in 1..12 /\ k + 1 \in 1..Len(P)
    <3>1. \A n \in 1..12 : \A m \in 1..n : m # n => m + 1 \in 1..12 /\ m + 1 \in 1..n
      OBVIOUS
    <3> QED BY <1>1, <1>2, <1>7, <3>1, Zenon
  <2>2. /\ Tail(q) \in Seq(Steps) /\ Head(Tail(q)) = P[k + 1]
        /\ Len(Tail(q)) = (Len(P) - (k + 1)) + 1
    BY <1>2, <1>3, <2>1, RestFacts, Zenon
  <2>3. Tail(q) \in Todos
    BY <1>3, <2>1, <2>2, Zenon DEF Todos
  <2>4. Tail(q) # <<>>
    <3>1. (Len(P) - (k + 1)) + 1 # 0
      BY <1>2, <2>1
    <3> QED BY <2>2, <3>1, Zenon
  <2>5. \A s : Has(Tail(q), s) <=> Later(P, k + 1, s)
    BY <1>3, <2>1, <1>HasIsLater, Zenon
  <2> QED BY <2>2, <2>3, <2>4, <2>5, Zenon
<1>8. Len(q) = 1 => Head(q) \in LastSteps
  BY <1>2, <1>3, <1>5, Zenon DEF Fits
<1>9. Len(q) # 1 => Tail(q) \in Todos /\ Tail(q) # <<>> /\ Before(Head(q), Head(Tail(q)))
  BY <1>2, <1>3, <1>5, <1>7, Zenon DEF Fits
<1>10. /\ Has(q, "rdunlock") => Head(q) \in Reading
       /\ Head(q) \in Holding => Has(q, "rdunlock")
       /\ Has(q, "ilock") => Has(q, "unbusy")
       /\ Has(q, "unbusy") /\ ~Has(q, "ilock") => Head(q) \in Inside
  BY <1>2, <1>3, <1>4, Zenon DEF Fits
<1>11. ASSUME Head(q) = "ilock"
       PROVE  Len(q) # 1 /\ ~Has(Tail(q), "ilock") /\ Has(Tail(q), "unbusy")
  <2>1. Len(q) # 1
    BY <1>8, <1>11, Zenon DEF LastSteps
  <2>2. ~Has(Tail(q), "ilock")
    BY <1>2, <1>3, <1>5, <1>7, <1>11, <2>1, Zenon DEF Fits
  <2>3. Has(q, "ilock")
    BY <1>3, <1>5, <1>11, <2>1, HasTail, Zenon
  <2>4. Has(Tail(q), "unbusy")
    BY <1>3, <1>5, <1>10, <1>11, <2>1, <2>3, HasTail, Zenon
  <2> QED BY <2>1, <2>2, <2>4, Zenon
<1> QED BY <1>3, <1>5, <1>6, <1>8, <1>9, <1>10, <1>11, Zenon DEF Shape

\* A call that begins has all of its steps left.
LEMMA ProgramsAreTodos ==
  ASSUME NEW P \in Programs
  PROVE  P \in Todos
<1>1. P \in Seq(Steps) /\ Len(P) \in 1..12
  BY ProgramsFit, Zenon
<1>2. P = Rest(P, 1)
  BY <1>1 DEF Rest
<1>3. 1 \in 1..12 /\ 1 \in 1..Len(P)
  <2>1. \A n \in 1..12 : 1 \in 1..12 /\ 1 \in 1..n
    OBVIOUS
  <2> QED BY <1>1, <2>1, Zenon
<1> QED BY <1>1, <1>2, <1>3, Zenon DEF Todos

\* A read that has read has its last four steps left.
LEMMA ReadDone ==
  <<"advance", "iunlock", "unbusy", "rdunlock">> \in Todos
<1> DEFINE q == <<"advance", "iunlock", "unbusy", "rdunlock">>
<1>1. ReadSteps \in Seq(Steps) /\ Len(ReadSteps) = 10 /\ q \in Seq(Steps) /\ Len(q) = 4
  BY DEF ReadSteps, Steps
<1>2. /\ Rest(ReadSteps, 7) \in Seq(Steps) /\ Len(Rest(ReadSteps, 7)) = 4
      /\ \A j \in 1..4 : Rest(ReadSteps, 7)[j] = ReadSteps[(7 + j) - 1]
  <2> DEFINE P == ReadSteps
  <2> HIDE DEF P
  <2>1. P \in Seq(Steps) /\ 7 \in 1..Len(P) /\ Len(P) = 10
    BY <1>1 DEF P
  <2>2. /\ Rest(P, 7) \in Seq(Steps) /\ Len(Rest(P, 7)) = (Len(P) - 7) + 1
        /\ \A j \in 1..((Len(P) - 7) + 1) : Rest(P, 7)[j] = P[(7 + j) - 1]
    BY <2>1, RestFacts, Zenon
  <2>3. (Len(P) - 7) + 1 = 4
    BY <2>1
  <2> QED BY <2>2, <2>3, Zenon DEF P
<1>3. \A j \in 1..4 : q[j] = ReadSteps[(7 + j) - 1]
  BY DEF ReadSteps
<1>4. \A j \in 1..4 : Rest(ReadSteps, 7)[j] = q[j]
  BY <1>2, <1>3, Zenon
<1> HIDE DEF q
<1>5. q = Rest(ReadSteps, 7)
  BY <1>1, <1>2, <1>4
<1>6. q \in Todos
  <2>1. ReadSteps \in Programs /\ 7 \in 1..12 /\ 7 \in 1..Len(ReadSteps)
    BY <1>1 DEF Programs
  <2> QED BY <1>1, <1>5, <2>1, Zenon DEF Todos
<1> QED BY <1>6, Zenon DEF q

\* A read at the end of the file has the three steps after those left.
LEMMA ReadEnd ==
  <<"iunlock", "unbusy", "rdunlock">> \in Todos
<1> DEFINE q == <<"advance", "iunlock", "unbusy", "rdunlock">>
<1>1. Len(q) # 1 /\ Tail(q) = <<"iunlock", "unbusy", "rdunlock">>
  OBVIOUS
<1> HIDE DEF q
<1>2. Shape(q)
  BY ReadDone, Shapes, Zenon DEF q
<1> QED BY <1>1, <1>2, Zenon DEF Shape

-----------------------------------------------------------------------------

\* The step a call is at.
PcOf(c) == IF c = NoCall THEN "idle" ELSE Head(c.todo)
pc(t) == PcOf(call[t])

\* The state of a call.
CallRecords == [todo : Seq(Steps), fd : Descriptors \cup {NoFd}, ino : Files \cup {NoFile},
                reg : Int, got : Int \X Int]

\* A call between two of its steps: it has found its inode once it is past
\* namei, and has a descriptor where it needs one.
CallOK(c) ==
  /\ c \in CallRecords
  /\ c # NoCall => c.todo \in Todos
  /\ PcOf(c) \notin {"idle", "seek"} => c.ino \in Files
  /\ PcOf(c) \in {"take", "fill", "drop", "seek", "seek_end"} \/ Has(c.todo, "rdunlock")
       => c.fd \in Descriptors
  /\ PcOf(c) = "scan" => c.reg \in Descriptors
  /\ PcOf(c) = "advance" => c.reg \in Nat
  /\ c.got # <<0, 0>> => Has(c.todo, "rdunlock")

\* What a step leaves of a call.
Goes(c, e) ==
  /\ e = NoCall => PcOf(c) \in LastSteps
  /\ e # NoCall => Before(PcOf(c), PcOf(e)) /\ e.fd = c.fd /\ e.ino = c.ino /\ e.got = c.got
  /\ \A s : s # PcOf(c) => (Has(e.todo, s) <=> Has(c.todo, s))
  /\ Has(e.todo, "rdunlock") => Has(c.todo, "rdunlock")
  /\ PcOf(c) = "ilock" => e # NoCall /\ ~Has(e.todo, "ilock") /\ Has(e.todo, "unbusy")

\* A thread that makes no call.
LEMMA NoCallOK ==
  CallOK(NoCall) /\ PcOf(NoCall) = "idle" /\ (\A s : ~Has(NoCall.todo, s))
    /\ NoCall.got = <<0, 0>> /\ NoCall.ino = NoFile
<1>1. NoCall \in CallRecords
  BY DEF NoCall, CallRecords
<1>2. \A s : ~Has(NoCall.todo, s)
  BY DEF NoCall, Has
<1>3. NoCall.got = <<0, 0>> /\ NoCall.ino = NoFile
  BY Zenon DEF NoCall
<1>4. PcOf(NoCall) = "idle"
  BY Zenon DEF PcOf
<1> QED BY <1>1, <1>2, <1>3, <1>4, Zenon DEF CallOK

\* The steps left of a call, and the one it is at.
LEMMA CallShape ==
  ASSUME NEW c, CallOK(c), c # NoCall
  PROVE  Shape(c.todo) /\ PcOf(c) = Head(c.todo) /\ PcOf(c) \in Steps /\ c.todo \in Todos
<1>1. c.todo \in Todos /\ PcOf(c) = Head(c.todo)
  BY Zenon DEF CallOK, PcOf
<1>2. Shape(c.todo)
  BY <1>1, Shapes, Zenon
<1> QED BY <1>1, <1>2, Zenon DEF Shape

-----------------------------------------------------------------------------

\* The type of a descriptor of a file.
Kind(f) == IF f \in Dirs THEN "FD_DIR" ELSE "FD_INODE"

\* The variables other than call, with their types.  i_ref is only known to be
\* an integer: threads that share a path lose updates of it.
Typed ==
  /\ ref \in [Descriptors -> {0, 1}]
  /\ type \in [Descriptors -> {"FD_NONE", "FD_INODE", "FD_DIR"}]
  /\ ip \in [Descriptors -> Files \cup {NoFile}]
  /\ off \in [Descriptors -> Nat] /\ size \in [Files -> 0..MaxSize]
  /\ writer \in [Descriptors -> Threads \cup {Nobody}]
  /\ readers \in [Descriptors -> SUBSET Threads]
  /\ tableLock \in Threads \cup {Nobody}
  /\ i_ref \in [Files -> Int]
  /\ mutex \in [Files -> Threads \cup {Nobody}]
  /\ busy \in [Files -> BOOLEAN] /\ deleting \in [Files -> BOOLEAN]
  /\ named \in [Files -> BOOLEAN]
  /\ given \subseteq Descriptors /\ leaked \subseteq Descriptors

\* Every thread is between two steps of a call.
Calling ==
  /\ call \in [Threads -> CallRecords]
  /\ \A t \in Threads : CallOK(call[t])

\* A free entry of g_fd_table has no type.
FreeFds == \A d \in Descriptors : ref[d] = 0 => type[d] = "FD_NONE"

\* A descriptor the application holds is open on a file.
GivenFds == \A d \in given : ref[d] = 1 /\ type[d] = Kind(ip[d]) /\ ip[d] \in Files

\* An open that looks for an entry holds the lock of the table; the entry it
\* has taken is its own until it is filled.
OpenCall(t) ==
  /\ pc(t) \in {"scan", "take"} => tableLock = t
  /\ pc(t) = "take" => ref[fd(t)] = 0
  /\ pc(t) = "fill" => ref[fd(t)] = 1 /\ type[fd(t)] = "FD_NONE"

\* A close has an entry nobody else can close; a read or a seek has a descriptor
\* that stays open on the inode of the call.
FdCall(t) ==
  /\ pc(t) = "drop" => /\ fd(t) \notin given /\ ref[fd(t)] = 1
                       /\ type[fd(t)] = Kind(ip[fd(t)]) /\ ip[fd(t)] = ino(t)
  /\ Has(call[t].todo, "rdunlock") => fd(t) \in given /\ ip[fd(t)] = ino(t)
  /\ pc(t) = "seek" => ino(t) = NoFile \/ (fd(t) \in given /\ ip[fd(t)] = ino(t))
  /\ pc(t) = "seek_end" => fd(t) \in given /\ ip[fd(t)] = ino(t)

\* No entry is filled, or closed, by two threads.
OneEach ==
  \A t, u \in Threads :
    pc(t) \in {"fill", "drop"} /\ pc(u) = pc(t) /\ fd(u) = fd(t) => u = t

\* The table of descriptors between the steps of the calls.
Table == FreeFds /\ GivenFds /\ OneEach /\ \A t \in Threads : OpenCall(t) /\ FdCall(t)

\* As long as nobody has unlocked what it does not hold, a thread between ilock
\* and iunlock, or dropping a reference, holds the mutex of its inode.
Locks ==
  ~foreign => \A t \in Threads : pc(t) \in InLock => mutex[ino(t)] = t

\* A call that has made its ilock of f and not yet the end of its iunlock.
InsideOf(c, f) == c.ino = f /\ Has(c.todo, "unbusy") /\ ~Has(c.todo, "ilock")

\* The busy flag of an inode was set by a call that has still to clear it.
Busied == \A f \in Files : busy[f] => \E t \in Threads : InsideOf(call[t], f)

\* The inductive invariant.
Shared == Typed /\ Calling /\ Table /\ Locks /\ Busied

-----------------------------------------------------------------------------

\* Thread t goes on with the call e.
Changes(t, e) == CallOK(e) /\ call' = [call EXCEPT ![t] = e]

\* A step of a thread changes its own call only.
LEMMA Changed ==
  ASSUME Calling, NEW t \in Threads, NEW e, Changes(t, e)
  PROVE  /\ Calling' /\ call'[t] = e /\ pc(t)' = PcOf(e)
         /\ \A u \in Threads \ {t} : call'[u] = call[u] /\ pc(u)' = pc(u)
<1>1. e \in CallRecords
  BY Zenon DEF Changes, CallOK
<1>2. call'[t] = e /\ \A u \in Threads \ {t} : call'[u] = call[u]
  BY Zenon DEF Changes, Calling
<1>3. call' \in [Threads -> CallRecords]
  BY <1>1, Zenon DEF Changes, Calling
<1>4. \A u \in Threads : CallOK(call'[u])
  BY <1>2, Zenon DEF Changes, Calling
<1>5. Calling'
  BY <1>3, <1>4, Zenon DEF Calling
<1> QED BY <1>2, <1>5, Zenon DEF pc

\* A step moves its call on to the next one, or ends it.
LEMMA Stepped ==
  \A t \in Threads, r \in Int :
    /\ Calling /\ ~Idle(t) /\ StepWith(t, r) /\ pc(t) \notin {"scan", "short"}
    /\ (pc(t) = "seek" => ino(t) \in Files) /\ (pc(t) = "lock_table" => r = 0)
    =>  Changes(t, After(call[t], r)) /\ Goes(call[t], After(call[t], r))
\* The next step of a call, from its record.
<1>StepsOn.
    ASSUME NEW c, CallOK(c), c # NoCall, NEW r \in Int,
           PcOf(c) \notin {"scan", "short"},
           PcOf(c) = "seek" => c.ino \in Files, PcOf(c) = "lock_table" => r = 0
    PROVE  CallOK(After(c, r)) /\ Goes(c, After(c, r))
  <2> USE <1>StepsOn
  <2> DEFINE e == After(c, r)
  <2>1. Shape(c.todo) /\ PcOf(c) = Head(c.todo) /\ c \in CallRecords
    BY CallShape, Zenon DEF CallOK
  <2>2. CASE Len(c.todo) = 1
    <3>1. e = NoCall
      BY <2>2, Zenon DEF After
    <3>2. \A s : s # PcOf(c) => ~Has(c.todo, s)
      BY <2>1, <2>2, HasTail, Zenon DEF Shape
    <3>3. PcOf(c) \in LastSteps /\ PcOf(c) # "ilock"
      BY <2>1, <2>2, Zenon DEF Shape, LastSteps
    <3>4. \A s : ~Has(NoCall.todo, s)
      BY NoCallOK, Zenon
    <3>5. Goes(c, NoCall)
      BY <3>2, <3>3, <3>4, Zenon DEF Goes
    <3> QED BY <3>1, <3>5, NoCallOK, Zenon
  <2>3. CASE Len(c.todo) # 1
    <3> DEFINE q == Tail(c.todo)
    <3>1. e = [c EXCEPT !.todo = q, !.reg = r]
      BY <2>3, Zenon DEF After
    <3>2. q \in Todos /\ q # <<>> /\ Before(Head(c.todo), Head(q)) /\ q \in Seq(Steps)
      BY <2>1, <2>3, Zenon DEF Shape, Todos
    <3> HIDE DEF q
    <3>3. e \in CallRecords /\ e.todo = q /\ e.reg = r /\ e.fd = c.fd /\ e.ino = c.ino /\ e.got = c.got
      BY <2>1, <3>1, <3>2, Zenon DEF CallRecords
    <3> HIDE DEF e
    <3>4. e # NoCall /\ PcOf(e) = Head(q)
      BY <3>2, <3>3 DEF NoCall, PcOf
    <3>5. \A s : Has(c.todo, s) <=> (PcOf(c) = s \/ Has(q, s))
      BY <2>1, <2>3, HasTail, Zenon DEF Shape, q
    <3>6. PcOf(c) = "ilock" => ~Has(q, "ilock") /\ Has(q, "unbusy")
      BY <2>1, Zenon DEF Shape, q
    <3>7. Goes(c, e)
      <4>1. Before(PcOf(c), PcOf(e))
        BY <2>1, <3>2, <3>4, Zenon
      <4>2. \A s : s # PcOf(c) => (Has(e.todo, s) <=> Has(c.todo, s))
        BY <3>3, <3>5, Zenon
      <4>3. Has(e.todo, "rdunlock") => Has(c.todo, "rdunlock")
        BY <3>3, <3>5, Zenon
      <4> QED BY <3>3, <3>4, <3>6, <4>1, <4>2, <4>3, Zenon DEF Goes
    <3>8. Has(q, "rdunlock") => Has(c.todo, "rdunlock")
      BY <3>5, Zenon
    <3>9. Shape(q)
      BY <3>2, Shapes, Zenon
    <3>10. /\ PcOf(e) = "scan" => PcOf(c) = "lock_table"
           /\ PcOf(e) \notin {"take", "drop", "seek", "advance", "idle"}
           /\ PcOf(e) = "fill" => PcOf(c) = "take"
           /\ PcOf(e) = "seek_end" => PcOf(c) = "seek"
      BY <2>1, <3>2, <3>4, Zenon DEF Before
    <3>11. e.ino \in Files
      BY <2>1, <3>3, CallShape, Zenon DEF CallOK, Steps
    <3>12. PcOf(e) \in {"take", "fill", "drop", "seek", "seek_end"} \/ Has(e.todo, "rdunlock")
             => e.fd \in Descriptors
      BY <3>3, <3>8, <3>10, Zenon DEF CallOK
    <3>13. PcOf(e) = "scan" => e.reg \in Descriptors
      BY <3>3, <3>10, OpenFilesAssumption DEF Descriptors
    <3>14. e.got # <<0, 0>> => Has(e.todo, "rdunlock")
      <4>1. c.got # <<0, 0>> => Has(c.todo, "rdunlock")
        BY Zenon DEF CallOK
      <4>2. PcOf(c) # "rdunlock"
        BY <3>2, <2>1, Zenon DEF Before
      <4> QED BY <3>3, <3>5, <4>1, <4>2, Zenon
    <3> QED BY <3>2, <3>3, <3>7, <3>10, <3>11, <3>12, <3>13, <3>14, Zenon DEF CallOK, e
  <2> QED BY <2>2, <2>3, Zenon
<1> SUFFICES ASSUME Calling, NEW t \in Threads, ~Idle(t), NEW r \in Int, StepWith(t, r),
                    pc(t) \notin {"scan", "short"}, pc(t) = "seek" => ino(t) \in Files,
                    pc(t) = "lock_table" => r = 0
             PROVE  Changes(t, After(call[t], r)) /\ Goes(call[t], After(call[t], r))
  BY Zenon
<1>1. CallOK(call[t]) /\ call[t] # NoCall
  BY Zenon DEF Calling, Idle
<1>2. CallOK(After(call[t], r)) /\ Goes(call[t], After(call[t], r))
  BY <1>1, <1>StepsOn, Zenon DEF pc, ino
<1>3. call' = [call EXCEPT ![t] = After(call[t], r)]
  BY Zenon DEF StepWith
<1> QED BY <1>2, <1>3, Zenon DEF Changes

\* A thread that is at a step, and what it knows of itself there.
LEMMA AtFacts ==
  ASSUME Calling, NEW t \in Threads, NEW s, At(t, s)
  PROVE  /\ pc(t) = s /\ ~Idle(t) /\ ~aborted /\ CallOK(call[t]) /\ call[t] # NoCall
         /\ Head(call[t].todo) = s /\ Shape(call[t].todo) /\ call[t] \in CallRecords
         /\ reg(t) \in Int
<1>1. pc(t) = s /\ ~Idle(t) /\ ~aborted /\ CallOK(call[t]) /\ call[t] # NoCall
      /\ Head(call[t].todo) = s
  BY Zenon DEF At, pc, PcOf, Calling, Idle
<1>2. Shape(call[t].todo)
  BY <1>1, CallShape, Zenon
<1>3. call[t] \in CallRecords
  BY <1>1, Zenon DEF CallOK
<1>4. reg(t) \in Int
  BY <1>3, Zenon DEF reg, CallRecords
<1> QED BY <1>1, <1>2, <1>3, <1>4, Zenon

\* The steps left when the table is full, as Shape wants them.
LEMMA FullShape ==
  /\ FullSteps \in Todos /\ FullSteps \in Seq(Steps) /\ FullSteps # <<>>
  /\ Head(FullSteps) = "iunlock"
  /\ ~Has(FullSteps, "rdunlock") /\ Has(FullSteps, "unbusy") /\ ~Has(FullSteps, "ilock")
<1>1. FullSteps \in Todos
  BY ProgramsAreTodos, Zenon DEF Programs
<1>2. /\ FullSteps \in Seq(Steps) /\ FullSteps # <<>> /\ Head(FullSteps) = "iunlock"
  BY DEF FullSteps, Steps
<1>3. DOMAIN FullSteps = 1..4 /\ FullSteps[2] = "unbusy"
  BY DEF FullSteps
<1>4. \A k \in 1..4 : FullSteps[k] # "rdunlock" /\ FullSteps[k] # "ilock"
  BY DEF FullSteps
<1> QED BY <1>1, <1>2, <1>3, <1>4 DEF Has

\* The steps left at the end of the file, as Shape wants them.
LEMMA ReadEndShape ==
  LET q == <<"iunlock", "unbusy", "rdunlock">> IN
  /\ q \in Todos /\ q \in Seq(Steps) /\ q # <<>> /\ Head(q) = "iunlock"
  /\ Has(q, "rdunlock") /\ Has(q, "unbusy") /\ ~Has(q, "ilock")
<1> DEFINE q == <<"iunlock", "unbusy", "rdunlock">>
<1>1. q \in Seq(Steps) /\ q # <<>> /\ Head(q) = "iunlock"
  BY DEF Steps
<1>2. DOMAIN q = 1..3 /\ q[2] = "unbusy" /\ q[3] = "rdunlock"
  OBVIOUS
<1>3. \A k \in 1..3 : q[k] # "ilock"
  OBVIOUS
<1>4. q \in Todos
  BY ReadEnd, Zenon
<1> HIDE DEF q
<1>5. Has(q, "rdunlock") /\ Has(q, "unbusy") /\ ~Has(q, "ilock")
  BY <1>2, <1>3 DEF Has
<1> QED BY <1>1, <1>4, <1>5, Zenon DEF q

\* The steps left once readi has returned, as Shape wants them.
LEMMA ReadDoneShape ==
  LET q == <<"advance", "iunlock", "unbusy", "rdunlock">>
  IN  /\ q \in Todos /\ q \in Seq(Steps) /\ q # <<>> /\ Head(q) = "advance"
      /\ Has(q, "rdunlock") /\ Has(q, "unbusy") /\ ~Has(q, "ilock")
<1> DEFINE q == <<"advance", "iunlock", "unbusy", "rdunlock">>
<1>1. q \in Seq(Steps) /\ q # <<>> /\ Head(q) = "advance"
  BY DEF Steps
<1>2. DOMAIN q = 1..4 /\ q[3] = "unbusy" /\ q[4] = "rdunlock"
  OBVIOUS
<1>3. \A k \in 1..4 : q[k] # "ilock"
  OBVIOUS
<1>4. q \in Todos
  BY ReadDone, Zenon
<1> HIDE DEF q
<1>5. Has(q, "rdunlock") /\ Has(q, "unbusy") /\ ~Has(q, "ilock")
  BY <1>2, <1>3 DEF Has
<1> QED BY <1>1, <1>4, <1>5, Zenon DEF q

\* The call of a read once readi has returned.
HasRead(c, q, n, g) == [c EXCEPT !.todo = q, !.reg = n, !.got = g]

\* The record of a call that has read.
LEMMA ReadRecord ==
  ASSUME NEW c \in CallRecords, NEW q \in Seq(Steps), NEW n \in Int, NEW g \in Int \X Int
  PROVE  /\ HasRead(c, q, n, g) \in CallRecords
         /\ HasRead(c, q, n, g).todo = q /\ HasRead(c, q, n, g).fd = c.fd
         /\ HasRead(c, q, n, g).ino = c.ino /\ HasRead(c, q, n, g).reg = n
         /\ HasRead(c, q, n, g).got = g
<1> DEFINE d == [c EXCEPT !.todo = q, !.reg = n]
<1>1. d \in CallRecords /\ d.todo = q /\ d.fd = c.fd /\ d.ino = c.ino /\ d.reg = n
  BY Zenon DEF CallRecords
<1>2. HasRead(c, q, n, g) = [d EXCEPT !.got = g]
  BY Zenon DEF HasRead
<1> HIDE DEF d
<1> DEFINE e == [d EXCEPT !.got = g]
<1>3. e \in CallRecords /\ e.todo = q /\ e.fd = c.fd /\ e.ino = c.ino /\ e.reg = n /\ e.got = g
  BY <1>1, Zenon DEF CallRecords
<1> HIDE DEF e
<1> QED BY <1>2, <1>3, Zenon DEF e

\* A call as it begins.
NewCall(P, d, f) == [NoCall EXCEPT !.todo = P, !.fd = d, !.ino = f]

\* A call that may begin: its steps, descriptor and inode belong together.
MayBegin(P, d, f) ==
  /\ P \in Programs /\ d \in Descriptors \cup {NoFd} /\ f \in Files \cup {NoFile}
  /\ Head(P) \in {"namei", "drop", "rdlock", "ref", "seek"}
  /\ Head(P) # "seek" => f \in Files
  /\ Head(P) \in {"drop", "rdlock", "seek"} => d \in Descriptors

\* Thread t begins the call e.
Begins(t, P, d, f, e) ==
  /\ Changes(t, e) /\ PcOf(e) = Head(P)
  /\ e.todo = P /\ e.fd = d /\ e.ino = f /\ e.got = <<0, 0>>
  /\ Has(P, "rdunlock") => Head(P) = "rdlock"

\* A thread begins a call.
LEMMA Begun ==
  ASSUME Calling, NEW t \in Threads, NEW P, NEW d, NEW f, MayBegin(P, d, f), Begin(t, P, d, f)
  PROVE  Begins(t, P, d, f, NewCall(P, d, f))
<1> USE DEF MayBegin
<1> DEFINE e == NewCall(P, d, f)
<1>1. P \in Todos /\ P \in Seq(Steps)
  BY ProgramsAreTodos, ProgramsFit, Zenon
<1>2. Shape(P)
  BY <1>1, Shapes, Zenon
<1>3. call' = [call EXCEPT ![t] = e]
  BY Zenon DEF Begin, NewCall
<1> DEFINE c == [NoCall EXCEPT !.todo = P, !.fd = d]
<1>4. /\ c \in CallRecords /\ c.todo = P /\ c.fd = d /\ c.got = <<0, 0>>
      /\ e = [c EXCEPT !.ino = f]
  <2>1. NoCall \in CallRecords /\ NoCall.got = <<0, 0>>
    BY NoCallOK, Zenon DEF CallOK
  <2>2. c \in CallRecords /\ c.todo = P /\ c.fd = d /\ c.got = <<0, 0>>
    BY <1>1, <2>1, Zenon DEF CallRecords
  <2> QED BY <2>2, Zenon DEF NewCall
<1> HIDE DEF c, e
<1>5. e \in CallRecords /\ e.todo = P /\ e.fd = d /\ e.ino = f /\ e.got = <<0, 0>>
  BY <1>4, Zenon DEF CallRecords
<1>6. P # <<>> /\ (Has(P, "rdunlock") => Head(P) = "rdlock")
  BY <1>2, Zenon DEF Shape, Reading
<1>7. e # NoCall /\ PcOf(e) = Head(P)
  BY <1>5, <1>6 DEF NoCall, PcOf
<1>8. CallOK(e)
  BY <1>1, <1>5, <1>6, <1>7, Zenon DEF CallOK
<1> QED BY <1>3, <1>5, <1>6, <1>7, <1>8, Zenon DEF Changes, Begins, e

\* The first step of every call.
LEMMA ProgramHeads ==
  /\ \A c \in DOMAIN PathCalls : PathCalls[c] \in Programs /\ Head(PathCalls[c]) = "namei"
  /\ \A c \in DOMAIN FdCalls : /\ FdCalls[c] \in Programs
                               /\ Head(FdCalls[c]) \in {"rdlock", "ref", "seek"}
                               /\ Head(FdCalls[c]) = "rdlock" => c = "read"
                               /\ Head(FdCalls[c]) = "ref" => c \in {"fstat", "ftruncate"}
  /\ SeekSteps \in Programs /\ Head(SeekSteps) = "seek"
  /\ CloseSteps \in Programs /\ Head(CloseSteps) = "drop"
<1>1. DOMAIN PathCalls = {"open", "stat", "access", "truncate", "unlink"}
      /\ DOMAIN FdCalls = {"read", "fstat", "ftruncate", "lseek"}
  BY Zenon DEF PathCalls, FdCalls
<1>2. /\ PathCalls["open"] = OpenSteps /\ PathCalls["stat"] = StatSteps
      /\ PathCalls["access"] = AccessSteps /\ PathCalls["truncate"] = TruncateSteps
      /\ PathCalls["unlink"] = UnlinkSteps
  BY Zenon DEF PathCalls
<1>3. /\ FdCalls["read"] = ReadSteps /\ FdCalls["fstat"] = FstatSteps
      /\ FdCalls["ftruncate"] = FtruncateSteps /\ FdCalls["lseek"] = SeekSteps
  BY Zenon DEF FdCalls
<1>4. /\ Head(OpenSteps) = "namei" /\ Head(StatSteps) = "namei" /\ Head(AccessSteps) = "namei"
      /\ Head(TruncateSteps) = "namei" /\ Head(UnlinkSteps) = "namei"
  BY DEF OpenSteps, StatSteps, AccessSteps, TruncateSteps, UnlinkSteps
<1>5. /\ Head(ReadSteps) = "rdlock" /\ Head(FstatSteps) = "ref" /\ Head(FtruncateSteps) = "ref"
      /\ Head(SeekSteps) = "seek" /\ Head(CloseSteps) = "drop"
  BY DEF ReadSteps, FstatSteps, FtruncateSteps, SeekSteps, CloseSteps
<1>6. {OpenSteps, StatSteps, AccessSteps, TruncateSteps, UnlinkSteps, CloseSteps,
       ReadSteps, FstatSteps, FtruncateSteps, SeekSteps} \subseteq Programs
  BY Zenon DEF Programs
<1> QED BY <1>1, <1>2, <1>3, <1>4, <1>5, <1>6

-----------------------------------------------------------------------------

\* The invariant holds at the start.
LEMMA SharedInit ==
  Init => Shared
<1> SUFFICES ASSUME Init PROVE Shared
  BY Zenon
<1>1. Typed
  BY OpenFilesAssumption DEF Init, Typed
<1>2. \A t \in Threads : call[t] = NoCall /\ pc(t) = "idle"
  BY NoCallOK, Zenon DEF Init, pc
<1>3. Calling
  BY <1>2, NoCallOK, Zenon DEF Init, Calling, CallOK
<1>4. Table
  BY <1>2, NoCallOK, Zenon DEF Init, Table, FreeFds, GivenFds, OneEach, OpenCall, FdCall
<1>5. Locks /\ Busied
  BY <1>2, Zenon DEF Init, Locks, InLock, Busied
<1> QED BY <1>1, <1>3, <1>4, <1>5, Zenon DEF Shared

\* Every step keeps the invariant: first what is common to several actions, then
\* the actions one by one.
LEMMA SharedNext ==
  Shared /\ [Next]_vars => Shared'
<1> USE DEF InLock, TableSteps
\* A step that touches no entry keeps the table.
<1>TableKept.
    ASSUME Calling, Table, NEW t \in Threads, NEW e, Changes(t, e),
           UNCHANGED <<ref, type, ip, given, tableLock>>,
           PcOf(e) \in TableSteps =>
             PcOf(e) = "seek_end" /\ e.fd \in given /\ ip[e.fd] = e.ino,
           Has(e.todo, "rdunlock") =>
             Has(call[t].todo, "rdunlock") /\ e.fd = fd(t) /\ e.ino = ino(t)
    PROVE  Table'
  <2> USE <1>TableKept
  <2>1. /\ call'[t] = e /\ pc(t)' = PcOf(e)
        /\ \A u \in Threads \ {t} : call'[u] = call[u] /\ pc(u)' = pc(u)
    BY Changed, Zenon
  <2>2. FreeFds' /\ GivenFds'
    BY Zenon DEF Table, FreeFds, GivenFds
  <2>3. OneEach'
    BY <2>1 DEF Table, OneEach, fd
  <2>4. \A u \in Threads : OpenCall(u)'
    BY <2>1 DEF Table, OpenCall, fd
  <2>5. \A u \in Threads \ {t} : FdCall(u)'
    BY <2>1 DEF Table, FdCall, fd, ino
  <2>6. FdCall(t)'
    BY <2>1, Zenon DEF Table, FdCall, fd, ino
  <2> QED BY <2>2, <2>3, <2>4, <2>5, <2>6, Zenon DEF Table
\* A step that touches no mutex, and does not enter a locked part.
<1>LocksKept.
    ASSUME Calling, Locks, NEW t \in Threads, NEW e, Changes(t, e),
           UNCHANGED <<mutex, foreign>>,
           PcOf(e) \notin InLock
    PROVE  Locks'
  <2> USE <1>LocksKept
  <2>1. /\ call'[t] = e /\ pc(t)' = PcOf(e)
        /\ \A u \in Threads \ {t} : call'[u] = call[u] /\ pc(u)' = pc(u)
    BY Changed, Zenon
  <2> QED BY <2>1, Zenon DEF Locks, ino
\* A step that touches no mutex, from a locked part.
<1>LocksHeld.
    ASSUME Calling, Locks, NEW t \in Threads, NEW e, Changes(t, e),
           UNCHANGED <<mutex, foreign>>, pc(t) \in InLock, e.ino = ino(t)
    PROVE  Locks'
  <2> USE <1>LocksHeld
  <2>1. /\ call'[t] = e /\ pc(t)' = PcOf(e)
        /\ \A u \in Threads \ {t} : call'[u] = call[u] /\ pc(u)' = pc(u)
    BY Changed, Zenon
  <2> QED BY <2>1, Zenon DEF Locks, ino
\* A step that leaves the busy flags alone and the call inside.
<1>BusiedKept.
    ASSUME Calling, Busied, NEW t \in Threads, NEW e, Changes(t, e), UNCHANGED busy,
           \A f \in Files : InsideOf(call[t], f) => InsideOf(e, f)
    PROVE  Busied'
  <2> USE <1>BusiedKept
  <2>1. /\ call'[t] = e
        /\ \A u \in Threads \ {t} : call'[u] = call[u]
    BY Changed, Zenon
  <2>2. \A u \in Threads, f \in Files : InsideOf(call[u], f) => InsideOf(call'[u], f)
    BY <2>1, Zenon
  <2>3. ASSUME NEW f \in Files, busy'[f] PROVE \E u \in Threads : InsideOf(call'[u], f)
    BY <2>2, <2>3, Zenon DEF Busied
  <2> QED BY <2>3, Zenon DEF Busied
\* A call that returns.
<1>Returned.
    ASSUME NEW t \in Threads, Return(t)
    PROVE  Changes(t, NoCall)
  BY <1>Returned, NoCallOK, Zenon DEF Return, Changes
\* A call is inside only at the steps between ilock and iunlock.
<1>OutsideOf.
    ASSUME NEW c, CallOK(c), PcOf(c) \notin Inside, NEW f
    PROVE  ~InsideOf(c, f)
  <2> USE <1>OutsideOf
  <2>1. CASE c = NoCall
    BY <2>1, NoCallOK, Zenon DEF InsideOf
  <2>2. CASE c # NoCall
    BY <2>2, CallShape, Zenon DEF InsideOf, Shape
  <2> QED BY <2>1, <2>2, Zenon
\* A step of a call that is not inside.
<1>BusiedOutside.
    ASSUME Calling, Busied, NEW t \in Threads, NEW e, Changes(t, e), UNCHANGED busy,
           pc(t) \notin Inside
    PROVE  Busied'
  <2> USE <1>BusiedOutside
  <2>1. \A f \in Files : ~InsideOf(call[t], f)
    BY <1>OutsideOf, Zenon DEF Calling, pc
  <2> QED BY <2>1, <1>BusiedKept, Zenon
\* userfs_file_alloc locks the table ...
<1>LockTableKeeps.
    ASSUME Calling, Table, Locks, Busied, NEW t \in Threads, LockTable(t)
    PROVE  Calling' /\ Table' /\ Locks' /\ Busied'
  <2> USE <1>LockTableKeeps
  <2>1. pc(t) = "lock_table" /\ ~Idle(t)
    BY AtFacts, Zenon DEF LockTable
  <2> DEFINE e == After(call[t], 0)
  <2>2. Changes(t, e) /\ Goes(call[t], e)
    BY <2>1, Stepped DEF LockTable
  <2> HIDE DEF e
  <2>3. PcOf(e) = "scan" /\ ~Has(call[t].todo, "rdunlock")
    <3>1. e # NoCall
      BY <2>1, <2>2, Zenon DEF Goes, LastSteps, pc
    <3>2. PcOf(e) = "scan"
      BY <2>1, <2>2, <3>1, Zenon DEF Goes, Before, pc
    <3>3. ~Has(call[t].todo, "rdunlock")
      BY <2>1, CallShape, Zenon DEF Calling, Idle, pc, Shape, Reading
    <3> QED BY <3>2, <3>3, Zenon
  <2>4. ~Has(e.todo, "rdunlock")
    BY <2>2, <2>3, Zenon DEF Goes
  <2>5. /\ call'[t] = e /\ pc(t)' = "scan"
        /\ \A u \in Threads \ {t} : call'[u] = call[u] /\ pc(u)' = pc(u)
    BY <2>2, <2>3, Changed, Zenon
  <2>6. UNCHANGED <<ref, type, ip, given>> /\ tableLock' = t /\ tableLock = Nobody
    BY Zenon DEF LockTable, tableVars, ghostVars
  <2>7. \A u \in Threads : pc(u) \notin {"scan", "take"}
    BY <2>6, OpenFilesAssumption, Zenon DEF Table, OpenCall
  <2>8. FreeFds' /\ GivenFds'
    BY <2>6, Zenon DEF Table, FreeFds, GivenFds
  <2>9. OneEach'
    BY <2>5 DEF Table, OneEach, fd
  <2>10. \A u \in Threads : OpenCall(u)'
    BY <2>5, <2>6, <2>7 DEF Table, OpenCall, fd
  <2>11. \A u \in Threads : FdCall(u)'
    BY <2>4, <2>5, <2>6 DEF Table, FdCall, fd, ino
  <2>12. Table'
    BY <2>8, <2>9, <2>10, <2>11, Zenon DEF Table
  <2>13. Locks'
    BY <2>2, <2>3, <1>LocksKept, Zenon DEF LockTable, inodeVars, ghostVars
  <2>14. Busied'
    BY <2>1, <2>2, <1>BusiedOutside, Zenon DEF LockTable, inodeVars, Inside
  <2> QED BY <2>2, <2>12, <2>13, <2>14, Changed, Zenon
\* ... passes over an entry in use ...
<1>ScanOnKeeps.
    ASSUME Calling, Table, Locks, Busied, NEW t \in Threads, ScanOn(t)
    PROVE  Calling' /\ Table' /\ Locks' /\ Busied'
  <2> USE <1>ScanOnKeeps
  <2>1. /\ pc(t) = "scan" /\ ~Idle(t) /\ CallOK(call[t]) /\ call[t] \in CallRecords
        /\ call[t] # NoCall /\ Shape(call[t].todo)
    BY AtFacts, Zenon DEF ScanOn
  <2> DEFINE r == call[t].reg + 1
             e == [call[t] EXCEPT !.reg = r]
  <2>2. r \in Descriptors /\ r \in Int
    <3>1. call[t].reg \in Descriptors
      BY <2>1, Zenon DEF CallOK, pc
    <3>2. call[t].reg + 1 < MaxOpen
      BY Zenon DEF ScanOn, reg
    <3> QED BY <3>1, <3>2, OpenFilesAssumption DEF Descriptors
  <2>3. call' = [call EXCEPT ![t] = e]
    BY Zenon DEF ScanOn, Calling
  <2> HIDE DEF r
  <2>4. /\ e \in CallRecords /\ e.todo = call[t].todo /\ e.fd = call[t].fd /\ e.ino = call[t].ino
        /\ e.got = call[t].got /\ e.reg = r
    BY <2>1, <2>2, Zenon DEF CallRecords
  <2> HIDE DEF e
  <2>5. e # NoCall /\ PcOf(e) = "scan"
    BY <2>1, <2>4 DEF NoCall, pc, PcOf, Shape
  <2>6. CallOK(e)
    BY <2>1, <2>2, <2>4, <2>5, Zenon DEF CallOK, pc
  <2>7. Changes(t, e)
    BY <2>3, <2>6, Zenon DEF Changes
  <2>8. /\ call'[t] = e /\ pc(t)' = "scan"
        /\ \A u \in Threads \ {t} : call'[u] = call[u] /\ pc(u)' = pc(u)
    BY <2>5, <2>7, Changed, Zenon
  <2>9. UNCHANGED <<ref, type, ip, given, tableLock>>
    BY Zenon DEF ScanOn, tableVars, lockVars, ghostVars
  <2>10. FreeFds' /\ GivenFds'
    BY <2>9, Zenon DEF Table, FreeFds, GivenFds
  <2>11. OneEach'
    BY <2>8 DEF Table, OneEach, fd
  <2>12. \A u \in Threads : OpenCall(u)'
    BY <2>1, <2>8, <2>9 DEF Table, OpenCall, fd
  <2>13. \A u \in Threads : FdCall(u)'
    BY <2>4, <2>8, <2>9 DEF Table, FdCall, fd, ino
  <2>14. Table'
    BY <2>10, <2>11, <2>12, <2>13, Zenon DEF Table
  <2>15. Locks'
    BY <2>5, <2>7, <1>LocksKept, Zenon DEF ScanOn, inodeVars, ghostVars
  <2>16. Busied'
    BY <2>1, <2>7, <1>BusiedOutside, Zenon DEF ScanOn, inodeVars, Inside
  <2> QED BY <2>7, <2>14, <2>15, <2>16, Changed, Zenon
\* ... gives up at the end of the table ...
<1>ScanFullKeeps.
    ASSUME Calling, Table, Locks, Busied, NEW t \in Threads, ScanFull(t)
    PROVE  Calling' /\ Table' /\ Locks' /\ Busied'
  <2> USE <1>ScanFullKeeps
  <2>1. /\ pc(t) = "scan" /\ ~Idle(t) /\ CallOK(call[t]) /\ call[t] \in CallRecords
        /\ call[t] # NoCall /\ Shape(call[t].todo)
    BY AtFacts, Zenon DEF ScanFull
  <2> DEFINE e == [call[t] EXCEPT !.todo = FullSteps]
  <2>2. ~Has(call[t].todo, "rdunlock")
    BY <2>1, CallShape, Zenon DEF Shape, Reading, pc
  <2>3. call' = [call EXCEPT ![t] = e]
    BY Zenon DEF ScanFull, GoTo, Calling, FullSteps
  <2>4. /\ e \in CallRecords /\ e.todo = FullSteps /\ e.fd = call[t].fd /\ e.ino = call[t].ino
        /\ e.got = call[t].got /\ e.reg = call[t].reg
    BY <2>1, FullShape, Zenon DEF CallRecords
  <2> HIDE DEF e
  <2>5. e # NoCall /\ PcOf(e) = "iunlock"
    BY <2>4, FullShape DEF NoCall, PcOf
  <2>6. CallOK(e)
    <3>1. e.ino \in Files
      BY <2>1, <2>4, Zenon DEF CallOK, pc
    <3>2. e.got = <<0, 0>>
      BY <2>1, <2>2, <2>4, Zenon DEF CallOK
    <3> QED BY <2>4, <2>5, <3>1, <3>2, FullShape, Zenon DEF CallOK
  <2>7. Changes(t, e)
    BY <2>3, <2>6, Zenon DEF Changes
  <2>8. /\ call'[t] = e /\ pc(t)' = "iunlock"
        /\ \A u \in Threads \ {t} : call'[u] = call[u] /\ pc(u)' = pc(u)
    BY <2>5, <2>7, Changed, Zenon
  <2>9. UNCHANGED <<ref, type, ip, given>>
    BY Zenon DEF ScanFull, tableVars, ghostVars
  <2>10. \A u \in Threads \ {t} : pc(u) \notin {"scan", "take"}
    BY <2>1, Zenon DEF Table, OpenCall
  <2>11. FreeFds' /\ GivenFds'
    BY <2>9, Zenon DEF Table, FreeFds, GivenFds
  <2>12. OneEach'
    BY <2>8 DEF Table, OneEach, fd
  <2>13. \A u \in Threads : OpenCall(u)'
    BY <2>8, <2>9, <2>10 DEF Table, OpenCall, fd
  <2>14. \A u \in Threads : FdCall(u)'
    BY <2>4, <2>8, <2>9, FullShape DEF Table, FdCall, fd, ino
  <2>15. Table'
    BY <2>11, <2>12, <2>13, <2>14, Zenon DEF Table
  <2>16. Locks'
    BY <2>5, <2>7, <1>LocksKept, Zenon DEF ScanFull, inodeVars, ghostVars
  <2>17. Busied'
    BY <2>1, <2>7, <1>BusiedOutside, Zenon DEF ScanFull, inodeVars, Inside
  <2> QED BY <2>7, <2>15, <2>16, <2>17, Changed, Zenon
\* ... finds a free entry ...
<1>ScanFreeKeeps.
    ASSUME Calling, Table, Locks, Busied, NEW t \in Threads, ScanFree(t)
    PROVE  Calling' /\ Table' /\ Locks' /\ Busied'
  <2> USE <1>ScanFreeKeeps
  <2>1. /\ pc(t) = "scan" /\ ~Idle(t) /\ CallOK(call[t]) /\ call[t] \in CallRecords
        /\ call[t] # NoCall /\ Shape(call[t].todo) /\ Head(call[t].todo) = "scan"
    BY AtFacts, Zenon DEF ScanFree
  <2> DEFINE q == Tail(call[t].todo)
             r == call[t].reg
             e == [call[t] EXCEPT !.fd = r, !.todo = q]
  <2>2. Len(call[t].todo) # 1
    BY <2>1, Zenon DEF Shape, LastSteps
  <2>3. q \in Todos /\ q # <<>> /\ Before("scan", Head(q)) /\ q \in Seq(Steps)
    BY <2>1, <2>2, Zenon DEF Shape, Todos
  <2>4. r \in Descriptors
    BY <2>1, Zenon DEF CallOK, pc
  <2>5. call' = [call EXCEPT ![t] = e]
    BY <2>1, Zenon DEF ScanFree, Calling, reg, CallRecords
  <2>6. ~Has(q, "rdunlock")
    <3>1. ~Has(call[t].todo, "rdunlock")
      BY <2>1, Zenon DEF Shape, Reading
    <3> QED BY <2>1, <2>2, <3>1, HasTail, Zenon DEF Shape
  <2> HIDE DEF q
  <2>7. /\ e \in CallRecords /\ e.todo = q /\ e.fd = r /\ e.ino = call[t].ino
        /\ e.got = call[t].got
    BY <2>1, <2>3, <2>4, Zenon DEF CallRecords
  <2> HIDE DEF e
  <2>8. e # NoCall /\ PcOf(e) = "take"
    BY <2>3, <2>7 DEF NoCall, PcOf, Before
  <2>9. CallOK(e)
    <3>1. e.ino \in Files
      BY <2>1, <2>7, Zenon DEF CallOK, pc
    <3>2. e.got = <<0, 0>>
      BY <2>1, <2>7, Zenon DEF CallOK, Shape, Reading
    <3> QED BY <2>3, <2>4, <2>6, <2>7, <2>8, <3>1, <3>2, Zenon DEF CallOK
  <2>10. Changes(t, e)
    BY <2>5, <2>9, Zenon DEF Changes
  <2>11. /\ call'[t] = e /\ pc(t)' = "take" /\ fd(t)' = r
         /\ \A u \in Threads \ {t} : call'[u] = call[u] /\ pc(u)' = pc(u)
    BY <2>7, <2>8, <2>10, Changed, Zenon DEF fd
  <2>12. UNCHANGED <<ref, type, ip, given, tableLock>> /\ ref[r] = 0
    BY Zenon DEF ScanFree, tableVars, lockVars, ghostVars, reg
  <2>13. FreeFds' /\ GivenFds'
    BY <2>12, Zenon DEF Table, FreeFds, GivenFds
  <2>14. OneEach'
    BY <2>11 DEF Table, OneEach, fd
  <2>15. \A u \in Threads \ {t} : OpenCall(u)'
    BY <2>11, <2>12 DEF Table, OpenCall, fd
  <2>16. OpenCall(t)'
    BY <2>1, <2>11, <2>12, Zenon DEF Table, OpenCall
  <2>17. \A u \in Threads : FdCall(u)'
    BY <2>6, <2>7, <2>11, <2>12, Zenon DEF Table, FdCall, fd, ino
  <2>18. Table'
    BY <2>13, <2>14, <2>15, <2>16, <2>17, Zenon DEF Table
  <2>19. Locks'
    BY <2>8, <2>10, <1>LocksKept, Zenon DEF ScanFree, inodeVars, ghostVars
  <2>20. Busied'
    BY <2>1, <2>10, <1>BusiedOutside, Zenon DEF ScanFree, inodeVars, Inside
  <2> QED BY <2>10, <2>18, <2>19, <2>20, Changed, Zenon
\* ... and takes it, so that nobody else finds it free.
<1>TakeKeeps.
    ASSUME Typed, Calling, Table, Locks, Busied, NEW t \in Threads, Take(t)
    PROVE  Calling' /\ Table' /\ Locks' /\ Busied'
  <2> USE <1>TakeKeeps
  <2>1. /\ pc(t) = "take" /\ ~Idle(t) /\ CallOK(call[t]) /\ reg(t) \in Int
        /\ Shape(call[t].todo) /\ Head(call[t].todo) = "take"
    BY AtFacts, Zenon DEF Take
  <2> DEFINE e == After(call[t], reg(t))
             d == fd(t)
  <2>2. Changes(t, e) /\ Goes(call[t], e)
    BY <2>1, Stepped, Zenon DEF Take, Step
  <2>3. d \in Descriptors
    BY <2>1, Zenon DEF CallOK, pc, fd
  <2> HIDE DEF e
  <2>4. e # NoCall /\ PcOf(e) = "fill" /\ e.fd = d
    <3>1. e # NoCall
      BY <2>1, <2>2, Zenon DEF Goes, LastSteps, pc
    <3> QED BY <2>1, <2>2, <3>1, Zenon DEF Goes, Before, pc, fd
  <2>5. ~Has(e.todo, "rdunlock")
    BY <2>1, <2>2, Zenon DEF Goes, Shape, Reading
  <2>6. /\ call'[t] = e /\ pc(t)' = "fill" /\ fd(t)' = d
        /\ \A u \in Threads \ {t} : call'[u] = call[u] /\ pc(u)' = pc(u)
    BY <2>2, <2>4, Changed, Zenon DEF fd
  <2> HIDE DEF d
  <2>7. /\ UNCHANGED <<type, ip, given>>
        /\ ref'[d] = 1 /\ \A x \in Descriptors \ {d} : ref'[x] = ref[x]
    BY <2>3, Zenon DEF Take, ghostVars, Typed, d
  <2>8. ref[d] = 0 /\ type[d] = "FD_NONE" /\ tableLock = t
    BY <2>1, <2>3, Zenon DEF Table, OpenCall, FreeFds, d
  <2>9. \A u \in Threads \ {t} : pc(u) \notin {"scan", "take"}
    BY <2>8, Zenon DEF Table, OpenCall
  <2>10. FreeFds'
    BY <2>7 DEF Table, FreeFds
  <2>11. GivenFds'
    BY <2>3, <2>7, Zenon DEF Table, GivenFds, Typed
  <2>12. \A u \in Threads \ {t} : pc(u) \in {"fill", "drop"} => fd(u) # d
    BY <2>8 DEF Table, OpenCall, FdCall
  <2>13. OneEach'
    BY <2>6, <2>12 DEF Table, OneEach, fd
  <2>14. \A u \in Threads \ {t} : OpenCall(u)'
    <3> SUFFICES ASSUME NEW u \in Threads \ {t} PROVE OpenCall(u)'
      BY Zenon
    <3>1. pc(u) = "fill" => fd(u) \in Descriptors
      BY Zenon DEF Calling, CallOK, pc, fd
    <3>2. OpenCall(u) /\ call'[u] = call[u] /\ pc(u)' = pc(u)
      BY <2>6, Zenon DEF Table
    <3> QED BY <2>7, <2>9, <3>1, <3>2, Zenon DEF OpenCall, fd
  <2>15. OpenCall(t)'
    BY <2>6, <2>7, <2>8, Zenon DEF OpenCall
  <2>16. \A u \in Threads \ {t} : FdCall(u)'
    <3> SUFFICES ASSUME NEW u \in Threads \ {t} PROVE FdCall(u)'
      BY Zenon
    <3>1. pc(u) = "drop" => fd(u) \in Descriptors
      BY Zenon DEF Calling, CallOK, pc, fd
    <3>2. FdCall(u) /\ call'[u] = call[u] /\ pc(u)' = pc(u)
      BY <2>6, Zenon DEF Table
    <3> QED BY <2>7, <3>1, <3>2, Zenon DEF FdCall, fd, ino
  <2>17. FdCall(t)'
    BY <2>5, <2>6, Zenon DEF FdCall
  <2>18. Table'
    BY <2>10, <2>11, <2>13, <2>14, <2>15, <2>16, <2>17, Zenon DEF Table
  <2>19. Locks'
    BY <2>2, <2>4, <1>LocksKept, Zenon DEF Take, inodeVars, ghostVars
  <2>20. Busied'
    BY <2>1, <2>2, <1>BusiedOutside, Zenon DEF Take, inodeVars, Inside
  <2> QED BY <2>2, <2>18, <2>19, <2>20, Changed, Zenon
\* The end of an open fills the entry it took.
<1>FillKeeps.
    ASSUME Typed, Calling, Table, Locks, Busied, NEW t \in Threads, Fill(t)
    PROVE  Calling' /\ Table' /\ Locks' /\ Busied'
  <2> USE <1>FillKeeps
  <2>1. /\ pc(t) = "fill" /\ ~Idle(t) /\ CallOK(call[t]) /\ reg(t) \in Int
        /\ Shape(call[t].todo) /\ Head(call[t].todo) = "fill"
    BY AtFacts, Zenon DEF Fill
  <2> DEFINE e == After(call[t], reg(t))
             d == fd(t)
             f == ino(t)
  <2>2. Changes(t, e) /\ Goes(call[t], e)
    BY <2>1, Stepped, Zenon DEF Fill, Step
  <2>3. d \in Descriptors /\ f \in Files
    BY <2>1, Zenon DEF CallOK, pc, fd, ino
  <2> HIDE DEF e
  <2>4. PcOf(e) \notin TableSteps \cup InLock
    <3>1. CASE e = NoCall
      BY <3>1, NoCallOK, Zenon
    <3>2. CASE e # NoCall
      BY <2>1, <2>2, <3>2, Zenon DEF Goes, Before, pc
    <3> QED BY <3>1, <3>2, Zenon
  <2>5. ~Has(e.todo, "rdunlock")
    BY <2>1, <2>2, Zenon DEF Goes, Shape, Reading
  <2>6. /\ call'[t] = e /\ pc(t)' = PcOf(e)
        /\ \A u \in Threads \ {t} : call'[u] = call[u] /\ pc(u)' = pc(u)
    BY <2>2, Changed, Zenon
  <2>7. /\ UNCHANGED <<ref, tableLock>> /\ given' = given \cup {d}
        /\ type'[d] = Kind(f) /\ \A x \in Descriptors \ {d} : type'[x] = type[x]
        /\ ip'[d] = f /\ \A x \in Descriptors \ {d} : ip'[x] = ip[x]
    BY <2>3, Zenon DEF Fill, lockVars, Typed, Kind
  <2>8. ref[d] = 1 /\ type[d] = "FD_NONE"
    BY <2>1, Zenon DEF Table, OpenCall
  <2> HIDE DEF d, f
  <2>9. given \subseteq Descriptors /\ d \notin given
    BY <2>8, Zenon DEF Table, GivenFds, Kind, Typed
  <2>10. FreeFds'
    BY <2>7, <2>8 DEF Table, FreeFds
  <2>11. GivenFds'
    BY <2>3, <2>7, <2>8, <2>9, Zenon DEF Table, GivenFds
  <2>12. OneEach'
    BY <2>4, <2>6 DEF Table, OneEach, fd
  <2>13. \A u \in Threads \ {t} : pc(u) = "fill" => fd(u) # d /\ fd(u) \in Descriptors
    BY <2>1, Zenon DEF Table, OneEach, Calling, CallOK, pc, fd, d
  <2>14. \A u \in Threads \ {t} : OpenCall(u)'
    <3> SUFFICES ASSUME NEW u \in Threads \ {t} PROVE OpenCall(u)'
      BY Zenon
    <3>1. OpenCall(u) /\ call'[u] = call[u] /\ pc(u)' = pc(u)
      BY <2>6, Zenon DEF Table
    <3> QED BY <2>7, <2>13, <3>1, Zenon DEF OpenCall, fd
  <2>15. OpenCall(t)' /\ FdCall(t)'
    BY <2>4, <2>5, <2>6, Zenon DEF OpenCall, FdCall
  <2>16. \A u \in Threads \ {t} : FdCall(u)'
    <3> SUFFICES ASSUME NEW u \in Threads \ {t} PROVE FdCall(u)'
      BY Zenon
    <3>1. FdCall(u) /\ call'[u] = call[u] /\ pc(u)' = pc(u)
      BY <2>6, Zenon DEF Table
    <3>2. pc(u) = "drop" => fd(u) # d /\ fd(u) \in Descriptors
      BY <2>8, <3>1, Zenon DEF FdCall, Kind, Calling, CallOK, pc, fd
    <3>3. fd(u) \in given => fd(u) # d /\ fd(u) \in Descriptors
      BY <2>9, Zenon
    <3> QED BY <2>7, <3>1, <3>2, <3>3, Zenon DEF FdCall, fd, ino
  <2>17. Table'
    BY <2>10, <2>11, <2>12, <2>14, <2>15, <2>16, Zenon DEF Table
  <2>18. Locks'
    BY <2>2, <2>4, <1>LocksKept, Zenon DEF Fill, inodeVars
  <2>19. Busied'
    BY <2>1, <2>2, <1>BusiedOutside, Zenon DEF Fill, inodeVars, Inside
  <2> QED BY <2>2, <2>17, <2>18, <2>19, Changed, Zenon
\* userfs_file_close frees the entry.
<1>CloseKeeps.
    ASSUME Typed, Calling, Table, Locks, Busied, NEW t \in Threads, userfs_file_close(t)
    PROVE  Calling' /\ Table' /\ Locks' /\ Busied'
  <2> USE <1>CloseKeeps
  <2>1. /\ pc(t) = "drop" /\ ~Idle(t) /\ CallOK(call[t]) /\ reg(t) \in Int
        /\ Shape(call[t].todo) /\ Head(call[t].todo) = "drop"
    BY AtFacts, Zenon DEF userfs_file_close
  <2> DEFINE d == fd(t)
  <2>2. PICK e : /\ Changes(t, e) /\ ~Has(e.todo, "rdunlock")
                 /\ PcOf(e) \notin TableSteps \cup InLock
    <3>1. CASE Return(t)
      BY <3>1, <1>Returned, NoCallOK, Zenon
    <3>2. CASE Step(t)
      <4> DEFINE e == After(call[t], reg(t))
      <4>1. Changes(t, e) /\ Goes(call[t], e)
        BY <2>1, <3>2, Stepped, Zenon DEF Step
      <4> HIDE DEF e
      <4>2. PcOf(e) \notin TableSteps \cup InLock
        <5>1. e # NoCall
          BY <2>1, <4>1, Zenon DEF Goes, LastSteps, pc
        <5> QED BY <2>1, <4>1, <5>1, Zenon DEF Goes, Before, pc
      <4>3. ~Has(e.todo, "rdunlock")
        BY <2>1, <4>1, Zenon DEF Goes, Shape, Reading
      <4> QED BY <4>1, <4>2, <4>3, Zenon
    <3> QED BY <3>1, <3>2, Zenon DEF userfs_file_close
  <2>3. d \in Descriptors
    BY <2>1, Zenon DEF CallOK, pc, fd
  <2>6. /\ call'[t] = e /\ pc(t)' = PcOf(e)
        /\ \A u \in Threads \ {t} : call'[u] = call[u] /\ pc(u)' = pc(u)
    BY <2>2, Changed, Zenon
  <2>7. /\ UNCHANGED <<given, tableLock>>
        /\ ref'[d] = 0 /\ \A x \in Descriptors \ {d} : ref'[x] = ref[x]
        /\ type'[d] = "FD_NONE" /\ \A x \in Descriptors \ {d} : type'[x] = type[x]
        /\ \A x \in Descriptors \ {d} : ip'[x] = ip[x]
    BY <2>3, Zenon DEF userfs_file_close, lockVars, ghostVars, Typed
  <2>8. ref[d] = 1 /\ type[d] # "FD_NONE" /\ d \notin given
    BY <2>1, Zenon DEF Table, FdCall, Kind
  <2>9. given \subseteq Descriptors
    BY Zenon DEF Typed
  <2>10. \A u \in Threads \ {t} :
           /\ pc(u) \in {"take", "fill", "drop"} => fd(u) # d /\ fd(u) \in Descriptors
           /\ fd(u) \in given => fd(u) # d /\ fd(u) \in Descriptors
    <3> SUFFICES ASSUME NEW u \in Threads \ {t}
                 PROVE  pc(u) \in {"take", "fill", "drop"} => fd(u) # d /\ fd(u) \in Descriptors
      BY <2>8, <2>9, Zenon
    <3>1. pc(u) \in {"take", "fill", "drop"} => fd(u) \in Descriptors
      BY Zenon DEF Calling, CallOK, pc, fd
    <3>2. pc(u) \in {"take", "fill"} => fd(u) # d
      BY <2>8 DEF Table, OpenCall
    <3>3. pc(u) = "drop" => fd(u) # d
      BY <2>1, Zenon DEF Table, OneEach
    <3> QED BY <3>1, <3>2, <3>3, Zenon
  <2> HIDE DEF d
  <2>11. FreeFds'
    BY <2>7, Zenon DEF Table, FreeFds
  <2>12. GivenFds'
    BY <2>7, <2>8, <2>9, Zenon DEF Table, GivenFds
  <2>13. OneEach'
    BY <2>2, <2>6 DEF Table, OneEach, fd
  <2>14. \A u \in Threads \ {t} : OpenCall(u)'
    <3> SUFFICES ASSUME NEW u \in Threads \ {t} PROVE OpenCall(u)'
      BY Zenon
    <3>1. OpenCall(u) /\ call'[u] = call[u] /\ pc(u)' = pc(u)
      BY <2>6, Zenon DEF Table
    <3> QED BY <2>7, <2>10, <3>1, Zenon DEF OpenCall, fd
  <2>15. OpenCall(t)' /\ FdCall(t)'
    BY <2>2, <2>6, Zenon DEF OpenCall, FdCall
  <2>16. \A u \in Threads \ {t} : FdCall(u)'
    <3> SUFFICES ASSUME NEW u \in Threads \ {t} PROVE FdCall(u)'
      BY Zenon
    <3>1. FdCall(u) /\ call'[u] = call[u] /\ pc(u)' = pc(u)
      BY <2>6, Zenon DEF Table
    <3> QED BY <2>7, <2>10, <3>1 DEF FdCall, fd, ino
  <2>17. Table'
    BY <2>11, <2>12, <2>13, <2>14, <2>15, <2>16, Zenon DEF Table
  <2>18. Locks'
    BY <2>2, <1>LocksKept, Zenon DEF userfs_file_close, inodeVars, ghostVars
  <2>19. Busied'
    BY <2>1, <2>2, <1>BusiedOutside, Zenon DEF userfs_file_close, inodeVars, Inside
  <2> QED BY <2>2, <2>17, <2>18, <2>19, Changed, Zenon
\* What a step with a mutex or I_BUSY leaves of the table.
<1>LockStep.
    ASSUME Calling, Table, NEW t \in Threads, ~Idle(t), NEW r \in Int, StepWith(t, r),
           pc(t) \in {"iput", "put", "ilock", "iunlock", "unbusy"},
           UNCHANGED <<ref, type, ip, given, tableLock>>
    PROVE  /\ Changes(t, After(call[t], r)) /\ Goes(call[t], After(call[t], r))
           /\ Calling' /\ Table'
  <2> USE <1>LockStep
  <2> DEFINE e == After(call[t], r)
  <2>1. Changes(t, e) /\ Goes(call[t], e)
    BY Stepped, Zenon
  <2> HIDE DEF e
  <2>2. CASE e = NoCall
    <3>1. PcOf(e) = "idle" /\ ~Has(e.todo, "rdunlock")
      BY <2>2, NoCallOK, Zenon
    <3> QED BY <2>1, <3>1, <1>TableKept, Changed, Zenon DEF e
  <2>3. CASE e # NoCall
    <3>1. PcOf(e) \notin TableSteps
      BY <2>1, <2>3, Zenon DEF Goes, Before, pc
    <3>2. Has(e.todo, "rdunlock") =>
             Has(call[t].todo, "rdunlock") /\ e.fd = fd(t) /\ e.ino = ino(t)
      BY <2>1, <2>3, Zenon DEF Goes, fd, ino
    <3> QED BY <2>1, <3>1, <3>2, <1>TableKept, Changed, Zenon DEF e
  <2> QED BY <2>2, <2>3, Zenon
\* iput locks the inode, and unlocks it with the reference dropped.
<1>IputKeeps.
    ASSUME Typed, Calling, Table, Locks, Busied, NEW t \in Threads, iput(t)
    PROVE  Calling' /\ Table' /\ Locks' /\ Busied'
  <2> USE <1>IputKeeps
  <2>1. ASSUME At(t, "iput"), mutex[ino(t)] = Nobody,
               mutex' = [mutex EXCEPT ![ino(t)] = t], StepWith(t, i_ref[ino(t)]),
               UNCHANGED <<tableVars, off, lockVars, i_ref, size, busy, deleting, named, ghostVars>>
        PROVE  Calling' /\ Table' /\ Locks' /\ Busied'
    <3> DEFINE f == ino(t)
               r == i_ref[f]
               e == After(call[t], r)
    <3>1. pc(t) = "iput" /\ ~Idle(t) /\ CallOK(call[t])
      BY <2>1, AtFacts, Zenon
    <3>2. f \in Files /\ r \in Int
      BY <3>1, Zenon DEF CallOK, pc, ino, Typed
    <3> HIDE DEF r
    <3>3. Changes(t, e) /\ Goes(call[t], e) /\ Calling' /\ Table'
      BY <2>1, <3>1, <3>2, <1>LockStep, Zenon DEF tableVars, lockVars, ghostVars, r
    <3> HIDE DEF e
    <3>4. e # NoCall /\ PcOf(e) = "put" /\ e.ino = f
      <4>1. e # NoCall
        BY <3>1, <3>3, Zenon DEF Goes, LastSteps, pc
      <4> QED BY <3>1, <3>3, <4>1, Zenon DEF Goes, Before, pc, ino
    <3>5. /\ call'[t] = e
          /\ \A u \in Threads \ {t} : call'[u] = call[u] /\ pc(u)' = pc(u)
      BY <3>3, Changed, Zenon
    <3>6. mutex[f] = Nobody /\ mutex'[f] = t /\ foreign' = foreign
          /\ \A x \in Files \ {f} : mutex'[x] = mutex[x]
      BY <2>1, <3>2, Zenon DEF Typed, ghostVars
    <3> HIDE DEF f
    <3>7. Locks'
      <4> SUFFICES ASSUME ~foreign', NEW u \in Threads, pc(u)' \in InLock
                   PROVE  mutex'[ino(u)'] = u
        BY Zenon DEF Locks
      <4>1. CASE u = t
        BY <3>4, <3>5, <3>6, <4>1, Zenon DEF ino
      <4>2. CASE u # t
        <5>1. mutex[ino(u)] = u /\ ino(u)' = ino(u)
          BY <3>5, <3>6, <4>2, Zenon DEF Locks, ino
        <5>2. ino(u) \in Files
          BY <3>5, <4>2, Zenon DEF Calling, CallOK, pc, ino
        <5>3. u # Nobody
          BY OpenFilesAssumption, Zenon
        <5> QED BY <3>6, <5>1, <5>2, <5>3, Zenon
      <4> QED BY <4>1, <4>2, Zenon
    <3>8. Busied'
      BY <2>1, <3>1, <3>3, <1>BusiedOutside, Zenon DEF Inside
    <3> QED BY <3>3, <3>7, <3>8, Zenon
  <2>2. ASSUME At(t, "put"), mutex' = [mutex EXCEPT ![ino(t)] = Nobody], Step(t),
               UNCHANGED <<tableVars, off, lockVars, size, busy, deleting, named, ghostVars>>
        PROVE  Calling' /\ Table' /\ Locks' /\ Busied'
    <3> DEFINE f == ino(t)
               e == After(call[t], reg(t))
    <3>1. pc(t) = "put" /\ ~Idle(t) /\ CallOK(call[t]) /\ reg(t) \in Int
      BY <2>2, AtFacts, Zenon
    <3>2. f \in Files
      BY <3>1, Zenon DEF CallOK, pc, ino
    <3>3. Changes(t, e) /\ Goes(call[t], e) /\ Calling' /\ Table'
      BY <2>2, <3>1, <1>LockStep, Zenon DEF tableVars, lockVars, ghostVars, Step
    <3> HIDE DEF e
    <3>4. PcOf(e) \notin InLock
      <4>1. CASE e = NoCall
        BY <4>1, NoCallOK, Zenon
      <4>2. CASE e # NoCall
        BY <3>1, <3>3, <4>2, Zenon DEF Goes, Before, pc
      <4> QED BY <4>1, <4>2, Zenon
    <3>5. /\ call'[t] = e /\ pc(t)' = PcOf(e)
          /\ \A u \in Threads \ {t} : call'[u] = call[u] /\ pc(u)' = pc(u)
      BY <3>3, Changed, Zenon
    <3>6. /\ foreign' = foreign /\ \A x \in Files \ {f} : mutex'[x] = mutex[x]
      BY <2>2, <3>2, Zenon DEF Typed, ghostVars
    <3> HIDE DEF f
    <3>7. Locks'
      <4> SUFFICES ASSUME ~foreign', NEW u \in Threads, pc(u)' \in InLock
                   PROVE  mutex'[ino(u)'] = u
        BY Zenon DEF Locks
      <4>1. u # t
        BY <3>4, <3>5, Zenon
      <4>2. mutex[ino(u)] = u /\ ino(u)' = ino(u) /\ mutex[f] = t
        BY <3>1, <3>5, <3>6, <4>1, Zenon DEF Locks, ino, f
      <4>3. ino(u) \in Files
        BY <3>5, <4>1, Zenon DEF Calling, CallOK, pc, ino
      <4> QED BY <3>6, <4>1, <4>2, <4>3, Zenon
    <3>8. Busied'
      BY <2>2, <3>1, <3>3, <1>BusiedOutside, Zenon DEF Inside
    <3> QED BY <3>3, <3>7, <3>8, Zenon
  <2> QED BY <2>1, <2>2, Zenon DEF iput
\* ilock takes the mutex and sets the busy flag.
<1>IlockKeeps.
    ASSUME Typed, Calling, Table, Locks, Busied, NEW t \in Threads, ilock(t)
    PROVE  Calling' /\ Table' /\ Locks' /\ Busied'
  <2> USE <1>IlockKeeps
  <2> DEFINE f == ino(t)
             e == After(call[t], reg(t))
  <2>1. pc(t) = "ilock" /\ ~Idle(t) /\ CallOK(call[t]) /\ reg(t) \in Int
    BY AtFacts, Zenon DEF ilock
  <2>2. f \in Files
    BY <2>1, Zenon DEF CallOK, pc, ino
  <2>3. Changes(t, e) /\ Goes(call[t], e) /\ Calling' /\ Table'
    BY <2>1, <1>LockStep, Zenon DEF ilock, tableVars, lockVars, ghostVars, Step
  <2> HIDE DEF e
  <2>4. e # NoCall /\ e.ino = f /\ InsideOf(e, f)
    BY <2>1, <2>3, Zenon DEF Goes, pc, ino, InsideOf
  <2>5. /\ call'[t] = e
        /\ \A u \in Threads \ {t} : call'[u] = call[u] /\ pc(u)' = pc(u)
    BY <2>3, Changed, Zenon
  <2>6. /\ mutex[f] = Nobody /\ mutex'[f] = t /\ foreign' = foreign
        /\ \A x \in Files \ {f} : mutex'[x] = mutex[x] /\ busy'[x] = busy[x]
    BY <2>2, Zenon DEF ilock, Typed, ghostVars
  <2> HIDE DEF f
  <2>7. Locks'
    <3> SUFFICES ASSUME ~foreign', NEW u \in Threads, pc(u)' \in InLock
                 PROVE  mutex'[ino(u)'] = u
      BY Zenon DEF Locks
    <3>1. CASE u = t
      BY <2>4, <2>5, <2>6, <3>1, Zenon DEF ino
    <3>2. CASE u # t
      <4>1. mutex[ino(u)] = u /\ ino(u)' = ino(u)
        BY <2>5, <2>6, <3>2, Zenon DEF Locks, ino
      <4>2. ino(u) \in Files
        BY <2>5, <3>2, Zenon DEF Calling, CallOK, pc, ino
      <4>3. u # Nobody
        BY OpenFilesAssumption, Zenon
      <4> QED BY <2>6, <4>1, <4>2, <4>3, Zenon
    <3> QED BY <3>1, <3>2, Zenon
  <2>8. Busied'
    <3> SUFFICES ASSUME NEW x \in Files, busy'[x] PROVE \E u \in Threads : InsideOf(call'[u], x)
      BY Zenon DEF Busied
    <3>1. CASE x = f
      BY <2>4, <2>5, <3>1, Zenon
    <3>2. CASE x # f
      <4>1. PICK u \in Threads : InsideOf(call[u], x)
        BY <2>6, <3>2, Zenon DEF Busied
      <4>2. u # t
        BY <3>2, <4>1, Zenon DEF InsideOf, ino, f
      <4> QED BY <2>5, <4>1, <4>2, Zenon
    <3> QED BY <3>1, <3>2, Zenon
  <2> QED BY <2>3, <2>7, <2>8, Zenon
\* iunlock gives the mutex up first and clears the flag in a step of its own.
<1>IunlockKeeps.
    ASSUME Typed, Calling, Table, Locks, Busied, NEW t \in Threads, iunlock(t)
    PROVE  Calling' /\ Table' /\ Locks' /\ Busied'
  <2> USE <1>IunlockKeeps
  <2>1. ASSUME At(t, "iunlock"), mutex' = [mutex EXCEPT ![ino(t)] = Nobody],
               foreign' = (foreign \/ mutex[ino(t)] \notin {t, Nobody}), Step(t),
               UNCHANGED <<tableVars, off, lockVars, i_ref, size, busy, deleting, named, given,
                           leaked, aborted>>
        PROVE  Calling' /\ Table' /\ Locks' /\ Busied'
    <3> DEFINE f == ino(t)
               e == After(call[t], reg(t))
    <3>1. pc(t) = "iunlock" /\ ~Idle(t) /\ CallOK(call[t]) /\ reg(t) \in Int
      BY <2>1, AtFacts, Zenon
    <3>2. f \in Files
      BY <3>1, Zenon DEF CallOK, pc, ino
    <3>3. Changes(t, e) /\ Goes(call[t], e) /\ Calling' /\ Table'
      BY <2>1, <3>1, <1>LockStep, Zenon DEF tableVars, lockVars, Step
    <3> HIDE DEF e
    <3>4. e # NoCall /\ PcOf(e) \notin InLock /\ e.ino = f
      <4>1. e # NoCall
        BY <3>1, <3>3, Zenon DEF Goes, LastSteps, pc
      <4> QED BY <3>1, <3>3, <4>1, Zenon DEF Goes, Before, pc, ino
    <3>5. /\ call'[t] = e /\ pc(t)' = PcOf(e)
          /\ \A u \in Threads \ {t} : call'[u] = call[u] /\ pc(u)' = pc(u)
      BY <3>3, Changed, Zenon
    <3>6. /\ ~foreign' => ~foreign /\ mutex[f] \in {t, Nobody}
          /\ \A x \in Files \ {f} : mutex'[x] = mutex[x]
      BY <2>1, <3>2, Zenon DEF Typed
    <3>7. \A x \in Files : InsideOf(call[t], x) => InsideOf(e, x)
      <4>1. Has(e.todo, "unbusy") <=> Has(call[t].todo, "unbusy")
        BY <3>1, <3>3, Zenon DEF Goes, pc
      <4>2. Has(e.todo, "ilock") <=> Has(call[t].todo, "ilock")
        BY <3>1, <3>3, Zenon DEF Goes, pc
      <4> QED BY <3>4, <4>1, <4>2, Zenon DEF InsideOf, ino
    <3> HIDE DEF f
    <3>8. Locks'
      <4> SUFFICES ASSUME ~foreign', NEW u \in Threads, pc(u)' \in InLock
                   PROVE  mutex'[ino(u)'] = u
        BY Zenon DEF Locks
      <4>1. u # t
        BY <3>4, <3>5, Zenon
      <4>2. mutex[ino(u)] = u /\ ino(u)' = ino(u)
        BY <3>5, <3>6, <4>1 DEF Locks, ino
      <4>3. ino(u) \in Files
        BY <3>5, <4>1, Zenon DEF Calling, CallOK, pc, ino
      <4>4. u # Nobody
        BY OpenFilesAssumption, Zenon
      <4> QED BY <3>6, <4>1, <4>2, <4>3, <4>4, Zenon
    <3>9. Busied'
      BY <2>1, <3>3, <3>7, <1>BusiedKept, Zenon
    <3> QED BY <3>3, <3>8, <3>9, Zenon
  <2>2. ASSUME At(t, "unbusy"), busy' = [busy EXCEPT ![ino(t)] = FALSE], Step(t),
               UNCHANGED <<tableVars, off, lockVars, i_ref, size, mutex, deleting, named, ghostVars>>
        PROVE  Calling' /\ Table' /\ Locks' /\ Busied'
    <3> DEFINE f == ino(t)
               e == After(call[t], reg(t))
    <3>1. pc(t) = "unbusy" /\ ~Idle(t) /\ CallOK(call[t]) /\ reg(t) \in Int
      BY <2>2, AtFacts, Zenon
    <3>2. f \in Files
      BY <3>1, Zenon DEF CallOK, pc, ino
    <3>3. Changes(t, e) /\ Goes(call[t], e) /\ Calling' /\ Table'
      BY <2>2, <3>1, <1>LockStep, Zenon DEF tableVars, lockVars, ghostVars, Step
    <3> HIDE DEF e
    <3>4. PcOf(e) \notin InLock
      <4>1. CASE e = NoCall
        BY <4>1, NoCallOK, Zenon
      <4>2. CASE e # NoCall
        BY <3>1, <3>3, <4>2, Zenon DEF Goes, Before, pc
      <4> QED BY <4>1, <4>2, Zenon
    <3>5. /\ \A u \in Threads \ {t} : call'[u] = call[u]
      BY <3>3, Changed, Zenon
    <3>6. ~busy'[f] /\ \A x \in Files \ {f} : busy'[x] = busy[x]
      BY <2>2, <3>2, Zenon DEF Typed
    <3> HIDE DEF f
    <3>7. Locks'
      BY <2>2, <3>3, <3>4, <1>LocksKept, Zenon DEF ghostVars
    <3>8. Busied'
      <4> SUFFICES ASSUME NEW x \in Files, busy'[x] PROVE \E u \in Threads : InsideOf(call'[u], x)
        BY Zenon DEF Busied
      <4>1. x # f /\ busy[x]
        BY <3>6, Zenon
      <4>2. PICK u \in Threads : InsideOf(call[u], x)
        BY <4>1, Zenon DEF Busied
      <4>3. u # t
        BY <4>1, <4>2, Zenon DEF InsideOf, ino, f
      <4> QED BY <3>5, <4>2, <4>3, Zenon
    <3> QED BY <3>3, <3>7, <3>8, Zenon
  <2> QED BY <2>1, <2>2, Zenon DEF iunlock
\* A read that finds the offset at the end of the file.
<1>AtEndKeeps.
    ASSUME Calling, Table, Locks, Busied, NEW t \in Threads, AtEnd(t)
    PROVE  Calling' /\ Table' /\ Locks' /\ Busied'
  <2> USE <1>AtEndKeeps
  <2>1. /\ pc(t) = "end" /\ ~Idle(t) /\ CallOK(call[t]) /\ call[t] \in CallRecords
        /\ call[t] # NoCall /\ Shape(call[t].todo) /\ Head(call[t].todo) = "end"
    BY AtFacts, Zenon DEF AtEnd
  <2> DEFINE q == <<"iunlock", "unbusy", "rdunlock">>
             e == [call[t] EXCEPT !.todo = q]
  <2>2. Has(call[t].todo, "rdunlock")
    BY <2>1, Zenon DEF Shape, Holding
  <2>3. call' = [call EXCEPT ![t] = e]
    BY Zenon DEF AtEnd, GoTo, Calling
  <2>4. /\ q \in Todos /\ q \in Seq(Steps) /\ q # <<>> /\ Head(q) = "iunlock"
        /\ Has(q, "rdunlock") /\ Has(q, "unbusy") /\ ~Has(q, "ilock")
    BY ReadEndShape, Zenon
  <2> HIDE DEF q
  <2>5. /\ e \in CallRecords /\ e.todo = q /\ e.fd = call[t].fd /\ e.ino = call[t].ino
        /\ e.got = call[t].got /\ e.reg = call[t].reg
    BY <2>1, <2>4, Zenon DEF CallRecords
  <2> HIDE DEF e
  <2>6. e # NoCall /\ PcOf(e) = "iunlock"
    BY <2>4, <2>5 DEF NoCall, PcOf
  <2>7. CallOK(e)
    <3>1. e.ino \in Files /\ e.fd \in Descriptors
      BY <2>1, <2>2, <2>5, Zenon DEF CallOK, pc
    <3> QED BY <2>4, <2>5, <2>6, <3>1, Zenon DEF CallOK
  <2>8. Changes(t, e)
    BY <2>3, <2>7, Zenon DEF Changes
  <2>9. Table'
    BY <2>2, <2>5, <2>6, <2>8, <1>TableKept, Zenon DEF AtEnd, tableVars, lockVars, ghostVars, fd, ino
  <2>10. Locks'
    BY <2>6, <2>8, <1>LocksKept, Zenon DEF AtEnd, inodeVars, ghostVars
  <2>11. \A f \in Files : InsideOf(call[t], f) => InsideOf(e, f)
    BY <2>4, <2>5, Zenon DEF InsideOf
  <2>12. Busied'
    BY <2>8, <2>11, <1>BusiedKept, Zenon DEF AtEnd, inodeVars
  <2> QED BY <2>8, <2>9, <2>10, <2>12, Changed, Zenon
\* A read once readi has returned.
<1>ReadsKeeps.
    ASSUME Typed, Calling, Table, Locks, Busied, NEW t \in Threads, NEW n \in Nat, Reads(t, n),
           At(t, "clip") \/ At(t, "short"),
           UNCHANGED <<ref, type, ip, given, tableLock, mutex, foreign, busy>>
    PROVE  Calling' /\ Table' /\ Locks' /\ Busied'
  <2> USE <1>ReadsKeeps
  <2>1. /\ pc(t) \in {"clip", "short"} /\ ~Idle(t) /\ CallOK(call[t]) /\ call[t] \in CallRecords
        /\ call[t] # NoCall /\ Shape(call[t].todo) /\ Head(call[t].todo) = pc(t)
    BY AtFacts, Zenon
  <2> DEFINE q == <<"advance", "iunlock", "unbusy", "rdunlock">>
             o == off[fd(t)]
             g == IF n = 0 THEN call[t].got ELSE <<o, o + n>>
             e == HasRead(call[t], q, n, g)
  <2>2. Has(call[t].todo, "rdunlock") /\ fd(t) \in Descriptors /\ ino(t) \in Files
    BY <2>1, Zenon DEF Shape, Holding, CallOK, pc, fd, ino
  <2>3. /\ q \in Todos /\ q \in Seq(Steps) /\ q # <<>> /\ Head(q) = "advance"
        /\ Has(q, "rdunlock") /\ Has(q, "unbusy") /\ ~Has(q, "ilock")
    BY ReadDoneShape, Zenon
  <2>4. g \in Int \X Int /\ n \in Int
    <3>1. o \in Nat /\ call[t].got \in Int \X Int
      BY <2>1, <2>2, Zenon DEF Typed, CallRecords
    <3> HIDE DEF o
    <3> QED BY <3>1
  <2>5. call' = [call EXCEPT ![t] = e]
    BY <2>1, Zenon DEF Reads, Calling, CallRecords, HasRead
  <2> HIDE DEF q, g
  <2>6. /\ e \in CallRecords /\ e.todo = q /\ e.fd = call[t].fd /\ e.ino = call[t].ino
        /\ e.reg = n
    BY <2>1, <2>3, <2>4, ReadRecord
  <2> HIDE DEF e
  <2>7. e # NoCall /\ PcOf(e) = "advance"
    BY <2>3, <2>6 DEF NoCall, PcOf
  <2>8. CallOK(e)
    BY <2>2, <2>3, <2>6, <2>7, Zenon DEF CallOK, fd, ino
  <2>9. Changes(t, e)
    BY <2>5, <2>8, Zenon DEF Changes
  <2>10. Table'
    BY <2>2, <2>6, <2>7, <2>9, <1>TableKept, Zenon DEF fd, ino
  <2>11. Locks'
    BY <2>1, <2>6, <2>9, <1>LocksHeld, Zenon DEF ino
  <2>12. \A f \in Files : InsideOf(call[t], f) => InsideOf(e, f)
    BY <2>3, <2>6, Zenon DEF InsideOf
  <2>13. Busied'
    BY <2>9, <2>12, <1>BusiedKept, Zenon
  <2> QED BY <2>9, <2>10, <2>11, <2>13, Changed, Zenon
\* The steps that touch neither the table, nor a mutex, nor a busy flag ...
<1>QuietStep.
    ASSUME Calling, Table, Locks, Busied, NEW t \in Threads, ~Idle(t), NEW r \in Int,
           StepWith(t, r),
           pc(t) \notin {"lock_table", "scan", "take", "fill", "drop", "iput", "ilock", "short",
                         "unbusy", "seek"},
           UNCHANGED <<ref, type, ip, given, tableLock, mutex, foreign, busy>>
    PROVE  Calling' /\ Table' /\ Locks' /\ Busied'
  <2> USE <1>QuietStep
  <2> DEFINE e == After(call[t], r)
  <2>1. Changes(t, e) /\ Goes(call[t], e)
    BY Stepped, Zenon
  <2> HIDE DEF e
  <2>2. PcOf(e) \notin TableSteps
    <3>1. CASE e = NoCall
      BY <3>1, NoCallOK, Zenon
    <3>2. CASE e # NoCall
      BY <2>1, <3>2, Zenon DEF Goes, Before, pc
    <3> QED BY <3>1, <3>2, Zenon
  <2>3. Has(e.todo, "rdunlock") =>
             Has(call[t].todo, "rdunlock") /\ e.fd = fd(t) /\ e.ino = ino(t)
    <3>1. CASE e = NoCall
      BY <3>1, NoCallOK, Zenon
    <3>2. CASE e # NoCall
      BY <2>1, <3>2, Zenon DEF Goes, fd, ino
    <3> QED BY <3>1, <3>2, Zenon
  <2>4. \A f \in Files : InsideOf(call[t], f) => InsideOf(e, f)
    <3>1. Has(e.todo, "unbusy") <=> Has(call[t].todo, "unbusy")
      BY <2>1, Zenon DEF Goes, pc
    <3>2. Has(e.todo, "ilock") <=> Has(call[t].todo, "ilock")
      BY <2>1, Zenon DEF Goes, pc
    <3>3. CASE e = NoCall
      BY <3>1, <3>3, NoCallOK, Zenon DEF InsideOf
    <3>4. CASE e # NoCall
      BY <2>1, <3>1, <3>2, <3>4, Zenon DEF Goes, InsideOf
    <3> QED BY <3>3, <3>4, Zenon
  <2>5. Locks'
    <3>1. CASE e = NoCall
      BY <2>1, <3>1, <1>LocksKept, NoCallOK, Zenon
    <3>2. CASE e # NoCall /\ pc(t) \in InLock
      BY <2>1, <3>2, <1>LocksHeld, Zenon DEF Goes, ino
    <3>3. CASE e # NoCall /\ pc(t) \notin InLock
      <4>1. PcOf(e) \notin InLock
        BY <2>1, <3>3, Zenon DEF Goes, Before, pc
      <4> QED BY <2>1, <4>1, <1>LocksKept, Zenon
    <3> QED BY <3>1, <3>2, <3>3, Zenon
  <2> QED BY <2>1, <2>2, <2>3, <2>4, <2>5, Changed, <1>TableKept, <1>BusiedKept, Zenon
\* ... and those of them that end their call.
<1>QuietReturn.
    ASSUME Calling, Table, Locks, Busied, NEW t \in Threads, Return(t),
           pc(t) \notin Inside,
           UNCHANGED <<ref, type, ip, given, tableLock, mutex, foreign, busy>>
    PROVE  Calling' /\ Table' /\ Locks' /\ Busied'
  <2> USE <1>QuietReturn
  <2>1. Changes(t, NoCall)
    BY <1>Returned, Zenon
  <2>2. PcOf(NoCall) = "idle" /\ ~Has(NoCall.todo, "rdunlock")
    BY NoCallOK, Zenon
  <2>3. \A f \in Files : ~InsideOf(call[t], f)
    BY <1>OutsideOf, Zenon DEF Calling, pc
  <2>4. Calling'
    BY <2>1, Changed, Zenon
  <2>5. Table'
    BY <2>1, <2>2, <1>TableKept, Zenon
  <2>6. Locks'
    BY <2>1, <2>2, <1>LocksKept, Zenon
  <2>7. Busied'
    BY <2>1, <2>3, <1>BusiedKept, Zenon
  <2> QED BY <2>4, <2>5, <2>6, <2>7, Zenon
\* A state in which nothing of this has changed.
<1>AllKept.
    ASSUME Calling, Table, Locks, Busied,
           UNCHANGED <<ref, type, ip, given, tableLock, mutex, foreign, busy, call>>
    PROVE  Calling' /\ Table' /\ Locks' /\ Busied'
  BY <1>AllKept, Zenon DEF Calling, Table, FreeFds, GivenFds, OneEach, OpenCall, FdCall, Locks,
                           Busied, pc, fd, ino
\* The steps of readi.
<1>ReadiKeeps.
    ASSUME Typed, Calling, Table, Locks, Busied, NEW t \in Threads, readi(t)
    PROVE  Calling' /\ Table' /\ Locks' /\ Busied'
  <2> USE <1>ReadiKeeps
  <2>1. UNCHANGED <<ref, type, ip, given, tableLock, mutex, foreign, busy>>
    BY Zenon DEF readi, AssertOffset, Clip, Shorten, tableVars, lockVars, inodeVars, ghostVars
  <2>2. CASE AssertOffset(t)
    <3>1. pc(t) = "readi" /\ ~Idle(t) /\ reg(t) \in Int /\ StepWith(t, reg(t))
      BY <2>2, AtFacts, Zenon DEF AssertOffset, Step
    <3> QED BY <2>1, <3>1, <1>QuietStep, Zenon
  <2>3. CASE Clip(t)
    <3>1. pc(t) = "clip" /\ ~Idle(t) /\ reg(t) \in Int
      BY <2>3, AtFacts, Zenon DEF Clip
    <3>2. StepWith(t, reg(t)) \/ Reads(t, ReadSize)
      BY <2>3, Zenon DEF Clip, Step
    <3>3. At(t, "clip") /\ ReadSize \in Nat
      BY <2>3, OpenFilesAssumption DEF Clip
    <3> QED BY <2>1, <3>1, <3>2, <3>3, <1>QuietStep, <1>ReadsKeeps, Zenon
  <2>4. CASE Shorten(t)
    <3> DEFINE left == size[ino(t)] - off[fd(t)]
    <3>1. At(t, "short") /\ (UNCHANGED call \/ (~(left < 0) /\ Reads(t, left)))
      BY <2>4, Zenon DEF Shorten
    <3>2. CASE UNCHANGED call
      BY <2>1, <3>2, <1>AllKept, Zenon
    <3>3. CASE ~(left < 0) /\ Reads(t, left)
      <4>1. /\ pc(t) = "short" /\ CallOK(call[t]) /\ Shape(call[t].todo)
            /\ Head(call[t].todo) = "short"
        BY <3>1, AtFacts, Zenon
      <4>2. fd(t) \in Descriptors /\ ino(t) \in Files
        BY <4>1, Zenon DEF Shape, Holding, CallOK, pc, fd, ino
      <4>3. off[fd(t)] \in Nat /\ size[ino(t)] \in 0..MaxSize
        BY <4>2, Zenon DEF Typed
      <4>4. left \in Nat
        BY <3>3, <4>3, OpenFilesAssumption
      <4> HIDE DEF left
      <4> QED BY <2>1, <3>1, <3>3, <4>4, <1>ReadsKeeps, Zenon
    <3> QED BY <3>1, <3>2, <3>3, Zenon
  <2> QED BY <2>2, <2>3, <2>4, Zenon DEF readi
\* A seek from the end moves the end first.
<1>SeekEndKeeps.
    ASSUME Calling, Table, Locks, Busied, NEW t \in Threads, At(t, "seek"), Step(t),
           ino(t) \in Files,
           UNCHANGED <<ref, type, ip, given, tableLock, mutex, foreign, busy>>
    PROVE  Calling' /\ Table' /\ Locks' /\ Busied'
  <2> USE <1>SeekEndKeeps
  <2> DEFINE e == After(call[t], reg(t))
  <2>1. pc(t) = "seek" /\ ~Idle(t) /\ reg(t) \in Int /\ StepWith(t, reg(t))
    BY AtFacts, Zenon DEF Step
  <2>2. Changes(t, e) /\ Goes(call[t], e)
    BY <2>1, Stepped, Zenon
  <2> HIDE DEF e
  <2>3. e # NoCall /\ PcOf(e) = "seek_end" /\ e.fd = fd(t) /\ e.ino = ino(t)
    <3>1. e # NoCall
      BY <2>1, <2>2, Zenon DEF Goes, LastSteps, pc
    <3> QED BY <2>1, <2>2, <3>1, Zenon DEF Goes, Before, pc, fd, ino
  <2>4. fd(t) \in given /\ ip[fd(t)] = ino(t)
    BY <2>1, OpenFilesAssumption, Zenon DEF Table, FdCall
  <2>5. Has(e.todo, "rdunlock") => Has(call[t].todo, "rdunlock")
    BY <2>2, Zenon DEF Goes
  <2>6. Table'
    BY <2>2, <2>3, <2>4, <2>5, <1>TableKept, Zenon
  <2>7. Locks'
    BY <2>2, <2>3, <1>LocksKept, Zenon
  <2>8. Busied'
    BY <2>1, <2>2, <1>BusiedOutside, Zenon DEF Inside
  <2> QED BY <2>2, <2>6, <2>7, <2>8, Changed, Zenon
\* The steps that only go on, or return.
<1>QuietKeeps.
    ASSUME Typed, Calling, Table, Locks, Busied, NEW t \in Threads,
           \/ namei(t) \/ Load(t) \/ Store(t) \/ BeforeEnd(t) \/ Advance(t)
           \/ Rdlock(t) \/ Rdunlock(t)
           \/ RefCheck(t) \/ itrunc(t) \/ userfs_posix_lseek(t) \/ Remove(t) \/ idealloc(t)
    PROVE  Calling' /\ Table' /\ Locks' /\ Busied'
  <2> USE <1>QuietKeeps
  <2>0. ASSUME NEW s, At(t, s), s \notin {"idle", "seek"} PROVE i_ref[ino(t)] \in Int
    BY <2>0, AtFacts, Zenon DEF CallOK, pc, ino, Typed
  <2>1. CASE namei(t)
    <3>1. /\ pc(t) = "namei" /\ ~Idle(t) /\ i_ref[ino(t)] \in Int
          /\ UNCHANGED <<ref, type, ip, given, tableLock, mutex, foreign, busy>>
      BY <2>0, <2>1, AtFacts, Zenon DEF namei, tableVars, lockVars, inodeVars, ghostVars
    <3>2. StepWith(t, i_ref[ino(t)]) \/ Return(t)
      BY <2>1, Zenon DEF namei
    <3> QED BY <3>1, <3>2, <1>QuietStep, <1>QuietReturn, Zenon DEF Inside
  <2>2. CASE Load(t)
    <3>1. /\ pc(t) = "load" /\ ~Idle(t) /\ i_ref[ino(t)] \in Int /\ StepWith(t, i_ref[ino(t)])
          /\ UNCHANGED <<ref, type, ip, given, tableLock, mutex, foreign, busy>>
      BY <2>0, <2>2, AtFacts, Zenon DEF Load, tableVars, lockVars, inodeVars, ghostVars
    <3> QED BY <3>1, <1>QuietStep, Zenon
  <2>3. CASE Store(t)
    <3>1. /\ pc(t) \in {"incr", "decr"} /\ ~Idle(t) /\ reg(t) \in Int /\ StepWith(t, reg(t))
          /\ UNCHANGED <<ref, type, ip, given, tableLock, mutex, foreign, busy>>
      BY <2>3, AtFacts, Zenon DEF Store, Step, tableVars, lockVars, ghostVars
    <3> QED BY <3>1, <1>QuietStep, Zenon
  <2>4. CASE BeforeEnd(t) \/ Advance(t)
    <3>1. /\ pc(t) \in {"end", "advance"} /\ ~Idle(t) /\ reg(t) \in Int /\ StepWith(t, reg(t))
          /\ UNCHANGED <<ref, type, ip, given, tableLock, mutex, foreign, busy>>
      BY <2>4, AtFacts, Zenon DEF BeforeEnd, Advance, Step, tableVars, lockVars, inodeVars, ghostVars
    <3> QED BY <3>1, <1>QuietStep, Zenon
  <2>5. CASE Rdlock(t)
    <3>1. /\ pc(t) = "rdlock" /\ ~Idle(t) /\ reg(t) \in Int /\ StepWith(t, reg(t))
          /\ UNCHANGED <<ref, type, ip, given, tableLock, mutex, foreign, busy>>
      BY <2>5, AtFacts, Zenon DEF Rdlock, Step, tableVars, inodeVars, ghostVars
    <3> QED BY <3>1, <1>QuietStep, Zenon
  <2>6. CASE Rdunlock(t)
    <3>1. /\ pc(t) = "rdunlock" /\ ~Idle(t) /\ reg(t) \in Int /\ StepWith(t, reg(t))
          /\ UNCHANGED <<ref, type, ip, given, tableLock, mutex, foreign, busy>>
      BY <2>6, AtFacts, Zenon DEF Rdunlock, Step, tableVars, inodeVars, ghostVars
    <3> QED BY <3>1, <1>QuietStep, Zenon
  <2>7. CASE RefCheck(t)
    <3>1. /\ pc(t) = "ref" /\ ~Idle(t) /\ reg(t) \in Int
          /\ UNCHANGED <<ref, type, ip, given, tableLock, mutex, foreign, busy>>
      BY <2>7, AtFacts, Zenon DEF RefCheck, tableVars, lockVars, inodeVars, ghostVars
    <3>2. StepWith(t, reg(t)) \/ Return(t)
      BY <2>7, Zenon DEF RefCheck, Step
    <3> QED BY <3>1, <3>2, <1>QuietStep, <1>QuietReturn, Zenon DEF Inside
  <2>8. CASE itrunc(t)
    <3>1. /\ pc(t) = "itrunc" /\ ~Idle(t) /\ reg(t) \in Int /\ StepWith(t, reg(t))
          /\ UNCHANGED <<ref, type, ip, given, tableLock, mutex, foreign, busy>>
      BY <2>8, AtFacts, Zenon DEF itrunc, Step, tableVars, lockVars, ghostVars
    <3> QED BY <3>1, <1>QuietStep, Zenon
  <2>9. CASE userfs_posix_lseek(t)
    <3>1. UNCHANGED <<ref, type, ip, given, tableLock, mutex, foreign, busy>>
      BY <2>9, Zenon DEF userfs_posix_lseek, SeekClosed, SeekTo, SeekEnd, tableVars, lockVars, inodeVars,
                  ghostVars
    <3>2. CASE SeekClosed(t) \/ SeekTo(t)
      <4>1. pc(t) = "seek" /\ Return(t)
        BY <3>2, AtFacts, Zenon DEF SeekClosed, SeekTo
      <4> QED BY <3>1, <4>1, <1>QuietReturn, Zenon DEF Inside
    <3>3. CASE SeekEnd(t) /\ At(t, "seek")
      <4>1. ino(t) \in Files /\ Step(t)
        <5>1. pc(t) = "seek"
          BY <3>3, AtFacts, Zenon
        <5>2. ASSUME At(t, "seek_end") PROVE FALSE
          <6>1. pc(t) = "seek_end"
            BY <5>2, AtFacts, Zenon
          <6> QED BY <5>1, <6>1
        <5> QED BY <3>3, <5>2, Zenon DEF SeekEnd
      <4> QED BY <3>1, <3>3, <4>1, <1>SeekEndKeeps, Zenon
    <3>4. CASE SeekEnd(t) /\ ~At(t, "seek")
      <4>1. pc(t) = "seek_end" /\ ~Idle(t) /\ reg(t) \in Int /\ StepWith(t, reg(t))
        BY <3>4, AtFacts, Zenon DEF SeekEnd, Step
      <4> QED BY <3>1, <4>1, <1>QuietStep, Zenon
    <3> QED BY <2>9, <3>2, <3>3, <3>4, Zenon DEF userfs_posix_lseek
  <2>10. CASE Remove(t)
    <3>1. /\ pc(t) = "remove" /\ ~Idle(t) /\ reg(t) \in Int
          /\ UNCHANGED <<ref, type, ip, given, tableLock, mutex, foreign, busy>>
      BY <2>10, AtFacts, Zenon DEF Remove, tableVars, lockVars, ghostVars
    <3>2. StepWith(t, reg(t)) \/ Return(t)
      BY <2>10, Zenon DEF Remove, Step
    <3> QED BY <3>1, <3>2, <1>QuietStep, <1>QuietReturn, Zenon DEF Inside
  <2>11. CASE idealloc(t)
    <3>1. /\ pc(t) \in {"idealloc", "delete"} /\ ~Idle(t) /\ reg(t) \in Int /\ StepWith(t, reg(t))
      BY <2>11, AtFacts, Zenon DEF idealloc, AssertRefs, Delete, Step
    <3>2. UNCHANGED <<ref, type, ip, given, tableLock, mutex, foreign, busy>>
      BY <2>11, Zenon DEF idealloc, AssertRefs, Delete, tableVars, lockVars, inodeVars, ghostVars
    <3> QED BY <3>1, <3>2, <1>QuietStep, Zenon
  <2> QED BY <2>1, <2>2, <2>3, <2>4, <2>5, <2>6, <2>7, <2>8, <2>9, <2>10, <2>11, Zenon
\* The table when a call begins that is not a close.
<1>TableBegun.
    ASSUME Calling, Table, NEW t \in Threads, NEW e, Changes(t, e),
           UNCHANGED <<ref, type, ip, given, tableLock>>,
           PcOf(e) \in {"namei", "rdlock", "ref", "seek"}, e.fd \in given => ip[e.fd] = e.ino,
           Has(e.todo, "rdunlock") => e.fd \in given,
           PcOf(e) = "seek" => e.ino = NoFile \/ e.fd \in given
    PROVE  Table'
  <2> USE <1>TableBegun
  <2>1. /\ call'[t] = e /\ pc(t)' = PcOf(e)
        /\ \A u \in Threads \ {t} : call'[u] = call[u] /\ pc(u)' = pc(u)
    BY Changed, Zenon
  <2>2. FreeFds' /\ GivenFds'
    BY Zenon DEF Table, FreeFds, GivenFds
  <2>3. OneEach'
    BY <2>1 DEF Table, OneEach, fd
  <2>4. \A u \in Threads : OpenCall(u)'
    BY <2>1, Zenon DEF Table, OpenCall, fd
  <2>5. ASSUME NEW u \in Threads \ {t} PROVE FdCall(u)'
    <3>1. /\ pc(u)' = pc(u) /\ call'[u].todo = call[u].todo
          /\ fd(u)' = fd(u) /\ ino(u)' = ino(u)
      BY <2>1, <2>5, Zenon DEF fd, ino
    <3>2. FdCall(u)
      BY <2>5, Zenon DEF Table
    <3> QED BY <3>1, <3>2, Zenon DEF FdCall
  <2>6. FdCall(t)'
    <3>1. /\ pc(t)' \in {"namei", "rdlock", "ref", "seek"}
          /\ fd(t)' = e.fd /\ ino(t)' = e.ino /\ call'[t].todo = e.todo
      BY <2>1, Zenon DEF fd, ino
    <3> QED BY <2>1, <3>1 DEF FdCall
  <2> QED BY <2>2, <2>3, <2>4, <2>5, <2>6, Zenon DEF Table
\* A thread that begins a call that is not a close.
<1>BeginKeeps.
    ASSUME Typed, Calling, Table, Locks, Busied, NEW t \in Threads, Idle(t),
           NEW P \in Programs, NEW d \in Descriptors \cup {NoFd}, NEW f \in Files \cup {NoFile},
           Begin(t, P, d, f), Head(P) \in {"namei", "rdlock", "ref", "seek"},
           Head(P) # "seek" => f \in Files,
           Head(P) \in {"rdlock", "seek"} => d \in Descriptors,
           d \in given => ip[d] = f, Head(P) = "rdlock" => d \in given,
           Head(P) = "seek" => f = NoFile \/ d \in given,
           UNCHANGED <<tableVars, off, lockVars, inodeVars, ghostVars>>
    PROVE  Calling' /\ Table' /\ Locks' /\ Busied'
  <2> USE <1>BeginKeeps
  <2> DEFINE e == NewCall(P, d, f)
  <2>1. /\ Changes(t, e) /\ PcOf(e) = Head(P) /\ e.todo = P /\ e.fd = d /\ e.ino = f
        /\ Has(P, "rdunlock") => Head(P) = "rdlock"
    <3>1. Head(P) # "drop"
      OBVIOUS
    <3>2. MayBegin(P, d, f)
      BY <3>1, Zenon DEF MayBegin
    <3>3. Begins(t, P, d, f, e)
      BY <3>2, Begun, Zenon
    <3> QED BY <3>3, Zenon DEF Begins
  <2> HIDE DEF e
  <2>2. UNCHANGED <<ref, type, ip, given, tableLock, mutex, foreign, busy>>
    BY Zenon DEF tableVars, lockVars, inodeVars, ghostVars
  <2>3. Table'
    BY <2>1, <2>2, <1>TableBegun, Zenon
  <2>4. Locks'
    BY <2>1, <2>2, <1>LocksKept, Zenon
  <2>5. pc(t) = "idle"
    BY Zenon DEF Idle, pc, PcOf
  <2>6. Busied'
    BY <2>1, <2>2, <2>5, <1>BusiedOutside, Zenon DEF Inside
  <2> QED BY <2>1, <2>3, <2>4, <2>6, Changed, Zenon
\* The calls that begin, a close apart.
<1>CallKeeps.
    ASSUME Typed, Calling, Table, Locks, Busied, NEW t \in Threads,
           \/ \E f \in Files, c \in DOMAIN PathCalls : CallPath(t, f, c)
           \/ \E d \in Descriptors, c \in DOMAIN FdCalls : CallFd(t, d, c)
           \/ \E d \in Descriptors : CallStray(t, d)
    PROVE  Calling' /\ Table' /\ Locks' /\ Busied'
  <2> USE <1>CallKeeps
  <2>1. ASSUME NEW f \in Files, NEW c \in DOMAIN PathCalls, CallPath(t, f, c)
        PROVE  Calling' /\ Table' /\ Locks' /\ Busied'
    <3> DEFINE P == PathCalls[c]
    <3>1. P \in Programs /\ Head(P) = "namei"
      BY ProgramHeads, Zenon
    <3>2. /\ Idle(t) /\ Begin(t, P, NoFd, f)
          /\ UNCHANGED <<tableVars, off, lockVars, inodeVars, ghostVars>>
      BY <2>1, Zenon DEF CallPath
    <3>3. NoFd \notin given
      BY OpenFilesAssumption, Zenon DEF Typed
    <3> HIDE DEF P
    <3> QED BY <3>1, <3>2, <3>3, <1>BeginKeeps, Zenon
  <2>2. ASSUME NEW d \in Descriptors, NEW c \in DOMAIN FdCalls, CallFd(t, d, c)
        PROVE  Calling' /\ Table' /\ Locks' /\ Busied'
    <3> DEFINE P == FdCalls[c]
               f == ip[d]
    <3>1. P \in Programs /\ Head(P) \in {"rdlock", "ref", "seek"}
      BY ProgramHeads, Zenon
    <3>2. /\ Idle(t) /\ Begin(t, P, d, f) /\ d \in given
          /\ UNCHANGED <<tableVars, off, lockVars, inodeVars, ghostVars>>
      BY <2>2, Zenon DEF CallFd
    <3>3. f \in Files
      BY <3>2, Zenon DEF Table, GivenFds
    <3> HIDE DEF P
    <3> QED BY <3>1, <3>2, <3>3, <1>BeginKeeps, Zenon
  <2>3. ASSUME NEW d \in Descriptors, CallStray(t, d)
        PROVE  Calling' /\ Table' /\ Locks' /\ Busied'
    <3>1. SeekSteps \in Programs /\ Head(SeekSteps) = "seek"
      BY ProgramHeads, Zenon
    <3>2. /\ Idle(t) /\ Begin(t, SeekSteps, d, NoFile) /\ d \notin given
          /\ UNCHANGED <<tableVars, off, lockVars, inodeVars, ghostVars>>
      BY <2>3, Zenon DEF CallStray
    <3> QED BY <3>1, <3>2, <1>BeginKeeps, Zenon
  <2> QED BY <2>1, <2>2, <2>3, Zenon
\* A thread that begins to close a descriptor.
<1>CallCloseKeeps.
    ASSUME Typed, Calling, Table, Locks, Busied, NEW t \in Threads,
           NEW d \in Descriptors, CallClose(t, d)
    PROVE  Calling' /\ Table' /\ Locks' /\ Busied'
  <2> USE <1>CallCloseKeeps
  <2> DEFINE f == ip[d]
             e == NewCall(CloseSteps, d, f)
  <2>1. d \in given /\ d \notin BusyFds /\ given' = given \ {d} /\ Idle(t)
        /\ UNCHANGED <<ref, type, ip, tableLock, mutex, foreign, busy>>
        /\ Begin(t, CloseSteps, d, f)
    BY Zenon DEF CallClose, tableVars, lockVars, inodeVars
  <2>2. f \in Files /\ ref[d] = 1 /\ type[d] = Kind(ip[d])
    BY <2>1, Zenon DEF Table, GivenFds
  <2>3. CloseSteps \in Programs /\ Head(CloseSteps) = "drop"
    BY ProgramHeads, Zenon
  <2>4. /\ Changes(t, e) /\ PcOf(e) = "drop" /\ e.todo = CloseSteps /\ e.fd = d /\ e.ino = f
        /\ ~Has(CloseSteps, "rdunlock")
    <3>1. MayBegin(CloseSteps, d, f)
      BY <2>2, <2>3, Zenon DEF MayBegin
    <3>2. Begins(t, CloseSteps, d, f, e)
      BY <2>1, <3>1, Begun, Zenon
    <3>3. "drop" # "rdlock"
      OBVIOUS
    <3> QED BY <2>3, <3>2, <3>3, Zenon DEF Begins
  <2> HIDE DEF e
  <2>5. /\ call'[t] = e /\ pc(t)' = "drop"
        /\ \A u \in Threads \ {t} : call'[u] = call[u] /\ pc(u)' = pc(u)
    BY <2>4, Changed, Zenon
  <2>6. \A u \in Threads : fd(u) # d
    BY <2>1, Zenon DEF BusyFds
  <2>7. FreeFds' /\ GivenFds'
    BY <2>1, Zenon DEF Table, FreeFds, GivenFds
  <2>8. OneEach'
    BY <2>4, <2>5, <2>6 DEF Table, OneEach, fd
  <2>9. \A u \in Threads : OpenCall(u)'
    BY <2>1, <2>5, Zenon DEF Table, OpenCall, fd
  <2>10. \A u \in Threads \ {t} : FdCall(u)'
    BY <2>1, <2>5, <2>6, Zenon DEF Table, FdCall, fd, ino
  <2>11. FdCall(t)'
    BY <2>1, <2>2, <2>4, <2>5, Zenon DEF FdCall, fd, ino
  <2>12. Table'
    BY <2>7, <2>8, <2>9, <2>10, <2>11, Zenon DEF Table
  <2>13. Locks'
    BY <2>1, <2>4, <1>LocksKept, Zenon
  <2>14. pc(t) = "idle"
    BY <2>1, Zenon DEF Idle, pc, PcOf
  <2>15. Busied'
    BY <2>1, <2>4, <2>14, <1>BusiedOutside, Zenon DEF Inside
  <2> QED BY <2>4, <2>12, <2>13, <2>15, Changed, Zenon
\* The variables keep their types.
<1>TypedCalls.
    ASSUME Typed, NEW t \in Threads, Call(t)
    PROVE  Typed'
  <2> USE <1>TypedCalls
  <2> USE DEF tableVars, lockVars, inodeVars, ghostVars
  <2>1. ASSUME NEW f \in Files, NEW c \in DOMAIN PathCalls, CallPath(t, f, c) PROVE Typed'
    BY <2>1, Zenon DEF CallPath, Typed
  <2>2. ASSUME NEW d \in Descriptors, NEW c \in DOMAIN FdCalls, CallFd(t, d, c) PROVE Typed'
    BY <2>2, Zenon DEF CallFd, Typed
  <2>3. ASSUME NEW d \in Descriptors, CallStray(t, d) PROVE Typed'
    BY <2>3, Zenon DEF CallStray, Typed
  <2>4. ASSUME NEW d \in Descriptors, CallClose(t, d) PROVE Typed'
    <3>1. given' \subseteq Descriptors
      BY <2>4, Zenon DEF CallClose, Typed
    <3> QED BY <2>4, <3>1, Zenon DEF CallClose, Typed
  <2> QED BY <2>1, <2>2, <2>3, <2>4, Zenon DEF Call
\* The types, for the steps of a call.
<1>TypedRuns.
    ASSUME Typed, Calling, NEW t \in Threads, Run(t)
    PROVE  Typed'
  <2> USE <1>TypedRuns
  <2> USE DEF tableVars, lockVars, inodeVars, ghostVars
  <2>1. CASE namei(t) \/ Load(t) \/ RefCheck(t)
    BY <2>1, Zenon DEF namei, Load, RefCheck, Typed
  <2>2. CASE Store(t)
    <3>1. reg(t) + 1 \in Int /\ reg(t) - 1 \in Int
      BY <2>2, AtFacts DEF Store
    <3>2. i_ref' \in [Files -> Int]
      BY <2>2, <3>1, Zenon DEF Store, Typed
    <3> QED BY <2>2, <3>2, Zenon DEF Store, Typed
  <2>3. CASE iput(t)
    <3>1. reg(t) - 1 \in Int
      BY <2>3, AtFacts DEF iput
    <3>2. i_ref' \in [Files -> Int]
      BY <2>3, <3>1, Zenon DEF iput, Typed
    <3>3. mutex' \in [Files -> Threads \cup {Nobody}]
      BY <2>3, Zenon DEF iput, Typed
    <3> QED BY <2>3, <3>2, <3>3, Zenon DEF iput, Typed
  <2>4. CASE userfs_file_alloc(t)
    <3>1. ref' \in [Descriptors -> {0, 1}]
      BY <2>4, Zenon DEF userfs_file_alloc, LockTable, ScanOn, ScanFull, ScanFree, Take, Typed
    <3>2. tableLock' \in Threads \cup {Nobody}
      BY <2>4, Zenon DEF userfs_file_alloc, LockTable, ScanOn, ScanFull, ScanFree, Take, Typed
    <3> QED BY <2>4, <3>1, <3>2, Zenon
          DEF userfs_file_alloc, LockTable, ScanOn, ScanFull, ScanFree, Take, Typed
  <2>5. CASE Fill(t)
    <3>1. fd(t) \in Descriptors /\ ino(t) \in Files
      BY <2>5, AtFacts DEF Fill, CallOK, pc, fd, ino
    <3>2. type' \in [Descriptors -> {"FD_NONE", "FD_INODE", "FD_DIR"}]
      BY <2>5, Zenon DEF Fill, Typed
    <3>3. ip' \in [Descriptors -> Files \cup {NoFile}] /\ off' \in [Descriptors -> Nat]
      BY <2>5, <3>1, Zenon DEF Fill, Typed
    <3>4. given' \subseteq Descriptors
      BY <2>5, <3>1, Zenon DEF Fill, Typed
    <3> QED BY <2>5, <3>2, <3>3, <3>4, Zenon DEF Fill, Typed
  <2>6. CASE userfs_file_close(t)
    <3>1. ref' \in [Descriptors -> {0, 1}] /\ off' \in [Descriptors -> Nat]
      BY <2>6, Zenon DEF userfs_file_close, Typed
    <3>2. type' \in [Descriptors -> {"FD_NONE", "FD_INODE", "FD_DIR"}]
      BY <2>6, Zenon DEF userfs_file_close, Typed
    <3>3. ip' \in [Descriptors -> Files \cup {NoFile}]
      BY <2>6, Zenon DEF userfs_file_close, Typed
    <3> QED BY <2>6, <3>1, <3>2, <3>3, Zenon DEF userfs_file_close, Typed
  <2>7. CASE Rdlock(t) \/ Rdunlock(t)
    <3>1. fd(t) \in Descriptors
      <4>1. Has(call[t].todo, "rdunlock") /\ CallOK(call[t])
        BY <2>7, AtFacts, Zenon DEF Rdlock, Rdunlock, Shape, Holding
      <4> QED BY <4>1, Zenon DEF CallOK, fd
    <3>2. readers' \in [Descriptors -> SUBSET Threads]
      BY <2>7, <3>1 DEF Rdlock, Rdunlock, Typed
    <3> QED BY <2>7, <3>2, Zenon DEF Rdlock, Rdunlock, Typed
  <2>8. CASE ilock(t)
    <3>1. mutex' \in [Files -> Threads \cup {Nobody}]
      BY <2>8, Zenon DEF ilock, Typed
    <3>2. busy' \in [Files -> BOOLEAN]
      BY <2>8, Zenon DEF ilock, Typed
    <3> QED BY <2>8, <3>1, <3>2, Zenon DEF ilock, Typed
  <2>9. CASE userfs_file_read(t)
    <3>1. CASE Advance(t)
      <4>1. Has(call[t].todo, "rdunlock") /\ CallOK(call[t]) /\ pc(t) = "advance"
        BY <3>1, AtFacts, Zenon DEF Advance, Shape, Holding
      <4>2. fd(t) \in Descriptors /\ reg(t) \in Nat
        BY <4>1, Zenon DEF CallOK, fd, reg, pc
      <4>3. off' \in [Descriptors -> Nat]
        BY <3>1, <4>2 DEF Advance, Typed
      <4> QED BY <3>1, <4>3, Zenon DEF Advance, Typed
    <3>2. CASE readi(t)
      BY <3>2, Zenon DEF readi, AssertOffset, Clip, Shorten, Typed
    <3>3. CASE AtEnd(t) \/ BeforeEnd(t)
      BY <3>3, Zenon DEF AtEnd, BeforeEnd, Typed
    <3> QED BY <2>9, <3>1, <3>2, <3>3, Zenon DEF userfs_file_read
  <2>10. CASE iunlock(t)
    <3>1. mutex' \in [Files -> Threads \cup {Nobody}]
      BY <2>10, Zenon DEF iunlock, Typed
    <3>2. busy' \in [Files -> BOOLEAN]
      BY <2>10, Zenon DEF iunlock, Typed
    <3> QED BY <2>10, <3>1, <3>2, Zenon DEF iunlock, Typed
  <2>11. CASE itrunc(t)
    <3>1. size' \in [Files -> 0..MaxSize]
      BY <2>11, Zenon DEF itrunc, Typed
    <3> QED BY <2>11, <3>1, Zenon DEF itrunc, Typed
  <2>12. CASE userfs_posix_lseek(t)
    <3>1. fd(t) \in Descriptors
      BY <2>12, AtFacts, Zenon DEF userfs_posix_lseek, SeekClosed, SeekTo, SeekEnd, CallOK, pc, fd
    <3>2. CASE SeekClosed(t)
      <4>1. writer' \in [Descriptors -> Threads \cup {Nobody}] /\ leaked' \subseteq Descriptors
        BY <3>1, <3>2, Zenon DEF SeekClosed, Typed
      <4> QED BY <3>2, <4>1, Zenon DEF SeekClosed, Typed
    <3>3. CASE SeekTo(t)
      <4>0. PICK o \in 0..MaxSize : off' = [off EXCEPT ![fd(t)] = o]
        BY <3>3, Zenon DEF SeekTo
      <4>1. o \in Nat /\ off \in [Descriptors -> Nat]
        BY <4>0, OpenFilesAssumption DEF Typed
      <4>2. off' \in [Descriptors -> Nat]
        BY <4>0, <4>1, Zenon
      <4> QED BY <3>3, <4>2, Zenon DEF SeekTo, Typed
    <3>4. CASE SeekEnd(t)
      <4>1. size' \in [Files -> 0..MaxSize]
        BY <3>4, Zenon DEF SeekEnd, Typed
      <4>2. writer' \in [Descriptors -> Threads \cup {Nobody}]
        BY <3>4, Zenon DEF SeekEnd, Typed
      <4>3. off' \in [Descriptors -> Nat]
        <5>1. CASE UNCHANGED off
          BY <5>1, Zenon DEF Typed
        <5>2. CASE At(t, "seek_end") /\ off' = [off EXCEPT ![fd(t)] = size[ino(t)]]
          <6>1. ino(t) \in Files
            <7>1. pc(t) = "seek_end" /\ CallOK(call[t])
              BY <5>2, AtFacts, Zenon
            <7> QED BY <7>1, Zenon DEF CallOK, pc, ino
          <6>2. size[ino(t)] \in 0..MaxSize
            BY <6>1, Zenon DEF Typed
          <6>3. size[ino(t)] \in Nat
            BY <6>2, OpenFilesAssumption
          <6> QED BY <5>2, <6>3, Zenon DEF Typed
        <5> QED BY <3>4, <5>1, <5>2, Zenon DEF SeekEnd
      <4> QED BY <3>4, <4>1, <4>2, <4>3, Zenon DEF SeekEnd, Typed
    <3> QED BY <2>12, <3>2, <3>3, <3>4, Zenon DEF userfs_posix_lseek
  <2>13. CASE Remove(t)
    <3>1. named' \in [Files -> BOOLEAN]
      BY <2>13, Zenon DEF Remove, Typed
    <3> QED BY <2>13, <3>1, Zenon DEF Remove, Typed
  <2>14. CASE idealloc(t)
    <3>1. size' \in [Files -> 0..MaxSize]
      BY <2>14, OpenFilesAssumption DEF idealloc, AssertRefs, Delete, Typed
    <3>2. deleting' \in [Files -> BOOLEAN]
      BY <2>14, Zenon DEF idealloc, AssertRefs, Delete, Typed
    <3> QED BY <2>14, <3>1, <3>2, Zenon DEF idealloc, AssertRefs, Delete, Typed
  <2> QED BY <2>1, <2>2, <2>3, <2>4, <2>5, <2>6, <2>7, <2>8, <2>9, <2>10, <2>11, <2>12,
             <2>13, <2>14, Zenon DEF Run
<1> SUFFICES ASSUME Shared, [Next]_vars PROVE Shared'
  BY Zenon
<1>1. Typed /\ Calling /\ Table /\ Locks /\ Busied
  BY Zenon DEF Shared
<1>2. CASE UNCHANGED vars
  <2>1. Typed'
    BY <1>1, <1>2, Zenon DEF vars, Typed
  <2>2. UNCHANGED <<ref, type, ip, given, tableLock, mutex, foreign, busy, call>>
    BY <1>2, Zenon DEF vars
  <2> QED BY <1>1, <2>1, <2>2, <1>AllKept, Zenon DEF Shared
<1>3. ASSUME NEW t \in Threads, Call(t) PROVE Shared'
  <2>1. Typed'
    BY <1>1, <1>3, <1>TypedCalls, Zenon
  <2>2. Calling' /\ Table' /\ Locks' /\ Busied'
    BY <1>1, <1>3, <1>CallKeeps, <1>CallCloseKeeps, Zenon DEF Call
  <2> QED BY <2>1, <2>2, Zenon DEF Shared
<1>4. ASSUME NEW t \in Threads, Run(t) PROVE Shared'
  <2>1. Typed'
    BY <1>1, <1>4, <1>TypedRuns, Zenon
  <2>2. CASE userfs_file_alloc(t)
    BY <1>1, <2>1, <2>2, <1>LockTableKeeps, <1>ScanOnKeeps, <1>ScanFullKeeps, <1>ScanFreeKeeps, <1>TakeKeeps, Zenon
       DEF userfs_file_alloc, Shared
  <2>3. CASE userfs_file_read(t)
    BY <1>1, <2>1, <2>3, <1>AtEndKeeps, <1>ReadiKeeps, <1>QuietKeeps, Zenon DEF userfs_file_read, Shared
  <2>4. CASE Fill(t) \/ userfs_file_close(t) \/ iput(t) \/ ilock(t) \/ iunlock(t)
    BY <1>1, <2>1, <2>4, <1>FillKeeps, <1>CloseKeeps, <1>IputKeeps, <1>IlockKeeps, <1>IunlockKeeps, Zenon DEF Shared
  <2> QED BY <1>1, <1>4, <2>1, <2>2, <2>3, <2>4, <1>QuietKeeps, Zenon DEF Run, Shared
<1> QED BY <1>2, <1>3, <1>4, Zenon DEF Next

\* Every reachable state of the descriptor table, its locks and the inodes' busy
\* flags, with any number of threads, descriptors and files: entries of
\* g_fd_table are taken and freed by one thread each (file.c), and a lock
\* belongs to whoever is between lock and unlock until a foreign unlock.
THEOREM SharedHolds ==
  Spec => []Shared
BY SharedInit, SharedNext, PTL DEF Spec

-----------------------------------------------------------------------------

\* The state of DescriptorTable.
SlotAt(d) == IF ref[d] = 0 THEN Nobody ELSE IF type[d] = "FD_NONE" THEN NoFile ELSE ip[d]
\* The offset of a descriptor once the read that is pending has moved it.
OffAt(d) == IF Pending(d) = {} THEN off[d] ELSE off[d] + reg(CHOOSE t \in Pending(d) : TRUE)
Slot == [d \in Descriptors |-> SlotAt(d)]
Off == [d \in Descriptors |-> OffAt(d)]
Got == [t \in Threads |-> call[t].got]

\* The table starts free, with every offset 0.
LEMMA TableInit ==
  Init => D!Init
<1> SUFFICES ASSUME Init PROVE D!Init
  BY Zenon
<1>1. \A t \in Threads : call[t] = NoCall
  BY Zenon DEF Init
<1>2. \A d \in Descriptors : Pending(d) = {}
  BY <1>1, Zenon DEF Pending, Idle
<1>3. \A d \in Descriptors : OffAt(d) = 0 /\ SlotAt(d) = Nobody
  BY <1>2, Zenon DEF OffAt, SlotAt, Init
<1>4. Slot = [d \in Descriptors |-> Nobody] /\ Off = [d \in Descriptors |-> 0]
  BY <1>3, Zenon DEF Slot, Off
<1>5. Got = [t \in Threads |-> <<0, 0>>]
  BY <1>1, NoCallOK, Zenon DEF Got
<1>6. size \in [Files -> Nat]
  BY OpenFilesAssumption, Zenon DEF Init
<1> QED BY <1>4, <1>5, <1>6, Zenon DEF D!Init, Slot, SlotAt, Off, OffAt, Got

\* Every step of the calls is a step of the table or leaves it as it is, until a
\* foreign unlock: first the steps of the table over the mapped variables, then
\* what the calls' steps do to them, then the actions one by one.
LEMMA TableNext ==
  Shared /\ [Next]_vars =>
    [foreign \/ D!Steady \/ \E d \in Descriptors : Seeking(d) /\ D!Seek(d)]_(D!vars)
\* The steps of DescriptorTable, in terms of the mapped variables.
<1>TableStutters.
    ASSUME Slot' = Slot, Off' = Off, Got' = Got, size' = size
    PROVE  UNCHANGED D!vars
  BY <1>TableStutters, Zenon DEF D!vars, Slot, SlotAt, Off, OffAt, Got
<1>TableReserves.
    ASSUME NEW d \in Descriptors, Slot[d] = Nobody, Slot' = [Slot EXCEPT ![d] = NoFile],
           Off' = Off, Got' = Got, size' = size
    PROVE  D!Reserve(d)
  BY <1>TableReserves, Zenon DEF D!Reserve, Slot, SlotAt, Off, OffAt, Got
<1>TableOpens.
    ASSUME NEW d \in Descriptors, NEW f \in Files, Slot[d] = NoFile,
           Slot' = [Slot EXCEPT ![d] = f], Off' = [Off EXCEPT ![d] = 0],
           Got' = Got, size' = size
    PROVE  D!Open(d, f)
  BY <1>TableOpens, Zenon DEF D!Open, Slot, SlotAt, Off, OffAt, Got
<1>TableCloses.
    ASSUME NEW d \in Descriptors, Slot[d] \in Files,
           Slot' = [Slot EXCEPT ![d] = Nobody], Off' = [Off EXCEPT ![d] = 0],
           Got' = Got, size' = size
    PROVE  D!Close(d)
  BY <1>TableCloses, Zenon DEF D!Close, Slot, SlotAt, Off, OffAt, Got
<1>TableReads.
    ASSUME NEW t \in Threads, NEW d \in Descriptors, Slot[d] \in Files,
           Off[d] < size[Slot[d]], NEW n \in 1 .. (size[Slot[d]] - Off[d]),
           Got' = [Got EXCEPT ![t] = <<Off[d], Off[d] + n>>],
           Off' = [Off EXCEPT ![d] = Off[d] + n],
           Slot' = Slot, size' = size
    PROVE  D!Read(t, d)
  BY <1>TableReads, Zenon DEF D!Read, Slot, SlotAt, Off, OffAt, Got
<1>TableDone.
    ASSUME NEW t \in Threads, Got' = [Got EXCEPT ![t] = <<0, 0>>],
           Off' = Off, Slot' = Slot, size' = size
    PROVE  D!Done(t)
  BY <1>TableDone, Zenon DEF D!Done, Slot, SlotAt, Off, OffAt, Got
<1>TableResizes.
    ASSUME NEW f \in Files, \A g \in Files \ {f} : size'[g] = size[g],
           Slot' = Slot, Off' = Off, Got' = Got
    PROVE  D!Resize(f)
  BY <1>TableResizes, Zenon DEF D!Resize, Slot, SlotAt, Off, OffAt, Got
<1>TableSeeks.
    ASSUME NEW d \in Descriptors, Slot[d] # Nobody,
           \A e \in Descriptors \ {d} : Off'[e] = Off[e],
           Slot' = Slot, Got' = Got, size' = size
    PROVE  D!Seek(d)
  BY <1>TableSeeks, Zenon DEF D!Seek, Slot, SlotAt, Off, OffAt, Got
\* A read that is pending, and where its descriptor then is.
<1>PendingIs.
    ASSUME Calling, NEW d
    PROVE  Pending(d) = {t \in Threads : fd(t) = d /\ pc(t) = "advance"}
  BY <1>PendingIs, Zenon DEF Pending, pc, PcOf, Idle
\* No two reads of a descriptor are pending.
<1>PendingOne.
    ASSUME Calling, Table, Locks, ~foreign, NEW t \in Threads, NEW u \in Threads,
           pc(t) \in {"clip", "short", "advance"}, pc(u) \in {"clip", "short", "advance"},
           fd(t) = fd(u)
    PROVE  t = u
  <2> USE <1>PendingOne
  <2>1. Has(call[t].todo, "rdunlock") /\ Has(call[u].todo, "rdunlock")
    <3>1. call[t] # NoCall /\ call[u] # NoCall
      BY NoCallOK, Zenon DEF pc
    <3> QED BY <3>1, CallShape, Zenon DEF Calling, pc, Shape, Holding
  <2>2. ino(t) = ino(u)
    BY <2>1, Zenon DEF Table, FdCall
  <2> QED BY <2>2, Zenon DEF Locks, InLock
\* Where a descriptor is, with no read pending ...
<1>OffNone.
    ASSUME NEW d, Pending(d) = {}
    PROVE  OffAt(d) = off[d]
  BY <1>OffNone, Zenon DEF OffAt
\* ... with one ...
<1>OffOne.
    ASSUME NEW d, NEW t, Pending(d) = {t}
    PROVE  OffAt(d) = off[d] + reg(t)
  <2> USE <1>OffOne
  <2>1. (CHOOSE u \in Pending(d) : TRUE) = t
    BY Zenon
  <2> QED BY <2>1, Zenon DEF OffAt
\* ... and after a step that does not concern it.
<1>OffSame.
    ASSUME NEW d, Pending(d)' = Pending(d), off'[d] = off[d],
           \A u \in Pending(d) : reg(u)' = reg(u)
    PROVE  OffAt(d)' = OffAt(d)
  <2> USE <1>OffSame
  <2> DEFINE S == Pending(d)
  <2>1. CASE S = {}
    <3>1. Pending(d)' = {}
      BY <2>1, Zenon
    <3>2. OffAt(d)' = off'[d]
      BY <3>1, Zenon DEF OffAt
    <3> QED BY <2>1, <3>2, <1>OffNone, Zenon
  <2>2. CASE S # {}
    <3>1. (CHOOSE u \in Pending(d)' : TRUE) = (CHOOSE u \in Pending(d) : TRUE)
      BY Zenon
    <3>2. (CHOOSE u \in Pending(d) : TRUE) \in Pending(d)
      BY <2>2, Zenon
    <3> DEFINE v == CHOOSE u \in Pending(d) : TRUE
               w == CHOOSE u \in Pending(d)' : TRUE
    <3>3. OffAt(d) = off[d] + reg(v)
      BY <2>2, Zenon DEF OffAt
    <3>4. OffAt(d)' = off'[d] + call'[w].reg
      BY <2>2, Zenon DEF OffAt, reg
    <3>5. call'[v].reg = call[v].reg /\ v = w
      BY <3>1, <3>2, Zenon DEF reg
    <3> HIDE DEF v, w
    <3> QED BY <3>3, <3>4, <3>5, Zenon DEF reg
  <2> QED BY <2>1, <2>2, Zenon
\* A step that the table does not see.
<1>Unseen.
    ASSUME Calling, NEW t \in Threads, NEW e, call' = [call EXCEPT ![t] = e],
           pc(t) # "advance", PcOf(e) # "advance", e.got = call[t].got
    PROVE  /\ Got' = Got
           /\ \A d \in Descriptors : Pending(d)' = Pending(d)
           /\ \A d \in Descriptors : off'[d] = off[d] => OffAt(d)' = OffAt(d)
           /\ off' = off => Off' = Off
  <2> USE <1>Unseen
  <2>1. call'[t] = e /\ \A u \in Threads \ {t} : call'[u] = call[u]
    BY Zenon DEF Calling
  <2>2. Got' = Got
    BY <2>1 DEF Got
  <2>3. ASSUME NEW d \in Descriptors
        PROVE  Pending(d)' = Pending(d) /\ (off'[d] = off[d] => OffAt(d)' = OffAt(d))
    <3>1. Pending(d) = {u \in Threads : fd(u) = d /\ pc(u) = "advance"}
      BY <1>PendingIs, Zenon
    <3>2. Pending(d)' = {u \in Threads : fd(u)' = d /\ pc(u)' = "advance"}
      BY Zenon DEF Pending, pc, PcOf, Idle
    <3>3. Pending(d)' = Pending(d)
      BY <2>1, <3>1, <3>2 DEF fd, pc
    <3>4. \A u \in Pending(d) : reg(u)' = reg(u)
      BY <2>1, <3>1, Zenon DEF reg
    <3> QED BY <3>3, <3>4, <1>OffSame, Zenon
  <2>4. ASSUME off' = off PROVE Off' = Off
    BY <2>3, <2>4, Zenon DEF Off
  <2> QED BY <2>2, <2>3, <2>4, Zenon
\* A step of a call that the table does not see ...
<1>UnseenStep.
    ASSUME Calling, NEW t \in Threads, ~Idle(t), NEW r \in Int, StepWith(t, r),
           pc(t) \notin {"scan", "short", "advance", "rdunlock"},
           pc(t) = "seek" => ino(t) \in Files, pc(t) = "lock_table" => r = 0
    PROVE  /\ Got' = Got
           /\ \A d \in Descriptors : Pending(d)' = Pending(d)
           /\ \A d \in Descriptors : off'[d] = off[d] => OffAt(d)' = OffAt(d)
           /\ off' = off => Off' = Off
  <2> USE <1>UnseenStep
  <2> DEFINE e == After(call[t], r)
  <2>1. Changes(t, e) /\ Goes(call[t], e)
    BY Stepped, Zenon
  <2> HIDE DEF e
  <2>2. PcOf(e) # "advance" /\ e.got = call[t].got
    <3>1. CASE e = NoCall
      <4>1. ~Has(call[t].todo, "rdunlock")
        BY <2>1, <3>1, NoCallOK, Zenon DEF Goes, pc
      <4>2. call[t].got = <<0, 0>>
        BY <4>1, Zenon DEF Calling, CallOK
      <4> QED BY <3>1, <4>2, NoCallOK, Zenon
    <3>2. CASE e # NoCall
      BY <2>1, <3>2, Zenon DEF Goes, Before, pc
    <3> QED BY <3>1, <3>2, Zenon
  <2>3. call' = [call EXCEPT ![t] = e]
    BY <2>1, Zenon DEF Changes
  <2> QED BY <2>2, <2>3, <1>Unseen, Zenon
\* ... the end of such a call ...
<1>UnseenReturn.
    ASSUME Calling, NEW t \in Threads, Return(t), pc(t) \notin Reading
    PROVE  /\ Got' = Got
           /\ \A d \in Descriptors : Pending(d)' = Pending(d)
           /\ \A d \in Descriptors : off'[d] = off[d] => OffAt(d)' = OffAt(d)
           /\ off' = off => Off' = Off
  <2> USE <1>UnseenReturn
  <2>1. ~Has(call[t].todo, "rdunlock")
    <3>1. CASE call[t] = NoCall
      BY <3>1, NoCallOK, Zenon
    <3>2. CASE call[t] # NoCall
      BY <3>2, CallShape, Zenon DEF Calling, pc, Shape
    <3> QED BY <3>1, <3>2, Zenon
  <2>2. call[t].got = <<0, 0>>
    BY <2>1, Zenon DEF Calling, CallOK
  <2> QED BY <2>2, NoCallOK, <1>Unseen, Zenon DEF Return, Reading
<1>SlotSame.
    ASSUME UNCHANGED <<ref, type, ip>>
    PROVE  Slot' = Slot
  BY <1>SlotSame, Zenon DEF Slot, SlotAt
\* ... and its beginning.
<1>UnseenBegin.
    ASSUME Calling, NEW t \in Threads, Idle(t), NEW P \in Programs,
           NEW d \in Descriptors \cup {NoFd}, NEW f \in Files \cup {NoFile}, Begin(t, P, d, f),
           Head(P) \in {"namei", "drop", "rdlock", "ref", "seek"},
           Head(P) # "seek" => f \in Files,
           Head(P) \in {"drop", "rdlock", "seek"} => d \in Descriptors,
           off' = off
    PROVE  Got' = Got /\ Off' = Off
  <2> USE <1>UnseenBegin
  <2> DEFINE e == NewCall(P, d, f)
  <2>1. Changes(t, e) /\ PcOf(e) = Head(P) /\ e.got = <<0, 0>>
    <3>1. MayBegin(P, d, f)
      BY Zenon DEF MayBegin
    <3>2. Begins(t, P, d, f, e)
      BY <3>1, Begun, Zenon
    <3> QED BY <3>2, Zenon DEF Begins
  <2> HIDE DEF e
  <2>2. call[t].got = <<0, 0>> /\ pc(t) = "idle"
    BY NoCallOK, Zenon DEF Idle, pc
  <2> QED BY <2>1, <2>2, <1>Unseen, Zenon DEF Changes
\* The beginnings of all calls.
<1>CallsUnseen.
    ASSUME Calling, Table, NEW t \in Threads, Call(t)
    PROVE  UNCHANGED D!vars
  <2> USE <1>CallsUnseen
  <2>1. UNCHANGED <<ref, type, ip, off, size>>
    BY Zenon DEF Call, CallPath, CallFd, CallStray, CallClose, tableVars, inodeVars
  <2>2. Slot' = Slot
    BY <2>1, <1>SlotSame, Zenon
  <2>3. ASSUME NEW f \in Files, NEW c \in DOMAIN PathCalls, CallPath(t, f, c)
        PROVE  Got' = Got /\ Off' = Off
    <3> DEFINE P == PathCalls[c]
    <3>1. P \in Programs /\ Head(P) = "namei"
      BY ProgramHeads, Zenon
    <3>2. Idle(t) /\ Begin(t, P, NoFd, f)
      BY <2>3, Zenon DEF CallPath
    <3> HIDE DEF P
    <3> QED BY <2>1, <3>1, <3>2, <1>UnseenBegin, Zenon
  <2>4. ASSUME NEW d \in Descriptors, NEW c \in DOMAIN FdCalls, CallFd(t, d, c)
        PROVE  Got' = Got /\ Off' = Off
    <3> DEFINE P == FdCalls[c]
               f == ip[d]
    <3>1. P \in Programs /\ Head(P) \in {"rdlock", "ref", "seek"}
      BY ProgramHeads, Zenon
    <3>2. Idle(t) /\ Begin(t, P, d, f) /\ f \in Files
      BY <2>4, Zenon DEF CallFd, Table, GivenFds
    <3> HIDE DEF P, f
    <3> QED BY <2>1, <3>1, <3>2, <1>UnseenBegin, Zenon
  <2>5. ASSUME NEW d \in Descriptors, CallStray(t, d)
        PROVE  Got' = Got /\ Off' = Off
    <3>1. SeekSteps \in Programs /\ Head(SeekSteps) = "seek"
      BY ProgramHeads, Zenon
    <3>2. Idle(t) /\ Begin(t, SeekSteps, d, NoFile)
      BY <2>5, Zenon DEF CallStray
    <3> QED BY <2>1, <3>1, <3>2, <1>UnseenBegin, Zenon
  <2>6. ASSUME NEW d \in Descriptors, CallClose(t, d)
        PROVE  Got' = Got /\ Off' = Off
    <3>1. CloseSteps \in Programs /\ Head(CloseSteps) = "drop"
      BY ProgramHeads, Zenon
    <3>2. Idle(t) /\ Begin(t, CloseSteps, d, ip[d]) /\ ip[d] \in Files
      BY <2>6, Zenon DEF CallClose, Table, GivenFds
    <3> QED BY <2>1, <3>1, <3>2, <1>UnseenBegin, Zenon
  <2>7. Got' = Got /\ Off' = Off
    BY <2>3, <2>4, <2>5, <2>6, Zenon DEF Call
  <2> QED BY <2>1, <2>2, <2>7, <1>TableStutters, Zenon
\* The steps of a call that the table does not see.
<1>RunsUnseen.
    ASSUME Typed, Calling, NEW t \in Threads,
           \/ namei(t) \/ Load(t) \/ Store(t) \/ iput(t) \/ LockTable(t) \/ Rdlock(t) \/ ilock(t)
           \/ iunlock(t) \/ RefCheck(t) \/ SeekClosed(t) \/ Remove(t) \/ AssertRefs(t)
           \/ BeforeEnd(t) \/ AssertOffset(t) \/ (Clip(t) /\ Step(t))
    PROVE  UNCHANGED D!vars
  <2> USE <1>RunsUnseen
  <2>1. UNCHANGED <<ref, type, ip, off, size>>
    BY Zenon DEF namei, Load, Store, iput, LockTable, Rdlock, ilock, iunlock, RefCheck, SeekClosed,
           Remove, AssertRefs, BeforeEnd, AssertOffset, Clip, tableVars, inodeVars
  <2>2. Slot' = Slot
    BY <2>1, <1>SlotSame, Zenon
  <2>3. PICK s \in {"namei", "load", "incr", "decr", "iput", "put", "lock_table", "rdlock", "ilock",
                    "iunlock", "unbusy", "ref", "seek", "remove", "idealloc", "end", "readi",
                    "clip"} : At(t, s)
    BY Zenon DEF namei, Load, Store, iput, LockTable, Rdlock, ilock, iunlock, RefCheck, SeekClosed,
           Remove, AssertRefs, BeforeEnd, AssertOffset, Clip
  <2>4. pc(t) = s /\ ~Idle(t) /\ reg(t) \in Int /\ CallOK(call[t])
    BY <2>3, AtFacts, Zenon
  <2>5. s # "seek" => i_ref[ino(t)] \in Int
    BY <2>3, <2>4, Zenon DEF CallOK, pc, ino, Typed
  <2>6. CASE Return(t) /\ s \in {"namei", "ref", "seek", "remove"}
    <3>1. Got' = Got /\ Off' = Off
      BY <2>1, <2>4, <2>6, <1>UnseenReturn, Zenon DEF Reading
    <3> QED BY <2>1, <2>2, <3>1, <1>TableStutters, Zenon
  <2>7. CASE s # "seek" /\ \E r \in Int : StepWith(t, r) /\ (s = "lock_table" => r = 0)
    <3>1. PICK r \in Int : StepWith(t, r) /\ (s = "lock_table" => r = 0)
      BY <2>7, Zenon
    <3>2. s # "scan" /\ s # "short" /\ s # "seek" /\ s # "advance" /\ s # "rdunlock"
      BY <2>3, <2>7, Zenon
    <3>3. Got' = Got /\ Off' = Off
      BY <2>1, <2>4, <3>1, <3>2, <1>UnseenStep, Zenon
    <3> QED BY <2>1, <2>2, <3>3, <1>TableStutters, Zenon
  <2>8. \A r : At(t, r) => r = s
    BY <2>3, Zenon DEF At
  <2>9. CASE namei(t) \/ RefCheck(t) \/ SeekClosed(t) \/ Remove(t)
    BY <2>3, <2>4, <2>5, <2>6, <2>7, <2>8, <2>9, Zenon DEF namei, RefCheck, SeekClosed, Remove, Step
  <2>10. CASE Load(t) \/ Store(t) \/ iput(t)
    BY <2>3, <2>4, <2>5, <2>7, <2>8, <2>10, Zenon DEF Load, Store, iput, Step
  <2>11. CASE LockTable(t)
    BY <2>3, <2>7, <2>8, <2>11 DEF LockTable
  <2>12. CASE Rdlock(t) \/ ilock(t) \/ iunlock(t) \/ AssertRefs(t)
    BY <2>3, <2>4, <2>7, <2>8, <2>12, Zenon DEF Rdlock, ilock, iunlock, AssertRefs, Step
  <2>13. CASE BeforeEnd(t) \/ AssertOffset(t) \/ (Clip(t) /\ Step(t))
    BY <2>3, <2>4, <2>7, <2>8, <2>13, Zenon DEF BeforeEnd, AssertOffset, Clip, Step
  <2> QED BY <2>9, <2>10, <2>11, <2>12, <2>13, Zenon
\* The scan of the table, and a read at the end of the file.
<1>ScansUnseen.
    ASSUME Calling, NEW t \in Threads,
           ScanOn(t) \/ ScanFull(t) \/ ScanFree(t) \/ AtEnd(t)
    PROVE  UNCHANGED D!vars
  <2> USE <1>ScansUnseen
  <2>1. UNCHANGED <<ref, type, ip, off, size>>
    BY Zenon DEF ScanOn, ScanFull, ScanFree, AtEnd, tableVars, inodeVars
  <2>2. Slot' = Slot
    BY <2>1, <1>SlotSame, Zenon
  <2>3. /\ pc(t) \in {"scan", "end"} /\ call[t] \in CallRecords /\ Shape(call[t].todo)
        /\ call[t] # NoCall /\ pc(t) = Head(call[t].todo)
    BY AtFacts, Zenon DEF ScanOn, ScanFull, ScanFree, AtEnd
  <2>4. call'[t].got = call[t].got
    BY <2>3, Zenon DEF ScanOn, ScanFull, ScanFree, AtEnd, GoTo, Calling, CallRecords
  <2>5. PcOf(call'[t]) # "advance"
    <3>1. CASE ScanOn(t)
      <4>1. call'[t].todo = call[t].todo
        BY <2>3, <3>1, Zenon DEF ScanOn, Calling, CallRecords
      <4>2. Head(call[t].todo) = "scan"
        BY <3>1, AtFacts, Zenon DEF ScanOn
      <4> QED BY <4>1, <4>2, Zenon DEF PcOf
    <3>2. CASE ScanFull(t)
      <4>1. call'[t].todo = FullSteps
        BY <2>3, <3>2, Zenon DEF ScanFull, GoTo, Calling, CallRecords, FullSteps
      <4> QED BY <4>1, FullShape, Zenon DEF PcOf
    <3>3. CASE ScanFree(t)
      <4>1. call'[t].todo = Tail(call[t].todo)
        BY <2>3, <3>3, Zenon DEF ScanFree, Calling, CallRecords
      <4>2. Head(call[t].todo) = "scan"
        BY <3>3, AtFacts, Zenon DEF ScanFree
      <4>3. Len(call[t].todo) # 1 /\ Before("scan", Head(Tail(call[t].todo)))
        BY <2>3, <4>2, Zenon DEF Shape, LastSteps
      <4> QED BY <4>1, <4>3, Zenon DEF PcOf, Before
    <3>4. CASE AtEnd(t)
      <4>1. call'[t].todo = <<"iunlock", "unbusy", "rdunlock">>
        BY <2>3, <3>4, Zenon DEF AtEnd, GoTo, Calling, CallRecords
      <4> QED BY <4>1, ReadEndShape, Zenon DEF PcOf
    <3> QED BY <3>1, <3>2, <3>3, <3>4, Zenon
  <2>6. call' = [call EXCEPT ![t] = call'[t]]
    BY Zenon DEF ScanOn, ScanFull, ScanFree, AtEnd, GoTo, Calling
  <2>7. pc(t) # "advance"
    BY <2>3, Zenon
  <2> DEFINE e == call'[t]
  <2>8. call' = [call EXCEPT ![t] = e] /\ PcOf(e) # "advance" /\ e.got = call[t].got
    BY <2>4, <2>5, <2>6, Zenon
  <2> HIDE DEF e
  <2>9. Got' = Got /\ Off' = Off
    BY <2>1, <2>7, <2>8, <1>Unseen, Zenon
  <2> QED BY <2>1, <2>2, <2>9, <1>TableStutters, Zenon
\* One descriptor of the table changes.
<1>SlotSet.
    ASSUME NEW d \in Descriptors, NEW v, SlotAt(d)' = v,
           \A e \in Descriptors \ {d} : SlotAt(e)' = SlotAt(e)
    PROVE  Slot' = [Slot EXCEPT ![d] = v]
  BY <1>SlotSet, Zenon DEF Slot
\* An offset that is set with no read pending.
<1>OffSet.
    ASSUME NEW d \in Descriptors, NEW v, OffAt(d)' = v,
           \A e \in Descriptors \ {d} : OffAt(e)' = OffAt(e)
    PROVE  Off' = [Off EXCEPT ![d] = v]
  BY <1>OffSet, Zenon DEF Off
\* An open takes a descriptor.
<1>TakeReserves.
    ASSUME Typed, Calling, Table, NEW t \in Threads, Take(t)
    PROVE  \E d \in Descriptors : D!Reserve(d)
  <2> USE <1>TakeReserves
  <2>1. /\ pc(t) = "take" /\ ~Idle(t) /\ reg(t) \in Int /\ StepWith(t, reg(t)) /\ CallOK(call[t])
    BY AtFacts, Zenon DEF Take, Step
  <2>2. PICK d \in Descriptors : d = fd(t)
    BY <2>1, Zenon DEF CallOK, pc, fd
  <2>3. ref[d] = 0 /\ type[d] = "FD_NONE"
    BY <2>1, <2>2, Zenon DEF Table, OpenCall, FreeFds
  <2>4. ref' = [ref EXCEPT ![d] = 1] /\ UNCHANGED <<type, ip, off, size>>
    BY <2>2, Zenon DEF Take, inodeVars
  <2>5. Got' = Got /\ Off' = Off
    BY <2>1, <2>4, <1>UnseenStep, Zenon
  <2>6. SlotAt(d) = Nobody /\ SlotAt(d)' = NoFile
    BY <2>3, <2>4 DEF SlotAt, Typed
  <2>7. \A e \in Descriptors \ {d} : SlotAt(e)' = SlotAt(e)
    BY <2>4, Zenon DEF SlotAt, Typed
  <2>8. Slot[d] = Nobody /\ Slot' = [Slot EXCEPT ![d] = NoFile]
    BY <2>6, <2>7, <1>SlotSet, Zenon DEF Slot
  <2> QED BY <2>4, <2>5, <2>8, <1>TableReserves, Zenon
\* No read is pending on a descriptor that the application does not have.
<1>NonePending.
    ASSUME Calling, Table, NEW d \in Descriptors, d \notin given
    PROVE  Pending(d) = {}
  <2> USE <1>NonePending
  <2>1. ASSUME NEW u \in Threads, fd(u) = d, pc(u) = "advance" PROVE FALSE
    <3>1. Has(call[u].todo, "rdunlock")
      BY <2>1, NoCallOK, CallShape, Zenon DEF Calling, pc, Shape, Holding
    <3> QED BY <2>1, <3>1, Zenon DEF Table, FdCall
  <2> QED BY <2>1, <1>PendingIs, Zenon
\* The end of an open gives it its file.
<1>FillOpens.
    ASSUME Typed, Calling, Table, NEW t \in Threads, Fill(t)
    PROVE  \E d \in Descriptors, f \in Files : D!Open(d, f)
  <2> USE <1>FillOpens
  <2>1. /\ pc(t) = "fill" /\ ~Idle(t) /\ reg(t) \in Int /\ StepWith(t, reg(t)) /\ CallOK(call[t])
    BY AtFacts, Zenon DEF Fill, Step
  <2>2. PICK d \in Descriptors, f \in Files : d = fd(t) /\ f = ino(t)
    BY <2>1, Zenon DEF CallOK, pc, fd, ino
  <2>3. ref[d] = 1 /\ type[d] = "FD_NONE"
    BY <2>1, <2>2, Zenon DEF Table, OpenCall
  <2>4. PICK k \in {"FD_INODE", "FD_DIR"} : type' = [type EXCEPT ![d] = k]
    BY <2>2, Zenon DEF Fill
  <2>5. ip' = [ip EXCEPT ![d] = f] /\ off' = [off EXCEPT ![d] = 0] /\ UNCHANGED <<ref, size>>
    BY <2>2, Zenon DEF Fill, inodeVars
  <2>6. /\ Got' = Got /\ Pending(d)' = Pending(d)
        /\ \A e \in Descriptors : off'[e] = off[e] => OffAt(e)' = OffAt(e)
    BY <2>1, <1>UnseenStep, Zenon
  <2>7. Pending(d) = {}
    BY <2>3, <1>NonePending, Zenon DEF Table, GivenFds, Kind
  <2>8. OffAt(d)' = 0
    BY <2>5, <2>6, <2>7, Zenon DEF OffAt, Typed
  <2>9. Off' = [Off EXCEPT ![d] = 0]
    BY <2>5, <2>6, <2>8, <1>OffSet, Zenon DEF Typed
  <2>10. SlotAt(d) = NoFile /\ SlotAt(d)' = f
    BY <2>3, <2>4, <2>5 DEF SlotAt, Typed
  <2>11. \A e \in Descriptors \ {d} : SlotAt(e)' = SlotAt(e)
    BY <2>4, <2>5, Zenon DEF SlotAt, Typed
  <2>12. Slot[d] = NoFile /\ Slot' = [Slot EXCEPT ![d] = f]
    BY <2>10, <2>11, <1>SlotSet, Zenon DEF Slot
  <2>13. D!Open(d, f)
    BY <2>5, <2>6, <2>9, <2>12, <1>TableOpens, Zenon
  <2> QED BY <2>13, Zenon
\* A close frees a descriptor.
<1>CloseFrees.
    ASSUME Typed, Calling, Table, NEW t \in Threads, userfs_file_close(t)
    PROVE  \E d \in Descriptors : D!Close(d)
  <2> USE <1>CloseFrees
  <2>1. pc(t) = "drop" /\ ~Idle(t) /\ reg(t) \in Int /\ CallOK(call[t])
    BY AtFacts, Zenon DEF userfs_file_close
  <2>2. PICK d \in Descriptors : d = fd(t)
    BY <2>1, Zenon DEF CallOK, pc, fd
  <2>3. d \notin given /\ ref[d] = 1 /\ type[d] # "FD_NONE" /\ ip[d] \in Files
    BY <2>1, <2>2, Zenon DEF Table, FdCall, Kind, CallOK, pc, ino
  <2>4. /\ ref' = [ref EXCEPT ![d] = 0] /\ type' = [type EXCEPT ![d] = "FD_NONE"]
        /\ ip' = [ip EXCEPT ![d] = NoFile] /\ off' = [off EXCEPT ![d] = 0] /\ size' = size
    BY <2>2, Zenon DEF userfs_file_close, inodeVars
  <2>5. StepWith(t, reg(t)) \/ Return(t)
    BY Zenon DEF userfs_file_close, Step
  <2>6. /\ Got' = Got /\ Pending(d)' = Pending(d)
        /\ \A e \in Descriptors : off'[e] = off[e] => OffAt(e)' = OffAt(e)
    BY <2>1, <2>5, <1>UnseenStep, <1>UnseenReturn, Zenon DEF Reading
  <2>7. Pending(d) = {}
    BY <2>3, <1>NonePending, Zenon
  <2>8. OffAt(d)' = 0
    BY <2>4, <2>6, <2>7, Zenon DEF OffAt, Typed
  <2>9. Off' = [Off EXCEPT ![d] = 0]
    BY <2>4, <2>6, <2>8, <1>OffSet, Zenon DEF Typed
  <2>10. SlotAt(d) \in Files /\ SlotAt(d)' = Nobody
    BY <2>3, <2>4 DEF SlotAt, Typed
  <2>11. \A e \in Descriptors \ {d} : SlotAt(e)' = SlotAt(e)
    BY <2>4, Zenon DEF SlotAt, Typed
  <2>12. Slot[d] \in Files /\ Slot' = [Slot EXCEPT ![d] = Nobody]
    BY <2>10, <2>11, <1>SlotSet, Zenon DEF Slot
  <2>13. D!Close(d)
    BY <2>4, <2>6, <2>9, <2>12, <1>TableCloses, Zenon
  <2> QED BY <2>13, Zenon
\* A read of the inode is a read of the table, if it reads anything: the offset
\* moves with it.
<1>ReadsRead.
    ASSUME Typed, Calling, Table, Locks, ~foreign, NEW t \in Threads,
           At(t, "clip") \/ At(t, "short"), UNCHANGED <<ref, type, ip, off, size>>,
           NEW n \in Nat, n <= size[ino(t)] - off[fd(t)], Reads(t, n)
    PROVE  (\E d \in Descriptors : D!Read(t, d)) \/ UNCHANGED D!vars
  <2> USE <1>ReadsRead
  <2>1. /\ pc(t) \in {"clip", "short"} /\ ~Idle(t) /\ CallOK(call[t]) /\ call[t] \in CallRecords
        /\ call[t] # NoCall /\ Shape(call[t].todo) /\ Head(call[t].todo) = pc(t)
    BY AtFacts, Zenon
  <2>2. Has(call[t].todo, "rdunlock")
    BY <2>1, Zenon DEF Shape, Holding
  <2>3. PICK d \in Descriptors, f \in Files : d = fd(t) /\ f = ino(t)
    BY <2>1, <2>2, Zenon DEF CallOK, pc, fd, ino
  <2>4. d \in given /\ ip[d] = f /\ ref[d] = 1 /\ type[d] # "FD_NONE"
    BY <2>2, <2>3, Zenon DEF Table, FdCall, GivenFds, Kind
  <2>5. UNCHANGED <<ref, type, ip, off, size>>
    BY Zenon
  <2>6. PICK o \in Nat, m \in Nat : o = off[d] /\ m = size[f]
    BY DEF Typed
  <2>7. n <= m - o
    BY <2>3, <2>6, Zenon
  <2> DEFINE q == <<"advance", "iunlock", "unbusy", "rdunlock">>
             g == IF n = 0 THEN call[t].got ELSE <<o, o + n>>
             e == HasRead(call[t], q, n, g)
  <2>9. call' = [call EXCEPT ![t] = e]
    BY <2>1, <2>3, <2>6, Zenon DEF Reads, Calling, CallRecords, HasRead
  <2>10. q # <<>> /\ Head(q) = "advance" /\ q \in Seq(Steps) /\ n \in Int /\ g \in Int \X Int
    <3>1. q # <<>> /\ Head(q) = "advance" /\ q \in Seq(Steps)
      BY ReadDoneShape, Zenon
    <3>2. call[t].got \in Int \X Int
      BY <2>1, Zenon DEF CallRecords
    <3>3. n \in Int /\ g \in Int \X Int
      BY <3>2
    <3> QED BY <3>1, <3>3, Zenon
  <2> HIDE DEF q, g
  <2>11. e \in CallRecords /\ e.todo = q /\ e.fd = call[t].fd /\ e.reg = n /\ e.got = g
    BY <2>1, <2>10, ReadRecord
  <2> HIDE DEF e
  <2>12. e # NoCall /\ PcOf(e) = "advance"
    BY <2>10, <2>11 DEF NoCall, PcOf
  <2>13. /\ call'[t] = e /\ pc(t)' = "advance" /\ fd(t)' = d /\ reg(t)' = n
         /\ \A u \in Threads \ {t} : call'[u] = call[u] /\ pc(u)' = pc(u)
    BY <2>3, <2>9, <2>11, <2>12, Zenon DEF Calling, pc, fd, reg
  <2>14. Pending(d) = {}
    <3>1. \A u \in Threads : ~(fd(u) = d /\ pc(u) = "advance")
      BY <2>1, <2>3, <1>PendingOne, Zenon
    <3> QED BY <3>1, <1>PendingIs, Zenon
  <2>15. ASSUME NEW c \in Descriptors
         PROVE  Pending(c)' = {u \in Threads : fd(u)' = c /\ pc(u)' = "advance"}
    BY Zenon DEF Pending, pc, PcOf, Idle
  <2>16. Pending(d)' = {t}
    <3>1. \A u \in Threads \ {t} : ~(fd(u)' = d /\ pc(u)' = "advance")
      BY <2>1, <2>3, <2>13, <1>PendingOne, Zenon DEF fd
    <3> QED BY <2>13, <2>15, <3>1, Zenon
  <2>17. OffAt(d) = o /\ OffAt(d)' = o + n
    <3>1. OffAt(d) = o
      BY <2>6, <2>14, Zenon DEF OffAt
    <3>2. (CHOOSE u \in Pending(d)' : TRUE) = t
      BY <2>16, Zenon
    <3>3. OffAt(d)' = off'[d] + call'[t].reg
      BY <2>16, <3>2, Zenon DEF OffAt, reg
    <3> QED BY <2>5, <2>6, <2>11, <2>13, <3>1, <3>3, Zenon
  <2>18. ASSUME NEW c \in Descriptors \ {d} PROVE OffAt(c)' = OffAt(c)
    <3>1. Pending(c) = {u \in Threads : fd(u) = c /\ pc(u) = "advance"}
      BY <1>PendingIs, Zenon
    <3>2. t \notin Pending(c) /\ t \notin Pending(c)'
      BY <2>3, <2>13, <2>15, <3>1, Zenon
    <3>3. Pending(c)' = Pending(c)
      BY <2>13, <2>15, <3>1, <3>2 DEF fd
    <3>4. \A u \in Pending(c) : reg(u)' = reg(u)
      BY <2>13, <3>1, <3>2, Zenon DEF reg
    <3> QED BY <2>5, <3>3, <3>4, <1>OffSame, Zenon
  <2>19. Off[d] = o /\ Off' = [Off EXCEPT ![d] = Off[d] + n]
    <3>1. Off[d] = o
      BY <2>17, Zenon DEF Off
    <3>2. Off' = [Off EXCEPT ![d] = o + n]
      BY <2>17, <2>18, <1>OffSet, Zenon
    <3> QED BY <3>1, <3>2, Zenon
  <2>20. Slot' = Slot /\ Slot[d] = f
    BY <2>4, <2>5, <1>SlotSame DEF Slot, SlotAt
  <2>21. CASE n = 0
    <3>1. e.got = call[t].got
      BY <2>11, <2>21, Zenon DEF g
    <3>2. Got' = Got
      BY <2>13, <3>1, Zenon DEF Got
    <3>3. OffAt(d)' = OffAt(d)
      BY <2>6, <2>17, <2>21
    <3>4. Off' = Off
      BY <2>18, <3>3, Zenon DEF Off
    <3> QED BY <2>5, <2>20, <3>2, <3>4, <1>TableStutters, Zenon
  <2>22. CASE n # 0
    <3>1. g = <<o, o + n>>
      BY <2>22, Zenon DEF g
    <3>2. Got' = [Got EXCEPT ![t] = <<Off[d], Off[d] + n>>]
      BY <2>11, <2>13, <2>19, <3>1, Zenon DEF Got
    <3>3. Slot[d] \in Files /\ Off[d] < size[Slot[d]] /\ n \in 1 .. (size[Slot[d]] - Off[d])
      BY <2>6, <2>7, <2>19, <2>20, <2>22
    <3>4. D!Read(t, d)
      BY <2>5, <2>19, <2>20, <3>2, <3>3, <1>TableReads, Zenon
    <3> QED BY <3>4, Zenon
  <2> QED BY <2>21, <2>22, Zenon
\* A state in which the table and the calls are as they were.
<1>CallsSame.
    ASSUME UNCHANGED <<ref, type, ip, off, size, call>>
    PROVE  UNCHANGED D!vars
  <2> USE <1>CallsSame
  <2>1. \A d \in Descriptors : Pending(d)' = Pending(d)
    BY Zenon DEF Pending, fd, Idle
  <2>2. \A d \in Descriptors : OffAt(d)' = OffAt(d)
    BY <2>1, <1>OffSame, Zenon DEF reg
  <2>3. Slot' = Slot /\ Off' = Off /\ Got' = Got
    BY <2>2, <1>SlotSame, Zenon DEF Off, Got
  <2> QED BY <2>3, <1>TableStutters, Zenon
\* The steps of readi that find how much is left, and the one that reads it.
<1>ReadiReads.
    ASSUME Typed, Calling, Table, Locks, ~foreign, NEW t \in Threads, readi(t)
    PROVE  (\E d \in Descriptors : D!Read(t, d)) \/ UNCHANGED D!vars
  <2> USE <1>ReadiReads
  <2>1. UNCHANGED <<ref, type, ip, off, size>>
    BY Zenon DEF readi, AssertOffset, Clip, Shorten, tableVars, inodeVars
  <2>2. CASE AssertOffset(t) \/ (Clip(t) /\ Step(t))
    BY <2>2, <1>RunsUnseen, Zenon
  <2>3. ASSUME At(t, "clip") \/ At(t, "short")
        PROVE  off[fd(t)] \in Nat /\ size[ino(t)] \in 0..MaxSize
    <3>1. /\ pc(t) \in {"clip", "short"} /\ CallOK(call[t]) /\ Shape(call[t].todo)
          /\ Head(call[t].todo) = pc(t)
      BY <2>3, AtFacts, Zenon
    <3>2. fd(t) \in Descriptors /\ ino(t) \in Files
      BY <3>1, Zenon DEF Shape, Holding, CallOK, pc, fd, ino
    <3> QED BY <3>2, Zenon DEF Typed
  <2>4. CASE Clip(t) /\ ~Step(t)
    <3>1. /\ At(t, "clip") /\ Reads(t, ReadSize) /\ ~(off[fd(t)] + ReadSize > size[ino(t)])
      BY <2>4, Zenon DEF Clip
    <3>2. ReadSize \in Nat /\ ReadSize <= size[ino(t)] - off[fd(t)]
      BY <2>3, <3>1, OpenFilesAssumption
    <3> QED BY <2>1, <3>1, <3>2, <1>ReadsRead, Zenon
  <2>5. CASE Shorten(t)
    <3> DEFINE left == size[ino(t)] - off[fd(t)]
    <3>1. At(t, "short") /\ (UNCHANGED call \/ (~(left < 0) /\ Reads(t, left)))
      BY <2>5, Zenon DEF Shorten
    <3>2. CASE UNCHANGED call
      BY <2>1, <3>2, <1>CallsSame, Zenon
    <3>3. CASE ~(left < 0) /\ Reads(t, left)
      <4>1. left \in Nat /\ left <= left
        BY <2>3, <3>1, <3>3, OpenFilesAssumption
      <4>2. left = size[ino(t)] - off[fd(t)]
        OBVIOUS
      <4> HIDE DEF left
      <4> QED BY <2>1, <3>1, <3>3, <4>1, <4>2, <1>ReadsRead, Zenon
    <3> QED BY <3>1, <3>2, <3>3, Zenon
  <2> QED BY <2>2, <2>4, <2>5, Zenon DEF readi
\* When the descriptor is moved to where the read ended, the table has it there.
<1>AdvanceUnseen.
    ASSUME Typed, Calling, Table, Locks, ~foreign, NEW t \in Threads, Advance(t)
    PROVE  UNCHANGED D!vars
  <2> USE <1>AdvanceUnseen
  <2>1. /\ pc(t) = "advance" /\ ~Idle(t) /\ CallOK(call[t]) /\ call[t] # NoCall
        /\ Shape(call[t].todo) /\ reg(t) \in Int /\ StepWith(t, reg(t))
    BY AtFacts, Zenon DEF Advance, Step
  <2>2. Has(call[t].todo, "rdunlock")
    BY <2>1, Zenon DEF Shape, Holding, pc, PcOf
  <2>3. PICK d \in Descriptors : d = fd(t)
    BY <2>1, <2>2, Zenon DEF CallOK, fd
  <2>4. /\ UNCHANGED <<ref, type, ip, size>> /\ off' = [off EXCEPT ![d] = off[d] + reg(t)]
        /\ off \in [Descriptors -> Nat] /\ reg(t) \in Nat
    BY <2>1, <2>3, Zenon DEF Advance, tableVars, inodeVars, Typed, CallOK, pc, reg
  <2> DEFINE e == After(call[t], reg(t))
  <2>5. Changes(t, e) /\ Goes(call[t], e)
    BY <2>1, Stepped, Zenon
  <2> HIDE DEF e
  <2>6. e # NoCall
    BY <2>1, <2>5, Zenon DEF Goes, LastSteps, pc
  <2>7. PcOf(e) # "advance" /\ e.got = call[t].got
    BY <2>1, <2>5, <2>6, Zenon DEF Goes, Before, pc
  <2>8. /\ call'[t] = e /\ pc(t)' # "advance"
        /\ \A u \in Threads \ {t} : call'[u] = call[u] /\ pc(u)' = pc(u)
    BY <2>5, <2>7, Changed, Zenon
  <2>9. ASSUME NEW c \in Descriptors
        PROVE  /\ Pending(c) = {u \in Threads : fd(u) = c /\ pc(u) = "advance"}
               /\ Pending(c)' = {u \in Threads : fd(u)' = c /\ pc(u)' = "advance"}
    BY <1>PendingIs, Zenon DEF Pending, pc, PcOf, Idle
  <2>10. Pending(d) = {t}
    BY <2>1, <2>3, <2>9, <1>PendingOne
  <2>11. Pending(d)' = {}
    BY <2>8, <2>9, <2>10 DEF fd
  <2>12. OffAt(d)' = OffAt(d)
    <3>1. OffAt(d) = off[d] + reg(t)
      BY <2>10, <1>OffOne, Zenon
    <3>2. OffAt(d)' = off'[d]
      BY <2>11, Zenon DEF OffAt
    <3> QED BY <2>4, <3>1, <3>2, Zenon
  <2>13. ASSUME NEW c \in Descriptors \ {d} PROVE OffAt(c)' = OffAt(c)
    <3>1. t \notin Pending(c) /\ t \notin Pending(c)'
      BY <2>3, <2>8, <2>9, Zenon
    <3>2. Pending(c)' = Pending(c)
      <4>1. \A u \in Threads \ {t} : fd(u)' = fd(u) /\ pc(u)' = pc(u)
        BY <2>8, Zenon DEF fd
      <4>2. \A u \in Threads : u \in Pending(c)' <=> u \in Pending(c)
        BY <2>9, <3>1, <4>1, Zenon
      <4>3. Pending(c) \subseteq Threads /\ Pending(c)' \subseteq Threads
        BY Zenon DEF Pending
      <4> QED BY <4>2, <4>3, Zenon
    <3>3. \A u \in Pending(c) : reg(u)' = reg(u)
      BY <2>8, <2>9, <3>1, Zenon DEF reg
    <3> QED BY <2>4, <3>2, <3>3, <1>OffSame, Zenon
  <2>14. Off' = Off
    BY <2>12, <2>13, Zenon DEF Off
  <2>15. Slot' = Slot
    BY <2>4, <1>SlotSame, Zenon
  <2>16. Got' = Got
    BY <2>7, <2>8, Zenon DEF Got
  <2> QED BY <2>4, <2>14, <2>15, <2>16, <1>TableStutters, Zenon
\* The end of a read.
<1>RdunlockDone.
    ASSUME Typed, Calling, NEW t \in Threads, Rdunlock(t)
    PROVE  D!Done(t)
  <2> USE <1>RdunlockDone
  <2>1. /\ pc(t) = "rdunlock" /\ ~Idle(t) /\ reg(t) \in Int /\ StepWith(t, reg(t))
    BY AtFacts, Zenon DEF Rdunlock, Step
  <2>2. UNCHANGED <<ref, type, ip, off, size>>
    BY Zenon DEF Rdunlock, tableVars, inodeVars
  <2> DEFINE e == After(call[t], reg(t))
  <2>3. Changes(t, e) /\ Goes(call[t], e)
    BY <2>1, Stepped, Zenon
  <2> HIDE DEF e
  <2>4. e = NoCall
    BY <2>1, <2>3, Zenon DEF Goes, Before, pc
  <2>5. /\ call'[t] = NoCall /\ pc(t)' = "idle"
        /\ \A u \in Threads \ {t} : call'[u] = call[u] /\ pc(u)' = pc(u)
    BY <2>3, <2>4, Changed, NoCallOK, Zenon
  <2>6. Got' = [Got EXCEPT ![t] = <<0, 0>>]
    BY <2>5, NoCallOK, Zenon DEF Got
  <2>7. ASSUME NEW d \in Descriptors PROVE OffAt(d)' = OffAt(d)
    <3>1. /\ Pending(d) = {u \in Threads : fd(u) = d /\ pc(u) = "advance"}
          /\ Pending(d)' = {u \in Threads : fd(u)' = d /\ pc(u)' = "advance"}
      BY <1>PendingIs, Zenon DEF Pending, pc, PcOf, Idle
    <3>2. \A u \in Threads \ {t} : fd(u)' = fd(u) /\ reg(u)' = reg(u)
      BY <2>5, Zenon DEF fd, reg
    <3>3. Pending(d)' = Pending(d) /\ t \notin Pending(d)
      BY <2>1, <2>5, <3>1, <3>2, Zenon
    <3>4. \A u \in Pending(d) : reg(u)' = reg(u)
      BY <3>1, <3>2, <3>3, Zenon
    <3> QED BY <2>2, <3>3, <3>4, <1>OffSame, Zenon
  <2>8. Off' = Off
    BY <2>7, Zenon DEF Off
  <2> QED BY <2>2, <2>6, <2>8, <1>SlotSame, <1>TableDone, Zenon
\* truncate, ftruncate, the end of unlink and a seek from the end set the size of
\* a file.
<1>SizeResizes.
    ASSUME Typed, Calling, NEW t \in Threads, itrunc(t) \/ Delete(t) \/ (SeekEnd(t) /\ At(t, "seek"))
    PROVE  \E f \in Files : D!Resize(f)
  <2> USE <1>SizeResizes
  <2>0. ASSUME At(t, "seek"), At(t, "seek_end") PROVE FALSE
    <3>1. pc(t) = "seek" /\ pc(t) = "seek_end"
      BY <2>0, AtFacts, Zenon
    <3> QED BY <3>1
  <2>1. /\ pc(t) \in {"itrunc", "delete", "seek"} /\ ~Idle(t) /\ reg(t) \in Int
        /\ StepWith(t, reg(t)) /\ CallOK(call[t])
    BY <2>0, AtFacts, Zenon DEF itrunc, Delete, SeekEnd, Step
  <2>2. UNCHANGED <<ref, type, ip, off>> /\ (pc(t) = "seek" => ino(t) \in Files)
    <3>1. CASE itrunc(t) \/ Delete(t)
      <4>1. pc(t) \in {"itrunc", "delete"}
        BY <3>1, AtFacts, Zenon DEF itrunc, Delete
      <4> QED BY <3>1, <4>1, Zenon DEF itrunc, Delete, tableVars
    <3>2. CASE SeekEnd(t) /\ At(t, "seek")
      BY <2>0, <3>2, Zenon DEF SeekEnd, tableVars
    <3> QED BY <3>1, <3>2, Zenon
  <2>3. PICK f \in Files : f = ino(t)
    BY <2>1, <2>2, Zenon DEF CallOK, pc, ino
  <2>4. \A g \in Files \ {f} : size'[g] = size[g]
    BY <2>0, <2>3, Zenon DEF itrunc, Delete, SeekEnd, Typed
  <2>5. Got' = Got /\ Off' = Off
    BY <2>1, <2>2, <1>UnseenStep, Zenon
  <2> QED BY <2>2, <2>4, <2>5, <1>SlotSame, <1>TableResizes, Zenon
\* A seek of a descriptor that is in use.
<1>SeekSeeks.
    ASSUME Typed, Calling, Table, NEW t \in Threads, SeekTo(t) \/ (SeekEnd(t) /\ ~At(t, "seek"))
    PROVE  \E d \in Descriptors : Seeking(d) /\ D!Seek(d)
  <2> USE <1>SeekSeeks
  <2>1. PICK s \in {"seek", "seek_end"} : At(t, s)
    BY Zenon DEF SeekTo, SeekEnd
  <2>2. pc(t) = s /\ ~Idle(t) /\ CallOK(call[t]) /\ reg(t) \in Int
    BY <2>1, AtFacts, Zenon
  <2>3. PICK d \in Descriptors : d = fd(t)
    BY <2>2, Zenon DEF CallOK, pc, fd
  <2>4. /\ UNCHANGED <<ref, type, ip, size>>
        /\ \A e \in Descriptors \ {d} : off'[e] = off[e]
    BY <2>3, Zenon DEF SeekTo, SeekEnd, tableVars, inodeVars, Typed
  <2>5. ref[d] # 0
    <3>1. CASE SeekTo(t)
      BY <2>3, <3>1, Zenon DEF SeekTo
    <3>2. CASE At(t, "seek_end")
      <4>1. pc(t) = "seek_end"
        BY <3>2, AtFacts, Zenon
      <4>2. ref[d] = 1
        BY <2>3, <4>1, Zenon DEF Table, FdCall, GivenFds
      <4> QED BY <4>2
    <3> QED BY <3>1, <3>2, Zenon DEF SeekEnd
  <2>6. Return(t) \/ (At(t, "seek_end") /\ StepWith(t, reg(t)))
    BY Zenon DEF SeekTo, SeekEnd, Step
  <2>7. /\ call'[t] = NoCall /\ Got' = Got
        /\ \A e \in Descriptors : off'[e] = off[e] => OffAt(e)' = OffAt(e)
    <3>1. CASE Return(t)
      <4>1. call'[t] = NoCall
        BY <3>1, Zenon DEF Return, Calling
      <4> QED BY <2>1, <2>2, <3>1, <4>1, <1>UnseenReturn, Zenon DEF Reading
    <3>2. CASE At(t, "seek_end") /\ StepWith(t, reg(t))
      <4>1. pc(t) = "seek_end"
        BY <3>2, AtFacts, Zenon
      <4> DEFINE e == After(call[t], reg(t))
      <4>2. Changes(t, e) /\ Goes(call[t], e)
        BY <2>2, <3>2, <4>1, Stepped, Zenon
      <4> HIDE DEF e
      <4>3. e = NoCall
        BY <4>1, <4>2, Zenon DEF Goes, Before, pc
      <4>4. call'[t] = NoCall
        BY <4>2, <4>3, Changed, Zenon
      <4> QED BY <2>2, <3>2, <4>1, <4>4, <1>UnseenStep, Zenon
    <3> QED BY <2>6, <3>1, <3>2, Zenon
  <2>8. \A e \in Descriptors \ {d} : Off'[e] = Off[e]
    BY <2>4, <2>7, Zenon DEF Off
  <2>9. Slot' = Slot /\ Slot[d] # Nobody
    BY <2>4, <2>5, <1>SlotSame, OpenFilesAssumption, Zenon DEF Slot, SlotAt, Typed
  <2>10. D!Seek(d)
    BY <2>4, <2>7, <2>8, <2>9, <1>TableSeeks, Zenon
  <2>11. Seeking(d)
    <3>1. At(t, "seek") \/ At(t, "seek_end")
      BY <2>1, Zenon
    <3>2. Idle(t)'
      BY <2>7, Zenon DEF Idle
    <3> QED BY <2>3, <3>1, <3>2, Zenon DEF Seeking
  <2> QED BY <2>10, <2>11, Zenon
<1> SUFFICES ASSUME Shared, [Next]_vars, ~foreign
             PROVE  D!Steady \/ (\E d \in Descriptors : Seeking(d) /\ D!Seek(d))
                      \/ UNCHANGED D!vars
  BY Zenon
<1>1. Typed /\ Calling /\ Table /\ Locks
  BY Zenon DEF Shared
<1>2. CASE UNCHANGED vars
  <2>1. UNCHANGED <<ref, type, ip, off, size, call>>
    BY <1>2, Zenon DEF vars
  <2> QED BY <2>1, <1>CallsSame, Zenon
<1>3. ASSUME NEW t \in Threads, Call(t) PROVE UNCHANGED D!vars
  BY <1>1, <1>3, <1>CallsUnseen, Zenon
<1>4. ASSUME NEW t \in Threads, Run(t)
      PROVE  D!Steady \/ (\E d \in Descriptors : Seeking(d) /\ D!Seek(d))
               \/ UNCHANGED D!vars
  <2>1. CASE namei(t) \/ Load(t) \/ Store(t) \/ iput(t) \/ Rdlock(t) \/ ilock(t)
             \/ iunlock(t) \/ RefCheck(t) \/ Remove(t)
    BY <1>1, <2>1, <1>RunsUnseen, Zenon
  <2>2. CASE userfs_file_alloc(t)
    BY <1>1, <2>2, <1>RunsUnseen, <1>ScansUnseen, <1>TakeReserves, Zenon DEF userfs_file_alloc, D!Steady
  <2>3. CASE Fill(t)
    BY <1>1, <2>3, <1>FillOpens, Zenon DEF D!Steady
  <2>4. CASE userfs_file_close(t)
    BY <1>1, <2>4, <1>CloseFrees, Zenon DEF D!Steady
  <2>5. CASE userfs_file_read(t)
    BY <1>1, <2>5, <1>ScansUnseen, <1>RunsUnseen, <1>ReadiReads, <1>AdvanceUnseen, Zenon
       DEF userfs_file_read, D!Steady
  <2>6. CASE Rdunlock(t)
    BY <1>1, <2>6, <1>RdunlockDone, Zenon DEF D!Steady
  <2>7. CASE itrunc(t)
    BY <1>1, <2>7, <1>SizeResizes, Zenon DEF D!Steady
  <2>8. CASE idealloc(t)
    BY <1>1, <2>8, <1>RunsUnseen, <1>SizeResizes, Zenon DEF idealloc, D!Steady
  <2>9. CASE userfs_posix_lseek(t)
    BY <1>1, <2>9, <1>RunsUnseen, <1>SizeResizes, <1>SeekSeeks, Zenon DEF userfs_posix_lseek, D!Steady
  <2> QED BY <1>4, <2>1, <2>2, <2>3, <2>4, <2>5, <2>6, <2>7, <2>8, <2>9, Zenon DEF Run
<1> QED BY <1>2, <1>3, <1>4, Zenon DEF Next

\* The calls of file.c and posix_interface.c implement the atomic table of
\* DescriptorTable until a foreign unlock happens: a descriptor is given to one
\* open, keeps its file until it is closed, and a read returns the bytes at the
\* offset and moves the offset in one step, whatever the other threads do.  A seek
\* is atomic only while its descriptor is seeking.
THEOREM TableImplemented ==
  Spec => ImplementsTable
BY SharedHolds, TableInit, TableNext, PTL DEF Spec, ImplementsTable

-----------------------------------------------------------------------------

INSTANCE FiniteSetTheorems

\* The threads whose calls have found f and have still to make a step.
Doing(f, s) == {t \in Threads : ino(t) = f /\ Has(call[t].todo, s) /\ pc(t) # "namei"}

\* How often a step is still to be made is the number of threads that have still
\* to make it: no step but incr occurs twice in a call.
LEMMA CountDoing ==
  \A f \in Files :
  \A s :
    /\ Calling /\ s # "incr"
    =>  /\ IsFiniteSet(Doing(f, s))
        /\ Count(f, s) = Cardinality(Doing(f, s)) /\ Count(f, s) \in Nat
\* No step but incr occurs twice in a call ...
<1>ProgramsOnce.
    ASSUME NEW P \in Programs, NEW i \in 1..Len(P), NEW j \in 1..Len(P),
           P[i] = P[j], P[i] # "incr"
    PROVE  i = j
  <2> USE <1>ProgramsOnce
  <2>1. CASE P = OpenSteps
    BY <2>1 DEF OpenSteps
  <2>2. CASE P = StatSteps
    BY <2>2 DEF StatSteps
  <2>3. CASE P = AccessSteps
    BY <2>3 DEF AccessSteps
  <2>4. CASE P = TruncateSteps
    BY <2>4 DEF TruncateSteps
  <2>5. CASE P = UnlinkSteps
    BY <2>5 DEF UnlinkSteps
  <2>6. CASE P = CloseSteps
    BY <2>6 DEF CloseSteps
  <2>7. CASE P = ReadSteps
    BY <2>7 DEF ReadSteps
  <2>8. CASE P = FstatSteps
    BY <2>8 DEF FstatSteps
  <2>9. CASE P = FtruncateSteps
    BY <2>9 DEF FtruncateSteps
  <2>10. CASE P = SeekSteps
    BY <2>10 DEF SeekSteps
  <2>11. CASE P = FullSteps
    BY <2>11 DEF FullSteps
  <2> QED BY <2>1, <2>2, <2>3, <2>4, <2>5, <2>6, <2>7, <2>8, <2>9, <2>10, <2>11, Zenon DEF Programs
\* ... nor in what is left of one.
<1>TodosOnce.
    ASSUME NEW q \in Todos, NEW i \in DOMAIN q, NEW j \in DOMAIN q, q[i] = q[j], q[i] # "incr"
    PROVE  i = j
  <2> USE <1>TodosOnce
  <2>1. PICK P \in Programs, k \in 1..12 : k \in 1..Len(P) /\ q = Rest(P, k)
    BY Zenon DEF Todos
  <2>2. P \in Seq(Steps) /\ Len(P) \in 1..12
    BY ProgramsFit, Zenon
  <2>3. DOMAIN q = 1..((Len(P) - k) + 1) /\ q[i] = P[(k + i) - 1] /\ q[j] = P[(k + j) - 1]
    BY <2>1, <2>2, RestFacts, Zenon
  <2>4. (k + i) - 1 \in 1..Len(P) /\ (k + j) - 1 \in 1..Len(P) /\ i \in Int /\ j \in Int
    BY <2>1, <2>2, <2>3
  <2>5. (k + i) - 1 = (k + j) - 1
    BY <2>3, <2>4, <1>ProgramsOnce, Zenon
  <2> QED BY <2>1, <2>4, <2>5
<1> SUFFICES ASSUME Calling, NEW f \in Files, NEW s, s # "incr"
             PROVE  /\ IsFiniteSet(Doing(f, s))
                    /\ Count(f, s) = Cardinality(Doing(f, s)) /\ Count(f, s) \in Nat
  BY Zenon
<1> DEFINE T == ToDo(f, s)
           D0 == Doing(f, s)
           h == [p \in T |-> p[1]]
<1>1. Len(UnlinkSteps) = 12
  BY Zenon DEF UnlinkSteps
<1>2. IsFiniteSet(Threads \X (1..12)) /\ T \subseteq Threads \X (1..12)
  <2>0. 1 \in Int /\ 12 \in Int
    OBVIOUS
  <2>1. IsFiniteSet(1..12)
    BY <2>0, FS_Interval, Zenon
  <2> QED BY <1>1, <2>1, FS_Product, OpenFilesAssumption, Zenon DEF ToDo
<1>3. IsFiniteSet(T)
  BY <1>2, FS_Subset, Zenon
<1>4. \A t \in Threads : ino(t) = f =>
        /\ call[t] # NoCall /\ call[t].todo \in Todos /\ Shape(call[t].todo)
        /\ pc(t) = call[t].todo[1]
  <2> SUFFICES ASSUME NEW t \in Threads, ino(t) = f
               PROVE  /\ call[t] # NoCall /\ call[t].todo \in Todos /\ Shape(call[t].todo)
                      /\ pc(t) = call[t].todo[1]
    BY Zenon
  <2>1. call[t] # NoCall
    BY NoCallOK, OpenFilesAssumption, Zenon DEF ino
  <2>2. Shape(call[t].todo) /\ pc(t) = Head(call[t].todo) /\ call[t].todo \in Todos
    BY <2>1, CallShape, Zenon DEF Calling, pc
  <2>3. Head(call[t].todo) = call[t].todo[1]
    BY <2>2 DEF Shape
  <2> QED BY <2>1, <2>2, <2>3, Zenon
<1>5. \A p \in T : /\ p[1] \in D0 /\ ino(p[1]) = f /\ p[1] \in Threads
                   /\ p[2] \in DOMAIN call[p[1]].todo /\ call[p[1]].todo[p[2]] = s
                   /\ p = <<p[1], p[2]>>
  BY <1>4 DEF ToDo, Doing, Has
<1>6. ASSUME NEW t \in D0 PROVE \E p \in T : p[1] = t
  <2>1. t \in Threads /\ ino(t) = f /\ Has(call[t].todo, s) /\ pc(t) # "namei"
    BY Zenon DEF Doing
  <2>2. PICK k \in DOMAIN call[t].todo : call[t].todo[k] = s
    BY <2>1, Zenon DEF Has
  <2>3. k \in 1..12
    <3> DEFINE q == call[t].todo
    <3>1. q \in Seq(Steps) /\ Len(q) \in 1..12
      BY <1>4, <2>1, Zenon DEF Shape
    <3> HIDE DEF q
    <3>2. DOMAIN q = 1..Len(q) /\ \A n \in 1..12 : 1..n \subseteq 1..12
      BY <3>1
    <3>3. 1..Len(q) \subseteq 1..12
      BY <3>1, <3>2, Zenon
    <3> QED BY <2>2, <3>2, <3>3, Zenon DEF q
  <2>4. <<t, k>> \in T
    BY <1>1, <1>4, <2>1, <2>2, <2>3, Zenon DEF ToDo
  <2> QED BY <2>4, Zenon
<1>7. \A p, r \in T : p[1] = r[1] => p = r
  <2> SUFFICES ASSUME NEW p \in T, NEW r \in T, p[1] = r[1] PROVE p = r
    BY Zenon
  <2>1. p[2] = r[2]
    BY <1>4, <1>5, <1>TodosOnce
  <2> QED BY <1>5, <2>1, Zenon
<1> HIDE DEF T, D0
<1>8. h \in Bijection(T, D0)
  <2>1. h \in [T -> D0]
    BY <1>5, Zenon
  <2>2. \A p, r \in T : h[p] = h[r] => p = r
    BY <1>7, Zenon
  <2>3. \A t \in D0 : \E p \in T : h[p] = t
    BY <1>6, Zenon
  <2> QED BY <2>1, <2>2, <2>3, Zenon DEF Bijection, Injection, Surjection, IsInjective
<1>9. ExistsBijection(T, D0)
  BY <1>8, Zenon DEF ExistsBijection
<1>10. IsFiniteSet(D0) /\ Cardinality(D0) = Cardinality(T) /\ Cardinality(T) \in Nat
  BY <1>3, <1>9, FS_Bijection, FS_CardinalityType, Zenon
<1> QED BY <1>10, Zenon DEF T, D0, Count

\* A busy inode has a call inside, so more unbusy than ilock steps to be made.
LEMMA SharedBusy ==
  Shared => BusyInside
<1> SUFFICES ASSUME Shared, NEW f \in Files, busy[f]
             PROVE  Count(f, "unbusy") > Count(f, "ilock")
  BY Zenon DEF BusyInside
<1>1. Calling /\ Busied
  BY Zenon DEF Shared
<1>2. PICK t \in Threads : InsideOf(call[t], f)
  BY <1>1, Zenon DEF Busied
<1>3. ASSUME NEW u \in Threads, ino(u) = f
      PROVE  Shape(call[u].todo) /\ pc(u) = Head(call[u].todo)
  <2>1. call[u] # NoCall
    BY <1>3, NoCallOK, OpenFilesAssumption, Zenon DEF ino
  <2> QED BY <1>1, <2>1, CallShape, Zenon DEF Calling, pc
<1> DEFINE L == Doing(f, "ilock")
           U == Doing(f, "unbusy")
<1>4. L \subseteq U
  BY <1>3, Zenon DEF Doing, Shape
<1>5. t \in U /\ t \notin L
  <2>1. ino(t) = f /\ Has(call[t].todo, "unbusy") /\ ~Has(call[t].todo, "ilock")
    BY <1>2, Zenon DEF InsideOf, ino
  <2>2. pc(t) \in Inside
    BY <1>3, <2>1, Zenon DEF Shape
  <2> QED BY <2>1, <2>2, Zenon DEF Doing, Inside
<1>6. /\ IsFiniteSet(U) /\ Count(f, "unbusy") = Cardinality(U) /\ Count(f, "unbusy") \in Nat
      /\ IsFiniteSet(L) /\ Count(f, "ilock") = Cardinality(L) /\ Count(f, "ilock") \in Nat
  BY <1>1, CountDoing, Zenon
<1> HIDE DEF L, U
<1>7. Cardinality(L) <= Cardinality(U) /\ (Cardinality(U) = Cardinality(L) => U = L)
  BY <1>4, <1>6, FS_Subset, Zenon
<1> QED BY <1>5, <1>6, <1>7

\* An inode whose busy flag (I_BUSY) is set has a thread between ilock and the end
\* of iunlock, for every number of threads and files (fs.c).
THEOREM BusyOnlyInside ==
  Spec => []BusyInside
BY SharedHolds, SharedBusy, PTL

=============================================================================
