--------------------------- MODULE WritePoolProofs ---------------------------
(***************************************************************************)
(* Proofs about WritePool, for any numbers of threads, clients and jobs:   *)
(* a return of thpool_wait covers every job queued before the call.        *)
(***************************************************************************)
EXTENDS WritePool, FiniteSetTheorems, TLAPS

\* The threads num_threads_alive counts.
Alive == {w \in Workers : pc[w] \notin {"start", "gone"}}

\* The two counters count.
CountsOK ==
  /\ num_threads_working = Cardinality(Working)
  /\ num_threads_alive = Cardinality(Alive)

\* Where a job can be, and what has been done for it by then.
JobsOK ==
  /\ \A w \in Workers : job[w] # NoJob <=> pc[w] \in {"func", "extent"}
  /\ \A w \in Workers : pc[w] = "extent" => job[w] \in written
  /\ logged \subseteq written
  /\ destroyer # "freed" => submitted \subseteq Queued \cup InHand \cup logged

\* What a client inside thpool_wait may rely on: once it has seen the queue
\* empty, the jobs it waits for are in the hands of threads, or done.
WaitOK ==
  /\ \A c \in Clients : asked[c] \subseteq submitted
  /\ destroyer # "none" => \A c \in Clients : cpc[c] = "out"
  /\ \A c \in Clients :
       cpc[c] = "wworking" => asked[c] \subseteq InHand \cup logged
  /\ covered \subseteq logged

IInv == TypeOK /\ CountsOK /\ JobsOK /\ WaitOK

-----------------------------------------------------------------------------
\* Who has which job does not depend on the clients.
LEMMA JobsSame ==
  ASSUME JobsOK, UNCHANGED <<pc, job, queue, written, logged, submitted, destroyer>>
  PROVE  JobsOK'
<1>1. Queued' = Queued /\ InHand' = InHand
  BY DEF Queued, InHand
<1> QED
  BY <1>1 DEF JobsOK

\* Nor on where a thread without a job is.
LEMMA JobsMove ==
  ASSUME TypeOK, JobsOK, NEW w \in Workers, NEW p, Goto(w, p),
         {pc[w], p} \cap {"func", "extent"} = {},
         UNCHANGED <<job, queue, written, logged, submitted, destroyer>>
  PROVE  JobsOK'
<1>1. Queued' = Queued /\ InHand' = InHand
  BY DEF Queued, InHand
<1>2. \A x \in Workers : pc'[x] = IF x = w THEN p ELSE pc[x]
  BY DEF TypeOK, WorkerTypes, Goto
<1> QED
  BY <1>1, <1>2 DEF JobsOK

\* What is left of the queue when its first job is pulled.
LEMMA PulledQueue ==
  ASSUME queue \in Seq(Jobs), queue # << >>, queue' = Tail(queue)
  PROVE  /\ Len(queue') \in Nat /\ Len(queue) = Len(queue') + 1 /\ Head(queue) = queue[1]
         /\ \A i \in 1 .. Len(queue') : i + 1 \in 1 .. Len(queue) /\ queue'[i] = queue[i + 1]
         /\ Queued = Queued' \cup {Head(queue)}
<1>1. Len(queue) \in Nat \ {0} /\ Len(queue') = Len(queue) - 1 /\ Head(queue) = queue[1]
  OBVIOUS
<1>2. \A i \in 1 .. Len(queue') : i + 1 \in 1 .. Len(queue) /\ queue'[i] = queue[i + 1]
  BY <1>1
<1>3. Queued \subseteq Queued' \cup {queue[1]}
  <2>1. SUFFICES ASSUME NEW i \in 1 .. Len(queue), i # 1 PROVE queue[i] \in Queued'
    BY DEF Queued
  <2>2. i - 1 \in 1 .. Len(queue') /\ (i - 1) + 1 = i
    BY <1>1, <2>1
  <2>3. queue[i] = queue'[i - 1]
    BY <1>2, <2>2
  <2> QED
    BY <2>2, <2>3 DEF Queued
<1>4. Queued' \subseteq Queued
  BY <1>2 DEF Queued
<1>5. queue[1] \in Queued
  <2>1. 1 \in 1 .. Len(queue)
    BY <1>1
  <2> QED
    BY <2>1 DEF Queued
<1> QED
  BY <1>1, <1>2, <1>3, <1>4, <1>5

\* Signalling changes no thread but one that is asleep.
LEMMA SignalMoves ==
  ASSUME TypeOK, NEW moved \in [Workers -> WorkerPoints], SignalOne(moved),
         \A w \in Workers : pc[w] = "asleep" => moved[w] = "asleep"
  PROVE  /\ pc' \in [Workers -> WorkerPoints]
         /\ \A w \in Workers : pc'[w] = moved[w]
                               \/ (pc[w] = "asleep" /\ pc'[w] = "bsem")
  BY DEF SignalOne, Asleep, TypeOK, WorkerTypes, WorkerPoints

\* Init satisfies the invariant.
LEMMA InitIInv == Init => IInv
<1> SUFFICES ASSUME Init PROVE IInv
  OBVIOUS
<1>1. TypeOK
  <2>1. WorkerTypes
    BY DEF Init, WorkerTypes, WorkerPoints
  <2>2. PoolTypes
    BY DEF Init, PoolTypes
  <2>3. FlagTypes
    BY DEF Init, FlagTypes
  <2>4. ClientTypes
    BY DEF Init, ClientTypes, ClientPoints
  <2>5. HistoryTypes
    BY DEF Init, HistoryTypes
  <2> QED
    BY <2>1, <2>2, <2>3, <2>4, <2>5 DEF TypeOK
<1>2. CountsOK
  <2>1. Working = {} /\ Alive = {}
    BY DEF Init, Working, Alive
  <2> QED
    BY <2>1, FS_EmptySet DEF Init, CountsOK
<1>3. JobsOK
  BY DEF Init, JobsOK
<1>4. WaitOK
  BY DEF Init, WaitOK
<1> QED
  BY <1>1, <1>2, <1>3, <1>4 DEF IInv

\* A thread that joins a set of threads raises its size by one ...
LEMMA CountUp ==
  ASSUME NEW S, S \subseteq Workers, NEW w \in Workers, w \notin S
  PROVE  Cardinality(S) \in Nat /\ Cardinality(S \cup {w}) = Cardinality(S) + 1
<1>1. IsFiniteSet(S)
  BY WritePoolAssumption, FS_Subset
<1> QED
  BY <1>1, FS_CardinalityType, FS_AddElement

\* ... and one that leaves it lowers it.
LEMMA CountDown ==
  ASSUME NEW S, S \subseteq Workers, NEW w \in S
  PROVE  /\ Cardinality(S) \in Nat \ {0}
         /\ Cardinality(S \ {w}) = Cardinality(S) - 1
<1>1. IsFiniteSet(S)
  BY WritePoolAssumption, FS_Subset
<1>2. Cardinality(S) \in Nat /\ Cardinality(S) # 0
  BY <1>1, FS_CardinalityType, FS_EmptySet
<1> QED
  BY <1>1, <1>2, FS_RemoveElement

\* Start preserves the invariant.
LEMMA Step_Start ==
  ASSUME IInv, NEW w \in Workers, Start(w)
  PROVE  IInv'
<1>1. TypeOK'
  BY DEF IInv, TypeOK, WorkerTypes, PoolTypes, FlagTypes, ClientTypes,
     HistoryTypes, WorkerPoints, Start, Goto, semVars, historyVars
<1>2. CountsOK'
  <2>1. Working' = Working
    BY DEF IInv, TypeOK, WorkerTypes, WorkerPoints, Working, Start, Goto
  <2>2. Alive' = Alive \cup {w} /\ w \notin Alive
    BY DEF IInv, TypeOK, WorkerTypes, WorkerPoints, Alive, Start, Goto
  <2>3. num_threads_alive' = Cardinality(Alive')
    BY <2>2, CountUp DEF IInv, CountsOK, Alive, Start
  <2> QED
    BY <2>1, <2>3 DEF IInv, CountsOK, Start
<1>3. JobsOK'
  BY DEF IInv, TypeOK, WorkerTypes, PoolTypes, FlagTypes, ClientTypes,
     HistoryTypes, WorkerPoints, JobsOK, Queued, InHand, Start, Goto,
     semVars, historyVars
<1>4. WaitOK'
  BY DEF IInv, TypeOK, WorkerTypes, PoolTypes, FlagTypes, ClientTypes,
     HistoryTypes, WorkerPoints, WaitOK, InHand, Start, Goto, semVars,
     historyVars
<1> QED
  BY <1>1, <1>2, <1>3, <1>4 DEF IInv

\* InitReturns preserves the invariant.
LEMMA Step_InitReturns ==
  ASSUME IInv, InitReturns
  PROVE  IInv'
<1>1. TypeOK'
  BY DEF IInv, TypeOK, WorkerTypes, PoolTypes, FlagTypes, ClientTypes,
     HistoryTypes, InitReturns, workerVars, semVars, countVars,
     historyVars
<1>2. CountsOK'
  <2>1. Working' = Working /\ Alive' = Alive
    BY DEF IInv, TypeOK, WorkerTypes, Working, Alive, InitReturns,
       workerVars, semVars, countVars, historyVars
  <2> QED
    BY <2>1 DEF IInv, CountsOK, InitReturns, workerVars, semVars,
       countVars, historyVars
<1>3. JobsOK'
  BY JobsSame DEF IInv, InitReturns, workerVars, semVars, countVars, historyVars
<1>4. WaitOK'
  BY DEF IInv, TypeOK, WorkerTypes, PoolTypes, FlagTypes, ClientTypes,
     HistoryTypes, WaitOK, InHand, InitReturns, workerVars, semVars,
     countVars, historyVars
<1> QED
  BY <1>1, <1>2, <1>3, <1>4 DEF IInv

\* Loop preserves the invariant.
LEMMA Step_Loop ==
  ASSUME IInv, NEW w \in Workers, Loop(w)
  PROVE  IInv'
<1>1. TypeOK'
  BY DEF IInv, TypeOK, WorkerTypes, PoolTypes, FlagTypes, ClientTypes,
     HistoryTypes, WorkerPoints, Loop, Goto, semVars, countVars,
     historyVars
<1>2. CountsOK'
  <2>1. Working' = Working /\ Alive' = Alive
    BY DEF IInv, TypeOK, WorkerTypes, WorkerPoints, Working, Alive,
       Loop, Goto, semVars, countVars, historyVars
  <2> QED
    BY <2>1 DEF IInv, CountsOK, Loop, semVars, countVars, historyVars
<1>3. JobsOK'
  BY DEF IInv, TypeOK, WorkerTypes, PoolTypes, FlagTypes, ClientTypes,
     HistoryTypes, WorkerPoints, JobsOK, Queued, InHand, Loop, Goto,
     semVars, countVars, historyVars
<1>4. WaitOK'
  BY DEF IInv, TypeOK, WorkerTypes, PoolTypes, FlagTypes, ClientTypes,
     HistoryTypes, WorkerPoints, WaitOK, InHand, Loop, Goto, semVars,
     countVars, historyVars
<1> QED
  BY <1>1, <1>2, <1>3, <1>4 DEF IInv

\* bsem_wait preserves the invariant.
LEMMA Step_bsem_wait ==
  ASSUME IInv, NEW w \in Workers, bsem_wait(w)
  PROVE  IInv'
<1>1. TypeOK'
  BY DEF IInv, TypeOK, WorkerTypes, PoolTypes, FlagTypes, ClientTypes,
     HistoryTypes, WorkerPoints, bsem_wait, Goto, countVars, historyVars
<1>2. CountsOK'
  <2>1. Working' = Working /\ Alive' = Alive
    BY DEF IInv, TypeOK, WorkerTypes, WorkerPoints, Working, Alive,
       bsem_wait, Goto, countVars, historyVars
  <2> QED
    BY <2>1 DEF IInv, CountsOK, bsem_wait, countVars, historyVars
<1>3. JobsOK'
  BY DEF IInv, TypeOK, WorkerTypes, PoolTypes, FlagTypes, ClientTypes,
     HistoryTypes, WorkerPoints, JobsOK, Queued, InHand, bsem_wait, Goto,
     countVars, historyVars
<1>4. WaitOK'
  BY DEF IInv, TypeOK, WorkerTypes, PoolTypes, FlagTypes, ClientTypes,
     HistoryTypes, WorkerPoints, WaitOK, InHand, bsem_wait, Goto,
     countVars, historyVars
<1> QED
  BY <1>1, <1>2, <1>3, <1>4 DEF IInv

\* CountWorking preserves the invariant.
LEMMA Step_CountWorking ==
  ASSUME IInv, NEW w \in Workers, CountWorking(w)
  PROVE  IInv'
<1>1. TypeOK'
  BY DEF IInv, TypeOK, WorkerTypes, PoolTypes, FlagTypes, ClientTypes,
     HistoryTypes, WorkerPoints, CountWorking, Goto, semVars, historyVars
<1>2. CountsOK'
  <2>1. Alive' = Alive
    BY DEF IInv, TypeOK, WorkerTypes, WorkerPoints, Alive, CountWorking, Goto
  <2>2. CASE threads_keepalive
    <3>1. Working' = Working \cup {w} /\ w \notin Working
      BY <2>2 DEF IInv, TypeOK, WorkerTypes, WorkerPoints, Working,
         CountWorking, Goto
    <3>2. num_threads_working' = Cardinality(Working')
      BY <2>2, <3>1, CountUp DEF IInv, CountsOK, Working, CountWorking
    <3> QED
      BY <2>1, <3>2 DEF IInv, CountsOK, CountWorking
  <2>3. CASE ~threads_keepalive
    <3>1. Working' = Working
      BY <2>3 DEF IInv, TypeOK, WorkerTypes, WorkerPoints, Working,
         CountWorking, Goto
    <3> QED
      BY <2>1, <2>3, <3>1 DEF IInv, CountsOK, CountWorking
  <2> QED
    BY <2>2, <2>3
<1>3. JobsOK'
  BY JobsMove DEF IInv, CountWorking, semVars, historyVars
<1>4. WaitOK'
  BY DEF IInv, TypeOK, WorkerTypes, PoolTypes, FlagTypes, ClientTypes,
     HistoryTypes, WorkerPoints, WaitOK, InHand, CountWorking, Goto,
     semVars, historyVars
<1> QED
  BY <1>1, <1>2, <1>3, <1>4 DEF IInv

\* jobqueue_pull preserves the invariant.
LEMMA Step_jobqueue_pull ==
  ASSUME IInv, NEW w \in Workers, jobqueue_pull(w)
  PROVE  IInv'
<1>0. /\ pc' \in [Workers -> WorkerPoints]
      /\ \A x \in Workers \ {w} :
           pc'[x] = pc[x] \/ (pc[x] = "asleep" /\ pc'[x] = "bsem")
      /\ pc'[w] = IF queue = << >> THEN "dec" ELSE "func"
  <2> DEFINE moved == [pc EXCEPT ![w] = "func"]
  <2>1. /\ moved \in [Workers -> WorkerPoints]
        /\ moved[w] = "func"
        /\ \A x \in Workers \ {w} : moved[x] = pc[x]
        /\ \A x \in Workers : pc[x] = "asleep" => moved[x] = "asleep"
        /\ pc[w] # "asleep"
    BY DEF IInv, TypeOK, WorkerTypes, WorkerPoints, jobqueue_pull
  <2>2. CASE queue = << >>
    BY <2>2 DEF IInv, TypeOK, WorkerTypes, WorkerPoints, jobqueue_pull, Goto
  <2>3. CASE queue # << >> /\ Len(queue) > 1
    <3>1. SignalOne(moved)
      BY <2>3 DEF jobqueue_pull
    <3> HIDE DEF moved
    <3>2. /\ pc' \in [Workers -> WorkerPoints]
          /\ \A x \in Workers : pc'[x] = moved[x]
                                \/ (pc[x] = "asleep" /\ pc'[x] = "bsem")
      BY <2>1, <3>1, SignalMoves DEF IInv
    <3> QED
      BY <2>1, <2>3, <3>2
  <2>4. CASE queue # << >> /\ ~(Len(queue) > 1)
    BY <2>1, <2>4 DEF jobqueue_pull, Goto
  <2> QED
    BY <2>2, <2>3, <2>4
<1>1. TypeOK'
  <2>11. WorkerTypes'
    BY <1>0 DEF IInv, TypeOK, WorkerTypes, PoolTypes, WorkerPoints,
       jobqueue_pull, Goto, countVars, historyVars
  <2>12. PoolTypes'
    <3>1. queue' \in Seq(Jobs)
      BY DEF IInv, TypeOK, PoolTypes, jobqueue_pull
    <3>2. v' \in {0, 1}
      BY DEF IInv, TypeOK, PoolTypes, jobqueue_pull
    <3> QED
      BY <3>1, <3>2 DEF IInv, TypeOK, WorkerTypes, PoolTypes,
         jobqueue_pull, countVars, historyVars
  <2>13. FlagTypes'
    BY DEF IInv, TypeOK, FlagTypes, jobqueue_pull, countVars, historyVars
  <2>14. ClientTypes'
    BY DEF IInv, TypeOK, ClientTypes, jobqueue_pull, countVars, historyVars
  <2>15. HistoryTypes'
    BY <1>0 DEF IInv, TypeOK, HistoryTypes, jobqueue_pull, countVars,
       historyVars
  <2> QED
    BY <2>11, <2>12, <2>13, <2>14, <2>15 DEF TypeOK
<1>2. CountsOK'
  <2>1. Working' = Working /\ Alive' = Alive
    BY <1>0 DEF Working, Alive, jobqueue_pull
  <2> QED
    BY <2>1 DEF IInv, CountsOK, jobqueue_pull, countVars
<1>0a. job[w] = NoJob
  BY DEF IInv, JobsOK, jobqueue_pull
<1>0b. Queued' \cup InHand' = Queued \cup InHand /\ InHand \subseteq InHand'
  <2>1. CASE queue = << >>
    BY <2>1 DEF Queued, InHand, jobqueue_pull
  <2>2. CASE queue # << >>
    <3>1. Head(queue) \in Jobs /\ Head(queue) # NoJob
      BY <2>2, WritePoolAssumption DEF IInv, TypeOK, PoolTypes
    <3>2. InHand' = InHand \cup {Head(queue)}
      BY <2>2, <3>1, <1>0a DEF IInv, TypeOK, WorkerTypes, InHand,
         jobqueue_pull
    <3>3. Queued = Queued' \cup {Head(queue)}
      <4>1. queue' = Tail(queue) /\ queue \in Seq(Jobs)
        BY <2>2 DEF IInv, TypeOK, PoolTypes, jobqueue_pull
      <4> QED
        BY <2>2, <4>1, PulledQueue
    <3> QED
      BY <3>2, <3>3
  <2> QED
    BY <2>1, <2>2
<1>3. JobsOK'
  <2>1. \A x \in Workers : job'[x] # NoJob <=> pc'[x] \in {"func", "extent"}
    <3>1. queue # << >> => Head(queue) # NoJob
      BY WritePoolAssumption DEF IInv, TypeOK, PoolTypes
    <3> QED
      BY <1>0, <1>0a, <3>1 DEF IInv, TypeOK, WorkerTypes, JobsOK,
         jobqueue_pull
  <2>2. \A x \in Workers : pc'[x] = "extent" => job'[x] \in written'
    BY <1>0 DEF IInv, TypeOK, WorkerTypes, JobsOK, jobqueue_pull, historyVars
  <2> QED
    BY <2>1, <2>2, <1>0b DEF IInv, JobsOK, jobqueue_pull, historyVars
<1>4. WaitOK'
  BY <1>0b DEF IInv, WaitOK, jobqueue_pull, historyVars
<1> QED
  BY <1>1, <1>2, <1>3, <1>4 DEF IInv

\* RunJob preserves the invariant.
LEMMA Step_RunJob ==
  ASSUME IInv, NEW w \in Workers, RunJob(w)
  PROVE  IInv'
<1>1. TypeOK'
  <2>1. job[w] \in Jobs
    BY DEF IInv, TypeOK, WorkerTypes, JobsOK, RunJob
  <2>11. WorkerTypes'
    BY <2>1 DEF IInv, TypeOK, WorkerTypes, PoolTypes, WorkerPoints,
       RunJob, Goto, semVars, countVars
  <2>12. PoolTypes'
    BY <2>1 DEF IInv, TypeOK, WorkerTypes, PoolTypes, RunJob, semVars,
       countVars
  <2>13. FlagTypes'
    BY DEF IInv, TypeOK, FlagTypes, RunJob, semVars, countVars
  <2>14. ClientTypes'
    BY DEF IInv, TypeOK, ClientTypes, RunJob, semVars, countVars
  <2>15. HistoryTypes'
    BY <2>1 DEF IInv, TypeOK, HistoryTypes, RunJob, semVars, countVars
  <2> QED
    BY <2>11, <2>12, <2>13, <2>14, <2>15 DEF TypeOK
<1>2. CountsOK'
  <2>1. Working' = Working /\ Alive' = Alive
    BY DEF IInv, TypeOK, WorkerTypes, WorkerPoints, Working, Alive,
       RunJob, Goto, semVars, countVars
  <2> QED
    BY <2>1 DEF IInv, CountsOK, RunJob, semVars, countVars
<1>3. JobsOK'
  BY DEF IInv, TypeOK, WorkerTypes, PoolTypes, FlagTypes, ClientTypes,
     HistoryTypes, WorkerPoints, JobsOK, Queued, InHand, RunJob, Goto,
     semVars, countVars
<1>4. WaitOK'
  BY DEF IInv, TypeOK, WorkerTypes, PoolTypes, FlagTypes, ClientTypes,
     HistoryTypes, WorkerPoints, WaitOK, InHand, RunJob, Goto, semVars,
     countVars
<1> QED
  BY <1>1, <1>2, <1>3, <1>4 DEF IInv

\* LogExtent preserves the invariant.
LEMMA Step_LogExtent ==
  ASSUME IInv, NEW w \in Workers, LogExtent(w)
  PROVE  IInv'
<1>1. TypeOK'
  <2>1. job[w] \in Jobs
    BY DEF IInv, TypeOK, WorkerTypes, JobsOK, LogExtent
  <2>11. WorkerTypes'
    BY <2>1 DEF IInv, TypeOK, WorkerTypes, PoolTypes, WorkerPoints,
       LogExtent, Goto, semVars, countVars
  <2>12. PoolTypes'
    BY <2>1 DEF IInv, TypeOK, WorkerTypes, PoolTypes, LogExtent,
       semVars, countVars
  <2>13. FlagTypes'
    BY DEF IInv, TypeOK, FlagTypes, LogExtent, semVars, countVars
  <2>14. ClientTypes'
    BY DEF IInv, TypeOK, ClientTypes, LogExtent, semVars, countVars
  <2>15. HistoryTypes'
    BY <2>1 DEF IInv, TypeOK, HistoryTypes, LogExtent, semVars, countVars
  <2> QED
    BY <2>11, <2>12, <2>13, <2>14, <2>15 DEF TypeOK
<1>2. CountsOK'
  <2>1. Working' = Working /\ Alive' = Alive
    BY DEF IInv, TypeOK, WorkerTypes, WorkerPoints, Working, Alive,
       LogExtent, Goto, semVars, countVars
  <2> QED
    BY <2>1 DEF IInv, CountsOK, LogExtent, semVars, countVars
<1>3. JobsOK'
  <2>1. /\ \A x \in Workers : x # w => job'[x] = job[x] /\ pc'[x] = pc[x]
        /\ pc[w] = "extent" /\ job'[w] = NoJob /\ pc'[w] = "dec"
        /\ logged' = logged \cup {job[w]}
        /\ UNCHANGED <<queue, written, submitted, destroyer>>
    BY DEF IInv, TypeOK, WorkerTypes, LogExtent, Goto, semVars
  <2>2. Queued' = Queued /\ InHand \subseteq InHand' \cup {job[w]}
    BY <2>1 DEF Queued, InHand
  <2> QED
    BY <2>1, <2>2 DEF IInv, JobsOK
<1>4. WaitOK'
  BY DEF IInv, TypeOK, WorkerTypes, PoolTypes, FlagTypes, ClientTypes,
     HistoryTypes, WorkerPoints, WaitOK, InHand, LogExtent, Goto,
     semVars, countVars
<1> QED
  BY <1>1, <1>2, <1>3, <1>4 DEF IInv

\* DoneWorking preserves the invariant.
LEMMA Step_DoneWorking ==
  ASSUME IInv, NEW w \in Workers, DoneWorking(w)
  PROVE  IInv'
<1>1. TypeOK'
  <2>1. num_threads_working \in Nat \ {0}
    <3>1. w \in Working /\ Working \subseteq Workers
      BY DEF DoneWorking, Working
    <3> QED
      BY <3>1, CountDown DEF IInv, CountsOK
  <2>11. WorkerTypes'
    BY <2>1 DEF IInv, TypeOK, WorkerTypes, PoolTypes, WorkerPoints,
       DoneWorking, Goto, semVars, historyVars
  <2>12. PoolTypes'
    BY <2>1 DEF IInv, TypeOK, WorkerTypes, PoolTypes, DoneWorking,
       semVars, historyVars
  <2>13. FlagTypes'
    BY DEF IInv, TypeOK, FlagTypes, DoneWorking, semVars, historyVars
  <2>14. ClientTypes'
    BY DEF IInv, TypeOK, ClientTypes, ClientPoints, DoneWorking,
       WaitersAsleep, semVars, historyVars
  <2>15. HistoryTypes'
    BY <2>1 DEF IInv, TypeOK, HistoryTypes, DoneWorking, semVars, historyVars
  <2> QED
    BY <2>11, <2>12, <2>13, <2>14, <2>15 DEF TypeOK
<1>2. CountsOK'
  <2>1. Alive' = Alive
    BY DEF IInv, TypeOK, WorkerTypes, WorkerPoints, Alive, DoneWorking, Goto
  <2>2. Working' = Working \ {w} /\ w \in Working
    BY DEF IInv, TypeOK, WorkerTypes, WorkerPoints, Working, DoneWorking, Goto
  <2>3. num_threads_working' = Cardinality(Working')
    BY <2>2, CountDown DEF IInv, CountsOK, Working, DoneWorking
  <2> QED
    BY <2>1, <2>3 DEF IInv, CountsOK, DoneWorking
<1>3. JobsOK'
  BY JobsMove DEF IInv, DoneWorking, semVars, historyVars
<1>4. WaitOK'
  <2>1. \A c \in Clients : cpc'[c] = cpc[c] \/ (cpc[c] = "wasleep" /\ cpc'[c] = "wlock")
    BY DEF IInv, TypeOK, ClientTypes, DoneWorking, WaitersAsleep
  <2> QED
    BY <2>1 DEF IInv, WaitOK, InHand, DoneWorking, historyVars
<1> QED
  BY <1>1, <1>2, <1>3, <1>4 DEF IInv

\* Exit preserves the invariant.
LEMMA Step_Exit ==
  ASSUME IInv, NEW w \in Workers, Exit(w)
  PROVE  IInv'
<1>1. TypeOK'
  <2>1. num_threads_alive \in Nat \ {0}
    <3>1. w \in Alive /\ Alive \subseteq Workers
      BY DEF Exit, Alive
    <3> QED
      BY <3>1, CountDown DEF IInv, CountsOK
  <2>11. WorkerTypes'
    BY <2>1 DEF IInv, TypeOK, WorkerTypes, PoolTypes, WorkerPoints,
       Exit, Goto, semVars, historyVars
  <2>12. PoolTypes'
    BY <2>1 DEF IInv, TypeOK, WorkerTypes, PoolTypes, Exit, semVars,
       historyVars
  <2>13. FlagTypes'
    BY DEF IInv, TypeOK, FlagTypes, Exit, semVars, historyVars
  <2>14. ClientTypes'
    BY DEF IInv, TypeOK, ClientTypes, Exit, semVars, historyVars
  <2>15. HistoryTypes'
    BY <2>1 DEF IInv, TypeOK, HistoryTypes, Exit, semVars, historyVars
  <2> QED
    BY <2>11, <2>12, <2>13, <2>14, <2>15 DEF TypeOK
<1>2. CountsOK'
  <2>1. Working' = Working
    BY DEF IInv, TypeOK, WorkerTypes, WorkerPoints, Working, Exit, Goto
  <2>2. Alive' = Alive \ {w} /\ w \in Alive
    BY DEF IInv, TypeOK, WorkerTypes, WorkerPoints, Alive, Exit, Goto
  <2>3. num_threads_alive' = Cardinality(Alive')
    BY <2>2, CountDown DEF IInv, CountsOK, Alive, Exit
  <2> QED
    BY <2>1, <2>3 DEF IInv, CountsOK, Exit
<1>3. JobsOK'
  BY JobsMove DEF IInv, Exit, semVars, historyVars
<1>4. WaitOK'
  BY DEF IInv, TypeOK, WorkerTypes, PoolTypes, FlagTypes, ClientTypes,
     HistoryTypes, WorkerPoints, WaitOK, InHand, Exit, Goto, semVars,
     historyVars
<1> QED
  BY <1>1, <1>2, <1>3, <1>4 DEF IInv

\* WakeWorker preserves the invariant.
LEMMA Step_WakeWorker ==
  ASSUME IInv, NEW w \in Workers, WakeWorker(w)
  PROVE  IInv'
<1>1. TypeOK'
  BY DEF IInv, TypeOK, WorkerTypes, PoolTypes, FlagTypes, ClientTypes,
     HistoryTypes, WorkerPoints, WakeWorker, Goto, semVars, countVars,
     historyVars
<1>2. CountsOK'
  <2>1. Working' = Working /\ Alive' = Alive
    BY DEF IInv, TypeOK, WorkerTypes, WorkerPoints, Working, Alive,
       WakeWorker, Goto, semVars, countVars, historyVars
  <2> QED
    BY <2>1 DEF IInv, CountsOK, WakeWorker, semVars, countVars, historyVars
<1>3. JobsOK'
  BY JobsMove DEF IInv, WakeWorker, semVars, historyVars
<1>4. WaitOK'
  BY DEF IInv, TypeOK, WorkerTypes, PoolTypes, FlagTypes, ClientTypes,
     HistoryTypes, WorkerPoints, WaitOK, InHand, WakeWorker, Goto,
     semVars, countVars, historyVars
<1> QED
  BY <1>1, <1>2, <1>3, <1>4 DEF IInv

\* thpool_add_work preserves the invariant.
LEMMA Step_thpool_add_work ==
  ASSUME IInv, NEW c \in Clients, NEW j \in Jobs, thpool_add_work(c, j)
  PROVE  IInv'
<1>0. /\ pc' \in [Workers -> WorkerPoints]
      /\ \A x \in Workers :
           pc'[x] = pc[x] \/ (pc[x] = "asleep" /\ pc'[x] = "bsem")
  BY SignalMoves DEF IInv, TypeOK, WorkerTypes, thpool_add_work, jobqueue_push
<1>1. TypeOK'
  <2>11. WorkerTypes'
    BY <1>0 DEF IInv, TypeOK, WorkerTypes, PoolTypes, WorkerPoints,
       thpool_add_work, jobqueue_push, countVars
  <2>12. PoolTypes'
    BY <1>0 DEF IInv, TypeOK, WorkerTypes, PoolTypes, thpool_add_work,
       jobqueue_push, countVars
  <2>13. FlagTypes'
    BY DEF IInv, TypeOK, FlagTypes, thpool_add_work, jobqueue_push, countVars
  <2>14. ClientTypes'
    BY DEF IInv, TypeOK, ClientTypes, thpool_add_work, jobqueue_push,
       countVars
  <2>15. HistoryTypes'
    BY <1>0 DEF IInv, TypeOK, HistoryTypes, thpool_add_work,
       jobqueue_push, countVars
  <2> QED
    BY <2>11, <2>12, <2>13, <2>14, <2>15 DEF TypeOK
<1>2. CountsOK'
  <2>1. Working' = Working /\ Alive' = Alive
    BY <1>0 DEF Working, Alive
  <2> QED
    BY <2>1 DEF IInv, CountsOK, thpool_add_work, jobqueue_push, countVars
<1>3. JobsOK'
  <2>1. Queued' = Queued \cup {j}
    BY DEF IInv, TypeOK, PoolTypes, Queued, thpool_add_work, jobqueue_push
  <2>2. InHand' = InHand
    BY DEF InHand, thpool_add_work, jobqueue_push
  <2>3. \A x \in Workers : job'[x] # NoJob <=> pc'[x] \in {"func", "extent"}
    BY <1>0 DEF IInv, JobsOK, thpool_add_work, jobqueue_push
  <2>4. \A x \in Workers : pc'[x] = "extent" => job'[x] \in written'
    BY <1>0 DEF IInv, JobsOK, thpool_add_work, jobqueue_push
  <2> QED
    BY <2>1, <2>2, <2>3, <2>4 DEF IInv, JobsOK, thpool_add_work, jobqueue_push
<1>4. WaitOK'
  BY DEF IInv, TypeOK, WorkerTypes, PoolTypes, FlagTypes, ClientTypes,
     HistoryTypes, WorkerPoints, WaitOK, InHand, thpool_add_work,
     jobqueue_push, countVars
<1> QED
  BY <1>1, <1>2, <1>3, <1>4 DEF IInv

\* CallWait preserves the invariant.
LEMMA Step_CallWait ==
  ASSUME IInv, NEW c \in Clients, CallWait(c)
  PROVE  IInv'
<1>1. TypeOK'
  BY DEF IInv, TypeOK, WorkerTypes, PoolTypes, FlagTypes, ClientTypes,
     HistoryTypes, ClientPoints, CallWait, workerVars, semVars, countVars
<1>2. CountsOK'
  <2>1. Working' = Working /\ Alive' = Alive
    BY DEF IInv, TypeOK, WorkerTypes, Working, Alive, CallWait,
       workerVars, semVars, countVars
  <2> QED
    BY <2>1 DEF IInv, CountsOK, CallWait, workerVars, semVars, countVars
<1>3. JobsOK'
  BY JobsSame DEF IInv, CallWait, workerVars, semVars, countVars, historyVars
<1>4. WaitOK'
  BY DEF IInv, TypeOK, WorkerTypes, PoolTypes, FlagTypes, ClientTypes,
     HistoryTypes, ClientPoints, WaitOK, InHand, CallWait, workerVars,
     semVars, countVars
<1> QED
  BY <1>1, <1>2, <1>3, <1>4 DEF IInv

\* WaitLock preserves the invariant.
LEMMA Step_WaitLock ==
  ASSUME IInv, NEW c \in Clients, WaitLock(c)
  PROVE  IInv'
<1>1. TypeOK'
  BY DEF IInv, TypeOK, WorkerTypes, PoolTypes, FlagTypes, ClientTypes,
     HistoryTypes, ClientPoints, WaitLock, workerVars, semVars,
     countVars, historyVars
<1>2. CountsOK'
  <2>1. Working' = Working /\ Alive' = Alive
    BY DEF IInv, TypeOK, WorkerTypes, Working, Alive, WaitLock,
       workerVars, semVars, countVars, historyVars
  <2> QED
    BY <2>1 DEF IInv, CountsOK, WaitLock, workerVars, semVars,
       countVars, historyVars
<1>3. JobsOK'
  BY JobsSame DEF IInv, WaitLock, workerVars, semVars, countVars, historyVars
<1>4. WaitOK'
  BY DEF IInv, TypeOK, WorkerTypes, PoolTypes, FlagTypes, ClientTypes,
     HistoryTypes, ClientPoints, WaitOK, InHand, WaitLock, workerVars,
     semVars, countVars, historyVars
<1> QED
  BY <1>1, <1>2, <1>3, <1>4 DEF IInv

\* WaitReadLen preserves the invariant.
LEMMA Step_WaitReadLen ==
  ASSUME IInv, NEW c \in Clients, WaitReadLen(c)
  PROVE  IInv'
<1>1. TypeOK'
  BY DEF IInv, TypeOK, WorkerTypes, PoolTypes, FlagTypes, ClientTypes,
     HistoryTypes, ClientPoints, WaitReadLen, workerVars, semVars,
     countVars, historyVars
<1>2. CountsOK'
  <2>1. Working' = Working /\ Alive' = Alive
    BY DEF IInv, TypeOK, WorkerTypes, Working, Alive, WaitReadLen,
       workerVars, semVars, countVars, historyVars
  <2> QED
    BY <2>1 DEF IInv, CountsOK, WaitReadLen, workerVars, semVars,
       countVars, historyVars
<1>3. JobsOK'
  BY JobsSame DEF IInv, WaitReadLen, workerVars, semVars, countVars, historyVars
<1>4. WaitOK'
  <2>1. queue = << >> => asked[c] \subseteq InHand \cup logged
    <3>1. asked[c] \subseteq submitted /\ destroyer = "none"
      BY DEF IInv, WaitOK, WaitReadLen
    <3>2. queue = << >> => Queued = {}
      BY DEF Queued
    <3> QED
      BY <3>1, <3>2 DEF IInv, JobsOK
  <2> QED
    BY <2>1 DEF IInv, TypeOK, ClientTypes, WaitOK, InHand, WaitReadLen,
       workerVars, historyVars
<1> QED
  BY <1>1, <1>2, <1>3, <1>4 DEF IInv

\* WaitReadWorking preserves the invariant.
LEMMA Step_WaitReadWorking ==
  ASSUME IInv, NEW c \in Clients, WaitReadWorking(c)
  PROVE  IInv'
<1>1. TypeOK'
  BY DEF IInv, TypeOK, WorkerTypes, PoolTypes, FlagTypes, ClientTypes,
     HistoryTypes, ClientPoints, WaitReadWorking, workerVars, semVars,
     countVars
<1>2. CountsOK'
  <2>1. Working' = Working /\ Alive' = Alive
    BY DEF IInv, TypeOK, WorkerTypes, Working, Alive, WaitReadWorking,
       workerVars, semVars, countVars
  <2> QED
    BY <2>1 DEF IInv, CountsOK, WaitReadWorking, workerVars, semVars,
       countVars
<1>3. JobsOK'
  BY JobsSame DEF IInv, WaitReadWorking, workerVars, semVars, countVars, historyVars
<1>4. WaitOK'
  <2>1. num_threads_working = 0 => asked[c] \subseteq logged
    <3>1. num_threads_working = 0 => Working = {}
      BY CountDown DEF IInv, CountsOK, Working
    <3>2. Working = {} => InHand = {}
      BY DEF IInv, JobsOK, Working, InHand
    <3> QED
      BY <3>1, <3>2 DEF IInv, WaitOK, WaitReadWorking
  <2>2. covered' \subseteq logged
    BY <2>1 DEF IInv, TypeOK, PoolTypes, WaitOK, WaitReadWorking
  <2> QED
    BY <2>2 DEF IInv, TypeOK, ClientTypes, WaitOK, InHand,
       WaitReadWorking, workerVars
<1> QED
  BY <1>1, <1>2, <1>3, <1>4 DEF IInv

\* WakeWaiter preserves the invariant.
LEMMA Step_WakeWaiter ==
  ASSUME IInv, NEW c \in Clients, WakeWaiter(c)
  PROVE  IInv'
<1>1. TypeOK'
  BY DEF IInv, TypeOK, WorkerTypes, PoolTypes, FlagTypes, ClientTypes,
     HistoryTypes, ClientPoints, WakeWaiter, workerVars, semVars,
     countVars, historyVars
<1>2. CountsOK'
  <2>1. Working' = Working /\ Alive' = Alive
    BY DEF IInv, TypeOK, WorkerTypes, Working, Alive, WakeWaiter,
       workerVars, semVars, countVars, historyVars
  <2> QED
    BY <2>1 DEF IInv, CountsOK, WakeWaiter, workerVars, semVars,
       countVars, historyVars
<1>3. JobsOK'
  BY JobsSame DEF IInv, WakeWaiter, workerVars, semVars, countVars, historyVars
<1>4. WaitOK'
  BY DEF IInv, TypeOK, WorkerTypes, PoolTypes, FlagTypes, ClientTypes,
     HistoryTypes, ClientPoints, WaitOK, InHand, WakeWaiter, workerVars,
     semVars, countVars, historyVars
<1> QED
  BY <1>1, <1>2, <1>3, <1>4 DEF IInv

\* StopThreads preserves the invariant.
LEMMA Step_StopThreads ==
  ASSUME IInv, StopThreads
  PROVE  IInv'
<1>1. TypeOK'
  BY DEF IInv, TypeOK, WorkerTypes, PoolTypes, FlagTypes, ClientTypes,
     HistoryTypes, StopThreads, workerVars, semVars, countVars,
     historyVars
<1>2. CountsOK'
  <2>1. Working' = Working /\ Alive' = Alive
    BY DEF IInv, TypeOK, WorkerTypes, Working, Alive, StopThreads,
       workerVars, semVars, countVars, historyVars
  <2> QED
    BY <2>1 DEF IInv, CountsOK, StopThreads, workerVars, semVars,
       countVars, historyVars
<1>3. JobsOK'
  BY DEF IInv, TypeOK, WorkerTypes, PoolTypes, FlagTypes, ClientTypes,
     HistoryTypes, JobsOK, Queued, InHand, StopThreads, workerVars,
     semVars, countVars, historyVars
<1>4. WaitOK'
  BY DEF IInv, TypeOK, WorkerTypes, PoolTypes, FlagTypes, ClientTypes,
     HistoryTypes, WaitOK, InHand, StopThreads, workerVars, semVars,
     countVars, historyVars
<1> QED
  BY <1>1, <1>2, <1>3, <1>4 DEF IInv

\* PollThreads preserves the invariant.
LEMMA Step_PollThreads ==
  ASSUME IInv, PollThreads
  PROVE  IInv'
<1>1. TypeOK'
  BY DEF IInv, TypeOK, WorkerTypes, PoolTypes, FlagTypes, ClientTypes,
     HistoryTypes, WorkerPoints, PollThreads, countVars, historyVars
<1>2. CountsOK'
  <2>1. Working' = Working /\ Alive' = Alive
    BY DEF IInv, TypeOK, WorkerTypes, WorkerPoints, Working, Alive,
       PollThreads, countVars, historyVars
  <2> QED
    BY <2>1 DEF IInv, CountsOK, PollThreads, countVars, historyVars
<1>3. JobsOK'
  BY DEF IInv, TypeOK, WorkerTypes, PoolTypes, FlagTypes, ClientTypes,
     HistoryTypes, WorkerPoints, JobsOK, Queued, InHand, PollThreads,
     countVars, historyVars
<1>4. WaitOK'
  BY DEF IInv, TypeOK, WorkerTypes, PoolTypes, FlagTypes, ClientTypes,
     HistoryTypes, WorkerPoints, WaitOK, InHand, PollThreads, countVars,
     historyVars
<1> QED
  BY <1>1, <1>2, <1>3, <1>4 DEF IInv

\* FreePool preserves the invariant.
LEMMA Step_FreePool ==
  ASSUME IInv, FreePool
  PROVE  IInv'
<1>1. TypeOK'
  BY DEF IInv, TypeOK, WorkerTypes, PoolTypes, FlagTypes, ClientTypes,
     HistoryTypes, FreePool, workerVars, countVars, historyVars
<1>2. CountsOK'
  <2>1. Working' = Working /\ Alive' = Alive
    BY DEF IInv, TypeOK, WorkerTypes, Working, Alive, FreePool,
       workerVars, countVars, historyVars
  <2> QED
    BY <2>1 DEF IInv, CountsOK, FreePool, workerVars, countVars, historyVars
<1>3. JobsOK'
  BY DEF IInv, TypeOK, WorkerTypes, PoolTypes, FlagTypes, ClientTypes,
     HistoryTypes, JobsOK, Queued, InHand, FreePool, workerVars,
     countVars, historyVars
<1>4. WaitOK'
  BY DEF IInv, TypeOK, WorkerTypes, PoolTypes, FlagTypes, ClientTypes,
     HistoryTypes, WaitOK, InHand, FreePool, workerVars, countVars,
     historyVars
<1> QED
  BY <1>1, <1>2, <1>3, <1>4 DEF IInv

-----------------------------------------------------------------------------
\* Every step preserves the invariant.
LEMMA NextIInv == IInv /\ [Next]_vars => IInv'
<1> SUFFICES ASSUME IInv, [Next]_vars PROVE IInv'
  OBVIOUS
<1>1. CASE UNCHANGED vars
  BY <1>1 DEF IInv, TypeOK, WorkerTypes, PoolTypes, FlagTypes, ClientTypes,
     HistoryTypes, CountsOK, JobsOK, WaitOK, Working, Alive, Queued, InHand,
     vars, workerVars, semVars, countVars, historyVars
<1>2. ASSUME NEW w \in Workers, thread_do(w) \/ WakeWorker(w) PROVE IInv'
  BY <1>2, Step_Start, Step_Loop, Step_bsem_wait, Step_CountWorking,
     Step_jobqueue_pull, Step_RunJob, Step_LogExtent, Step_DoneWorking,
     Step_Exit, Step_WakeWorker DEF thread_do
<1>3. CASE InitReturns
  BY <1>3, Step_InitReturns
<1>4. ASSUME NEW c \in Clients,
             \/ \E j \in Jobs : thpool_add_work(c, j)
             \/ CallWait(c) \/ thpool_wait(c) \/ WakeWaiter(c)
      PROVE  IInv'
  BY <1>4, Step_thpool_add_work, Step_CallWait, Step_WaitLock,
     Step_WaitReadLen, Step_WaitReadWorking, Step_WakeWaiter DEF thpool_wait
<1>5. CASE thpool_destroy
  BY <1>5, Step_StopThreads, Step_PollThreads, Step_FreePool DEF thpool_destroy
<1> QED
  BY <1>1, <1>2, <1>3, <1>4, <1>5 DEF Next

\* The invariant of the pool of thpool.c: its counters count its threads, and
\* a job that thpool_add_work took is queued, in hand or done.
THEOREM PoolInvariant == Spec => []IInv
  BY InitIInv, NextIInv, PTL DEF Spec

\* The state of thpool.c keeps its types: the counters never go below zero.
THEOREM PoolTypeCorrect == Spec => []TypeOK
<1>1. IInv => TypeOK
  BY DEF IInv
<1> QED
  BY <1>1, PoolInvariant, PTL

\* Whatever the interleaving, when thpool_wait returns, every job queued before
\* the call has been written and its extent logged.
THEOREM WaitCoversQueued == Spec => []WaitCovers
<1>1. IInv => WaitCovers
  BY DEF IInv, JobsOK, WaitOK, WaitCovers
<1> QED
  BY <1>1, PoolInvariant, PTL
-----------------------------------------------------------------------------
\* The steps that move no job: what is queued, in hand and logged stays.
Still ==
  /\ UNCHANGED <<job, queue, logged, submitted>>
  /\ destroyer' # "freed" => destroyer # "freed"

\* Every step but three moves no job; FreePool drops the ones that are queued.
LEMMA Movers ==
  ASSUME [Next]_vars
  PROVE  \/ Still \/ destroyer' = "freed"
         \/ \E w \in Workers : jobqueue_pull(w) \/ LogExtent(w)
         \/ \E c \in Clients, j \in Jobs : thpool_add_work(c, j)
<1>1. ASSUME NEW w \in Workers, thread_do(w) \/ WakeWorker(w)
      PROVE  Still \/ jobqueue_pull(w) \/ LogExtent(w)
  BY <1>1 DEF Still, thread_do, Start, Loop, bsem_wait, CountWorking, RunJob,
     DoneWorking, Exit, WakeWorker, semVars, historyVars
<1>2. CASE InitReturns \/ UNCHANGED vars
  BY <1>2 DEF Still, InitReturns, vars, workerVars, semVars, historyVars
<1>3. ASSUME NEW c \in Clients, CallWait(c) \/ thpool_wait(c) \/ WakeWaiter(c)
      PROVE  Still
  BY <1>3 DEF Still, CallWait, thpool_wait, WaitLock, WaitReadLen,
     WaitReadWorking, WakeWaiter, workerVars, semVars, historyVars
<1>4. CASE thpool_destroy
  BY <1>4 DEF Still, thpool_destroy, StopThreads, PollThreads, FreePool,
     workerVars, semVars, historyVars
<1> QED
  BY <1>1, <1>2, <1>3, <1>4 DEF Next

\* A job leaves the front of the queue for the hands of one thread.
LEMMA PullAccounted ==
  ASSUME TypeOK, JobsOK, JobsAccounted, NEW w \in Workers, jobqueue_pull(w)
  PROVE  JobsAccounted'
<1>0. CASE queue = << >>
  <2>1. UNCHANGED <<queue, job, logged, submitted, destroyer>>
    BY <1>0 DEF jobqueue_pull, historyVars
  <2>2. Queued' = Queued /\ InHand' = InHand
    BY <2>1 DEF Queued, InHand
  <2> QED
    BY <2>1, <2>2 DEF JobsAccounted
<1> SUFFICES ASSUME destroyer # "freed", queue # << >> PROVE JobsAccounted'
  <2>1. destroyer' = destroyer
    BY DEF jobqueue_pull
  <2> QED
    BY <1>0, <2>1 DEF JobsAccounted
<1> DEFINE j == Head(queue)
<1>1. /\ queue \in Seq(Jobs) /\ queue' = Tail(queue)
      /\ job \in [Workers -> Jobs \cup {NoJob}] /\ job' = [job EXCEPT ![w] = j]
      /\ UNCHANGED <<logged, submitted, destroyer>>
  BY DEF TypeOK, WorkerTypes, PoolTypes, jobqueue_pull, historyVars
<1>2. j \in Jobs /\ j # NoJob /\ job[w] = NoJob
  BY <1>1, WritePoolAssumption DEF JobsOK, jobqueue_pull
<1>3. /\ Len(queue') \in Nat /\ Len(queue) = Len(queue') + 1 /\ j = queue[1]
      /\ \A i \in 1 .. Len(queue') : i + 1 \in 1 .. Len(queue) /\ queue'[i] = queue[i + 1]
      /\ Queued = Queued' \cup {j}
  BY <1>1, PulledQueue
<1>4. \A i, k \in 1 .. Len(queue) : i # k => queue[i] # queue[k]
  BY DEF JobsAccounted
<1>5. j \in Queued /\ j \notin Queued'
  <2>1. j \in Queued
    BY <1>3
  <2>2. j \notin Queued'
    <3>1. SUFFICES ASSUME NEW i \in 1 .. Len(queue'), queue'[i] = j PROVE FALSE
      BY DEF Queued
    <3>2. i + 1 \in 1 .. Len(queue) /\ 1 \in 1 .. Len(queue) /\ i + 1 # 1
      BY <1>3
    <3> QED
      BY <1>3, <1>4, <3>1, <3>2
  <2> QED
    BY <2>1, <2>2
<1>6. InHand' = InHand \cup {j}
  BY <1>1, <1>2 DEF InHand
<1>7. j \notin InHand /\ j \notin logged
  BY <1>5 DEF JobsAccounted
<1>8. \A i, k \in 1 .. Len(queue') : i # k => queue'[i] # queue'[k]
  <2> TAKE i, k \in 1 .. Len(queue')
  <2>1. /\ i + 1 \in 1 .. Len(queue) /\ k + 1 \in 1 .. Len(queue)
        /\ queue'[i] = queue[i + 1] /\ queue'[k] = queue[k + 1]
    BY <1>3
  <2>2. i # k => i + 1 # k + 1
    OBVIOUS
  <2> QED
    BY <1>4, <2>1, <2>2
<1>9. \A x, y \in Workers : x # y /\ job'[x] = job'[y] => job'[x] = NoJob
  <2>1. \A x, y \in Workers : x # y /\ job[x] = job[y] => job[x] = NoJob
    BY DEF JobsAccounted
  <2>2. \A x \in Workers : job[x] # j
    BY <1>2, <1>7 DEF InHand
  <2>3. \A x \in Workers : job'[x] = IF x = w THEN j ELSE job[x]
    BY <1>1
  <2> HIDE DEF j
  <2> QED
    BY <2>1, <2>2, <2>3
<1> HIDE DEF j
<1> QED
  BY <1>1, <1>3, <1>5, <1>6, <1>7, <1>8, <1>9 DEF JobsAccounted

\* The thread that logs an extent has no job after it.
LEMMA LogAccounted ==
  ASSUME TypeOK, JobsOK, JobsAccounted, NEW w \in Workers, LogExtent(w)
  PROVE  JobsAccounted'
<1>1. job[w] # NoJob
  BY DEF JobsOK, LogExtent
<1>2. /\ job \in [Workers -> Jobs \cup {NoJob}] /\ job' = [job EXCEPT ![w] = NoJob]
      /\ logged' = logged \cup {job[w]} /\ UNCHANGED <<queue, submitted, destroyer>>
  BY DEF TypeOK, WorkerTypes, LogExtent, semVars
<1> SUFFICES ASSUME destroyer # "freed" PROVE JobsAccounted'
  BY <1>2 DEF JobsAccounted
<1>3. InHand = InHand' \cup {job[w]} /\ job[w] \notin InHand'
  BY <1>1, <1>2 DEF JobsAccounted, InHand
<1>4. Queued' = Queued
  BY <1>2 DEF Queued
<1>5. \A x, y \in Workers : x # y /\ job'[x] = job'[y] => job'[x] = NoJob
  BY <1>2 DEF JobsAccounted
<1> QED
  BY <1>2, <1>3, <1>4, <1>5 DEF JobsAccounted

\* A new job goes to the rear of the queue.
LEMMA AddAccounted ==
  ASSUME TypeOK, JobsAccounted, NEW c \in Clients, NEW j \in Jobs, thpool_add_work(c, j)
  PROVE  JobsAccounted'
<1>1. /\ queue \in Seq(Jobs) /\ queue' = Append(queue, j) /\ j \notin submitted
      /\ submitted' = submitted \cup {j} /\ UNCHANGED <<job, logged, destroyer>>
      /\ destroyer = "none"
  BY DEF TypeOK, PoolTypes, thpool_add_work, jobqueue_push
<1>2. /\ Len(queue) \in Nat /\ Len(queue') = Len(queue) + 1 /\ queue'[Len(queue')] = j
      /\ \A i \in 1 .. Len(queue) : i \in 1 .. Len(queue') /\ queue'[i] = queue[i]
      /\ \A i \in 1 .. Len(queue') : i = Len(queue') \/ i \in 1 .. Len(queue)
  BY <1>1
<1>3. Queued' = Queued \cup {j}
  <2>1. Queued' \subseteq Queued \cup {j}
    BY <1>2 DEF Queued
  <2>2. Queued \subseteq Queued'
    BY <1>2 DEF Queued
  <2>3. j \in Queued'
    BY <1>2 DEF Queued
  <2> QED
    BY <2>1, <2>2, <2>3
<1>4. j \notin Queued /\ j \notin InHand /\ j \notin logged
  BY <1>1 DEF JobsAccounted
<1>5. InHand' = InHand
  BY <1>1 DEF InHand
<1>6. \A i, k \in 1 .. Len(queue') : i # k => queue'[i] # queue'[k]
  <2>1. \A i \in 1 .. Len(queue) : queue[i] # j
    BY <1>4 DEF Queued
  <2>2. \A i, k \in 1 .. Len(queue) : i # k => queue[i] # queue[k]
    BY <1>1 DEF JobsAccounted
  <2> QED
    BY <1>2, <2>1, <2>2
<1> QED
  BY <1>1, <1>3, <1>4, <1>5, <1>6 DEF JobsAccounted

\* Whatever the interleaving, a job that thpool_add_work took is in exactly one
\* place: in the queue, in the hands of one thread, or logged.
THEOREM EveryJobAccounted == Spec => []JobsAccounted
<1>1. Init => JobsAccounted
  BY DEF Init, JobsAccounted, Queued, InHand
<1>2. IInv /\ JobsAccounted /\ [Next]_vars => JobsAccounted'
  <2> SUFFICES ASSUME IInv, JobsAccounted, [Next]_vars PROVE JobsAccounted'
    OBVIOUS
  <2>1. TypeOK /\ JobsOK
    BY DEF IInv
  <2>2. CASE Still
    <3>1. Queued' = Queued /\ InHand' = InHand
      BY <2>2 DEF Still, Queued, InHand
    <3> QED
      BY <2>2, <3>1 DEF Still, JobsAccounted
  <2>3. CASE destroyer' = "freed"
    BY <2>3 DEF JobsAccounted
  <2> QED
    BY <2>1, <2>2, <2>3, Movers, PullAccounted, LogAccounted, AddAccounted
<1> QED
  BY <1>1, <1>2, PoolInvariant, PTL DEF Spec
=============================================================================
