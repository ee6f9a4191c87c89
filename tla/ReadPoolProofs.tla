---------------------------- MODULE ReadPoolProofs ----------------------------
(***************************************************************************)
(* Proofs about ReadPool, for any number of readers, threads and places in *)
(* the ring: the ring is a queue wherever it wraps, a task that was put in *)
(* it is kept until it has run, a reader finds its data when it stops      *)
(* spinning, and the pool is freed only after its last thread has left.    *)
(***************************************************************************)
EXTENDS ReadPool, FiniteSetTheorems, TLAPS

\* The places after i, without the remainder: one subtraction is enough.
LEMMA AfterIs ==
  ASSUME NEW i \in Indices, NEW k \in 0..QueueSize
  PROVE  After(i, k) = IF i + k < QueueSize THEN i + k ELSE i + k - QueueSize
BY ReadPoolAssumption DEF Indices, After

\* Every place after i is one of the ring.
LEMMA AfterInRing ==
  ASSUME NEW i \in Indices, NEW k \in 0..QueueSize
  PROVE  After(i, k) \in Indices
BY AfterIs, ReadPoolAssumption DEF Indices

\* Less than QueueSize places on, the places after i are different ones.
LEMMA AfterApart ==
  ASSUME NEW i \in Indices, NEW k \in 0..QueueSize-1, NEW l \in 0..QueueSize-1,
         k # l
  PROVE  After(i, k) # After(i, l)
BY AfterIs, ReadPoolAssumption DEF Indices

\* Going on from one place after i, and one place on from a place after i.
LEMMA AfterNext ==
  ASSUME NEW i \in Indices, NEW k \in 0..QueueSize-1
  PROVE  /\ After(After(i, 1), k) = After(i, k + 1)
         /\ After(After(i, k), 1) = After(i, k + 1)
         /\ After(i, 0) = i
<1>1. 1 \in 0..QueueSize /\ k \in 0..QueueSize /\ k + 1 \in 0..QueueSize /\ 0 \in 0..QueueSize
  BY ReadPoolAssumption
<1>2. After(i, 1) \in Indices /\ After(i, k) \in Indices
  BY <1>1, AfterInRing
<1> QED
  BY <1>1, <1>2, AfterIs, ReadPoolAssumption DEF Indices

-----------------------------------------------------------------------------
\* What else holds between steps: a thread has a task exactly while it reads or
\* posts, no two have the same, the places in use hold tasks, and a thread that
\* is about to post has filled the buffer.
Work ==
  /\ \A w \in Workers : wpc[w] \in {"read", "post"} <=> task[w] # NoTask
  /\ \A w, v \in Workers : w # v /\ task[w] # NoTask => task[w] # task[v]
  /\ \A k \in 0..count-1 : queue[After(head, k)] # NoTask
  /\ \A w \in Workers : wpc[w] = "post" => filled[task[w]]

IInv == TypeOK /\ RingOK /\ Work /\ DataBeforeSignal /\ TaskKept /\ FreedWhenUnused

\* The steps that leave the ring, the tasks and the readers alone.
Aside ==
  /\ UNCHANGED <<ringVars, task, readerVars>>
  /\ \A w \in Workers : wpc'[w] = wpc[w] \/ {wpc[w], wpc'[w]} \cap {"read", "post"} = {}

\* A read that is not queued.
Refused(r) ==
  /\ \E res \in {"full", "threadpool_shutdown"} : NewRead(r, res)
  /\ UNCHANGED <<ringVars, workerVars>>

\* A step is one of those, or one of the five that move a task along.
LEMMA Steps ==
  ASSUME TypeOK, [Next]_vars
  PROVE  \/ Aside
         \/ \E r \in Readers : Refused(r) \/ AddTask(r) \/ SpinEnds(r)
         \/ \E w \in Workers : Grab(w) \/ bh_submit_read_sync_IO(w) \/ Post(w)
<1> USE DEF Aside, ringVars, readerVars, TypeOK
<1>1. CASE UNCHANGED vars
  BY <1>1 DEF vars
<1>2. ASSUME NEW r \in Readers, threadpool_add(r) \/ SpinEnds(r)
      PROVE  Refused(r) \/ AddTask(r) \/ SpinEnds(r)
  BY <1>2 DEF threadpool_add, AddFull, AddShutdown, Refused, workerVars
<1>3. ASSUME NEW w \in Workers, threadpool_thread(w) \/ SpuriousWakeup(w)
      PROVE  Aside \/ Grab(w) \/ bh_submit_read_sync_IO(w) \/ Post(w)
  BY <1>3 DEF threadpool_thread, SpuriousWakeup, Sleep, Leave
<1>4. ASSUME NEW d \in Destroyers, threadpool_destroy(d) PROVE Aside
  BY <1>4 DEF threadpool_destroy, StartDestroy, DestroyAgain, FinishDestroy, workerVars
<1> QED
  BY <1>1, <1>2, <1>3, <1>4 DEF Next

\* The places in use belong to the ring.
LEMMA InUse == ASSUME TypeOK, NEW k \in 0..count-1
               PROVE  After(head, k) \in Indices /\ k \in 0..QueueSize-1
<1>1. k \in 0..QueueSize-1 /\ k \in 0..QueueSize /\ head \in Indices
  BY ReadPoolAssumption DEF TypeOK
<1> QED
  BY <1>1, AfterInRing

\* What waits in the ring is a reader's task.
LEMMA PendingReaders == ASSUME TypeOK, Work PROVE Pending \subseteq Readers
BY InUse DEF TypeOK, Work, Pending

-----------------------------------------------------------------------------
\* After an add, the tasks are those that waited and the new one.
LEMMA AddedTasks ==
  ASSUME TypeOK, RingOK, NEW r \in Readers, AddTask(r)
  PROVE  /\ \A k \in 0..count-1 : queue'[After(head, k)] = queue[After(head, k)]
         /\ queue'[After(head, count)] = r
         /\ Pending' = Pending \cup {r}
         /\ tail' = After(head', count')
<1>1. /\ count \in 0..QueueSize-1 /\ count \in 0..QueueSize /\ count' = count + 1
      /\ head' = head /\ head \in Indices /\ tail = After(head, count)
      /\ queue \in [Indices -> Readers \cup {NoTask}]
      /\ queue' = [queue EXCEPT ![tail] = r] /\ tail' = After(tail, 1)
  BY ReadPoolAssumption DEF TypeOK, RingOK, AddTask
<1>2. \A k \in 0..count-1 : queue'[After(head, k)] = queue[After(head, k)]
  BY <1>1, InUse, AfterApart
<1>3. queue'[After(head, count)] = r
  BY <1>1, AfterInRing
<1>4. Pending' = Pending \cup {r}
  <2>1. 0..count'-1 = (0..count-1) \cup {count}
    BY <1>1
  <2> QED
    BY <1>1, <1>2, <1>3, <2>1 DEF Pending
<1>5. tail' = After(head', count')
  BY <1>1, AfterNext
<1> QED
  BY <1>2, <1>3, <1>4, <1>5

\* After a grab, the tasks are those behind the first, each one place nearer.
LEMMA GrabbedTask ==
  ASSUME TypeOK, RingOK, NEW w \in Workers, Grab(w)
  PROVE  /\ \A k \in 0..count'-1 : /\ k + 1 \in 0..count-1
                                   /\ queue'[After(head', k)] = queue[After(head, k + 1)]
         /\ 0 \in 0..count-1 /\ queue[head] = queue[After(head, 0)]
         /\ Pending' = Pending \ {queue[head]}
         /\ tail' = After(head', count')
<1>1. /\ count \in 1..QueueSize /\ count' = count - 1 /\ 0 \in 0..QueueSize-1
      /\ head \in Indices /\ tail = After(head, count)
      /\ queue' = queue /\ tail' = tail /\ head' = After(head, 1)
  BY ReadPoolAssumption DEF TypeOK, RingOK, Grab
<1>2. \A k \in 0..count'-1 : k + 1 \in 0..count-1 /\ k \in 0..QueueSize-1
  BY <1>1, ReadPoolAssumption
<1>3. \A k \in 0..count'-1 : queue'[After(head', k)] = queue[After(head, k + 1)]
  BY <1>1, <1>2, AfterNext
<1>4. 0 \in 0..count-1 /\ queue[head] = queue[After(head, 0)]
  BY <1>1, AfterNext
<1>5. Pending' = Pending \ {queue[head]}
  <2>1. ASSUME NEW k \in 0..count-1, queue[After(head, k)] # queue[head]
        PROVE  queue[After(head, k)] \in Pending'
    <3>1. k # 0 /\ k - 1 \in 0..count'-1 /\ (k - 1) + 1 = k
      BY <1>1, <1>4, <2>1
    <3>2. queue'[After(head', k - 1)] = queue[After(head, k)]
      BY <1>3, <3>1
    <3> QED
      BY <3>1, <3>2 DEF Pending
  <2>2. ASSUME NEW k \in 0..count'-1
        PROVE  queue'[After(head', k)] \in Pending \ {queue[head]}
    BY <1>1, <1>2, <1>3, <1>4 DEF Pending, RingOK
  <2> QED
    BY <2>1, <2>2 DEF Pending
<1>6. tail' = After(head', count')
  <2>1. count' \in 0..QueueSize-1 /\ count' + 1 = count
    BY <1>1, ReadPoolAssumption
  <2> QED
    BY <1>1, <2>1, AfterNext
<1> QED
  BY <1>2, <1>3, <1>4, <1>5, <1>6

-----------------------------------------------------------------------------
\* The ring stays a queue of tasks that are read once.
LEMMA RingStep ==
  ASSUME TypeOK, RingOK, Work, [Next]_vars
  PROVE  RingOK'
<1>1. CASE Aside
  BY <1>1 DEF Aside, RingOK, Pending, InHand, ringVars, readerVars
<1>2. ASSUME NEW r \in Readers, Refused(r) PROVE RingOK'
  <2>1. r \notin Pending \cup InHand
    BY <1>2 DEF Refused, NewRead, RingOK
  <2>2. Pending' = Pending /\ InHand' = InHand
    BY <1>2 DEF Refused, Pending, InHand, ringVars, workerVars
  <2>3. \A q \in Pending \cup InHand : q \in Readers
    BY PendingReaders DEF TypeOK, InHand
  <2>4. \A q \in Pending' \cup InHand' : rpc'[q] = "spin" /\ extra'[q] = 0
    BY <1>2, <2>1, <2>2, <2>3 DEF Refused, NewRead, RingOK, TypeOK
  <2> QED
    BY <1>2, <2>2, <2>4 DEF Refused, RingOK, ringVars
<1>3. ASSUME NEW r \in Readers, AddTask(r) PROVE RingOK'
  <2>1. r \notin Pending \cup InHand
    BY <1>3 DEF AddTask, NewRead, RingOK
  <2>2. InHand' = InHand /\ Pending' = Pending \cup {r}
    BY <1>3, AddedTasks DEF AddTask, InHand
  <2>3. \A q \in Pending \cup InHand : q \in Readers
    BY PendingReaders DEF TypeOK, InHand
  <2>4. \A q \in Pending' \cup InHand' : rpc'[q] = "spin" /\ extra'[q] = 0
    BY <1>3, <2>1, <2>2, <2>3 DEF AddTask, NewRead, RingOK, TypeOK
  <2>5. ASSUME NEW k \in 0..count'-1, NEW l \in 0..count'-1, k # l
        PROVE  queue'[After(head', k)] # queue'[After(head', l)]
    <3>1. count' = count + 1 /\ head' = head /\ count \in Nat
      BY <1>3 DEF AddTask, TypeOK
    <3>2. \A m \in 0..count-1 : queue[After(head, m)] # r
      BY <2>1 DEF Pending
    <3> QED
      BY <1>3, <2>5, <3>1, <3>2, AddedTasks DEF RingOK
  <2> QED
    BY <1>3, <2>1, <2>2, <2>4, <2>5, AddedTasks DEF RingOK
<1>4. ASSUME NEW r \in Readers, SpinEnds(r) PROVE RingOK'
  <2>1. r \notin Pending \cup InHand
    BY <1>4 DEF SpinEnds, RingOK
  <2>2. Pending' = Pending /\ InHand' = InHand
    BY <1>4 DEF SpinEnds, Pending, InHand, ringVars, workerVars
  <2>3. \A q \in Pending' \cup InHand' : rpc'[q] = "spin" /\ extra'[q] = 0
    <3>1. \A q \in Pending \cup InHand : q \in Readers /\ q # r
      BY <2>1, PendingReaders DEF TypeOK, InHand
    <3>2. \A q \in Readers : q # r => rpc'[q] = rpc[q] /\ extra'[q] = extra[q]
      BY <1>4 DEF SpinEnds, TypeOK
    <3> QED
      BY <2>2, <3>1, <3>2 DEF RingOK
  <2> QED
    BY <1>4, <2>2, <2>3 DEF SpinEnds, RingOK, ringVars
<1>5. ASSUME NEW w \in Workers, Grab(w) PROVE RingOK'
  <2>1. InHand' = InHand \cup {queue[head]} /\ queue[head] \in Pending
    <3>1. task[w] = NoTask
      BY <1>5 DEF Grab, Work
    <3>2. queue[head] \in Pending /\ queue[head] # NoTask
      BY <1>5, GrabbedTask DEF Pending, Work
    <3> QED
      BY <1>5, <3>1, <3>2 DEF Grab, InHand, TypeOK
  <2>2. Pending' = Pending \ {queue[head]}
    BY <1>5, GrabbedTask
  <2>3. \A q \in Pending' \cup InHand' : rpc'[q] = "spin" /\ extra'[q] = 0
    BY <1>5, <2>1, <2>2 DEF Grab, RingOK, readerVars
  <2>4. \A k, l \in 0..count'-1 :
          k # l => queue'[After(head', k)] # queue'[After(head', l)]
    <3> SUFFICES ASSUME NEW k \in 0..count'-1, NEW l \in 0..count'-1, k # l
                 PROVE  queue'[After(head', k)] # queue'[After(head', l)]
      OBVIOUS
    <3>1. k + 1 # l + 1
      OBVIOUS
    <3> QED
      BY <1>5, <3>1, GrabbedTask DEF RingOK
  <2> QED
    BY <1>5, <2>1, <2>2, <2>3, <2>4, GrabbedTask DEF RingOK
<1>6. ASSUME NEW w \in Workers, bh_submit_read_sync_IO(w) PROVE RingOK'
  BY <1>6 DEF bh_submit_read_sync_IO, RingOK, Pending, InHand, ringVars
<1>7. ASSUME NEW w \in Workers, Post(w) PROVE RingOK'
  <2>1. task[w] # NoTask /\ task[w] \in Readers
    BY <1>7 DEF Post, Work, TypeOK
  <2>2. InHand' = InHand \ {task[w]}
    <3>1. task' = [task EXCEPT ![w] = NoTask] /\ task \in [Workers -> Readers \cup {NoTask}]
      BY <1>7 DEF Post, TypeOK
    <3>2. \A v \in Workers : v # w => task[v] # task[w]
      BY <2>1 DEF Work
    <3> QED
      BY <2>1, <3>1, <3>2 DEF InHand
  <2>3. Pending' = Pending /\ task[w] \in InHand
    BY <1>7, <2>1 DEF Post, Pending, InHand, ringVars
  <2>4. \A q \in Pending' \cup InHand' : rpc'[q] = "spin" /\ extra'[q] = 0
    <3>1. \A q \in Pending' \cup InHand' : q \in Readers /\ q # task[w]
      BY <2>2, <2>3, PendingReaders DEF RingOK, TypeOK, InHand
    <3>2. \A q \in Readers : rpc'[q] = rpc[q] /\ (q # task[w] => extra'[q] = extra[q])
      BY <1>7, <2>1 DEF Post, TypeOK
    <3> QED
      BY <2>2, <2>3, <3>1, <3>2 DEF RingOK
  <2> QED
    BY <1>7, <2>2, <2>3, <2>4 DEF Post, RingOK, ringVars
<1> QED
  BY <1>1, <1>2, <1>3, <1>4, <1>5, <1>6, <1>7, Steps

\* The threads keep their tasks apart, and read before they post.
LEMMA WorkStep ==
  ASSUME TypeOK, RingOK, Work, [Next]_vars
  PROVE  Work'
<1>1. CASE Aside
  <2>1. \A w \in Workers : (wpc[w] = "post" <=> wpc'[w] = "post")
                         /\ (wpc[w] = "read" <=> wpc'[w] = "read")
    BY <1>1 DEF Aside
  <2> QED
    BY <1>1, <2>1 DEF Aside, Work, ringVars, readerVars
<1>2. ASSUME NEW r \in Readers, Refused(r) PROVE Work'
  <2>1. \A w \in Workers : wpc[w] = "post" => task[w] # r
    <3>1. rpc[r] = "idle"
      BY <1>2 DEF Refused, NewRead
    <3>2. \A w \in Workers : wpc[w] = "post" => task[w] \in InHand
      BY DEF Work, InHand
    <3> QED
      BY <3>1, <3>2 DEF RingOK
  <2>2. \A w \in Workers : wpc[w] = "post" => filled'[task[w]]
    BY <1>2, <2>1 DEF Refused, NewRead, TypeOK, Work
  <2> QED
    BY <1>2, <2>2 DEF Refused, Work, ringVars, workerVars
<1>3. ASSUME NEW r \in Readers, AddTask(r) PROVE Work'
  <2>1. \A w \in Workers : (wpc[w] = "post" <=> wpc'[w] = "post")
                         /\ (wpc[w] = "read" <=> wpc'[w] = "read")
    BY <1>3 DEF AddTask, Asleep, TypeOK
  <2>2. \A w \in Workers : wpc[w] = "post" => task[w] # r
    BY <1>3 DEF AddTask, NewRead, RingOK, InHand, Work
  <2>3. \A w \in Workers : wpc'[w] = "post" => filled'[task[w]]
    BY <1>3, <2>1, <2>2 DEF AddTask, NewRead, TypeOK, Work
  <2>4. \A k \in 0..count'-1 : queue'[After(head', k)] # NoTask
    <3>1. count' = count + 1 /\ head' = head /\ count \in Nat /\ r # NoTask
      BY <1>3, ReadPoolAssumption DEF AddTask, TypeOK
    <3> QED
      BY <1>3, <3>1, AddedTasks DEF Work
  <2>5. task' = task
    BY <1>3 DEF AddTask
  <2> QED
    BY <2>1, <2>3, <2>4, <2>5 DEF Work
<1>4. ASSUME NEW r \in Readers, SpinEnds(r) PROVE Work'
  BY <1>4 DEF SpinEnds, Work, ringVars, workerVars
<1>5. ASSUME NEW w \in Workers, Grab(w) PROVE Work'
  <2>1. /\ queue[head] # NoTask /\ \A v \in Workers : task[v] # queue[head]
        /\ task' = [task EXCEPT ![w] = queue[head]] /\ wpc' = [wpc EXCEPT ![w] = "read"]
    <3>1. queue[head] \in Pending /\ queue[head] # NoTask
      BY <1>5, GrabbedTask DEF Pending, Work
    <3> QED
      BY <1>5, <3>1 DEF Grab, RingOK, InHand
  <2>2. \A k \in 0..count'-1 : queue'[After(head', k)] # NoTask
    BY <1>5, GrabbedTask DEF Work
  <2>3. \A v \in Workers : wpc'[v] \in {"read", "post"} <=> task'[v] # NoTask
    BY <2>1 DEF Work, TypeOK
  <2>4. \A u, v \in Workers : u # v /\ task'[u] # NoTask => task'[u] # task'[v]
    BY <2>1 DEF Work, TypeOK
  <2>5. \A v \in Workers : wpc'[v] = "post" => filled'[task'[v]]
    <3>1. filled' = filled /\ \A v \in Workers : wpc'[v] = "post" => v # w /\ wpc[v] = "post"
      BY <1>5 DEF Grab, TypeOK, readerVars
    <3> QED
      BY <2>1, <3>1 DEF Work, TypeOK
  <2> QED
    BY <2>2, <2>3, <2>4, <2>5 DEF Work
<1>6. ASSUME NEW w \in Workers, bh_submit_read_sync_IO(w) PROVE Work'
  <2>1. task[w] \in Readers
    BY <1>6 DEF bh_submit_read_sync_IO, Work, TypeOK
  <2>2. \A v \in Workers : wpc'[v] = "post" => filled'[task[v]]
    BY <1>6, <2>1 DEF bh_submit_read_sync_IO, Work, TypeOK
  <2>3. \A v \in Workers : wpc'[v] \in {"read", "post"} <=> task[v] # NoTask
    BY <1>6 DEF bh_submit_read_sync_IO, Work, TypeOK
  <2> QED
    BY <1>6, <2>2, <2>3 DEF bh_submit_read_sync_IO, Work, ringVars
<1>7. ASSUME NEW w \in Workers, Post(w) PROVE Work'
  <2>1. task' = [task EXCEPT ![w] = NoTask] /\ wpc' = [wpc EXCEPT ![w] = "lock"]
    BY <1>7 DEF Post
  <2>2. \A v \in Workers : wpc'[v] \in {"read", "post"} <=> task'[v] # NoTask
    BY <2>1 DEF Work, TypeOK
  <2>3. \A u, v \in Workers : u # v /\ task'[u] # NoTask => task'[u] # task'[v]
    BY <2>1 DEF Work, TypeOK
  <2>4. \A v \in Workers : wpc'[v] = "post" => filled'[task'[v]]
    BY <1>7, <2>1 DEF Post, Work, TypeOK
  <2> QED
    BY <1>7, <2>2, <2>3, <2>4 DEF Post, Work, ringVars
<1> QED
  BY <1>1, <1>2, <1>3, <1>4, <1>5, <1>6, <1>7, Steps

\* The data is in the buffer when b_size is raised, and stays there.
LEMMA DataStep ==
  ASSUME TypeOK, RingOK, Work, DataBeforeSignal, [Next]_vars
  PROVE  DataBeforeSignal'
<1> USE DEF DataBeforeSignal
<1>1. CASE Aside
  BY <1>1 DEF Aside, readerVars
<1>2. ASSUME NEW r \in Readers, Refused(r) \/ AddTask(r) \/ SpinEnds(r)
      PROVE  DataBeforeSignal'
  BY <1>2 DEF Refused, AddTask, SpinEnds, NewRead, TypeOK
<1>3. ASSUME NEW w \in Workers, Grab(w) PROVE DataBeforeSignal'
  BY <1>3 DEF Grab, readerVars
<1>4. ASSUME NEW w \in Workers, bh_submit_read_sync_IO(w) PROVE DataBeforeSignal'
  BY <1>4 DEF bh_submit_read_sync_IO, TypeOK
<1>5. ASSUME NEW w \in Workers, Post(w) PROVE DataBeforeSignal'
  <2>1. task[w] \in Readers /\ filled[task[w]]
    BY <1>5 DEF Post, Work, TypeOK
  <2> QED
    BY <1>5, <2>1 DEF Post, TypeOK
<1> QED
  BY <1>1, <1>2, <1>3, <1>4, <1>5, Steps

\* The task of a thread that is about to post is a reader that spins.
LEMMA PostedTask ==
  ASSUME TypeOK, RingOK, Work, NEW w \in Workers, wpc[w] = "post"
  PROVE  task[w] \in Readers /\ extra[task[w]] = 0
<1>1. task[w] # NoTask /\ task[w] \in Readers \cup {NoTask}
  BY DEF Work, TypeOK
<1>2. task[w] \in InHand
  BY <1>1 DEF InHand
<1>3. extra[task[w]] = 0
  BY <1>2 DEF RingOK
<1> QED
  BY <1>1, <1>3

\* A queued task goes from the ring to a thread, and from there to its reader.
LEMMA KeptStep ==
  ASSUME TypeOK, RingOK, Work, TaskKept, [Next]_vars
  PROVE  TaskKept'
<1> USE DEF TaskKept
<1>1. CASE Aside
  BY <1>1 DEF Aside, Pending, InHand, ringVars, readerVars
<1>2. ASSUME NEW r \in Readers, Refused(r) PROVE TaskKept'
  <2>1. Pending' = Pending /\ InHand' = InHand
    BY <1>2 DEF Refused, Pending, InHand, ringVars, workerVars
  <2> QED
    BY <1>2, <2>1 DEF Refused, NewRead, TypeOK
<1>3. ASSUME NEW r \in Readers, AddTask(r) PROVE TaskKept'
  <2>1. Pending' = Pending \cup {r}
    BY <1>3, AddedTasks
  <2>2. InHand' = InHand
    BY <1>3 DEF AddTask, InHand
  <2> QED
    BY <1>3, <2>1, <2>2 DEF AddTask, NewRead, TypeOK
<1>4. ASSUME NEW r \in Readers, SpinEnds(r) PROVE TaskKept'
  BY <1>4 DEF SpinEnds, Pending, InHand, ringVars, workerVars, TypeOK
<1>5. ASSUME NEW w \in Workers, Grab(w) PROVE TaskKept'
  <2>1. Pending' = Pending \ {queue[head]}
    BY <1>5, GrabbedTask
  <2>2. queue[head] # NoTask /\ task[w] = NoTask
    BY <1>5, GrabbedTask DEF Grab, Work
  <2>3. InHand' = InHand \cup {queue[head]}
    BY <1>5, <2>2 DEF Grab, InHand, TypeOK
  <2> QED
    BY <1>5, <2>1, <2>3 DEF Grab, readerVars
<1>6. ASSUME NEW w \in Workers, bh_submit_read_sync_IO(w) PROVE TaskKept'
  BY <1>6 DEF bh_submit_read_sync_IO, Pending, InHand, ringVars
<1>7. ASSUME NEW w \in Workers, Post(w) PROVE TaskKept'
  <2>1. task[w] \in Readers /\ extra[task[w]] = 0
    BY <1>7, PostedTask DEF Post
  <2>2. Pending' = Pending /\ InHand \ {task[w]} \subseteq InHand'
    BY <1>7 DEF Post, Pending, InHand, ringVars, TypeOK
  <2>3. \A q \in Readers : rpc'[q] = rpc[q] /\ result'[q] = result[q]
                         /\ (q # task[w] => extra'[q] = extra[q])
                         /\ (q = task[w] => extra'[q] = 1)
    BY <1>7, <2>1 DEF Post, TypeOK
  <2> QED
    BY <2>2, <2>3
<1> QED
  BY <1>1, <1>2, <1>3, <1>4, <1>5, <1>6, <1>7, Steps

-----------------------------------------------------------------------------
\* started counts the threads that have not exited, and an exit is final.
LEMMA CountStep ==
  ASSUME TypeOK, FreedWhenUnused, [Next]_vars
  PROVE  FreedWhenUnused' /\ started' \in Nat
<1> DEFINE Alive == {w \in Workers : wpc[w] # "exited"}
<1>1. IsFiniteSet(Alive) /\ IsFiniteSet(Alive') /\ started = Cardinality(Alive)
  BY ReadPoolAssumption, FS_Subset DEF FreedWhenUnused
<1>2. ASSUME NEW w \in Workers, Leave(w) PROVE FreedWhenUnused'
  <2>1. w \in Alive /\ Alive' = Alive \ {w} /\ started' = started - 1
    BY <1>2 DEF Leave, TypeOK
  <2>2. started' = Cardinality(Alive')
    BY <1>1, <2>1, FS_RemoveElement
  <2>3. Freed' = Freed /\ ~Freed
    BY <1>2, <2>1 DEF Leave, Freed, FreedWhenUnused
  <2> QED
    BY <2>2, <2>3 DEF FreedWhenUnused
<1>3. ASSUME NEW d \in Destroyers, FinishDestroy(d) PROVE FreedWhenUnused'
  BY <1>3 DEF FinishDestroy, FreedWhenUnused, workerVars, poolVars
<1>4. ASSUME Alive' = Alive, started' = started, Freed' = Freed PROVE FreedWhenUnused'
  BY <1>4 DEF FreedWhenUnused
<1>5. ASSUME UNCHANGED vars PROVE FreedWhenUnused'
  BY <1>5 DEF vars, FreedWhenUnused, Freed
<1>6. ASSUME NEW r \in Readers, threadpool_add(r) \/ SpinEnds(r)
      PROVE  FreedWhenUnused'
  <2>1. Alive' = Alive
    BY <1>6 DEF threadpool_add, AddFull, AddShutdown, AddTask, SpinEnds, Asleep,
                workerVars, TypeOK
  <2>2. started' = started /\ Freed' = Freed
    BY <1>6 DEF threadpool_add, AddFull, AddShutdown, AddTask, SpinEnds, poolVars, Freed
  <2> QED
    BY <1>4, <2>1, <2>2
<1>7. ASSUME NEW w \in Workers,
             Sleep(w) \/ Grab(w) \/ bh_submit_read_sync_IO(w) \/ Post(w) \/ SpuriousWakeup(w)
      PROVE  FreedWhenUnused'
  <2>1. Alive' = Alive
    BY <1>7 DEF Sleep, Grab, bh_submit_read_sync_IO, Post, SpuriousWakeup, TypeOK
  <2>2. started' = started /\ Freed' = Freed
    BY <1>7 DEF Sleep, Grab, bh_submit_read_sync_IO, Post, SpuriousWakeup, poolVars, Freed
  <2> QED
    BY <1>4, <2>1, <2>2
<1>8. ASSUME NEW d \in Destroyers, NEW f \in {Immediate, Graceful},
             StartDestroy(d, f) \/ DestroyAgain(d, f)
      PROVE  FreedWhenUnused'
  <2>1. Alive' = Alive
    BY <1>8 DEF StartDestroy, DestroyAgain, workerVars, TypeOK
  <2>2. started' = started
    BY <1>8 DEF StartDestroy, DestroyAgain
  <2>3. Freed' = Freed
    BY <1>8 DEF StartDestroy, DestroyAgain, Freed, TypeOK
  <2> QED
    BY <1>4, <2>1, <2>2, <2>3
<1>9. FreedWhenUnused'
  BY <1>2, <1>3, <1>5, <1>6, <1>7, <1>8 DEF Next, threadpool_thread, threadpool_destroy
<1> QED
  BY <1>1, <1>9, FS_CardinalityType DEF FreedWhenUnused

\* Types: b_size is raised for a read whose b_size was not.
LEMMA TypeStep ==
  ASSUME TypeOK, RingOK, Work, started' \in Nat, [Next]_vars
  PROVE  TypeOK'
<1> USE DEF TypeOK
<1>1. CASE UNCHANGED vars
  BY <1>1 DEF vars
<1>2. ASSUME NEW r \in Readers, AddFull(r) \/ AddShutdown(r) PROVE TypeOK'
  BY <1>2 DEF AddFull, AddShutdown, NewRead, ringVars, poolVars, workerVars
<1>3. ASSUME NEW r \in Readers, AddTask(r) PROVE TypeOK'
  <2>1. 1 \in 0..QueueSize
    BY ReadPoolAssumption
  <2>2. tail' \in Indices
    BY <1>3, <2>1, AfterInRing DEF AddTask
  <2>3. count' \in 0..QueueSize
    BY <1>3, ReadPoolAssumption DEF AddTask
  <2>4. wpc' \in [Workers -> {"lock", "asleep", "read", "post", "exited"}]
    BY <1>3 DEF AddTask, Asleep
  <2>5. queue' \in [Indices -> Readers \cup {NoTask}]
    BY <1>3 DEF AddTask
  <2>6. /\ rpc' \in [Readers -> {"idle", "spin"}]
        /\ extra' \in [Readers -> {0, 1}]
        /\ filled' \in [Readers -> BOOLEAN]
        /\ result' \in [Readers -> {"queued", "full", "threadpool_shutdown"}]
    BY <1>3 DEF AddTask, NewRead
  <2> QED
    BY <1>3, <2>2, <2>3, <2>4, <2>5, <2>6 DEF AddTask, poolVars
<1>4. ASSUME NEW r \in Readers, SpinEnds(r) PROVE TypeOK'
  BY <1>4 DEF SpinEnds, ringVars, poolVars, workerVars
<1>5. ASSUME NEW w \in Workers, Sleep(w) \/ Leave(w) \/ SpuriousWakeup(w) PROVE TypeOK'
  BY <1>5 DEF Sleep, Leave, SpuriousWakeup, ringVars, poolVars, readerVars
<1>6. ASSUME NEW w \in Workers, Grab(w) PROVE TypeOK'
  <2>1. 1 \in 0..QueueSize
    BY ReadPoolAssumption
  <2>2. head' \in Indices
    BY <1>6, <2>1, AfterInRing DEF Grab
  <2>3. count' \in 0..QueueSize
    BY <1>6, ReadPoolAssumption DEF Grab
  <2> QED
    BY <1>6, <2>2, <2>3 DEF Grab, poolVars, readerVars
<1>7. ASSUME NEW w \in Workers, bh_submit_read_sync_IO(w) PROVE TypeOK'
  BY <1>7 DEF bh_submit_read_sync_IO, ringVars, poolVars
<1>8. ASSUME NEW w \in Workers, Post(w) PROVE TypeOK'
  <2>1. task[w] \in Readers /\ extra[task[w]] = 0
    BY <1>8, PostedTask DEF Post
  <2>2. extra' \in [Readers -> {0, 1}]
    BY <1>8, <2>1 DEF Post
  <2> QED
    BY <1>8, <2>2 DEF Post, ringVars, poolVars
<1>9. ASSUME NEW d \in Destroyers, threadpool_destroy(d) PROVE TypeOK'
  <2> USE DEF ringVars, poolVars, workerVars, readerVars
  <2>1. ASSUME NEW f \in {Immediate, Graceful}, StartDestroy(d, f) PROVE TypeOK'
    <3>1. wpc' \in [Workers -> {"lock", "asleep", "read", "post", "exited"}]
      BY <2>1 DEF StartDestroy
    <3>2. shutdown' \in {None, Immediate, Graceful}
      BY <2>1 DEF StartDestroy
    <3> QED
      BY <2>1, <3>1, <3>2 DEF StartDestroy
  <2>2. ASSUME NEW f \in {Immediate, Graceful}, DestroyAgain(d, f) PROVE TypeOK'
    BY <2>2 DEF DestroyAgain
  <2>3. CASE FinishDestroy(d)
    BY <2>3 DEF FinishDestroy
  <2> QED
    BY <1>9, <2>1, <2>2, <2>3 DEF threadpool_destroy
<1> QED
  BY <1>1, <1>2, <1>3, <1>4, <1>5, <1>6, <1>7, <1>8, <1>9
     DEF Next, threadpool_add, threadpool_thread

-----------------------------------------------------------------------------
\* The inductive invariant: the properties of the pool, and Work.
THEOREM ReadPoolInvariant == Spec => []IInv
<1>1. Init => IInv
  <2> SUFFICES ASSUME Init PROVE IInv
    OBVIOUS
  <2>1. Pending = {} /\ InHand = {}
    BY DEF Init, Pending, InHand
  <2>2. {w \in Workers : wpc[w] # "exited"} = Workers
    BY DEF Init
  <2>3. started = Cardinality(Workers) /\ started \in Nat
    BY ReadPoolAssumption, FS_CardinalityType DEF Init
  <2>4. TypeOK
    <3>1. /\ head \in Indices /\ tail \in Indices /\ count \in 0..QueueSize
          /\ queue \in [Indices -> Readers \cup {NoTask}]
      BY ReadPoolAssumption DEF Init, Indices
    <3>2. leaked \in BOOLEAN /\ filled \in [Readers -> BOOLEAN]
      BY DEF Init
    <3>3. /\ wpc \in [Workers -> {"lock", "asleep", "read", "post", "exited"}]
          /\ task \in [Workers -> Readers \cup {NoTask}]
          /\ rpc \in [Readers -> {"idle", "spin"}]
          /\ extra \in [Readers -> {0, 1}]
          /\ result \in [Readers -> {"queued", "full", "threadpool_shutdown"}]
          /\ dpc \in [Destroyers -> {"out", "join", "failed", "freed"}]
          /\ shutdown \in {None, Immediate, Graceful}
      BY DEF Init
    <3> QED
      BY <2>3, <3>1, <3>2, <3>3 DEF TypeOK
  <2>5. After(head, 0) = 0
    <3>1. 0 \in Indices /\ 0 \in 0..QueueSize-1 /\ head = 0
      BY ReadPoolAssumption DEF Indices, Init
    <3> QED
      BY <3>1, AfterNext
  <2>6. RingOK
    BY <2>1, <2>5 DEF Init, RingOK
  <2>7. Work
    BY DEF Init, Work
  <2>8. DataBeforeSignal /\ TaskKept
    BY DEF Init, DataBeforeSignal, TaskKept
  <2>9. FreedWhenUnused
    BY <2>2, <2>3 DEF Init, FreedWhenUnused, Freed
  <2> QED
    BY <2>4, <2>6, <2>7, <2>8, <2>9 DEF IInv
<1>2. IInv /\ [Next]_vars => IInv'
  BY RingStep, WorkStep, DataStep, KeptStep, CountStep, TypeStep DEF IInv
<1> QED
  BY <1>1, <1>2, PTL DEF Spec

\* Types; no buffer head is signalled twice.
THEOREM ReadPoolTypeCorrect == Spec => []TypeOK
<1>1. IInv => TypeOK
  BY DEF IInv
<1> QED
  BY <1>1, ReadPoolInvariant, PTL

\* The ring is a queue of the tasks readers spin for, wherever it wraps.
THEOREM RingIsQueue == Spec => []RingOK
<1>1. IInv => RingOK
  BY DEF IInv
<1> QED
  BY <1>1, ReadPoolInvariant, PTL

\* threadpool_add loses no task that it queued.
THEOREM QueuedTaskKept == Spec => []TaskKept
<1>1. IInv => TaskKept
  BY DEF IInv
<1> QED
  BY <1>1, ReadPoolInvariant, PTL

\* A reader whose spin ends has the data of the device.
THEOREM ReaderHasData == Spec => []DataBeforeSignal
<1>1. IInv => DataBeforeSignal
  BY DEF IInv
<1> QED
  BY <1>1, ReadPoolInvariant, PTL

\* threadpool_destroy frees the pool after its last thread has left.
THEOREM PoolFreedWhenUnused == Spec => []FreedWhenUnused
<1>1. IInv => FreedWhenUnused
  BY DEF IInv
<1> QED
  BY <1>1, ReadPoolInvariant, PTL
=============================================================================
