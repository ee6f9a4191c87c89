------------------------------- MODULE ReadPool -------------------------------
(***************************************************************************)
(* One read pool of a build with -DCONCURRENT: threadpool/threadpool.c and *)
(* the readers of do_align_read_cache1 (filesystem/fs.c).  A reader makes  *)
(* a buffer head, hands it to the pool with threadpool_add, ignores the    *)
(* result, and spins until b_size has become one more than it was; a       *)
(* thread of the pool reads the device and adds that one.                  *)
(*                                                                         *)
(* Everything between taking and releasing the lock of the pool is one     *)
(* step.  The lock is a variable only because the error path of            *)
(* threadpool_destroy returns without releasing it.  A task is named by    *)
(* its reader, which has one read in flight at a time.                     *)
(***************************************************************************)
EXTENDS Integers, FiniteSets

CONSTANTS Readers,     \* threads of the application that read
          Workers,     \* the threads of the pool
          Destroyers,  \* threads that call threadpool_destroy
          QueueSize,   \* queue_size
          NoTask

ASSUME ReadPoolAssumption ==
  /\ IsFiniteSet(Workers)
  /\ QueueSize \in Nat \ {0}
  /\ NoTask \notin Readers

VARIABLES queue, head, tail, count,  \* the ring of tasks
          shutdown,                  \* 0, immediate or graceful
          started,                   \* threads that have not left their loop
          leaked,                    \* the lock of the pool is never released
          wpc, task,                 \* each thread of the pool, and its task
          rpc,                       \* each reader
          extra,                     \* b_size of its buffer head, less the size
          filled,                    \* its buffer holds the data of the device
          result,                    \* what threadpool_add returned to it
          dpc                        \* each thread in threadpool_destroy

ringVars == <<queue, head, tail, count>>
poolVars == <<shutdown, started, leaked>>
workerVars == <<wpc, task>>
readerVars == <<rpc, extra, filled, result>>
vars == <<queue, head, tail, count, shutdown, started, leaked, wpc, task,
          rpc, extra, filled, result, dpc>>

None == "none"
Immediate == "immediate_shutdown"
Graceful == "graceful_shutdown"

Indices == 0..QueueSize-1

\* The place in the ring that is k places after i.
After(i, k) == (i + k) % QueueSize

\* The tasks waiting in the ring: count of them from head on.
Pending == {queue[After(head, k)] : k \in 0..count-1}

\* The tasks the threads have grabbed.
InHand == {task[w] : w \in Workers} \ {NoTask}

Asleep == {w \in Workers : wpc[w] = "asleep"}

\* The pool is gone; its users no longer call it.
Freed == \E d \in Destroyers : dpc[d] = "freed"

-----------------------------------------------------------------------------
\* threadpool_create; its threads are about to take the lock.
Init ==
  /\ queue = [i \in Indices |-> NoTask]
  /\ head = 0 /\ tail = 0 /\ count = 0
  /\ shutdown = None /\ started = Cardinality(Workers) /\ leaked = FALSE
  /\ wpc = [w \in Workers |-> "lock"]
  /\ task = [w \in Workers |-> NoTask]
  /\ rpc = [r \in Readers |-> "idle"]
  /\ extra = [r \in Readers |-> 0]
  /\ filled = [r \in Readers |-> FALSE]
  /\ result = [r \in Readers |-> "queued"]
  /\ dpc = [d \in Destroyers |-> "out"]

\* The reader has a new buffer head and calls threadpool_add; whatever is
\* returned, it goes on to spin.
NewRead(r, res) ==
  /\ rpc[r] = "idle" /\ ~leaked /\ ~Freed
  /\ rpc' = [rpc EXCEPT ![r] = "spin"]
  /\ extra' = [extra EXCEPT ![r] = 0]
  /\ filled' = [filled EXCEPT ![r] = FALSE]
  /\ result' = [result EXCEPT ![r] = res]

\* threadpool_add with a full ring: `continue' leaves the do-while(0) loop, so
\* the task is not queued and 0 is returned, as for a task that is.
AddFull(r) ==
  /\ NewRead(r, "full")
  /\ count = QueueSize
  /\ UNCHANGED <<ringVars, poolVars, workerVars, dpc>>

\* threadpool_add during a shutdown.
AddShutdown(r) ==
  /\ NewRead(r, "threadpool_shutdown")
  /\ count # QueueSize /\ shutdown # None
  /\ UNCHANGED <<ringVars, poolVars, workerVars, dpc>>

\* Mutated adds: one signals nobody, one leaves tail where it is.
AddNoSignal(r) ==
  /\ NewRead(r, "queued")
  /\ count # QueueSize /\ shutdown = None
  /\ queue' = [queue EXCEPT ![tail] = r]
  /\ tail' = After(tail, 1)
  /\ count' = count + 1
  /\ UNCHANGED <<head, poolVars, workerVars, dpc>>

AddKeepsTail(r) ==
  /\ NewRead(r, "queued")
  /\ count # QueueSize /\ shutdown = None
  /\ queue' = [queue EXCEPT ![tail] = r]
  /\ count' = count + 1
  /\ IF Asleep = {} THEN UNCHANGED wpc
     ELSE \E w \in Asleep : wpc' = [wpc EXCEPT ![w] = "lock"]
  /\ UNCHANGED <<head, tail, poolVars, task, dpc>>

\* threadpool_add queues the task and signals one thread.
AddTask(r) ==
  /\ NewRead(r, "queued")
  /\ count # QueueSize /\ shutdown = None
  /\ queue' = [queue EXCEPT ![tail] = r]
  /\ tail' = After(tail, 1)
  /\ count' = count + 1
  /\ IF Asleep = {} THEN UNCHANGED wpc
     ELSE \E w \in Asleep : wpc' = [wpc EXCEPT ![w] = "lock"]
  /\ UNCHANGED <<head, poolVars, task, dpc>>

threadpool_add(r) == AddFull(r) \/ AddShutdown(r) \/ AddTask(r)

\* The spinning reader sees b_size one larger; it uses the data and goes on.
SpinEnds(r) ==
  /\ rpc[r] = "spin" /\ extra[r] = 1
  /\ rpc' = [rpc EXCEPT ![r] = "idle"]
  /\ UNCHANGED <<ringVars, poolVars, workerVars, extra, filled, result, dpc>>

-----------------------------------------------------------------------------
\* threadpool_thread has the lock, nothing to do and no shutdown to heed.
Sleep(w) ==
  /\ wpc[w] = "lock" /\ ~leaked
  /\ count = 0 /\ shutdown = None
  /\ wpc' = [wpc EXCEPT ![w] = "asleep"]
  /\ UNCHANGED <<ringVars, poolVars, task, readerVars, dpc>>

\* A mutated exit that leaves with tasks pending.
LeaveEarly(w) ==
  /\ wpc[w] = "lock" /\ ~leaked
  /\ shutdown # None
  /\ started' = started - 1
  /\ wpc' = [wpc EXCEPT ![w] = "exited"]
  /\ UNCHANGED <<ringVars, shutdown, leaked, task, readerVars, dpc>>

\* It leaves its loop because of a shutdown.
Leave(w) ==
  /\ wpc[w] = "lock" /\ ~leaked
  /\ shutdown = Immediate \/ (shutdown = Graceful /\ count = 0)
  /\ started' = started - 1
  /\ wpc' = [wpc EXCEPT ![w] = "exited"]
  /\ UNCHANGED <<ringVars, shutdown, leaked, task, readerVars, dpc>>

\* A mutated grab that leaves head where it is.
GrabKeepsHead(w) ==
  /\ wpc[w] = "lock" /\ ~leaked
  /\ count > 0 /\ shutdown # Immediate
  /\ task' = [task EXCEPT ![w] = queue[head]]
  /\ count' = count - 1
  /\ wpc' = [wpc EXCEPT ![w] = "read"]
  /\ UNCHANGED <<queue, head, tail, poolVars, readerVars, dpc>>

\* It grabs the task at the head of the ring.
Grab(w) ==
  /\ wpc[w] = "lock" /\ ~leaked
  /\ count > 0 /\ shutdown # Immediate
  /\ task' = [task EXCEPT ![w] = queue[head]]
  /\ head' = After(head, 1)
  /\ count' = count - 1
  /\ wpc' = [wpc EXCEPT ![w] = "read"]
  /\ UNCHANGED <<queue, tail, poolVars, readerVars, dpc>>

\* bh_submit_read_sync_IO fills the buffer from the device ...
bh_submit_read_sync_IO(w) ==
  /\ wpc[w] = "read"
  /\ filled' = [filled EXCEPT ![task[w]] = TRUE]
  /\ wpc' = [wpc EXCEPT ![w] = "post"]
  /\ UNCHANGED <<ringVars, poolVars, task, rpc, extra, result, dpc>>

\* ... and then b_size is raised, which is what the reader spins for.
Post(w) ==
  /\ wpc[w] = "post"
  /\ extra' = [extra EXCEPT ![task[w]] = @ + 1]
  /\ task' = [task EXCEPT ![w] = NoTask]
  /\ wpc' = [wpc EXCEPT ![w] = "lock"]
  /\ UNCHANGED <<ringVars, poolVars, rpc, filled, result, dpc>>

\* pthread_cond_wait returns although nothing was signalled.
SpuriousWakeup(w) ==
  /\ wpc[w] = "asleep"
  /\ wpc' = [wpc EXCEPT ![w] = "lock"]
  /\ UNCHANGED <<ringVars, poolVars, task, readerVars, dpc>>

threadpool_thread(w) ==
  \/ Sleep(w) \/ Leave(w) \/ Grab(w) \/ bh_submit_read_sync_IO(w) \/ Post(w)

-----------------------------------------------------------------------------
\* threadpool_destroy: raises the flag, wakes every thread and joins them.
StartDestroy(d, f) ==
  /\ dpc[d] = "out" /\ ~leaked /\ shutdown = None
  /\ shutdown' = f
  /\ dpc' = [dpc EXCEPT ![d] = "join"]
  /\ wpc' = [w \in Workers |-> IF wpc[w] = "asleep" THEN "lock" ELSE wpc[w]]
  /\ UNCHANGED <<ringVars, started, leaked, task, readerVars>>

\* Already shutting down: it breaks out with the lock held, and returns.
DestroyAgain(d, f) ==
  /\ dpc[d] = "out" /\ ~leaked /\ shutdown # None
  /\ ~Freed
  /\ leaked' = TRUE
  /\ dpc' = [dpc EXCEPT ![d] = "failed"]
  /\ UNCHANGED <<ringVars, shutdown, started, workerVars, readerVars>>

\* Every thread has exited: the joins return and threadpool_free runs.
FinishDestroy(d) ==
  /\ dpc[d] = "join"
  /\ \A w \in Workers : wpc[w] = "exited"
  /\ started = 0 /\ ~leaked
  /\ dpc' = [dpc EXCEPT ![d] = "freed"]
  /\ UNCHANGED <<ringVars, poolVars, workerVars, readerVars>>

threadpool_destroy(d) ==
  \/ \E f \in {Immediate, Graceful} : StartDestroy(d, f) \/ DestroyAgain(d, f)
  \/ FinishDestroy(d)

-----------------------------------------------------------------------------
Next ==
  \/ \E r \in Readers : threadpool_add(r) \/ SpinEnds(r)
  \/ \E w \in Workers : threadpool_thread(w) \/ SpuriousWakeup(w)
  \/ \E d \in Destroyers : threadpool_destroy(d)

Spec == Init /\ [][Next]_vars

\* The scheduler runs the threads of the pool, the spinning readers and the
\* thread that joins.  No application has to read, nor to destroy the pool.
Fairness ==
  /\ \A w \in Workers : WF_vars(threadpool_thread(w))
  /\ \A r \in Readers : WF_vars(SpinEnds(r))
  /\ \A d \in Destroyers : WF_vars(FinishDestroy(d))

FairSpec == Spec /\ Fairness

-----------------------------------------------------------------------------
\* Types; a buffer head is signalled at most once, or its reader, which waits
\* for equality with size + 1, would never stop spinning.
TypeOK ==
  /\ queue \in [Indices -> Readers \cup {NoTask}]
  /\ head \in Indices /\ tail \in Indices /\ count \in 0..QueueSize
  /\ shutdown \in {None, Immediate, Graceful}
  /\ started \in Nat
  /\ leaked \in BOOLEAN
  /\ wpc \in [Workers -> {"lock", "asleep", "read", "post", "exited"}]
  /\ task \in [Workers -> Readers \cup {NoTask}]
  /\ rpc \in [Readers -> {"idle", "spin"}]
  /\ extra \in [Readers -> {0, 1}]
  /\ filled \in [Readers -> BOOLEAN]
  /\ result \in [Readers -> {"queued", "full", "threadpool_shutdown"}]
  /\ dpc \in [Destroyers -> {"out", "join", "failed", "freed"}]

\* The ring is a queue: tail is count places after head, no task waits twice
\* in it or waits while a thread runs it, and every one of them belongs to a
\* reader that still spins for it.
RingOK ==
  /\ tail = After(head, count)
  /\ \A k, l \in 0..count-1 : k # l => queue[After(head, k)] # queue[After(head, l)]
  /\ \A r \in Pending \cup InHand : rpc[r] = "spin" /\ extra[r] = 0
  /\ Pending \cap InHand = {}

\* A reader that stops spinning finds the data of the device in its buffer.
DataBeforeSignal == \A r \in Readers : extra[r] = 1 => filled[r]

\* A task that threadpool_add put in the ring waits, runs or has run: it is
\* not overwritten when the ring wraps.
TaskKept ==
  \A r \in Readers :
    rpc[r] = "spin" /\ result[r] = "queued" /\ extra[r] = 0
      => r \in Pending \cup InHand

\* The pool is freed only after the last thread has left it, and started has
\* counted them all down (threadpool_free gives up while it is positive).
FreedWhenUnused ==
  /\ started = Cardinality({w \in Workers : wpc[w] # "exited"})
  /\ Freed => \A w \in Workers : wpc[w] = "exited"

\* A read that was queued comes back, unless the pool is being destroyed.
ReadReturns ==
  \A r \in Readers :
    rpc[r] = "spin" /\ result[r] = "queued"
      ~> rpc[r] = "idle" \/ shutdown # None

\* threadpool.h, of a graceful shutdown: "doesn't accept any new tasks but
\* processes all pending tasks before shutdown".  It does unless a second
\* threadpool_destroy returns with the lock held.
GracefulDrains ==
  \A r \in Readers :
    shutdown = Graceful /\ r \in Pending \cup InHand
      ~> rpc[r] = "idle" \/ leaked
=============================================================================
