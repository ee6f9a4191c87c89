------------------------------- MODULE WritePool -------------------------------
(***************************************************************************)
(* One write pool of a build with -DCONCURRENT: threadpool/thpool.c and    *)
(* the job its threads run for the file system.  A writer queues a job     *)
(* with thpool_add_work; a thread of the pool writes the data              *)
(* (userfs_write) and then logs the extent (append_fsextent); shutdown_fs  *)
(* calls thpool_wait before it lets the kernel digest the log.             *)
(*                                                                         *)
(* The locks: rwmutex is held for the whole of a push or a pull, which are *)
(* therefore one step each (bsem_post inside them takes only the mutex of  *)
(* the semaphore).  thcount_lock is a variable, because thpool_wait holds  *)
(* it over two separate reads, of len and of num_threads_working, and len  *)
(* is read without rwmutex.  A condition variable is the set of the        *)
(* threads asleep on it; a signal moves one of them, if any, back to the   *)
(* test of its loop, and a thread may also wake up for no reason.          *)
(***************************************************************************)
EXTENDS Integers, Sequences, FiniteSets

CONSTANTS Workers,      \* the threads thpool_init starts
          Clients,      \* the threads that use the pool
          Waiters,      \* those of them that call thpool_wait
          Jobs,         \* the writes they may queue, each at most once
          NoJob,        \* no job in the hands of a thread
          NoOwner,      \* thcount_lock is free
          MaxSpurious   \* bound on the wake-ups for no reason

ASSUME WritePoolAssumption ==
  /\ IsFiniteSet(Workers) /\ Workers # {}
  /\ Waiters \subseteq Clients
  /\ NoJob \notin Jobs
  /\ NoOwner \notin Clients
  /\ MaxSpurious \in Nat

VARIABLES pc,                   \* where each thread of the pool is in thread_do
          job,                  \* the job it has pulled
          queue,                \* jobqueue, front first; its length is len
          v,                    \* the binary semaphore has_jobs
          num_threads_alive,
          num_threads_working,
          thcount_lock,         \* the client that holds it between two steps
          threads_keepalive,
          ready,                \* thpool_init has returned
          cpc,                  \* where each client is
          destroyer,            \* where thpool_destroy is
          spurious,             \* wake-ups for no reason so far
          written, logged,      \* history: jobs whose data is written, whose
                                \* extent is logged
          submitted,            \* history: jobs queued so far
          asked, covered        \* history: jobs queued when a client called
                                \* thpool_wait; jobs a return vouches for

workerVars == <<pc, job>>
semVars == <<queue, v>>
countVars == <<num_threads_alive, num_threads_working>>
historyVars == <<written, logged, submitted, asked, covered>>
vars == <<pc, job, queue, v, num_threads_alive, num_threads_working,
          thcount_lock, threads_keepalive, ready, cpc, destroyer, spurious,
          written, logged, submitted, asked, covered>>

\* The points of thread_do; asleep is inside the pthread_cond_wait of bsem_wait.
WorkerPoints == {"start", "loop", "bsem", "asleep", "got", "pull", "func",
                 "extent", "dec", "exit", "gone"}

\* The points of thpool_wait; wasleep is inside its pthread_cond_wait.
ClientPoints == {"out", "wlock", "wlen", "wworking", "wasleep"}

\* The threads num_threads_working counts.
Working == {w \in Workers : pc[w] \in {"pull", "func", "extent", "dec"}}

Asleep == {w \in Workers : pc[w] = "asleep"}
WaitersAsleep == {c \in Clients : cpc[c] = "wasleep"}

Goto(w, p) == pc' = [pc EXCEPT ![w] = p]

-----------------------------------------------------------------------------
Init ==
  /\ pc = [w \in Workers |-> "start"]
  /\ job = [w \in Workers |-> NoJob]
  /\ queue = << >>
  /\ v = 0
  /\ num_threads_alive = 0
  /\ num_threads_working = 0
  /\ thcount_lock = NoOwner
  /\ threads_keepalive = TRUE
  /\ ready = FALSE
  /\ cpc = [c \in Clients |-> "out"]
  /\ destroyer = "none"
  /\ spurious = 0
  /\ written = {} /\ logged = {} /\ submitted = {} /\ covered = {}
  /\ asked = [c \in Clients |-> {}]

\* pthread_cond_signal: wakes one thread if one is asleep.  `moved' is pc with
\* the caller already past its step.
SignalOne(moved) ==
  IF Asleep = {} THEN pc' = moved
  ELSE \E w \in Asleep : pc' = [moved EXCEPT ![w] = "bsem"]

\* thread_do counts itself alive.
Start(w) ==
  /\ pc[w] = "start" /\ thcount_lock = NoOwner
  /\ num_threads_alive' = num_threads_alive + 1
  /\ Goto(w, "loop")
  /\ UNCHANGED <<job, semVars, num_threads_working, thcount_lock,
                 threads_keepalive, ready, cpc, destroyer, spurious, historyVars>>

\* thpool_init spins until every thread is alive.
InitReturns ==
  /\ ~ready /\ num_threads_alive = Cardinality(Workers)
  /\ ready' = TRUE
  /\ UNCHANGED <<workerVars, semVars, countVars, thcount_lock,
                 threads_keepalive, cpc, destroyer, spurious, historyVars>>

\* The test of the loop of thread_do.
Loop(w) ==
  /\ pc[w] = "loop"
  /\ Goto(w, IF threads_keepalive THEN "bsem" ELSE "exit")
  /\ UNCHANGED <<job, semVars, countVars, thcount_lock, threads_keepalive,
                 ready, cpc, destroyer, spurious, historyVars>>

\* bsem_wait tests the semaphore: it takes it, or goes to sleep.
bsem_wait(w) ==
  /\ pc[w] = "bsem"
  /\ v' = 0
  /\ Goto(w, IF v = 1 THEN "got" ELSE "asleep")
  /\ UNCHANGED <<job, queue, countVars, thcount_lock, threads_keepalive,
                 ready, cpc, destroyer, spurious, historyVars>>

\* The second test of threads_keepalive, and the count of working threads,
\* which is raised before the job leaves the queue.
CountWorking(w) ==
  /\ pc[w] = "got"
  /\ IF threads_keepalive
     THEN /\ thcount_lock = NoOwner
          /\ num_threads_working' = num_threads_working + 1
          /\ Goto(w, "pull")
     ELSE Goto(w, "loop") /\ UNCHANGED num_threads_working
  /\ UNCHANGED <<job, semVars, num_threads_alive, thcount_lock,
                 threads_keepalive, ready, cpc, destroyer, spurious, historyVars>>

\* A mutated pull that does not post again when jobs are left.
PullNoPost(w) ==
  /\ pc[w] = "pull"
  /\ IF queue = << >>
     THEN Goto(w, "dec") /\ UNCHANGED <<queue, v, job>>
     ELSE /\ job' = [job EXCEPT ![w] = Head(queue)]
          /\ queue' = Tail(queue)
          /\ Goto(w, "func")
          /\ UNCHANGED v
  /\ UNCHANGED <<countVars, thcount_lock, threads_keepalive,
                 ready, cpc, destroyer, spurious, historyVars>>

\* A mutated pull that leaves the front of the queue where it is.
PullKeepsFront(w) ==
  /\ pc[w] = "pull"
  /\ IF queue = << >>
     THEN Goto(w, "dec") /\ UNCHANGED job
     ELSE job' = [job EXCEPT ![w] = Head(queue)] /\ Goto(w, "func")
  /\ UNCHANGED <<semVars, countVars, thcount_lock, threads_keepalive,
                 ready, cpc, destroyer, spurious, historyVars>>

\* jobqueue_pull: takes the front job, and posts again if others are left.
jobqueue_pull(w) ==
  /\ pc[w] = "pull"
  /\ IF queue = << >>
     THEN Goto(w, "dec") /\ UNCHANGED <<queue, v, job>>
     ELSE /\ job' = [job EXCEPT ![w] = Head(queue)]
          /\ queue' = Tail(queue)
          /\ IF Len(queue) > 1
             THEN v' = 1 /\ SignalOne([pc EXCEPT ![w] = "func"])
             ELSE Goto(w, "func") /\ UNCHANGED v
  /\ UNCHANGED <<countVars, thcount_lock, threads_keepalive,
                 ready, cpc, destroyer, spurious, historyVars>>

\* The job's function, userfs_write: the data reaches the device.
RunJob(w) ==
  /\ pc[w] = "func"
  /\ written' = written \cup {job[w]}
  /\ Goto(w, "extent")
  /\ UNCHANGED <<job, semVars, countVars, thcount_lock, threads_keepalive,
                 ready, cpc, destroyer, spurious, logged, submitted, asked, covered>>

\* Then append_fsextent and bh_release (every job has wflag = 1), and the job
\* is freed.
LogExtent(w) ==
  /\ pc[w] = "extent"
  /\ logged' = logged \cup {job[w]}
  /\ job' = [job EXCEPT ![w] = NoJob]
  /\ Goto(w, "dec")
  /\ UNCHANGED <<semVars, countVars, thcount_lock, threads_keepalive, ready,
                 cpc, destroyer, spurious, written, submitted, asked, covered>>

\* A mutated end of the work that never signals thpool_wait.
DoneNoSignal(w) ==
  /\ pc[w] = "dec" /\ thcount_lock = NoOwner
  /\ num_threads_working' = num_threads_working - 1
  /\ Goto(w, "loop")
  /\ UNCHANGED <<job, semVars, num_threads_alive, thcount_lock, cpc,
                 threads_keepalive, ready, destroyer, spurious, historyVars>>

\* The thread stops counting as working; the last one signals thpool_wait.
DoneWorking(w) ==
  /\ pc[w] = "dec" /\ thcount_lock = NoOwner
  /\ num_threads_working' = num_threads_working - 1
  /\ Goto(w, "loop")
  /\ IF num_threads_working = 1 /\ WaitersAsleep # {}
     THEN \E c \in WaitersAsleep : cpc' = [cpc EXCEPT ![c] = "wlock"]
     ELSE UNCHANGED cpc
  /\ UNCHANGED <<job, semVars, num_threads_alive, thcount_lock,
                 threads_keepalive, ready, destroyer, spurious, historyVars>>

\* The thread leaves the loop: it is no longer alive.
Exit(w) ==
  /\ pc[w] = "exit" /\ thcount_lock = NoOwner
  /\ num_threads_alive' = num_threads_alive - 1
  /\ Goto(w, "gone")
  /\ UNCHANGED <<job, semVars, num_threads_working, thcount_lock,
                 threads_keepalive, ready, cpc, destroyer, spurious, historyVars>>

\* pthread_cond_wait returns although nothing was signalled.
WakeWorker(w) ==
  /\ pc[w] = "asleep" /\ spurious < MaxSpurious
  /\ spurious' = spurious + 1
  /\ Goto(w, "bsem")
  /\ UNCHANGED <<job, semVars, countVars, thcount_lock, threads_keepalive,
                 ready, cpc, destroyer, historyVars>>

thread_do(w) ==
  \/ Start(w) \/ Loop(w) \/ bsem_wait(w) \/ CountWorking(w)
  \/ jobqueue_pull(w) \/ RunJob(w) \/ LogExtent(w) \/ DoneWorking(w) \/ Exit(w)

-----------------------------------------------------------------------------
\* jobqueue_push: the job goes to the rear, and the semaphore is posted.
jobqueue_push(j) ==
  /\ queue' = Append(queue, j)
  /\ v' = 1
  /\ SignalOne(pc)

\* thpool_add_work.  The pool is not used once thpool_destroy has been called.
thpool_add_work(c, j) ==
  /\ ready /\ destroyer = "none" /\ cpc[c] = "out"
  /\ j \notin submitted
  /\ jobqueue_push(j)
  /\ submitted' = submitted \cup {j}
  /\ UNCHANGED <<job, countVars, thcount_lock, threads_keepalive, ready, cpc,
                 destroyer, spurious, written, logged, asked, covered>>

\* A client calls thpool_wait.
CallWait(c) ==
  /\ c \in Waiters /\ ready /\ destroyer = "none" /\ cpc[c] = "out"
  /\ cpc' = [cpc EXCEPT ![c] = "wlock"]
  /\ asked' = [asked EXCEPT ![c] = submitted]
  /\ UNCHANGED <<workerVars, semVars, countVars, thcount_lock, threads_keepalive,
                 ready, destroyer, spurious, written, logged, submitted, covered>>

\* It gets thcount_lock, at first or after its pthread_cond_wait.
WaitLock(c) ==
  /\ cpc[c] = "wlock" /\ thcount_lock = NoOwner
  /\ thcount_lock' = c
  /\ cpc' = [cpc EXCEPT ![c] = "wlen"]
  /\ UNCHANGED <<workerVars, semVars, countVars, threads_keepalive,
                 ready, destroyer, spurious, historyVars>>

\* The loop reads len: jobs are queued, and it sleeps; or none are, and it goes
\* on to read the other counter.
WaitReadLen(c) ==
  /\ cpc[c] = "wlen"
  /\ IF queue # << >>
     THEN /\ thcount_lock' = NoOwner
          /\ cpc' = [cpc EXCEPT ![c] = "wasleep"]
     ELSE /\ cpc' = [cpc EXCEPT ![c] = "wworking"]
          /\ UNCHANGED thcount_lock
  /\ UNCHANGED <<workerVars, semVars, countVars, threads_keepalive,
                 ready, destroyer, spurious, historyVars>>

\* A mutated thpool_wait that only waits for the queue to be empty.
WaitIgnoresWorking(c) ==
  /\ cpc[c] = "wworking"
  /\ thcount_lock' = NoOwner
  /\ cpc' = [cpc EXCEPT ![c] = "out"]
  /\ covered' = covered \cup asked[c]
  /\ UNCHANGED <<workerVars, semVars, countVars, threads_keepalive, ready,
                 destroyer, spurious, written, logged, submitted, asked>>

\* The loop reads num_threads_working: thpool_wait sleeps, or returns.
WaitReadWorking(c) ==
  /\ cpc[c] = "wworking"
  /\ thcount_lock' = NoOwner
  /\ IF num_threads_working > 0
     THEN cpc' = [cpc EXCEPT ![c] = "wasleep"] /\ UNCHANGED covered
     ELSE /\ cpc' = [cpc EXCEPT ![c] = "out"]
          /\ covered' = covered \cup asked[c]
  /\ UNCHANGED <<workerVars, semVars, countVars, threads_keepalive, ready,
                 destroyer, spurious, written, logged, submitted, asked>>

WakeWaiter(c) ==
  /\ cpc[c] = "wasleep" /\ spurious < MaxSpurious
  /\ spurious' = spurious + 1
  /\ cpc' = [cpc EXCEPT ![c] = "wlock"]
  /\ UNCHANGED <<workerVars, semVars, countVars, thcount_lock, threads_keepalive,
                 ready, destroyer, historyVars>>

thpool_wait(c) == WaitLock(c) \/ WaitReadLen(c) \/ WaitReadWorking(c)

-----------------------------------------------------------------------------
\* thpool_destroy: clears threads_keepalive.  Its caller is the last user.
StopThreads ==
  /\ ready /\ destroyer = "none" /\ \A c \in Clients : cpc[c] = "out"
  /\ threads_keepalive' = FALSE
  /\ destroyer' = "polling"
  /\ UNCHANGED <<workerVars, semVars, countVars, thcount_lock, ready, cpc,
                 spurious, historyVars>>

\* A mutated polling loop that posts but wakes nobody.
PollNoWake ==
  /\ destroyer = "polling" /\ num_threads_alive > 0
  /\ v' = 1
  /\ UNCHANGED <<workerVars, queue, countVars, thcount_lock, threads_keepalive,
                 ready, cpc, destroyer, spurious, historyVars>>

\* One turn of its polling loops: bsem_post_all while threads are alive.
PollThreads ==
  /\ destroyer = "polling" /\ num_threads_alive > 0
  /\ v' = 1
  /\ pc' = [w \in Workers |-> IF pc[w] = "asleep" THEN "bsem" ELSE pc[w]]
  /\ UNCHANGED <<job, queue, countVars, thcount_lock, threads_keepalive, ready,
                 cpc, destroyer, spurious, historyVars>>

\* No thread is alive: jobqueue_destroy drops what is queued, and the pool is
\* freed.
FreePool ==
  /\ destroyer = "polling" /\ num_threads_alive = 0
  /\ queue' = << >> /\ v' = 0
  /\ destroyer' = "freed"
  /\ UNCHANGED <<workerVars, countVars, thcount_lock, threads_keepalive, ready,
                 cpc, spurious, historyVars>>

thpool_destroy == StopThreads \/ PollThreads \/ FreePool

-----------------------------------------------------------------------------
Next ==
  \/ \E w \in Workers : thread_do(w) \/ WakeWorker(w)
  \/ InitReturns
  \/ \E c \in Clients :
       \/ \E j \in Jobs : thpool_add_work(c, j)
       \/ CallWait(c) \/ thpool_wait(c) \/ WakeWaiter(c)
  \/ thpool_destroy

Spec == Init /\ [][Next]_vars

\* The scheduler runs every thread: of the pool, in thpool_init, inside
\* thpool_wait and in the polling loop of thpool_destroy.  Nobody has to queue
\* a job, to wait or to destroy the pool.
Fairness ==
  /\ \A w \in Workers : WF_vars(thread_do(w))
  /\ WF_vars(InitReturns)
  /\ \A c \in Clients : WF_vars(thpool_wait(c))
  /\ WF_vars(PollThreads) /\ WF_vars(FreePool)

FairSpec == Spec /\ Fairness

-----------------------------------------------------------------------------
\* Types, and bounds of the counters.
WorkerTypes ==
  /\ pc \in [Workers -> WorkerPoints]
  /\ job \in [Workers -> Jobs \cup {NoJob}]
PoolTypes ==
  /\ queue \in Seq(Jobs)
  /\ v \in {0, 1}
  /\ num_threads_alive \in Nat
  /\ num_threads_working \in Nat
  /\ destroyer \in {"none", "polling", "freed"}
  /\ spurious \in Nat
FlagTypes == threads_keepalive \in BOOLEAN /\ ready \in BOOLEAN
ClientTypes ==
  /\ thcount_lock \in Clients \cup {NoOwner}
  /\ cpc \in [Clients -> ClientPoints]
HistoryTypes ==
  /\ written \subseteq Jobs /\ logged \subseteq Jobs
  /\ submitted \subseteq Jobs /\ covered \subseteq Jobs
  /\ asked \in [Clients -> SUBSET Jobs]
\* Types; the semaphore is 0 or 1 and no counter of threads falls below 0.
TypeOK == WorkerTypes /\ PoolTypes /\ FlagTypes /\ ClientTypes /\ HistoryTypes

Queued == {queue[i] : i \in 1..Len(queue)}
InHand == {job[w] : w \in Workers} \ {NoJob}

\* When thpool_wait returns, every job queued before it was called has been
\* written and its extent logged: the kernel may digest the log.  It holds
\* although len is read without the lock of the queue and the two counters
\* are read one after the other.
WaitCovers == covered \subseteq logged /\ covered \subseteq written

\* A job is in exactly one place until its extent is logged: in the queue, in
\* the hands of one thread, or done.  No write is lost or done twice.
JobsAccounted ==
  destroyer # "freed" =>
    /\ submitted = Queued \cup InHand \cup logged
    /\ Queued \cap InHand = {} /\ Queued \cap logged = {} /\ InHand \cap logged = {}
    /\ \A i, k \in 1..Len(queue) : i # k => queue[i] # queue[k]
    /\ \A w, x \in Workers : w # x /\ job[w] = job[x] => job[w] = NoJob

\* A job that is queued is done, unless the pool is being destroyed: the binary
\* semaphore forgets posts, but never the last one that a thread needs.
JobsFinish ==
  \A j \in Jobs : j \in submitted ~> (j \in logged \/ ~threads_keepalive)

\* thpool.h: "Once the queue is empty and all work has completed, the calling
\* thread (probably the main program) will continue."
WaitReturns == \A c \in Clients : cpc[c] # "out" ~> cpc[c] = "out"

\* The polling loop of thpool_destroy ends, and the pool is freed.
DestroyEnds == destroyer = "polling" ~> destroyer = "freed"
=============================================================================
