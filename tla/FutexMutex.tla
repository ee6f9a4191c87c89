------------------------------ MODULE FutexMutex ------------------------------
(***************************************************************************)
(* The mutex and the condition variable of concurrency/locks.c and         *)
(* concurrency/condvar.c, built on futexes: one mutex, one condition       *)
(* variable that is used with it, and threads that call their operations   *)
(* in any order, unlocking and waiting only with the mutex held.           *)
(*                                                                         *)
(* The word of the mutex is two bytes, locked and contended; the code      *)
(* exchanges the first byte, or the whole word.  Every access to shared    *)
(* memory is a step.  A loop that only looks again (the 100 tries of lock, *)
(* the 200 looks of unlock) is the step that leaves it.  The two futexes   *)
(* are sets of sleeping threads, and the kernel wakes any of them.         *)
(***************************************************************************)
EXTENDS Naturals, FiniteSets

CONSTANTS Threads,
          MaxSeq      \* bound: how often seq is counted up

ASSUME FutexAssumption == MaxSeq \in Nat

VARIABLES locked, contended,  \* the two bytes of the mutex
          seq, cvm,           \* the condition variable; cvm: c->m is the mutex
          pc,                 \* where each thread is
          holds,              \* the threads whose lock or wait has returned
          inwait,             \* the threads in userfs_condvar_wait
          seen                \* seq as userfs_condvar_wait read it

vars == <<locked, contended, seq, cvm, pc, holds, inwait, seen>>
mutexVars == <<locked, contended, holds>>
condVars == <<seq, cvm, seen>>

Points == {"out", "try", "slow", "futex", "asleep",        \* lock
           "unlock", "clear", "spin", "zero", "wake",      \* unlock
           "setm", "condfutex", "condasleep",              \* condvar_wait
           "condwake", "add", "requeue"}                   \* signal, broadcast

Sleepers == {t \in Threads : pc[t] = "asleep"}
CondSleepers == {t \in Threads : pc[t] = "condasleep"}

\* m->u, and its value when the mutex is locked and contended.
Word == locked + 256 * contended
Contended == 257

Init ==
  /\ locked = 0 /\ contended = 0
  /\ seq = 0 /\ cvm = FALSE
  /\ pc = [t \in Threads |-> "out"]
  /\ holds = {} /\ inwait = {}
  /\ seen = [t \in Threads |-> 0]

\* The calls of broadcast that will still count seq up.
Counting == {t \in Threads : pc[t] = "add"}

Goto(t, point) == pc' = [pc EXCEPT ![t] = point]

-----------------------------------------------------------------------------
\* A thread calls userfs_mutex_lock.
CallLock(t) ==
  /\ pc[t] = "out" /\ t \notin holds
  /\ Goto(t, "try")
  /\ UNCHANGED <<mutexVars, condVars, inwait>>

\* userfs_mutex_trylock.
userfs_mutex_trylock(t) ==
  /\ pc[t] = "out" /\ t \notin holds
  /\ locked' = 1
  /\ holds' = IF locked = 0 THEN holds \cup {t} ELSE holds
  /\ UNCHANGED <<contended, condVars, pc, inwait>>

\* The last of up to 100 exchanges of the first byte.
Try(t) ==
  /\ pc[t] = "try"
  /\ locked' = 1
  /\ IF locked = 0 THEN holds' = holds \cup {t} /\ Goto(t, "out")
     ELSE UNCHANGED holds /\ Goto(t, "slow")
  /\ UNCHANGED <<contended, condVars, inwait>>

\* Have to sleep: exchange the word for 257 until the old one was unlocked.
\* This is the loop of userfs_mutex_lock and that of userfs_condvar_wait.
Slow(t) ==
  /\ pc[t] = "slow"
  /\ locked' = 1 /\ contended' = 1
  /\ IF locked = 0
     THEN holds' = holds \cup {t} /\ inwait' = inwait \ {t} /\ Goto(t, "out")
     ELSE UNCHANGED <<holds, inwait>> /\ Goto(t, "futex")
  /\ UNCHANGED condVars

\* Mutated FUTEX_WAIT: sleeps whatever the word has become.
FutexWaitBlindly(t) ==
  /\ pc[t] = "futex"
  /\ Goto(t, "asleep")
  /\ UNCHANGED <<mutexVars, condVars, inwait>>

\* FUTEX_WAIT on the mutex: sleeps only if the word is still 257.
FutexWait(t) ==
  /\ pc[t] = "futex"
  /\ Goto(t, IF Word = Contended THEN "asleep" ELSE "slow")
  /\ UNCHANGED <<mutexVars, condVars, inwait>>

\* A signal ends either futex wait; the result is ignored.
Interrupted(t) ==
  /\ pc[t] \in {"asleep", "condasleep"}
  /\ Goto(t, "slow")
  /\ UNCHANGED <<mutexVars, condVars, inwait>>

userfs_mutex_lock(t) == Try(t) \/ Slow(t) \/ FutexWait(t) \/ Interrupted(t)

-----------------------------------------------------------------------------
\* A holder calls userfs_mutex_unlock.  The word is not 0, so it does not
\* return EPERM.
CallUnlock(t) ==
  /\ pc[t] = "out" /\ t \in holds
  /\ Goto(t, "unlock")
  /\ UNCHANGED <<mutexVars, condVars, inwait>>

\* Where a thread goes on once it has unlocked.
AfterUnlock(t) == IF t \in inwait THEN "condfutex" ELSE "out"

\* Locked and not contended: compare and exchange the word for 0.
Unlock(t) ==
  /\ pc[t] = "unlock"
  /\ IF Word = 1
     THEN locked' = 0 /\ holds' = holds \ {t} /\ Goto(t, AfterUnlock(t))
     ELSE UNCHANGED <<locked, holds>> /\ Goto(t, "clear")
  /\ UNCHANGED <<contended, condVars, inwait>>

Clear(t) ==
  /\ pc[t] = "clear"
  /\ locked' = 0 /\ holds' = holds \ {t}
  /\ Goto(t, "spin")
  /\ UNCHANGED <<contended, condVars, inwait>>

\* Spin and hope someone takes the lock.
Spin(t) ==
  /\ pc[t] = "spin"
  /\ Goto(t, IF locked = 1 THEN AfterUnlock(t) ELSE "zero")
  /\ UNCHANGED <<mutexVars, condVars, inwait>>

Zero(t) ==
  /\ pc[t] = "zero"
  /\ contended' = 0
  /\ Goto(t, "wake")
  /\ UNCHANGED <<locked, holds, condVars, inwait>>

\* FUTEX_WAKE of one thread, if there is one.
Wake(t) ==
  /\ pc[t] = "wake"
  /\ \/ /\ Sleepers = {}
        /\ Goto(t, AfterUnlock(t))
     \/ \E s \in Sleepers :
          pc' = [pc EXCEPT ![s] = "slow", ![t] = AfterUnlock(t)]
  /\ UNCHANGED <<mutexVars, condVars, inwait>>

userfs_mutex_unlock(t) == Unlock(t) \/ Clear(t) \/ Spin(t) \/ Zero(t) \/ Wake(t)

-----------------------------------------------------------------------------
\* A holder calls userfs_condvar_wait, which reads seq first.
CallWait(t) ==
  /\ pc[t] = "out" /\ t \in holds
  /\ seen' = [seen EXCEPT ![t] = seq]
  /\ inwait' = inwait \cup {t}
  /\ Goto(t, "setm")
  /\ UNCHANGED <<mutexVars, seq, cvm>>

\* Set the mutex inside the condition variable, then unlock it.
SetMutex(t) ==
  /\ pc[t] = "setm"
  /\ cvm' = TRUE
  /\ Goto(t, "unlock")
  /\ UNCHANGED <<mutexVars, seq, seen, inwait>>

\* Mutated FUTEX_WAIT on seq: sleeps whatever seq has become.
CondFutexBlindly(t) ==
  /\ pc[t] = "condfutex"
  /\ Goto(t, "condasleep")
  /\ seen' = [seen EXCEPT ![t] = 0]
  /\ UNCHANGED <<mutexVars, seq, cvm, inwait>>

\* FUTEX_WAIT on seq: sleeps only if no wake operation came since it was read.
\* The value read is not used again.
CondFutex(t) ==
  /\ pc[t] = "condfutex"
  /\ Goto(t, IF seq = seen[t] THEN "condasleep" ELSE "slow")
  /\ seen' = [seen EXCEPT ![t] = 0]
  /\ UNCHANGED <<mutexVars, seq, cvm, inwait>>

userfs_condvar_wait(t) == SetMutex(t) \/ CondFutex(t)

\* userfs_condvar_signal: count, then wake one thread, if there is one.  Any
\* thread may call it, with the mutex held or not.
CallSignal(t) ==
  /\ pc[t] = "out" /\ seq + Cardinality(Counting) < MaxSeq
  /\ seq' = seq + 1
  /\ Goto(t, "condwake")
  /\ UNCHANGED <<mutexVars, cvm, seen, inwait>>

CondWake(t) ==
  /\ pc[t] = "condwake"
  /\ \/ CondSleepers = {} /\ Goto(t, "out")
     \/ \E s \in CondSleepers : pc' = [pc EXCEPT ![s] = "slow", ![t] = "out"]
  /\ UNCHANGED <<mutexVars, condVars, inwait>>

\* userfs_condvar_broadcast: no mutex means that there are no waiters, and
\* the call returns at once; otherwise it goes on to count.
CallBroadcast(t) ==
  /\ pc[t] = "out" /\ cvm /\ seq + Cardinality(Counting) < MaxSeq
  /\ Goto(t, "add")
  /\ UNCHANGED <<mutexVars, condVars, inwait>>

Add(t) ==
  /\ pc[t] = "add"
  /\ seq' = seq + 1
  /\ Goto(t, "requeue")
  /\ UNCHANGED <<mutexVars, cvm, seen, inwait>>

\* Mutated requeue: every waiter is moved to the mutex, and none is woken.
RequeueAll(t) ==
  /\ pc[t] = "requeue"
  /\ pc' = [u \in Threads |-> IF u = t THEN "out"
                              ELSE IF u \in CondSleepers THEN "asleep" ELSE pc[u]]
  /\ UNCHANGED <<mutexVars, condVars, inwait>>

\* FUTEX_REQUEUE: wake one waiter and move the others to the mutex.
Requeue(t) ==
  /\ pc[t] = "requeue"
  /\ \/ CondSleepers = {} /\ Goto(t, "out")
     \/ \E s \in CondSleepers :
          pc' = [u \in Threads |-> IF u = t THEN "out" ELSE IF u = s THEN "slow"
                                   ELSE IF u \in CondSleepers THEN "asleep" ELSE pc[u]]
  /\ UNCHANGED <<mutexVars, condVars, inwait>>

-----------------------------------------------------------------------------
Calls(t) ==
  \/ CallLock(t) \/ userfs_mutex_trylock(t) \/ CallUnlock(t) \/ CallWait(t)
  \/ CallSignal(t) \/ CallBroadcast(t)

Inside(t) ==
  \/ userfs_mutex_lock(t) \/ userfs_mutex_unlock(t) \/ userfs_condvar_wait(t)
  \/ CondWake(t) \/ Add(t) \/ Requeue(t)

Next == \E t \in Threads : Calls(t) \/ Inside(t)

Spec == Init /\ [][Next]_vars

\* A thread that is in an operation and not asleep runs.
Runs(t) ==
  \/ Try(t) \/ Slow(t) \/ FutexWait(t) \/ userfs_mutex_unlock(t)
  \/ userfs_condvar_wait(t) \/ CondWake(t) \/ Add(t) \/ Requeue(t)

Fairness == \A t \in Threads : WF_vars(Runs(t))

-----------------------------------------------------------------------------
\* Types; both bytes of the mutex are 0 or 1.
TypeOK ==
  /\ locked \in {0, 1} /\ contended \in {0, 1}
  /\ seq \in Nat /\ cvm \in BOOLEAN
  /\ pc \in [Threads -> Points]
  /\ holds \subseteq Threads /\ inwait \subseteq Threads
  /\ seen \in [Threads -> Nat]

\* The points at which a holder of the mutex can be: outside, in the part of
\* unlock or wait before the byte is cleared, in signal or in broadcast.
HolderPoints == {"out", "unlock", "clear", "setm", "condwake", "add", "requeue"}

(* userfs_mutex_lock, trylock and condvar_wait give the mutex to one thread   *)
(* at a time, through exchanges of a byte and of the word around it: the byte *)
(* is set exactly while there is a holder, and only a holder is in the part   *)
(* of unlock that may clear it.                                               *)
Exclusion ==
  /\ \A t, u \in holds : t = u
  /\ locked = 1 <=> holds # {}
  /\ \A t \in holds : pc[t] \in HolderPoints
  /\ \A t \in Threads : pc[t] \in {"unlock", "clear", "setm"} => t \in holds

(* A thread asleep on the mutex is not forgotten: the mutex is marked as      *)
(* contended, and locked or looked at by a thread in unlock; or a thread is   *)
(* about to wake a sleeper or to mark the mutex again.  unlock clears the     *)
(* mark of others, and broadcast moves threads to a mutex without mark.       *)
SleepersRemembered ==
  Sleepers # {} =>
    \/ contended = 1 /\ (locked = 1 \/ \E t \in Threads : pc[t] \in {"spin", "zero"})
    \/ \E t \in Threads : pc[t] \in {"wake", "slow"}

\* The threads that ask for the mutex: in lock, or on their way back in wait.
Asking == {t \in Threads : pc[t] \in {"try", "slow", "futex", "asleep"}}

(* A free mutex that is asked for is taken again: no wakeup is lost between   *)
(* lock, unlock, wait, signal and broadcast.                                  *)
FreeIsTaken == (locked = 0 /\ Asking # {}) ~> (locked = 1)
=============================================================================
