-------------------------- MODULE FutexMonitorProofs --------------------------
(***************************************************************************)
(* The futex mutex and condition variable implement Monitor, for any set   *)
(* of threads.  Every step is a move of one thread, a release of waiting   *)
(* threads, the beginning or the end of a notification, or changes nothing *)
(* that Monitor sees.                                                      *)
(***************************************************************************)
EXTENDS FutexMonitor, FutexMutexProofs

\* Where a thread in userfs_condvar_wait can be, and who has read seq when.
Within ==
  /\ \A t \in Threads : pc[t] \in {"setm", "condfutex", "condasleep"} => t \in inwait
  /\ \A t \in inwait : pc[t] \in {"setm", "unlock", "clear", "spin", "zero", "wake",
                                  "condfutex", "condasleep", "slow", "futex", "asleep"}
  /\ \A t \in Threads : seen[t] <= seq

\* What a notification is owed are threads asleep on the condition variable,
\* and as long as none has been released since it began there is one.
Owes ==
  /\ owed \in [Threads -> SUBSET Threads] /\ met \in [Threads -> BOOLEAN]
  /\ \A n \in Threads \ Notifying : owed[n] = {} /\ met[n] = FALSE
  /\ \A n \in Notifying : owed[n] \subseteq CondSleepers /\ (~met[n] => owed[n] # {})

RInv == TypeOK /\ Exclusion /\ Within /\ Owes

\* What a step leaves of the state of a thread, when it leaves the thread alone.
Alone(u) ==
  /\ pc'[u] = pc[u] /\ seen'[u] = seen[u]
  /\ u \in holds' <=> u \in holds
  /\ u \in inwait' <=> u \in inwait

\* Such a thread keeps its state, unless seq is counted up.
LEMMA AloneSame ==
  ASSUME NEW u \in Threads, Alone(u), seq' = seq
  PROVE  /\ State(u)' = State(u) /\ Kind(u)' = Kind(u)
         /\ u \in Waiting' <=> u \in Waiting
         /\ u \in Notifying' <=> u \in Notifying
BY DEF Alone, State, Kind, Waiting, Notifying

\* A step that begins and ends no notification, and releases R.
LEMMA HistoryRelease ==
  ASSUME Owes, History, Notifying' = Notifying, NEW R, R = Waiting \ Waiting'
  PROVE  owed' = M!Owed(R) /\ met' = M!Met(R)
<1>1. \A n \in Notifying : owed[n] \subseteq Waiting
  BY DEF Owes, CondSleepers, Waiting
<1>2. \A n \in Threads : owed'[n] = owed[n] \ R
  BY <1>1 DEF Owes, History, Notifying
<1>3. \A n \in Threads : met'[n] = (met[n] \/ (Kind(n) # "none" /\ R # {}))
  BY DEF Owes, History, Notifying, Kind
<1>4. owed' = [n \in Threads |-> owed'[n]] /\ met' = [n \in Threads |-> met'[n]]
  BY DEF History
<1> QED
  BY <1>2, <1>3, <1>4 DEF M!Owed, M!Met

\* If it releases nobody, the history does not change.
LEMMA HistorySame ==
  ASSUME Owes, History, Notifying' = Notifying, Waiting \subseteq Waiting'
  PROVE  UNCHANGED <<owed, met>>
<1>1. owed' = M!Owed({}) /\ met' = M!Met({})
  <2>1. {} = Waiting \ Waiting'
    OBVIOUS
  <2> QED
    BY <2>1, HistoryRelease
<1> QED
  BY <1>1 DEF Owes, M!Owed, M!Met

-----------------------------------------------------------------------------
\* A thread is in userfs_condvar_wait only at its points, and read seq before.
LEMMA WithinStep == ASSUME TypeOK, Exclusion, Within, [Next]_vars PROVE Within'
<1> USE DEF TypeOK, Points, Exclusion, HolderPoints, Within, Goto, mutexVars, condVars, AfterUnlock
<1>1. CASE UNCHANGED vars
  BY <1>1 DEF vars
<1>2. SUFFICES ASSUME NEW t \in Threads, Calls(t) \/ Inside(t) PROVE Within'
  BY <1>1 DEF Next
<1>3. CASE CallLock(t)
  BY <1>3 DEF CallLock
<1>4. CASE userfs_mutex_trylock(t)
  BY <1>4 DEF userfs_mutex_trylock
<1>5. CASE CallUnlock(t)
  BY <1>5 DEF CallUnlock
<1>6. CASE CallWait(t)
  BY <1>6 DEF CallWait
<1>7. CASE CallSignal(t)
  BY <1>7 DEF CallSignal
<1>8. CASE CallBroadcast(t)
  BY <1>8 DEF CallBroadcast
<1>9. CASE Try(t)
  BY <1>9 DEF Try
<1>10. CASE Slow(t)
  BY <1>10 DEF Slow
<1>11. CASE FutexWait(t)
  BY <1>11 DEF FutexWait
<1>12. CASE Interrupted(t)
  BY <1>12 DEF Interrupted
<1>13. CASE Unlock(t)
  BY <1>13 DEF Unlock
<1>14. CASE Clear(t)
  BY <1>14 DEF Clear
<1>15. CASE Spin(t)
  BY <1>15 DEF Spin
<1>16. CASE Zero(t)
  BY <1>16 DEF Zero
<1>17. CASE Wake(t)
  BY <1>17 DEF Wake, Sleepers
<1>18. CASE SetMutex(t)
  BY <1>18 DEF SetMutex
<1>19. CASE CondFutex(t)
  BY <1>19 DEF CondFutex
<1>20. CASE CondWake(t)
  BY <1>20 DEF CondWake, CondSleepers
<1>21. CASE Add(t)
  BY <1>21 DEF Add
<1>22. CASE Requeue(t)
  BY <1>22 DEF Requeue, CondSleepers
<1> QED
  BY <1>2, <1>3, <1>4, <1>5, <1>6, <1>7, <1>8, <1>9, <1>10, <1>11, <1>12,
     <1>13, <1>14, <1>15, <1>16, <1>17, <1>18, <1>19, <1>20, <1>21, <1>22
     DEF Calls, Inside, userfs_mutex_lock, userfs_mutex_unlock, userfs_condvar_wait

\* What a step does to the threads asleep on the condition variable: one that
\* wakes does not wait any more, and when a notification begins only sleepers
\* are left waiting.
SleepStep ==
  /\ \A u \in CondSleepers : pc'[u] \in {"condasleep", "slow", "asleep"}
  /\ \/ Notifying' \subseteq Notifying
     \/ seq' = seq + 1 /\ UNCHANGED seen

\* It is so in every step.
LEMMA SleepStepHolds == ASSUME TypeOK, Next PROVE SleepStep
<1> USE DEF TypeOK, Points, SleepStep, CondSleepers, Notifying, Goto, mutexVars, condVars, AfterUnlock
<1>2. SUFFICES ASSUME NEW t \in Threads, Calls(t) \/ Inside(t) PROVE SleepStep
  BY DEF Next
<1>3. CASE CallLock(t)
  BY <1>3 DEF CallLock
<1>4. CASE userfs_mutex_trylock(t)
  BY <1>4 DEF userfs_mutex_trylock
<1>5. CASE CallUnlock(t)
  BY <1>5 DEF CallUnlock
<1>6. CASE CallWait(t)
  BY <1>6 DEF CallWait
<1>7. CASE CallSignal(t)
  BY <1>7 DEF CallSignal
<1>8. CASE CallBroadcast(t)
  BY <1>8 DEF CallBroadcast
<1>9. CASE Try(t)
  BY <1>9 DEF Try
<1>10. CASE Slow(t)
  BY <1>10 DEF Slow
<1>11. CASE FutexWait(t)
  BY <1>11 DEF FutexWait
<1>12. CASE Interrupted(t)
  BY <1>12 DEF Interrupted
<1>13. CASE Unlock(t)
  BY <1>13 DEF Unlock
<1>14. CASE Clear(t)
  BY <1>14 DEF Clear
<1>15. CASE Spin(t)
  BY <1>15 DEF Spin
<1>16. CASE Zero(t)
  BY <1>16 DEF Zero
<1>17. CASE Wake(t)
  BY <1>17 DEF Wake, Sleepers
<1>18. CASE SetMutex(t)
  BY <1>18 DEF SetMutex
<1>19. CASE CondFutex(t)
  BY <1>19 DEF CondFutex
<1>20. CASE CondWake(t)
  BY <1>20 DEF CondWake
<1>21. CASE Add(t)
  BY <1>21 DEF Add
<1>22. CASE Requeue(t)
  BY <1>22 DEF Requeue
<1> QED
  BY <1>2, <1>3, <1>4, <1>5, <1>6, <1>7, <1>8, <1>9, <1>10, <1>11, <1>12,
     <1>13, <1>14, <1>15, <1>16, <1>17, <1>18, <1>19, <1>20, <1>21, <1>22
     DEF Calls, Inside, userfs_mutex_lock, userfs_mutex_unlock, userfs_condvar_wait

\* What the history owes to the notifications under way stays true.
LEMMA OwesStep ==
  ASSUME TypeOK, Within, Within', Owes, Next, History PROVE Owes'
<1>1. SleepStep
  BY SleepStepHolds
<1>2. \A u \in CondSleepers : u \in Waiting' => u \in CondSleepers'
  BY <1>1 DEF SleepStep, CondSleepers, Waiting, Unlocked
<1>3. CondSleepers \subseteq Waiting /\ CondSleepers' \subseteq Waiting'
  BY DEF CondSleepers, Waiting
<1>4. ASSUME NEW n \in Threads, n \notin Notifying' PROVE owed'[n] = {} /\ met'[n] = FALSE
  BY <1>4 DEF History
<1>5. ASSUME NEW n \in Threads, n \in Notifying', n \in Notifying
      PROVE  owed'[n] \subseteq CondSleepers' /\ (~met'[n] => owed'[n] # {})
  <2>1. owed'[n] = owed[n] \cap Waiting' /\ (met'[n] <=> Waiting \ Waiting' # {} \/ met[n])
    BY <1>5 DEF History
  <2> QED
    BY <1>2, <1>3, <1>5, <2>1 DEF Owes
<1>6. ASSUME NEW n \in Threads, n \in Notifying', n \notin Notifying
      PROVE  owed'[n] \subseteq CondSleepers' /\ (~met'[n] => owed'[n] # {})
  <2>1. owed'[n] = Waiting \cap Waiting' /\ (met'[n] <=> Waiting \ Waiting' # {} \/ Waiting = {})
    BY <1>6 DEF History
  <2>2. seq' = seq + 1 /\ UNCHANGED seen
    BY <1>1, <1>6 DEF SleepStep
  <2>3. \A u \in Waiting' : u \in CondSleepers'
    BY <2>2 DEF Within, TypeOK, Waiting, CondSleepers
  <2> QED
    BY <2>1, <2>3
<1>7. owed' \in [Threads -> SUBSET Threads]
  BY DEF History, Owes, Waiting
<1>8. met' \in [Threads -> BOOLEAN]
  BY Zenon DEF History
<1>9. Notifying' \subseteq Threads
  BY DEF Notifying
<1> QED
  BY <1>4, <1>5, <1>6, <1>7, <1>8, <1>9 DEF Owes

-----------------------------------------------------------------------------
\* What Monitor sees of a state: who waits, and who is inside.
LEMMA Views ==
  Exclusion => /\ M!Waiting = Waiting
               /\ \A t \in Threads : State(t) = "inside" <=> t \in holds
               /\ \A n \in Threads : Kind(n) # "none" <=> n \in Notifying
<1> SUFFICES ASSUME Exclusion
             PROVE  /\ M!Waiting = Waiting
                    /\ \A t \in Threads : State(t) = "inside" <=> t \in holds
                    /\ \A n \in Threads : Kind(n) # "none" <=> n \in Notifying
  OBVIOUS
<1>1. \A t \in Threads : State(t) = "inside" <=> t \in holds
  BY DEF State
<1>2. \A n \in Threads : Kind(n) # "none" <=> n \in Notifying
  BY DEF Kind, Notifying
<1>3. \A t \in Waiting : t \notin holds
  BY DEF Exclusion, HolderPoints, Waiting, Unlocked
<1>4. \A t \in Threads : State(t) = "waiting" <=> t \in Waiting
  BY <1>3 DEF State
<1>5. Waiting \subseteq Threads
  BY DEF Waiting
<1> QED
  BY <1>1, <1>2, <1>4, <1>5 DEF M!Waiting

\* The same of the next state.
LEMMA ViewsNext ==
  Exclusion' => /\ \A t \in Threads : State(t)' = "waiting" <=> t \in Waiting'
                /\ \A n \in Threads : Kind(n)' # "none" <=> n \in Notifying'
<1> SUFFICES ASSUME Exclusion'
             PROVE  /\ \A t \in Threads : State(t)' = "waiting" <=> t \in Waiting'
                    /\ \A n \in Threads : Kind(n)' # "none" <=> n \in Notifying'
  OBVIOUS
<1>1. \A n \in Threads : Kind(n)' # "none" <=> n \in Notifying'
  BY DEF Kind, Notifying
<1>2. \A t \in Waiting' : t \notin holds'
  BY DEF Exclusion, HolderPoints, Waiting, Unlocked
<1> QED
  BY <1>1, <1>2 DEF State

\* A step that releases R and leaves the other threads and the notifications
\* as they are is a release of R.
LEMMA Freed ==
  ASSUME Exclusion, Exclusion', Owes, History, NEW R \in SUBSET Waiting,
         \A u \in Threads : State(u)' = IF u \in R THEN "asking" ELSE State(u),
         \A u \in Threads : Kind(u)' = Kind(u)
  PROVE  M!Release(R)
<1>1. Notifying' = Notifying
  BY Views, ViewsNext DEF Notifying
<1>2. \A u \in Threads : u \in Waiting <=> State(u) = "waiting"
  BY Views DEF M!Waiting
<1>3. R = Waiting \ Waiting'
  BY <1>2, ViewsNext DEF Waiting
<1>4. owed' = M!Owed(R) /\ met' = M!Met(R)
  BY <1>1, <1>3, HistoryRelease
<1> QED
  BY <1>4 DEF M!Release, M!Released

\* A step that moves no thread is none of Monitor.
LEMMA Quiet ==
  ASSUME Exclusion, Exclusion', Owes, History,
         \A u \in Threads : State(u)' = State(u), \A u \in Threads : Kind(u)' = Kind(u)
  PROVE  UNCHANGED M!vars
<1>1. Notifying' = Notifying
  BY Views, ViewsNext DEF Notifying
<1>2. Waiting' = Waiting
  BY Views, ViewsNext DEF M!Waiting, Waiting
<1>3. UNCHANGED <<owed, met>>
  BY <1>1, <1>2, HistorySame
<1> QED
  BY <1>3 DEF M!vars

\* A step that moves one thread, which was not waiting, is a move of Monitor.
LEMMA Moved ==
  ASSUME Exclusion, Exclusion', Owes, History, NEW t \in Threads, NEW s,
         State(t) # "waiting", State(t)' = s,
         \A u \in Threads : u # t => State(u)' = State(u),
         \A u \in Threads : Kind(u)' = Kind(u)
  PROVE  M!Moves(t, s)
<1>1. Notifying' = Notifying
  BY Views, ViewsNext DEF Notifying
<1>2. \A u \in Threads : u \in Waiting <=> State(u) = "waiting"
  BY Views DEF M!Waiting
<1>3. Waiting \subseteq Waiting'
  BY <1>2, ViewsNext DEF Waiting
<1>4. UNCHANGED <<owed, met>>
  BY <1>1, <1>3, HistorySame
<1> QED
  BY <1>4 DEF M!Moves

-----------------------------------------------------------------------------
\* A step of t alone that does not count seq up leaves the others as they are.
LEMMA OthersSame ==
  ASSUME NEW t \in Threads, seq' = seq, \A u \in Threads : u # t => Alone(u)
  PROVE  \A u \in Threads : u # t => State(u)' = State(u) /\ Kind(u)' = Kind(u)
BY AloneSame

\* The steps that Monitor does not see.
LEMMA QuietSteps ==
  ASSUME RInv, RInv', History, NEW t \in Threads,
         \/ CallUnlock(t) \/ FutexWait(t) \/ Spin(t) \/ Zero(t) \/ Wake(t)
         \/ CallWait(t) \/ SetMutex(t) \/ CondFutex(t) \/ CallBroadcast(t)
  PROVE  UNCHANGED M!vars
<1>0. TypeOK /\ Exclusion /\ Within /\ Owes /\ Exclusion'
  BY DEF RInv
<1>1. CASE \E s \in Sleepers : Wake(t) /\ pc' = [pc EXCEPT ![s] = "slow", ![t] = AfterUnlock(t)]
  <2>1. PICK s \in Sleepers : Wake(t) /\ pc' = [pc EXCEPT ![s] = "slow", ![t] = AfterUnlock(t)]
    BY <1>1
  <2>2. seq' = seq /\ \A u \in Threads \ {s, t} : Alone(u)
    BY <1>0, <2>1 DEF Wake, Sleepers, Alone, TypeOK, mutexVars, condVars
  <2>3. \A u \in Threads \ {s, t} : State(u)' = State(u) /\ Kind(u)' = Kind(u)
    BY <2>2, AloneSame
  <2>4. /\ UNCHANGED <<seq, seen, holds, inwait>> /\ s \in Threads
        /\ pc[s] = "asleep" /\ pc'[s] = "slow"
        /\ pc[t] = "wake" /\ pc'[t] = IF t \in inwait THEN "condfutex" ELSE "out"
    BY <1>0, <2>1 DEF Wake, Sleepers, TypeOK, mutexVars, condVars, AfterUnlock
  <2>5. State(s)' = State(s) /\ Kind(s)' = Kind(s)
    BY <2>4 DEF State, Kind, Waiting, Unlocked
  <2>6. State(t)' = State(t) /\ Kind(t)' = Kind(t)
    BY <2>4 DEF State, Kind, Waiting, Unlocked
  <2> QED
    BY <1>0, <2>3, <2>5, <2>6, Quiet
<1>2. CASE ~ \E s \in Sleepers : Wake(t) /\ pc' = [pc EXCEPT ![s] = "slow", ![t] = AfterUnlock(t)]
  <2>1. seq' = seq /\ \A u \in Threads : u # t => Alone(u)
    BY <1>0, <1>2 DEF CallUnlock, FutexWait, Spin, Zero, Wake, CallWait, SetMutex, CondFutex,
       CallBroadcast, Goto, Alone, TypeOK, mutexVars, condVars
  <2>2. ASSUME CallUnlock(t) \/ CallWait(t) \/ SetMutex(t)
        PROVE  State(t)' = State(t) /\ Kind(t)' = Kind(t)
    <3>1. t \in holds /\ t \in holds' /\ {pc[t], pc'[t]} \cap {"condwake", "requeue"} = {}
      BY <1>0, <2>2 DEF CallUnlock, CallWait, SetMutex, Goto, TypeOK, mutexVars, Exclusion
    <3> QED
      BY <3>1 DEF State, Kind
  <2>3. ASSUME FutexWait(t)
        PROVE  State(t)' = State(t) /\ Kind(t)' = Kind(t)
    <3>1. /\ pc[t] = "futex" /\ pc'[t] \in {"asleep", "slow"}
          /\ UNCHANGED <<seq, seen, holds, inwait>>
      BY <1>0, <2>3 DEF FutexWait, Goto, TypeOK, mutexVars, condVars
    <3> QED
      BY <3>1 DEF State, Kind, Waiting, Unlocked
  <2>4. ASSUME Spin(t) \/ Zero(t) \/ Wake(t)
        PROVE  State(t)' = State(t) /\ Kind(t)' = Kind(t)
    <3>1. /\ pc[t] \in {"spin", "zero", "wake"}
          /\ pc'[t] \in {"zero", "wake", IF t \in inwait THEN "condfutex" ELSE "out"}
          /\ UNCHANGED <<seq, seen, holds, inwait>>
      BY <1>0, <1>2, <2>4 DEF Spin, Zero, Wake, Goto, TypeOK, mutexVars, condVars, AfterUnlock
    <3> QED
      BY <3>1 DEF State, Kind, Waiting, Unlocked
  <2>5. ASSUME CondFutex(t)
        PROVE  State(t)' = State(t) /\ Kind(t)' = Kind(t)
    <3>1. /\ pc[t] = "condfutex" /\ pc'[t] = IF seq = seen[t] THEN "condasleep" ELSE "slow"
          /\ UNCHANGED <<holds, inwait>> /\ t \in inwait
      BY <1>0, <2>5 DEF CondFutex, Goto, TypeOK, mutexVars, Within
    <3>2. t \in Waiting <=> seq = seen[t]
      BY <3>1 DEF Waiting, Unlocked
    <3>3. t \in Waiting' <=> seq = seen[t]
      BY <3>1 DEF Waiting, Unlocked
    <3> QED
      BY <3>1, <3>2, <3>3 DEF State, Kind
  <2>6. ASSUME CallBroadcast(t)
        PROVE  State(t)' = State(t) /\ Kind(t)' = Kind(t)
    <3>1. pc[t] = "out" /\ pc'[t] = "add" /\ UNCHANGED <<seq, seen, holds, inwait>>
      BY <1>0, <2>6 DEF CallBroadcast, Goto, TypeOK, mutexVars, condVars
    <3>2. t \notin inwait
      BY <1>0, <3>1 DEF Within
    <3> QED
      BY <3>1, <3>2 DEF State, Kind, Waiting
  <2>7. State(t)' = State(t) /\ Kind(t)' = Kind(t)
    BY <2>2, <2>3, <2>4, <2>5, <2>6
  <2> QED
    BY <1>0, <2>1, <2>7, OthersSame, Quiet
<1> QED
  BY <1>1, <1>2

\* Calling lock asks for the mutex; an exchange that finds the byte clear
\* enters, and one that does not is not seen.
LEMMA EnterSteps ==
  ASSUME RInv, RInv', History, NEW t \in Threads,
         CallLock(t) \/ userfs_mutex_trylock(t) \/ Try(t) \/ Slow(t)
  PROVE  M!Ask(t) \/ M!Enter(t) \/ UNCHANGED M!vars
<1> USE DEF RInv
<1>1. seq' = seq /\ \A u \in Threads : u # t => Alone(u)
  BY DEF CallLock, userfs_mutex_trylock, Try, Slow, Goto, Alone, TypeOK, mutexVars, condVars
<1>2. \A u \in Threads : u # t => State(u)' = State(u) /\ Kind(u)' = Kind(u)
  BY <1>1, OthersSame
<1>3. CASE CallLock(t)
  <2>1. State(t) = "out" /\ State(t)' = "asking" /\ Kind(t)' = Kind(t)
    <3>1. /\ pc[t] = "out" /\ pc'[t] = "try" /\ t \notin holds /\ t \notin inwait
          /\ UNCHANGED <<holds, inwait>>
      BY <1>3 DEF CallLock, Goto, TypeOK, mutexVars, Within
    <3> QED
      BY <3>1 DEF State, Kind, Waiting
  <2>2. M!Moves(t, "asking")
    BY <1>2, <2>1, Moved
  <2> QED
    BY <2>1, <2>2 DEF M!Ask
<1>4. CASE ~CallLock(t) /\ locked = 0
  <2>1. /\ holds = {} /\ t \in holds' /\ pc'[t] = "out"
        /\ pc[t] \in {"out", "try", "slow"} /\ (pc[t] = "out" => t \notin inwait)
    BY <1>4 DEF userfs_mutex_trylock, Try, Slow, Goto, TypeOK, Exclusion, Within
  <2>2. State(t) \in {"out", "asking"} /\ State(t)' = "inside" /\ Kind(t)' = Kind(t)
    BY <2>1 DEF State, Kind, Waiting, Unlocked
  <2>3. M!Moves(t, "inside")
    BY <1>2, <2>2, Moved
  <2>4. M!Free
    BY <1>4, Views DEF M!Free, Exclusion
  <2> QED
    BY <2>2, <2>3, <2>4 DEF M!Enter
<1>5. CASE ~CallLock(t) /\ locked # 0
  <2>1. /\ UNCHANGED <<seq, seen, holds, inwait>>
        /\ \/ pc[t] = "out" /\ pc'[t] = "out"
           \/ pc[t] \in {"try", "slow"} /\ pc'[t] \in {"slow", "futex"}
    BY <1>5 DEF userfs_mutex_trylock, Try, Slow, Goto, TypeOK, mutexVars, condVars
  <2>2. State(t)' = State(t) /\ Kind(t)' = Kind(t)
    BY <2>1 DEF State, Kind, Waiting, Unlocked
  <2> QED
    BY <1>2, <2>2, Quiet
<1> QED
  BY <1>3, <1>4, <1>5

\* Clearing the byte leaves the mutex, or begins to wait.
LEMMA LeaveSteps ==
  ASSUME RInv, RInv', History, NEW t \in Threads, Unlock(t) \/ Clear(t)
  PROVE  M!Leave(t) \/ M!Wait(t) \/ UNCHANGED M!vars
<1> USE DEF RInv
<1>1. seq' = seq /\ \A u \in Threads : u # t => Alone(u)
  BY DEF Unlock, Clear, Goto, Alone, TypeOK, mutexVars, condVars
<1>2. \A u \in Threads : u # t => State(u)' = State(u) /\ Kind(u)' = Kind(u)
  BY <1>1, OthersSame
<1>3. Kind(t)' = Kind(t) /\ State(t) = "inside"
  BY DEF Unlock, Clear, Goto, TypeOK, AfterUnlock, Kind, State, Exclusion
<1>4. CASE t \in holds'
  <2>1. State(t)' = State(t)
    BY <1>3, <1>4 DEF State
  <2> QED
    BY <1>2, <1>3, <2>1, Quiet
<1>5. CASE t \notin holds'
  <2>1. pc'[t] \in {"condfutex", "out", "spin"} /\ (t \in inwait' <=> t \in inwait)
        /\ (pc'[t] = "condfutex" => t \in inwait)
    BY <1>5 DEF Unlock, Clear, Goto, TypeOK, AfterUnlock, Exclusion
  <2>2. State(t)' \in {"out", "waiting", "asking"}
    BY <1>5, <2>1 DEF State
  <2>3. M!Moves(t, State(t)')
    BY <1>2, <1>3, Moved
  <2> QED
    BY <1>3, <2>2, <2>3 DEF M!Leave, M!Wait
<1> QED
  BY <1>4, <1>5

-----------------------------------------------------------------------------
\* A signal ends the sleep of a thread: if it was waiting, it is released.
LEMMA InterruptedStep ==
  ASSUME RInv, RInv', History, NEW t \in Threads, Interrupted(t)
  PROVE  UNCHANGED M!vars \/ \E R \in SUBSET M!Waiting : M!Release(R)
<1> USE DEF RInv
<1>1. seq' = seq /\ \A u \in Threads : u # t => Alone(u)
  BY DEF Interrupted, Goto, Alone, TypeOK, mutexVars, condVars
<1>2. \A u \in Threads : u # t => State(u)' = State(u) /\ Kind(u)' = Kind(u)
  BY <1>1, OthersSame
<1>3. State(t)' = "asking" /\ Kind(t)' = Kind(t)
  BY DEF Interrupted, Goto, TypeOK, mutexVars, State, Kind, Waiting, Unlocked, Exclusion, HolderPoints
<1>4. CASE pc[t] = "asleep"
  <2>1. State(t) = "asking"
    BY <1>4 DEF State, Waiting, Unlocked, Exclusion, HolderPoints
  <2> QED
    BY <1>2, <1>3, <2>1, Quiet
<1>5. CASE pc[t] = "condasleep"
  <2>1. {t} \in SUBSET Waiting
    BY <1>5 DEF Waiting
  <2>2. \A u \in Threads : State(u)' = IF u \in {t} THEN "asking" ELSE State(u)
    BY <1>2, <1>3
  <2>3. M!Release({t})
    BY <1>2, <1>3, <2>1, <2>2, Freed
  <2> QED
    BY <2>1, <2>3, Views
<1> QED
  BY <1>4, <1>5 DEF Interrupted

\* The step that counts seq up begins a notification: it releases those on
\* their way to sleep, and owes the sleepers.
LEMMA NotifySteps ==
  ASSUME RInv, RInv', History, NEW t \in Threads, CallSignal(t) \/ Add(t)
  PROVE  \E R \in SUBSET M!Waiting, k \in {"signal", "broadcast"} : M!Notify(t, k, R)
<1> USE DEF RInv
<1> DEFINE R == Waiting \ Waiting'
           k == Kind(t)'
<1>1. /\ pc' = [pc EXCEPT ![t] = pc'[t]] /\ pc[t] \in {"out", "add"}
      /\ pc'[t] \in {"condwake", "requeue"}
      /\ seq' = seq + 1 /\ UNCHANGED <<holds, inwait, seen>>
  BY DEF CallSignal, Add, Goto, TypeOK, mutexVars
<1>2. Kind(t) = "none" /\ k \in {"signal", "broadcast"}
  BY <1>1 DEF Kind
<1>3. \A u \in Threads : u # t => Kind(u)' = Kind(u) /\ (u \in Notifying' <=> u \in Notifying)
  BY <1>1 DEF Kind, Notifying, TypeOK
<1>4. t \in Notifying' /\ t \notin Notifying
  BY <1>1 DEF Notifying
<1>5. t \notin inwait /\ t \notin Waiting /\ t \notin Waiting'
  BY <1>1 DEF Waiting, Within, Unlocked
<1>6. Waiting' \subseteq Waiting
  <2>1. \A u \in Threads : seen'[u] # seq'
    BY <1>1 DEF Within, TypeOK
  <2>2. \A u \in Threads : u # t => pc'[u] = pc[u]
    BY <1>1 DEF TypeOK
  <2> QED
    BY <1>5, <2>1, <2>2 DEF Waiting
<1>7. \A u \in Threads : State(u)' = IF u \in R THEN "asking" ELSE State(u)
  <2>1. State(t)' = State(t)
    BY <1>1, <1>5 DEF State
  <2>2. ASSUME NEW u \in Threads, u # t, u \in R PROVE State(u)' = "asking"
    <3>1. u \notin holds /\ u \notin Waiting'
      BY <2>2 DEF Waiting, Unlocked, Exclusion, HolderPoints
    <3>2. pc'[u] = pc[u]
      BY <1>1, <2>2 DEF TypeOK
    <3>3. u \in inwait
      BY <2>2, <3>1, <3>2 DEF Waiting
    <3> QED
      BY <1>1, <3>1, <3>3 DEF State
  <2>3. ASSUME NEW u \in Threads, u # t, u \notin R PROVE State(u)' = State(u)
    BY <1>1, <1>6, <2>3 DEF State, TypeOK
  <2> QED
    BY <1>5, <2>1, <2>2, <2>3
<1>8. owed' = [M!Owed(R) EXCEPT ![t] = Waiting \ R]
  <2>1. \A n \in Threads : owed[n] \subseteq Waiting
    BY DEF Owes, CondSleepers, Waiting
  <2>2. owed'[t] = Waiting \ R
    BY <1>4 DEF History
  <2>3. ASSUME NEW n \in Threads \ {t}, n \in Notifying PROVE owed'[n] = owed[n] \ R
    <3>1. owed'[n] = owed[n] \cap Waiting'
      BY <1>3, <2>3 DEF History
    <3> QED
      BY <2>1, <3>1
  <2>4. ASSUME NEW n \in Threads \ {t}, n \notin Notifying PROVE owed'[n] = owed[n] \ R
    BY <1>3, <2>4 DEF History, Owes
  <2>5. owed' = [n \in Threads |-> owed'[n]]
    BY DEF History
  <2> QED
    BY <2>2, <2>3, <2>4, <2>5 DEF M!Owed
<1>9. met' = [M!Met(R) EXCEPT ![t] = (Waiting = {} \/ R # {})]
  <2>1. \A n \in Threads \ {t} : met'[n] = (met[n] \/ (Kind(n) # "none" /\ R # {}))
    BY <1>3, Views DEF History, Owes
  <2>2. met'[t] = (Waiting = {} \/ R # {})
    BY <1>4 DEF History
  <2>3. met' = [n \in Threads |-> met'[n]]
    BY DEF History
  <2> QED
    BY <2>1, <2>2, <2>3 DEF M!Met
<1>10. M!Waiting = Waiting
  BY Views
<1>11. M!Released(R)
  BY <1>7 DEF M!Released
<1>12. [n \in Threads |-> Kind(n)'] = [[n \in Threads |-> Kind(n)] EXCEPT ![t] = k]
  BY <1>3
<1>13. M!Notify(t, k, R)
  BY <1>2, <1>8, <1>9, <1>10, <1>11, <1>12 DEF M!Notify
<1> QED
  BY <1>2, <1>10, <1>13

\* FUTEX_WAKE and FUTEX_REQUEUE end a notification, and release whom it owes.
LEMMA ReturnSteps ==
  ASSUME RInv, RInv', History, NEW t \in Threads, CondWake(t) \/ Requeue(t)
  PROVE  \E R \in SUBSET M!Waiting : M!Return(t, R)
<1> USE DEF RInv
<1> DEFINE R == {u \in CondSleepers : pc'[u] # "condasleep"}
<1>1. /\ UNCHANGED <<seq, holds, inwait, seen>>
      /\ pc[t] \in {"condwake", "requeue"} /\ pc'[t] = "out"
      /\ \A u \in CondSleepers : pc'[u] \in {"condasleep", "slow", "asleep"}
      /\ \A u \in Threads \ CondSleepers : u # t => pc'[u] = pc[u]
  BY DEF CondWake, Requeue, Goto, TypeOK, mutexVars, condVars, CondSleepers
<1>2. Kind(t)' = "none" /\ Kind(t) \in {"signal", "broadcast"}
  BY <1>1 DEF Kind
<1>3. \A u \in Threads : u # t => Kind(u)' = Kind(u) /\ (u \in Notifying' <=> u \in Notifying)
  BY <1>1 DEF Kind, Notifying, CondSleepers
<1>4. t \notin Notifying' /\ t \in Notifying
  BY <1>1 DEF Notifying
<1>5. t \notin inwait /\ t \notin Waiting /\ t \notin Waiting'
  BY <1>1 DEF Waiting, Within, Unlocked
<1>6. R \subseteq Waiting /\ R = Waiting \ Waiting'
  BY <1>1, <1>5 DEF Waiting, CondSleepers, Unlocked
<1>7. \A u \in Threads : State(u)' = IF u \in R THEN "asking" ELSE State(u)
  <2>1. State(t)' = State(t)
    BY <1>1, <1>5 DEF State
  <2>2. ASSUME NEW u \in Threads, u # t, u \in R PROVE State(u)' = "asking"
    BY <1>1, <2>2 DEF State, Waiting, Unlocked, CondSleepers, Exclusion, HolderPoints
  <2>3. ASSUME NEW u \in Threads, u # t, u \notin R PROVE State(u)' = State(u)
    BY <1>1, <2>3 DEF State, Waiting, CondSleepers
  <2> QED
    BY <1>5, <1>6, <2>1, <2>2, <2>3
<1>8. owed' = [M!Owed(R) EXCEPT ![t] = {}]
  <2>1. \A n \in Threads : owed[n] \subseteq Waiting
    BY DEF Owes, CondSleepers, Waiting
  <2>2. owed'[t] = {}
    BY <1>4 DEF History
  <2>3. ASSUME NEW n \in Threads \ {t}, n \in Notifying PROVE owed'[n] = owed[n] \ R
    <3>1. owed'[n] = owed[n] \cap Waiting'
      BY <1>3, <2>3 DEF History
    <3> QED
      BY <2>1, <3>1, <1>6
  <2>4. ASSUME NEW n \in Threads \ {t}, n \notin Notifying PROVE owed'[n] = owed[n] \ R
    BY <1>3, <2>4 DEF History, Owes
  <2>5. owed' = [n \in Threads |-> owed'[n]]
    BY DEF History
  <2> QED
    BY <2>2, <2>3, <2>4, <2>5 DEF M!Owed
<1>9. met' = [M!Met(R) EXCEPT ![t] = FALSE]
  <2>1. \A n \in Threads \ {t} : met'[n] = (met[n] \/ (Kind(n) # "none" /\ R # {}))
    BY <1>3, <1>6, Views DEF History, Owes
  <2>2. met'[t] = FALSE
    BY <1>4 DEF History
  <2>3. met' = [n \in Threads |-> met'[n]]
    BY DEF History
  <2> QED
    BY <2>1, <2>2, <2>3 DEF M!Met
<1>10. M!Waiting = Waiting
  BY Views
<1>11. M!Released(R)
  BY <1>7 DEF M!Released
<1>12. [n \in Threads |-> Kind(n)'] = [[n \in Threads |-> Kind(n)] EXCEPT ![t] = "none"]
  BY <1>2, <1>3
<1>13. CASE CondWake(t)
  <2>1. Kind(t) = "signal"
    BY <1>13 DEF CondWake, Kind
  <2>2. CondSleepers = {} \/ R # {}
    BY <1>13 DEF CondWake, CondSleepers, TypeOK
  <2>3. met[t] \/ R # {}
    BY <1>4, <2>2 DEF Owes
  <2>4. M!Return(t, R)
    BY <1>8, <1>9, <1>11, <1>12, <2>1, <2>3 DEF M!Return
  <2> QED
    BY <1>6, <1>10, <2>4
<1>14. CASE Requeue(t)
  <2>1. Kind(t) = "broadcast"
    BY <1>14 DEF Requeue, Kind
  <2>2. R = CondSleepers
    BY <1>14 DEF Requeue, CondSleepers, TypeOK
  <2>3. owed[t] \subseteq R
    BY <1>4, <2>2 DEF Owes
  <2>4. M!Return(t, R)
    BY <1>8, <1>9, <1>11, <1>12, <2>1, <2>3 DEF M!Return
  <2> QED
    BY <1>6, <1>10, <2>4
<1> QED
  BY <1>13, <1>14

-----------------------------------------------------------------------------
\* Every step of the threads is a step of Monitor, or one that it does not see.
LEMMA MonitorStep == ASSUME RInv, RInv', Next, History PROVE [M!Next]_(M!vars)
<1>1. PICK t \in Threads : Calls(t) \/ Inside(t)
  BY DEF Next
<1>2. \/ CallUnlock(t) \/ FutexWait(t) \/ Spin(t) \/ Zero(t) \/ Wake(t)
      \/ CallWait(t) \/ SetMutex(t) \/ CondFutex(t) \/ CallBroadcast(t)
      \/ CallLock(t) \/ userfs_mutex_trylock(t) \/ Try(t) \/ Slow(t)
      \/ Unlock(t) \/ Clear(t) \/ Interrupted(t)
      \/ CallSignal(t) \/ Add(t) \/ CondWake(t) \/ Requeue(t)
  BY <1>1 DEF Calls, Inside, userfs_mutex_lock, userfs_mutex_unlock, userfs_condvar_wait
<1> QED
  BY <1>2, QuietSteps, EnterSteps, LeaveSteps, InterruptedStep, NotifySteps, ReturnSteps
     DEF M!Next

\* The invariant of the refinement, with the steps that change nothing.
LEMMA RInvStep == ASSUME RInv, [Next /\ History]_hvars PROVE RInv'
<1>1. CASE UNCHANGED hvars
  BY <1>1 DEF hvars, vars, RInv, TypeOK, Exclusion, HolderPoints, Within, Owes, Notifying, CondSleepers
<1>2. CASE Next /\ History
  BY <1>2, TypeStep, ExclusionStep, WithinStep, OwesStep DEF RInv
<1> QED
  BY <1>1, <1>2

\* The mutex and the condition variable of concurrency/ are a monitor for any
\* number of threads and of notifications: no notification is missed between
\* the unlock and the sleep of condvar_wait, a signal releases a waiting
\* thread, and a broadcast releases all of them, before they return.
THEOREM FutexIsMonitor == HSpec => ImplementsMonitor
<1>1. HInit => RInv
  <2> SUFFICES ASSUME HInit PROVE RInv
    OBVIOUS
  <2>1. cvm \in BOOLEAN
    BY Zenon DEF HInit, Init
  <2>2. TypeOK /\ Exclusion /\ Within
    BY <2>1 DEF HInit, Init, TypeOK, Points, Exclusion, Within
  <2>3. Notifying = {}
    BY DEF HInit, Init, Notifying
  <2>4. Owes
    BY <2>3 DEF HInit, Owes
  <2> QED
    BY <2>2, <2>4 DEF RInv
<1>2. HInit => M!Init
  <2> SUFFICES ASSUME HInit PROVE M!Init
    OBVIOUS
  <2>1. \A t \in Threads : State(t) = "out" /\ Kind(t) = "none"
    BY DEF HInit, Init, State, Kind, Waiting
  <2> QED
    BY <2>1 DEF HInit, M!Init
<1>3. RInv /\ [Next /\ History]_hvars => RInv'
  BY RInvStep
<1>4. RInv /\ RInv' /\ [Next /\ History]_hvars => [M!Next]_(M!vars)
  <2>1. UNCHANGED hvars => UNCHANGED M!vars
    BY DEF hvars, vars, M!vars, State, Kind, Waiting
  <2> QED
    BY <2>1, MonitorStep
<1> QED
  BY <1>1, <1>2, <1>3, <1>4, PTL DEF HSpec, ImplementsMonitor, M!Spec
=============================================================================
