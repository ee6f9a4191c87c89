--------------------------- MODULE FutexMutexProofs ---------------------------
(***************************************************************************)
(* Proofs about FutexMutex, for any set of threads: one holder at a time,  *)
(* and no thread asleep on the mutex is forgotten.  Each step of a thread  *)
(* is a case; the parts of the invariant are kept apart, as the wakeups do *)
(* not depend on exclusion.                                                *)
(***************************************************************************)
EXTENDS FutexMutex, TLAPS

\* The bytes and the points keep their types in every step of every thread.
LEMMA TypeStep == ASSUME TypeOK, [Next]_vars PROVE TypeOK'
<1> USE DEF TypeOK, Points, Goto, mutexVars, condVars, AfterUnlock
<1>1. CASE UNCHANGED vars
  BY <1>1 DEF vars
<1>2. SUFFICES ASSUME NEW t \in Threads, Calls(t) \/ Inside(t) PROVE TypeOK'
  BY <1>1 DEF Next
<1>3. CASE CallLock(t)
  BY <1>3 DEF CallLock
<1>4. CASE userfs_mutex_trylock(t)
  BY <1>4 DEF userfs_mutex_trylock
<1>5. CASE CallUnlock(t)
  BY <1>5 DEF CallUnlock
<1>6. CASE CallWait(t)
  BY <1>6 DEF CallWait
<1>7. CASE CallSignal(t)
  BY <1>7 DEF CallSignal
<1>8. CASE CallBroadcast(t)
  BY <1>8 DEF CallBroadcast
<1>9. CASE Try(t)
  BY <1>9 DEF Try
<1>10. CASE Slow(t)
  BY <1>10 DEF Slow
<1>11. CASE FutexWait(t)
  BY <1>11 DEF FutexWait
<1>12. CASE Interrupted(t)
  BY <1>12 DEF Interrupted
<1>13. CASE Unlock(t)
  BY <1>13 DEF Unlock
<1>14. CASE Clear(t)
  BY <1>14 DEF Clear
<1>15. CASE Spin(t)
  BY <1>15 DEF Spin
<1>16. CASE Zero(t)
  BY <1>16 DEF Zero
<1>17. CASE Wake(t)
  BY <1>17 DEF Wake, Sleepers
<1>18. CASE SetMutex(t)
  BY <1>18 DEF SetMutex
<1>19. CASE CondFutex(t)
  BY <1>19 DEF CondFutex
<1>20. CASE CondWake(t)
  BY <1>20 DEF CondWake, CondSleepers
<1>21. CASE Add(t)
  BY <1>21 DEF Add
<1>22. CASE Requeue(t)
  BY <1>22 DEF Requeue, CondSleepers
<1> QED
  BY <1>2, <1>3, <1>4, <1>5, <1>6, <1>7, <1>8, <1>9, <1>10, <1>11, <1>12, <1>13,
     <1>14, <1>15, <1>16, <1>17, <1>18, <1>19, <1>20, <1>21, <1>22
     DEF Calls, Inside, userfs_mutex_lock, userfs_mutex_unlock, userfs_condvar_wait

\* Whoever takes the mutex found its byte clear, and only a holder clears it.
LEMMA ExclusionStep == ASSUME TypeOK, Exclusion, [Next]_vars PROVE Exclusion'
<1> USE DEF TypeOK, Points, Exclusion, HolderPoints, Goto, mutexVars, condVars, AfterUnlock
<1>1. CASE UNCHANGED vars
  BY <1>1 DEF vars
<1>2. SUFFICES ASSUME NEW t \in Threads, Calls(t) \/ Inside(t) PROVE Exclusion'
  BY <1>1 DEF Next
<1>3. CASE CallLock(t)
  BY <1>3 DEF CallLock
<1>4. CASE userfs_mutex_trylock(t)
  BY <1>4 DEF userfs_mutex_trylock
<1>5. CASE CallUnlock(t)
  BY <1>5 DEF CallUnlock
<1>6. CASE CallWait(t)
  BY <1>6 DEF CallWait
<1>7. CASE CallSignal(t)
  BY <1>7 DEF CallSignal
<1>8. CASE CallBroadcast(t)
  BY <1>8 DEF CallBroadcast
<1>9. CASE Try(t)
  BY <1>9 DEF Try
<1>10. CASE Slow(t)
  BY <1>10 DEF Slow
<1>11. CASE FutexWait(t)
  BY <1>11 DEF FutexWait
<1>12. CASE Interrupted(t)
  BY <1>12 DEF Interrupted
<1>13. CASE Unlock(t)
  BY <1>13 DEF Unlock, Word
<1>14. CASE Clear(t)
  BY <1>14 DEF Clear
<1>15. CASE Spin(t)
  BY <1>15 DEF Spin
<1>16. CASE Zero(t)
  BY <1>16 DEF Zero
<1>17. CASE Wake(t)
  BY <1>17 DEF Wake, Sleepers
<1>18. CASE SetMutex(t)
  BY <1>18 DEF SetMutex
<1>19. CASE CondFutex(t)
  BY <1>19 DEF CondFutex
<1>20. CASE CondWake(t)
  BY <1>20 DEF CondWake, CondSleepers
<1>21. CASE Add(t)
  BY <1>21 DEF Add
<1>22. CASE Requeue(t)
  BY <1>22 DEF Requeue, CondSleepers
<1> QED
  BY <1>2, <1>3, <1>4, <1>5, <1>6, <1>7, <1>8, <1>9, <1>10, <1>11, <1>12, <1>13,
     <1>14, <1>15, <1>16, <1>17, <1>18, <1>19, <1>20, <1>21, <1>22
     DEF Calls, Inside, userfs_mutex_lock, userfs_mutex_unlock, userfs_condvar_wait

\* Every way to clear the mark, to give the mutex back or to put a thread to
\* sleep leaves someone who will wake a sleeper.
LEMMA SleepersStep == ASSUME TypeOK, SleepersRemembered, [Next]_vars PROVE SleepersRemembered'
<1> USE DEF TypeOK, Points, SleepersRemembered, Sleepers, CondSleepers, Goto, mutexVars, condVars, AfterUnlock
<1>1. CASE UNCHANGED vars
  BY <1>1 DEF vars
<1>2. SUFFICES ASSUME NEW t \in Threads, Calls(t) \/ Inside(t) PROVE SleepersRemembered'
  BY <1>1 DEF Next
<1>3. CASE CallLock(t)
  BY <1>3 DEF CallLock
<1>4. CASE userfs_mutex_trylock(t)
  BY <1>4 DEF userfs_mutex_trylock
<1>5. CASE CallUnlock(t)
  BY <1>5 DEF CallUnlock
<1>6. CASE CallWait(t)
  BY <1>6 DEF CallWait
<1>7. CASE CallSignal(t)
  BY <1>7 DEF CallSignal
<1>8. CASE CallBroadcast(t)
  BY <1>8 DEF CallBroadcast
<1>9. CASE Try(t)
  BY <1>9 DEF Try
<1>10. CASE Slow(t)
  BY <1>10 DEF Slow
<1>11. CASE FutexWait(t)
  BY <1>11 DEF FutexWait, Word, Contended
<1>12. CASE Interrupted(t)
  BY <1>12 DEF Interrupted
<1>13. CASE Unlock(t)
  BY <1>13 DEF Unlock, Word
<1>14. CASE Clear(t)
  BY <1>14 DEF Clear
<1>15. CASE Spin(t)
  BY <1>15 DEF Spin
<1>16. CASE Zero(t)
  BY <1>16 DEF Zero
<1>17. CASE Wake(t)
  BY <1>17 DEF Wake
<1>18. CASE SetMutex(t)
  BY <1>18 DEF SetMutex
<1>19. CASE CondFutex(t)
  BY <1>19 DEF CondFutex
<1>20. CASE CondWake(t)
  BY <1>20 DEF CondWake
<1>21. CASE Add(t)
  BY <1>21 DEF Add
<1>22. CASE Requeue(t)
  BY <1>22 DEF Requeue
<1> QED
  BY <1>2, <1>3, <1>4, <1>5, <1>6, <1>7, <1>8, <1>9, <1>10, <1>11, <1>12, <1>13,
     <1>14, <1>15, <1>16, <1>17, <1>18, <1>19, <1>20, <1>21, <1>22
     DEF Calls, Inside, userfs_mutex_lock, userfs_mutex_unlock, userfs_condvar_wait

-----------------------------------------------------------------------------
\* The two bytes of the mutex, seq and the points of the threads have their
\* types, whatever the threads call.
THEOREM FutexTypeCorrect == Spec => []TypeOK
<1>1. Init => TypeOK
  <2> SUFFICES ASSUME Init PROVE TypeOK
    OBVIOUS
  <2>1. cvm \in BOOLEAN
    BY Zenon DEF Init
  <2> QED
    BY <2>1 DEF Init, TypeOK, Points
<1> QED
  BY <1>1, TypeStep, PTL DEF Spec

\* userfs_mutex_lock, userfs_mutex_trylock and userfs_condvar_wait give the
\* mutex to one thread at a time, for any number of threads.
THEOREM MutexExcludes == Spec => []Exclusion
<1>1. Init => Exclusion
  BY DEF Init, Exclusion
<1>2. TypeOK /\ Exclusion /\ [Next]_vars => Exclusion'
  BY ExclusionStep
<1> QED
  BY <1>1, <1>2, FutexTypeCorrect, PTL DEF Spec

\* No thread sleeps on the mutex for ever because its mark was cleared: there
\* is always someone who will wake a sleeper, for any number of threads.
THEOREM NoSleeperForgotten == Spec => []SleepersRemembered
<1>1. Init => SleepersRemembered
  BY DEF Init, SleepersRemembered, Sleepers
<1>2. TypeOK /\ SleepersRemembered /\ [Next]_vars => SleepersRemembered'
  BY SleepersStep
<1> QED
  BY <1>1, <1>2, FutexTypeCorrect, PTL DEF Spec
=============================================================================
