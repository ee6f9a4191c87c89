----------------------------- MODULE FutexMonitor -----------------------------
(***************************************************************************)
(* The futex mutex and condition variable as an implementation of Monitor. *)
(* Two history variables record, for a thread in signal or broadcast,      *)
(* whom it found waiting and whether one has been released since.          *)
(***************************************************************************)
EXTENDS FutexMutex

VARIABLES owed, met

hvars == <<vars, owed, met>>

\* The points of unlock after the mutex is free, and the futex call of wait.
Unlocked == {"spin", "zero", "wake", "condfutex"}

\* The threads that wait to be notified: asleep on the condition variable, or
\* on their way there with no notification since they read seq.
Waiting ==
  {t \in Threads : \/ pc[t] = "condasleep"
                   \/ t \in inwait /\ pc[t] \in Unlocked /\ seen[t] = seq}

Notifying == {n \in Threads : pc[n] \in {"condwake", "requeue"}}

HInit == Init /\ owed = [t \in Threads |-> {}] /\ met = [t \in Threads |-> FALSE]

History ==
  /\ owed' = [n \in Threads |-> IF n \notin Notifying' THEN {}
                                ELSE IF n \in Notifying THEN owed[n] \cap Waiting'
                                ELSE Waiting \cap Waiting']
  /\ met' = [n \in Threads |-> /\ n \in Notifying'
                               /\ \/ Waiting \ Waiting' # {}
                                  \/ n \in Notifying /\ met[n]
                                  \/ n \notin Notifying /\ Waiting = {}]

HSpec == HInit /\ [][Next /\ History]_hvars /\ Fairness

State(t) ==
  IF t \in holds THEN "inside"
  ELSE IF t \in Waiting THEN "waiting"
  ELSE IF pc[t] \in {"try", "slow", "futex", "asleep"} \/ t \in inwait THEN "asking"
  ELSE "out"

Kind(n) ==
  IF pc[n] = "condwake" THEN "signal" ELSE IF pc[n] = "requeue" THEN "broadcast" ELSE "none"

M == INSTANCE Monitor WITH state <- [t \in Threads |-> State(t)],
                           kind <- [n \in Threads |-> Kind(n)]

(* The mutex and the condition variable of concurrency/ are a monitor: no     *)
(* notification is missed between the unlock and the sleep of condvar_wait,   *)
(* as seq was read before, and broadcast and signal release whom they must.   *)
ImplementsMonitor == M!Spec
=============================================================================
