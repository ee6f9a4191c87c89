------------------------------- MODULE Monitor -------------------------------
(***************************************************************************)
(* What a mutex with a condition variable promises, whatever it is made    *)
(* of: one thread at a time is inside; a thread that waits leaves the      *)
(* mutex and begins to wait in one step, so that no notification falls     *)
(* between the two; a broadcast does not return before every thread that   *)
(* waited when it was called has been released; a signal does not return   *)
(* before one was, unless none was waiting.  Threads may be released for   *)
(* no reason.                                                              *)
(***************************************************************************)
CONSTANT Threads

VARIABLES state,  \* of each thread: out, asking, inside or waiting
          kind,   \* the notification a thread is making, or none
          owed,   \* those that waited when it was called and still do
          met     \* one was released since, or none was waiting

vars == <<state, kind, owed, met>>

Waiting == {t \in Threads : state[t] = "waiting"}
Free == \A t \in Threads : state[t] # "inside"

Init ==
  /\ state = [t \in Threads |-> "out"]
  /\ kind = [t \in Threads |-> "none"]
  /\ owed = [t \in Threads |-> {}]
  /\ met = [t \in Threads |-> FALSE]

\* One thread moves to another state; waiting is left by Released only.
Moves(t, s) == state' = [state EXCEPT ![t] = s] /\ UNCHANGED <<kind, owed, met>>

Ask(t) == state[t] = "out" /\ Moves(t, "asking")
Enter(t) == state[t] \in {"out", "asking"} /\ Free /\ Moves(t, "inside")
Leave(t) == state[t] = "inside" /\ Moves(t, "out")
Wait(t) == state[t] = "inside" /\ (Moves(t, "waiting") \/ Moves(t, "asking"))

\* The threads of R stop waiting, and ask for the mutex again.
Released(R) == state' = [t \in Threads |-> IF t \in R THEN "asking" ELSE state[t]]

\* What the notifications under way are owed once R is released.
Owed(R) == [n \in Threads |-> owed[n] \ R]
Met(R) == [n \in Threads |-> met[n] \/ (kind[n] # "none" /\ R # {})]

Release(R) == Released(R) /\ owed' = Owed(R) /\ met' = Met(R) /\ UNCHANGED kind

Notify(n, k, R) ==
  /\ kind[n] = "none"
  /\ kind' = [kind EXCEPT ![n] = k]
  /\ Released(R)
  /\ owed' = [Owed(R) EXCEPT ![n] = Waiting \ R]
  /\ met' = [Met(R) EXCEPT ![n] = Waiting = {} \/ R # {}]

Return(n, R) ==
  /\ \/ kind[n] = "signal" /\ (met[n] \/ R # {})
     \/ kind[n] = "broadcast" /\ owed[n] \subseteq R
  /\ kind' = [kind EXCEPT ![n] = "none"]
  /\ Released(R)
  /\ owed' = [Owed(R) EXCEPT ![n] = {}]
  /\ met' = [Met(R) EXCEPT ![n] = FALSE]

Next ==
  \/ \E t \in Threads : Ask(t) \/ Enter(t) \/ Leave(t) \/ Wait(t)
  \/ \E R \in SUBSET Waiting :
       \/ Release(R)
       \/ \E n \in Threads, k \in {"signal", "broadcast"} : Notify(n, k, R)
       \/ \E n \in Threads : Return(n, R)

Spec == Init /\ [][Next]_vars
=============================================================================
