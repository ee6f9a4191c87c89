------------------------------ MODULE MCReadPool ------------------------------
(* Three readers and two threads or one, with a ring that is shorter than the  *)
(* readers are many; two threads that destroy the pool, or none.               *)
EXTENDS ReadPool, TLC
CONSTANTS r1, r2, r3, w1, w2, d1, d2
MCReaders == {r1, r2, r3}
MCWorkers == {w1, w2}
MCOneWorker == {w1}
MCNone == {}
MCDestroyers == {d1, d2}
=============================================================================
