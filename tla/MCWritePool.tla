------------------------------ MODULE MCWritePool ------------------------------
(* Two threads as in init_fs (thpool_init(2)), a writer and a thread that also *)
(* waits, and three jobs: enough for a push while the pool waits, works, and   *)
(* has more than one job queued.                                               *)
EXTENDS WritePool, TLC
CONSTANTS w1, w2, c1, c2, j1, j2, j3
MCWorkers == {w1, w2}
MCClients == {c1, c2}
MCOneWaiter == {c1}
MCJobs == {j1, j2, j3}
=============================================================================
