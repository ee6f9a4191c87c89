---------------------------- MODULE MCFutexMonitor ----------------------------
(* Three threads, which may all be asleep on the mutex or on the condition     *)
(* variable while one of them notifies.                                        *)
EXTENDS FutexMonitor, TLC
CONSTANTS t1, t2, t3
MCThreads == {t1, t2, t3}
=============================================================================
