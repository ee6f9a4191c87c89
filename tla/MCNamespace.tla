----------------------------- MODULE MCNamespace -----------------------------
(* Two threads, an old file and two new names, and one number for new files. *)
EXTENDS Namespace, TLC
CONSTANTS t1, t2, a, b, c
MCThreads == {t1, t2}
MCNames == {a, b, c}
MCOldFiles == a :> 7
MCFirst == {a}
MCSymmetry == Permutations({t1, t2}) \cup Permutations({b, c})
=============================================================================
