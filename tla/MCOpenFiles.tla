----------------------------- MODULE MCOpenFiles -----------------------------
(* Two threads and two descriptors; a thread has a file of its own.            *)
EXTENDS OpenFiles, TLC
CONSTANTS t1, t2, f, g
MCThreads == {t1, t2}
MCFiles == {f, g}
MCDirs == {g}
MCOwn == {<<t1, f>>, <<t2, g>>}
MCRefs == (f :> 2) @@ (g :> 1)
MCCalls == {"open", "stat", "access", "truncate", "unlink", "read", "ftruncate",
            "lseek", "stray_lseek"}
=============================================================================
