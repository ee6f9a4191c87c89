------------------------------ MODULE MCReadFile ------------------------------
(* A file of three 2M blocks on an SSD, the last of which was written over,    *)
(* and one in NVM.                                                             *)
EXTENDS ReadFile
CONSTANTS s, m
MCFiles == {s, m}
MCSize == s :> 6 @@ m :> 4
Ssd(a) == [devid |-> 2, addr |-> [i \in 0..1 |-> a + i]]
InNvm(a, b) == [devid |-> 1, addr |-> [i \in 0..1 |-> IF i = 0 THEN a ELSE b]]
MCExtent == s :> [l \in 0..2 |-> Ssd(10 * l)]
         @@ m :> [l \in 0..1 |-> IF l = 0 THEN InNvm(1, 2) ELSE InNvm(5, 8)]
MCKept == s :> {[off |-> 4, size |-> 1, devid |-> 1, addr |-> 30],
                [off |-> 5, size |-> 1, devid |-> 2, addr |-> 21]}
       @@ m :> {}
MCReads == s :> {<<0, 1>>, <<0, 2>>, <<2, 1>>, <<2, 2>>, <<4, 1>>, <<4, 2>>, <<5, 1>>}
        @@ m :> {<<0, 1>>, <<1, 1>>, <<0, 2>>, <<2, 2>>, <<3, 1>>}
MCAcross == s :> {<<0, 2>>, <<0, 4>>, <<2, 2>>} @@ m :> {<<0, 2>>}
=============================================================================
