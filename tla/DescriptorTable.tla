--------------------------- MODULE DescriptorTable ---------------------------
(***************************************************************************)
(* What a table of open files promises to threads that share it: a         *)
(* descriptor is taken by one open at a time and stands for its file until *)
(* it is closed; reads through a descriptor are atomic, so each continues  *)
(* where the one before it ended; only seeks move it otherwise.            *)
(***************************************************************************)
EXTENDS Integers

CONSTANTS Threads, Descriptors, Files, Free, Reserved

VARIABLES slot,  \* of each descriptor: Free, Reserved or its file
          off,   \* where its next read starts
          size,  \* of each file
          got    \* of each thread: where its read began and ended

vars == <<slot, off, size, got>>

Init ==
  /\ slot = [d \in Descriptors |-> Free]
  /\ off = [d \in Descriptors |-> 0]
  /\ size \in [Files -> Nat]
  /\ got = [t \in Threads |-> <<0, 0>>]

Reserve(d) ==
  /\ slot[d] = Free
  /\ slot' = [slot EXCEPT ![d] = Reserved]
  /\ UNCHANGED <<off, size, got>>

Open(d, f) ==
  /\ slot[d] = Reserved
  /\ slot' = [slot EXCEPT ![d] = f]
  /\ off' = [off EXCEPT ![d] = 0]
  /\ UNCHANGED <<size, got>>

Close(d) ==
  /\ slot[d] \in Files
  /\ slot' = [slot EXCEPT ![d] = Free]
  /\ off' = [off EXCEPT ![d] = 0]
  /\ UNCHANGED <<size, got>>

\* What is behind the end of the file is not read.
Read(t, d) ==
  /\ slot[d] \in Files
  /\ off[d] < size[slot[d]]
  /\ \E n \in 1 .. size[slot[d]] - off[d] :
       /\ got' = [got EXCEPT ![t] = <<off[d], off[d] + n>>]
       /\ off' = [off EXCEPT ![d] = @ + n]
  /\ UNCHANGED <<slot, size>>

Done(t) ==
  /\ got' = [got EXCEPT ![t] = <<0, 0>>]
  /\ UNCHANGED <<slot, off, size>>

Seek(d) ==
  /\ slot[d] # Free
  /\ \A e \in Descriptors \ {d} : off'[e] = off[e]
  /\ UNCHANGED <<slot, size, got>>

Resize(f) ==
  /\ \A g \in Files \ {f} : size'[g] = size[g]
  /\ UNCHANGED <<slot, off, got>>

\* What happens when nobody seeks.
Steady ==
  \/ \E d \in Descriptors :
       \/ Reserve(d) \/ Close(d)
       \/ \E f \in Files : Open(d, f)
       \/ \E t \in Threads : Read(t, d)
  \/ \E f \in Files : Resize(f)
  \/ \E t \in Threads : Done(t)

Next == Steady \/ \E d \in Descriptors : Seek(d)

Spec == Init /\ [][Next]_vars
=============================================================================
