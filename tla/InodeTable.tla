------------------------------ MODULE InodeTable ------------------------------
(***************************************************************************)
(* The table of free inode numbers of filesystem/fs.h.  init_fs asks the   *)
(* kernel for a range of inonum numbers and stores them in fsinode_table;  *)
(* creating a file takes one out (find_inode_bitmap) and unlinking a file  *)
(* puts its number back (put_inode_bitmap).  Both run under bitmap_lock,   *)
(* so each is one step.  A slot is 0 when its number has been taken, and   *)
(* bitmapnum is where the next search starts.                              *)
(*                                                                         *)
(* `live' is a history variable: the numbers of the files that exist.  The *)
(* files of earlier sessions (OldInos) are unlinked here too, so numbers   *)
(* from outside the range of this session enter the table.                 *)
(***************************************************************************)
EXTENDS Integers, FiniteSets

CONSTANTS InoNum,     \* inonum, the length of fsinode_table
          InodeBase,  \* first number of the range handed out by the kernel
          OldInos     \* numbers of the files that exist when mounting

\* The kernel hands out a range that no existing file uses; 0 is no number.
ASSUME InodeTableAssumption ==
  /\ InoNum \in Nat \ {0}
  /\ InodeBase \in Nat \ {0}
  /\ OldInos \subseteq Nat \ {0}
  /\ \A i \in 0..InoNum-1 : InodeBase + 128 * i \notin OldInos

VARIABLES fsinode_table, bitmapnum, live, panicked

tableVars == <<fsinode_table, bitmapnum>>
vars == <<fsinode_table, bitmapnum, live, panicked>>

Slots == 0..InoNum-1

\* Slots the loop of find_inode_bitmap stops at, and the first of them.
Occupied == {i \in Slots : i >= bitmapnum /\ fsinode_table[i] # 0}
FirstOccupied == CHOOSE i \in Occupied : \A j \in Occupied : i <= j

\* Slots the downward loop of put_inode_bitmap stops at, and the first of them.
Vacant == {i \in Slots : i < bitmapnum /\ fsinode_table[i] = 0}
LastVacant == CHOOSE i \in Vacant : \A j \in Vacant : j <= i

-----------------------------------------------------------------------------
Init ==
  /\ fsinode_table = [i \in Slots |-> InodeBase + 128 * i]
  /\ bitmapnum = 0
  /\ live = OldInos
  /\ panicked = FALSE

\* A mutated find that leaves the number in its slot.
FindKeepsSlot ==
  /\ Occupied # {}
  /\ live' = live \cup {fsinode_table[FirstOccupied]}
  /\ bitmapnum' = FirstOccupied + 1
  /\ UNCHANGED <<fsinode_table, panicked>>

\* find_inode_bitmap, called by userfs_open_file for a file to create.
find_inode_bitmap ==
  /\ Occupied # {}
  /\ live' = live \cup {fsinode_table[FirstOccupied]}
  /\ fsinode_table' = [fsinode_table EXCEPT ![FirstOccupied] = 0]
  /\ bitmapnum' = FirstOccupied + 1
  /\ UNCHANGED panicked

\* find_inode_bitmap returns 0 and userfs_open_file panics.
OutOfInodes ==
  /\ Occupied = {}
  /\ panicked' = TRUE
  /\ UNCHANGED <<fsinode_table, bitmapnum, live>>

\* A mutated put that does not move the start of the next search down.
PutKeepsStart(ino) ==
  /\ Vacant # {}
  /\ fsinode_table' = [fsinode_table EXCEPT ![LastVacant] = ino]
  /\ live' = live \ {ino}
  /\ UNCHANGED <<bitmapnum, panicked>>

\* put_inode_bitmap, called by dir_remove_entry for a file to unlink.
put_inode_bitmap(ino) ==
  /\ Vacant # {}
  /\ fsinode_table' = [fsinode_table EXCEPT ![LastVacant] = ino]
  /\ bitmapnum' = LastVacant
  /\ live' = live \ {ino}
  /\ UNCHANGED panicked

\* put_inode_bitmap finds no vacant slot and returns 0, which its caller
\* ignores: the file is gone and its number is in no slot.
PutDropped(ino) ==
  /\ Vacant = {}
  /\ live' = live \ {ino}
  /\ UNCHANGED <<fsinode_table, bitmapnum, panicked>>

Unlink == \E ino \in live : put_inode_bitmap(ino) \/ PutDropped(ino)

Next == ~panicked /\ (find_inode_bitmap \/ OutOfInodes \/ Unlink)

Spec == Init /\ [][Next]_vars

-----------------------------------------------------------------------------
\* The table holds numbers or 0, and the search start is at most one past it.
TypeOK ==
  /\ fsinode_table \in [Slots -> Nat]
  /\ bitmapnum \in 0..InoNum
  /\ live \subseteq Nat \ {0}
  /\ panicked \in BOOLEAN

\* No number is free twice, so no two files are ever given the same number.
FreeOnce ==
  \A i, j \in Slots :
    i # j /\ fsinode_table[i] = fsinode_table[j] => fsinode_table[i] = 0

\* A free number belongs to no existing file: find_inode_bitmap never gives a
\* new file the number of one that is still there.
FreeNotLive == \A i \in Slots : fsinode_table[i] \notin live

\* The table is a stack: exactly the slots below bitmapnum are empty.  It is
\* why searching upwards from bitmapnum, and never from 0, misses nothing.
StackShape == \A i \in Slots : fsinode_table[i] = 0 <=> i < bitmapnum

\* userfs_open_file panics for want of a number only when no slot holds one.
PanicOnlyWhenExhausted ==
  panicked => \A i \in Slots : fsinode_table[i] = 0

\* A step never overwrites a free number with another one: a number leaves
\* its slot only by being given to a file that did not exist before.
NumberLeavesToNewFile ==
  [][\A i \in Slots :
       fsinode_table[i] # 0 /\ fsinode_table'[i] # fsinode_table[i]
         => fsinode_table[i] \in live' \ live]_vars
=============================================================================
