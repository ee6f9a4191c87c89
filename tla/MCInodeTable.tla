----------------------------- MODULE MCInodeTable -----------------------------
(* A table of four numbers, 128, 256, 384 and 512, and two files with the    *)
(* numbers 640 and 768 left by earlier sessions.                             *)
EXTENDS InodeTable
MCOldInos == {640, 768}
=============================================================================
