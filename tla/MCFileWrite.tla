------------------------------ MODULE MCFileWrite ------------------------------
EXTENDS FileWrite

CONSTANTS f1, f2, w1, w2

MCFiles == {f1, f2}
MCWriters == {w1, w2}
MCOneEach == [w \in MCWriters |-> IF w = w1 THEN f1 ELSE f2]
MCOneFile == {f1}
MCOneWriter == {w1}
MCOnly == [w \in MCOneWriter |-> f1]
=============================================================================
