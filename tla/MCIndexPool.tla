---------------------------- MODULE MCIndexPool ----------------------------
(* Instance of IndexPool for TLC: f1 under one root, f2 under two of them.  *)
EXTENDS IndexPool

CONSTANTS f1, f2, w1, w2, a, b

TwoFiles == {f1, f2}
TwoWorkers == {w1, w2}
AllTexts == {a, b, Huge}
Overlap == <<f1, f2, f2>>
=============================================================================
