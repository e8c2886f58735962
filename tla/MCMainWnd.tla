------------------------------ MODULE MCMainWnd ------------------------------
(* Values for TLC: cams, of which the last page holds one.                   *)
EXTENDS MainWnd, TLC

CONSTANTS d1, p1, p2

(* The last argument of (ip, port, model, token, ...) is read first.         *)
LastFirst == [ip |-> 4, port |-> 3, model |-> 2, token |-> 1]

Alike == Permutations({p1, p2})
==============================================================================
