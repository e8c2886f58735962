------------------------------- MODULE MCLogin -------------------------------
(* Values for TLC.                                                           *)
EXTENDS Login

CONSTANTS u1, u2, i1, i2

TwoUsers == {u1, u2}
TwoIps == {i1, i2}
==============================================================================
