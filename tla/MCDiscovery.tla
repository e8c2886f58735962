----------------------------- MODULE MCDiscovery -----------------------------
(* Values for TLC.                                                           *)
EXTENDS Discovery

CONSTANT a

OneClient == {a}
OneRoom   == [x \in {a} |-> "ra"]
==============================================================================
