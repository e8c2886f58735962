---------------------------- MODULE MCHttpRequest ----------------------------
(* The lookups of the program, for TLC.                                      *)
EXTENDS HttpRequest

CONSTANTS t1, t2

Threads == {t1, t2}
(* LoadOtherUrl: a thread every two seconds, each with every device, and    *)
(* the id "look" for all.                                                   *)
LoadOtherUrl == [t \in Threads |->
    << Lookup("sublurl1", "look", TRUE), Lookup("sublurl2", "look", TRUE) >>]
==============================================================================
