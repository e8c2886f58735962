---------------------------- MODULE MCVideoPlayer ----------------------------
(* Model values for TLC: an int of fresh heap memory is negative (the debug *)
(* heap's fill pattern), zero or positive.                                  *)
EXTENDS VideoPlayer

Heap == {-1, 0, 1}
==============================================================================
