------------------------------- MODULE MCRooms -------------------------------
(* Values for TLC: three rooms, the second of them empty.                    *)
EXTENDS Rooms

CONSTANTS d1, d2, c1, c2

Rooms2 == <<<<d1>>, <<>>, <<d2>>>>
AnyTurn == [f \in Fields |-> 0]
TwoStreams == <<"lurl", "durl">>
==============================================================================
