----------------------------- MODULE MCVideoCall -----------------------------
(* Values for TLC: each client has a classroom of its own.                   *)
EXTENDS VideoCall, TLC

CONSTANTS a, b, c, ra, rb, rc

TwoClients   == {a, b}
ThreeClients == {a, b, c}
RoomOf(who)  == CASE who = a -> ra [] who = b -> rb [] OTHER -> rc
TwoRooms     == [x \in {a, b} |-> RoomOf(x)]
ThreeRooms   == [x \in {a, b, c} |-> RoomOf(x)]
TwoStreams   == {ra, rb, "local"}
ThreeStreams == {ra, rb, rc, "local"}

(* Clients are alike, each taken together with its room.                     *)
Alike ==
    {[x \in {a, b, c, ra, rb, rc} |->
        IF x \in {a, b, c} THEN p[x]
        ELSE RoomOf(p[CHOOSE who \in {a, b, c} : RoomOf(who) = x])] :
     p \in Permutations({a, b, c})}
==============================================================================
