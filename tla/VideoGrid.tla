------------------------------ MODULE VideoGrid ------------------------------
(***************************************************************************)
(* The grid of videos of YoohooComUI (LoganManager/YoohooComUI.cpp): a     *)
(* stack of shown videos, whose bottom is the local one, and a stack of    *)
(* waiting ones.  The top of a stack is the last element.  Each video owns *)
(* a player; "cell" is what the player was last told to play.              *)
(***************************************************************************)
EXTENDS Integers, Sequences

CONSTANTS
    Streams,    \* what a player may be told to play
    Idle,       \* the value of a cell whose player is stopped
    NVideos     \* videoList.resize(9)

ASSUME GridAssumption == NVideos \in Nat \ {0, 1} /\ Idle \notin Streams

Videos == 1..NVideos
LocalVideo == 1

Grids == [current : Seq(Videos), waiting : Seq(Videos),
          cell : [Videos -> Streams \cup {Idle}]]

NewGrid == [current |-> <<LocalVideo>>,
            waiting |-> [i \in 1..(NVideos - 1) |-> i + 1],
            cell    |-> [v \in Videos |-> Idle]]

Push(s, v) == Append(s, v)
Pop(s)     == SubSeq(s, 1, Len(s) - 1)
Top(s)     == s[Len(s)]

getVideoCount(g) == Len(g.current)
(* Mutant: index 0 is the bottom. *)
getVideo_FromBottom(g, index) == g.current[index + 1]
(* Index 0 is the top of the stack of shown videos. *)
getVideo(g, index) == g.current[Len(g.current) - index]
getLocalVideo(g) == getVideo(g, getVideoCount(g) - 1)

(* With no video waiting, addVideo returns false and changes nothing. *)
addVideo(g) ==
    IF g.waiting = <<>> THEN g
    ELSE [g EXCEPT !.current = Push(@, Top(g.waiting)), !.waiting = Pop(@)]

(* Mutant: the video is dropped, not put back. *)
removeVideo_Drops(g) ==
    IF getVideoCount(g) = 1 THEN g
    ELSE [g EXCEPT !.current = Pop(@)]
removeVideo(g) ==
    IF getVideoCount(g) = 1 THEN g
    ELSE [g EXCEPT !.waiting = Push(@, Top(g.current)), !.current = Pop(@)]

(* The player of video v is told to play s, or, with Idle, to stop. *)
Load(g, v, s) == [g EXCEPT !.cell[v] = s]

-----------------------------------------------------------------------------
InStack(v, s) == \E i \in DOMAIN s : s[i] = v

(* The stacks hold every video once; the local one is shown, at the bottom. *)
GridOK(g) ==
    /\ g \in Grids
    /\ Len(g.current) + Len(g.waiting) = NVideos
    /\ \A v \in Videos : InStack(v, g.current) \/ InStack(v, g.waiting)
    /\ g.current # <<>> /\ g.current[1] = LocalVideo

Remote(g) == {v \in Videos \ {LocalVideo} : InStack(v, g.current)}
Shown(g) == {g.cell[v] : v \in Remote(g)}
=============================================================================
