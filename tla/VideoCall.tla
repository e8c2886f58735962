------------------------------ MODULE VideoCall ------------------------------
(***************************************************************************)
(* Video calls between the clients of a local network: tcp_server's        *)
(* AcceptProc, tcp_client, and ClassMateWnd's invitation (itemrclick), its *)
(* poll (the loadMSG timer) and its hang-up button, with the grid of       *)
(* VideoGrid.  A client is an IP address.  Its classroom's recorder has an *)
(* address too, Room[c], which the client announces by UDP and which names *)
(* the stream the others play.                                             *)
(*                                                                         *)
(* A message is a connection of its own, so messages arrive in any order.  *)
(* tcp_client's thread uses the object after its destruction and connect's *)
(* result is unchecked: a message arrives, or it does not.                 *)
(***************************************************************************)
EXTENDS VideoGrid, FiniteSets

CONSTANTS
    Clients,
    Room,       \* m_loginIp of each client
    Local,      \* the client's own stream
    NoOne,      \* the empty string, as an address
    MaxCalls    \* bound: invitations sent

Rooms == {Room[c] : c \in Clients}

ASSUME CallAssumption ==
    /\ DOMAIN Room = Clients
    /\ Streams = Rooms \cup {Local} /\ Local \notin Rooms
    /\ NoOne \notin Clients \cup Rooms
    /\ MaxCalls \in Nat

VARIABLES
    m_s,        \* the client last invited, NoOne at first
    cmdSet,     \* the last command of each client
    recvip,     \* the room of the last call that was accepted here
    loadingIP,  \* rooms that have been given a video
    grid,       \* the videos
    btn_die,    \* the hang-up button is visible
    ui,         \* where the window's thread is
    cmd,        \* the poll's local copy of m_s's command
    accept,     \* where AcceptProc is: Free, Telling, asking about a call
    net,        \* messages on their way
    calls,      \* history: the invitations sent
    live,       \* history: the calls each client takes part in
    raced       \* history: recvip changed between its two uses in the poll

vars == <<m_s, cmdSet, recvip, loadingIP, grid, btn_die, ui, cmd, accept,
          net, calls, live, raced>>

CallIds  == 1..MaxCalls
Commands == {"", "recv", "refu", "room"}  \* "room": any address
Messages == [call : CallIds, kind : {"send", "recv", "refu"}]
Free == 0           \* AcceptProc waits in accept
Telling == -1       \* AcceptProc shows that a call was refused

TypeOK ==
    /\ m_s \in [Clients -> Clients \cup {NoOne}]
    /\ cmdSet \in [Clients -> [Clients -> Commands]]
    /\ recvip \in [Clients -> Rooms \cup {NoOne}]
    /\ loadingIP \in [Clients -> SUBSET Rooms]
    /\ grid \in [Clients -> Grids] /\ \A c \in Clients : GridOK(grid[c])
    /\ btn_die \in [Clients -> BOOLEAN]
    /\ ui \in [Clients -> {"idle", "insert", "caller", "hangUp"}]
    /\ cmd \in [Clients -> Commands]
    /\ accept \in [Clients -> {Free, Telling} \cup CallIds]
    /\ net \subseteq Messages
    /\ calls \in Seq([from : Clients, to : Clients]) /\ Len(calls) <= MaxCalls
    /\ live \in [Clients -> SUBSET CallIds]
    /\ raced \in [Clients -> BOOLEAN]

Init ==
    /\ m_s = [c \in Clients |-> NoOne]
    /\ cmdSet = [c \in Clients |-> [d \in Clients |-> ""]]
    /\ recvip = [c \in Clients |-> NoOne]
    /\ loadingIP = [c \in Clients |-> {}]
    /\ grid = [c \in Clients |-> NewGrid]
    /\ btn_die = [c \in Clients |-> FALSE]
    /\ ui = [c \in Clients |-> "idle"]
    /\ cmd = [c \in Clients |-> ""]
    /\ accept = [c \in Clients |-> Free]
    /\ net = {}
    /\ calls = <<>>
    /\ live = [c \in Clients |-> {}]
    /\ raced = [c \in Clients |-> FALSE]

-----------------------------------------------------------------------------
(* The window of client c *)

(* InitPlayerEvent: the local stream's address is known. *)
InitPlayer(c) ==
    /\ ui[c] = "idle" /\ grid[c].cell[LocalVideo] = Idle
    /\ grid' = [grid EXCEPT ![c] = Load(@, getLocalVideo(@), Local)]
    /\ UNCHANGED <<m_s, cmdSet, recvip, loadingIP, btn_die, ui, cmd, accept,
                   net, calls, live, raced>>

(* itemrclick on the node of client d (its own included), answered with    *)
(* yes: tcp_client sends "send#<room>", or loses it.                        *)
Invite(c, d) ==
    /\ ui[c] = "idle" /\ Len(calls) < MaxCalls
    /\ calls' = Append(calls, [from |-> c, to |-> d])
    /\ net' \in {net, net \cup {[call |-> Len(calls'), kind |-> "send"]}}
    /\ m_s' = [m_s EXCEPT ![c] = d]
    /\ UNCHANGED <<cmdSet, recvip, loadingIP, grid, btn_die, ui, cmd, accept,
                   live, raced>>

addsubVideo(g, room) == LET h == addVideo(g) IN Load(h, getVideo(h, 0), room)

pollRest == <<m_s, cmdSet, recvip, accept, net, calls, live>>

(* Mutant: an accepted call gets a video only when none is shown. *)
PollAccepted_OnlyFirst(c) ==
    /\ ui[c] = "idle"
    /\ cmd' = [cmd EXCEPT ![c] = IF m_s[c] = NoOne THEN ""
                                 ELSE cmdSet[c][m_s[c]]]
    /\ IF recvip[c] # NoOne /\ loadingIP[c] = {}
       THEN /\ grid' = [grid EXCEPT ![c] = addsubVideo(@, recvip[c])]
            /\ ui' = [ui EXCEPT ![c] = "insert"]
       ELSE /\ grid' = grid
            /\ ui' = [ui EXCEPT ![c] = "caller"]
    /\ UNCHANGED <<loadingIP, btn_die, raced, pollRest>>

(* loadMSG, first part: getCmd, then a video for the last call accepted.   *)
PollAccepted(c) ==
    /\ ui[c] = "idle"
    /\ cmd' = [cmd EXCEPT ![c] = IF m_s[c] = NoOne THEN ""
                                 ELSE cmdSet[c][m_s[c]]]
    /\ IF recvip[c] # NoOne /\ recvip[c] \notin loadingIP[c]
       THEN /\ grid' = [grid EXCEPT ![c] = addsubVideo(@, recvip[c])]
            /\ ui' = [ui EXCEPT ![c] = "insert"]
       ELSE /\ grid' = grid
            /\ ui' = [ui EXCEPT ![c] = "caller"]
    /\ UNCHANGED <<loadingIP, btn_die, raced, pollRest>>

(* recvip is read again: AcceptProc may have changed it meanwhile.          *)
PollInsert(c) ==
    /\ ui[c] = "insert"
    /\ loadingIP' = [loadingIP EXCEPT ![c] = @ \cup {recvip[c]}]
    /\ raced' = [raced EXCEPT
                   ![c] = @ \/ recvip[c] # grid[c].cell[getVideo(grid[c], 0)]]
    /\ btn_die' = [btn_die EXCEPT ![c] = TRUE]
    /\ ui' = [ui EXCEPT ![c] = "caller"]
    /\ UNCHANGED <<grid, cmd, pollRest>>

(* What PollCaller does when its condition is "test". *)
ShowAnswer(c, test) ==
    /\ ui[c] = "caller"
    /\ ui' = [ui EXCEPT ![c] = "idle"]
    /\ cmd' = [cmd EXCEPT ![c] = ""]
    /\ IF test
       THEN /\ grid' = [grid EXCEPT ![c] = addsubVideo(@, Room[m_s[c]])]
            /\ loadingIP' = [loadingIP EXCEPT ![c] = @ \cup {Room[m_s[c]]}]
            /\ btn_die' = [btn_die EXCEPT ![c] = TRUE]
       ELSE UNCHANGED <<grid, loadingIP, btn_die>>
    /\ UNCHANGED <<raced, pollRest>>

Fits(c) == Cardinality(loadingIP[c]) < getVideoCount(grid[c])
New(c)  == Room[m_s[c]] \notin loadingIP[c]

(* Mutants: any command opens a video; a room may get two; the count is off *)
(* by one.                                                                  *)
PollCaller_AnyCommand(c) ==
    ShowAnswer(c, cmd[c] # "" /\ Fits(c) /\ New(c))
PollCaller_Again(c) == ShowAnswer(c, cmd[c] = "recv" /\ Fits(c))
PollCaller_OffByOne(c) ==
    ShowAnswer(c, /\ cmd[c] = "recv" /\ New(c)
                  /\ Cardinality(loadingIP[c]) + 1 < getVideoCount(grid[c]))

(* loadMSG, last part: the client invited last has accepted. *)
PollCaller(c) ==
    ShowAnswer(c, cmd[c] = "recv" /\ Fits(c) /\ New(c))

(* btn_die: every remote video is stopped and removed, the top one first,   *)
(* then the call's state is cleared.                                        *)
HangUp(c) ==
    /\ ui[c] = "idle" /\ btn_die[c]
    /\ ui' = [ui EXCEPT ![c] = "hangUp"]
    /\ UNCHANGED <<loadingIP, grid, btn_die, cmd, raced, pollRest>>

(* Mutant: the player is not stopped. *)
CloseVideo_KeepsPlaying(c) ==
    /\ ui[c] = "hangUp" /\ getVideoCount(grid[c]) > 1
    /\ grid' = [grid EXCEPT ![c] = removeVideo(@)]
    /\ UNCHANGED <<loadingIP, btn_die, ui, cmd, raced, pollRest>>

CloseVideo(c) ==
    /\ ui[c] = "hangUp" /\ getVideoCount(grid[c]) > 1
    /\ grid' = [grid EXCEPT
                  ![c] = removeVideo(Load(@, getVideo(@, 0), Idle))]
    /\ UNCHANGED <<loadingIP, btn_die, ui, cmd, raced, pollRest>>

ClearCalls(c) ==
    /\ ui[c] = "hangUp" /\ getVideoCount(grid[c]) = 1
    /\ loadingIP' = [loadingIP EXCEPT ![c] = {}]
    /\ recvip' = [recvip EXCEPT ![c] = NoOne]
    /\ cmdSet' = [cmdSet EXCEPT ![c] = [d \in Clients |-> ""]]
    /\ btn_die' = [btn_die EXCEPT ![c] = FALSE]
    /\ ui' = [ui EXCEPT ![c] = "idle"]
    /\ live' = [live EXCEPT ![c] = {}]
    /\ raced' = [raced EXCEPT ![c] = FALSE]
    /\ UNCHANGED <<m_s, grid, cmd, accept, net, calls>>

-----------------------------------------------------------------------------
(* AcceptProc of client c: one connection at a time.  A message box keeps   *)
(* it from accepting the next.                                              *)

acceptRest == <<m_s, loadingIP, grid, btn_die, ui, cmd, calls, raced>>

Caller(k) == calls[k].from
Callee(k) == calls[k].to

RecvSend(c, k) ==
    /\ accept[c] = Free /\ Callee(k) = c
    /\ [call |-> k, kind |-> "send"] \in net
    /\ net' = net \ {[call |-> k, kind |-> "send"]}
    /\ accept' = [accept EXCEPT ![c] = k]
    /\ UNCHANGED <<cmdSet, recvip, live, acceptRest>>

(* The user's answer goes back in a message that may be lost. *)
Reply(k, kind) == net' \in {net, net \cup {[call |-> k, kind |-> kind]}}

AnswerOk(c) ==
    /\ accept[c] \in CallIds
    /\ LET k == accept[c] IN
         /\ recvip' = [recvip EXCEPT ![c] = Room[Caller(k)]]
         /\ cmdSet' = [cmdSet EXCEPT ![c][Caller(k)] = "room"]
         /\ live' = [live EXCEPT ![c] = @ \cup {k}]
         /\ Reply(k, "recv")
    /\ accept' = [accept EXCEPT ![c] = Free]
    /\ UNCHANGED acceptRest

AnswerCancel(c) ==
    /\ accept[c] \in CallIds
    /\ Reply(accept[c], "refu")
    /\ accept' = [accept EXCEPT ![c] = Free]
    /\ UNCHANGED <<cmdSet, recvip, live, acceptRest>>

RecvAnswer(c, k) ==
    /\ accept[c] = Free /\ Caller(k) = c
    /\ \E kind \in {"recv", "refu"} :
         /\ [call |-> k, kind |-> kind] \in net
         /\ net' = net \ {[call |-> k, kind |-> kind]}
         /\ cmdSet' = [cmdSet EXCEPT ![c][Callee(k)] = kind]
         /\ live' = IF kind = "recv" THEN [live EXCEPT ![c] = @ \cup {k}]
                                     ELSE live
         /\ accept' = IF kind = "refu" THEN [accept EXCEPT ![c] = Telling]
                                       ELSE accept
    /\ UNCHANGED <<recvip, acceptRest>>

Told(c) ==
    /\ accept[c] = Telling
    /\ accept' = [accept EXCEPT ![c] = Free]
    /\ UNCHANGED <<cmdSet, recvip, net, live, acceptRest>>

-----------------------------------------------------------------------------
Poll(c) == PollAccepted(c) \/ PollInsert(c) \/ PollCaller(c)
Close(c) == CloseVideo(c) \/ ClearCalls(c)
Accept(c) == \/ \E k \in DOMAIN calls : RecvSend(c, k) \/ RecvAnswer(c, k)
             \/ AnswerOk(c) \/ AnswerCancel(c) \/ Told(c)

Next == \E c \in Clients :
            \/ InitPlayer(c)
            \/ \E d \in Clients : Invite(c, d)
            \/ Poll(c) \/ HangUp(c) \/ Close(c) \/ Accept(c)

Spec == Init /\ [][Next]_vars

-----------------------------------------------------------------------------
(* Safety *)

(* Only streams of calls that both sides agreed to, and that this side has *)
(* not hung up, are shown: neither a refusal, nor a command left over from *)
(* an earlier call, nor the answer of another client opens a video.        *)
PeerRoom(c, k) == Room[IF Callee(k) = c THEN Caller(k) ELSE Callee(k)]
OnlyAgreedCalls ==
    \A c \in Clients : ui[c] # "hangUp" =>
        Shown(grid[c]) \subseteq {PeerRoom(c, k) : k \in live[c]}

(* The local video is never given another stream, however full the grid is *)
(* and whenever the local stream's address arrives.                         *)
LocalKept ==
    \A c \in Clients : grid[c].cell[LocalVideo] \in {Idle, Local}

(* A video that is not shown is stopped: hanging up leaves nothing playing. *)
NothingHidden ==
    \A c \in Clients : \A v \in Videos :
        InStack(v, grid[c].waiting) => grid[c].cell[v] = Idle

(* Whenever the window rests, the hang-up button is there exactly when      *)
(* there are remote videos to hang up.                                      *)
CanHangUp ==
    \A c \in Clients : ui[c] = "idle" =>
        (btn_die[c] <=> getVideoCount(grid[c]) > 1)

(* loadingIP and the grid agree: one video for each room, while there are   *)
(* videos left and recvip did not change between its uses in the poll.      *)
OneVideoPerRoom ==
    \A c \in Clients :
        /\ ui[c] = "idle" /\ ~raced[c]
        /\ Cardinality(loadingIP[c]) < NVideos
        => /\ Shown(grid[c]) = loadingIP[c]
           /\ getVideoCount(grid[c]) = 1 + Cardinality(loadingIP[c])

-----------------------------------------------------------------------------
(* Liveness.  The poll's timer keeps firing and a player's Load and Stop    *)
(* return; the users and the network owe nothing.                           *)
Fairness == \A c \in Clients : WF_vars(Poll(c)) /\ WF_vars(Close(c))
FairSpec == Spec /\ Fairness

(* The last call accepted here gets its video, unless it is hung up or      *)
(* another is accepted first.                                               *)
AcceptedIsShown ==
    \A c \in Clients, r \in Rooms :
        recvip[c] = r ~> r \in loadingIP[c] \/ recvip[c] # r

(* The client invited last gets its video once it has accepted, unless the  *)
(* call is hung up, another is made, or the grid is full.                   *)
AnswerIsShown ==
    \A c, d \in Clients :
        m_s[c] = d /\ cmdSet[c][d] = "recv" ~>
            \/ Room[d] \in loadingIP[c]
            \/ m_s[c] # d \/ cmdSet[c][d] # "recv"
            \/ Cardinality(loadingIP[c]) >= getVideoCount(grid[c])
=============================================================================
