-------------------------------- MODULE Rooms --------------------------------
(***************************************************************************)
(* The main window's class rooms (LoganManager/MainWnd.cpp): the list of   *)
(* rooms and their devices, the threads that look up each device's URLs    *)
(* (LoadSource), and the copies that the cams and the Router keep of a     *)
(* device.  A URL is the name of the stream it was looked up as.           *)
(***************************************************************************)
EXTENDS Router, Sequences, FiniteSets, SequencesExt

CONSTANTS
    RoomList,    \* the rooms of UpdateClassRoom: a sequence of devices each
    Streams,     \* the streams LoadSource looks up, in its order; "lurl" first
    RoomRow      \* the row of a room itself

ASSUME RoomsAssumption ==
    /\ RoomList \in Seq(Seq(Devices))
    /\ RoomRow \notin Devices
    /\ Len(Streams) > 0 /\ Streams[1] = "lurl" /\ Names = Range(Streams)

(* Mutant: a room's row is put before those of the rooms there are. *)
List_NewestFirst ==
    FlattenSeq([i \in DOMAIN RoomList |-> <<RoomRow>> \o RoomList[Len(RoomList) + 1 - i]])

(* UpdateClassRoom: the rows it adds to the list and the devices it puts    *)
(* into videoURL, both in the order of the server's answer.                 *)
List == FlattenSeq([i \in DOMAIN RoomList |-> <<RoomRow>> \o RoomList[i]])
Order == FlattenSeq(RoomList)
DeviceRows == {r \in DOMAIN List : List[r] # RoomRow}

(* The handlers count along the tree: the place in videoURL of a row.       *)
Index(row) == row - Cardinality({r \in 1..row : List[r] = RoomRow})

VARIABLES
    videoURL,  \* per place: the device and what LoadSource has found out
    load,      \* how many of its requests each LoadSource has made
    painted,   \* the rows UpdataStatus has painted
    cams,      \* each cam's title and its copy videosrc
    playing    \* what each cam's player was last told to load

looks == <<videoURL, load>>
shows == <<painted, cams, playing>>
vars == <<looks, shows, routerVars>>

Places == DOMAIN Order
Source == [dev : Device, token : BOOLEAN, urls : SUBSET Names,
           play : Names \cup {None}]

TypeOK ==
    /\ RouterTypeOK
    /\ videoURL \in [Places -> Source]
    /\ load \in [Places -> 0..(Len(Streams) + 1)]
    /\ painted \subseteq DeviceRows
    /\ cams \in [Cams -> [title : Device, videosrc : Source]]
    /\ playing \in [Cams -> (Devices \X Names) \cup {None}]

(* An empty _videoURL. *)
Nothing == [dev |-> None, token |-> FALSE, urls |-> {}, play |-> None]

Init ==
    /\ RouterInit
    /\ videoURL = [k \in Places |-> [Nothing EXCEPT !.dev = Order[k]]]
    /\ load = [k \in Places |-> 0]
    /\ painted = {}
    /\ cams = [c \in Cams |-> [title |-> None, videosrc |-> Nothing]]
    /\ playing = [c \in Cams |-> None]

-----------------------------------------------------------------------------
(* LoadSource.  The login may fail; then there is nothing more to do.       *)
Done == Len(Streams) + 1

LogIn(k) ==
    /\ load[k] = 0
    /\ \E ok \in BOOLEAN :
         /\ videoURL' = [videoURL EXCEPT ![k].token = ok]
         /\ load' = [load EXCEPT ![k] = IF ok THEN 1 ELSE Done]
    /\ UNCHANGED <<shows, routerVars>>

(* A lookup finds a URL or not; after the last one, lurl is what to play.   *)
LookUpUrl(k) ==
    /\ load[k] \in DOMAIN Streams
    /\ \E found \in {{}, {Streams[load[k]]}} :
         LET urls == videoURL[k].urls \cup found
         IN videoURL' = [videoURL EXCEPT ![k].urls = urls, ![k].play =
              IF load[k] = Len(Streams) /\ "lurl" \in urls THEN "lurl" ELSE @]
    /\ load' = [load EXCEPT ![k] = @ + 1]
    /\ UNCHANGED <<shows, routerVars>>

(* Mutant: the timer is killed once every device has been asked. *)
UpdataStatus_Killed ==
    /\ Rest /\ \E k \in Places : load[k] # Done
    /\ painted' = painted \cup {r \in DeviceRows : videoURL[Index(r)].token}
    /\ UNCHANGED <<looks, cams, playing, routerVars>>

(* The timer paints the rows of the devices that have granted a login. *)
UpdataStatus ==
    /\ Rest
    /\ painted' = painted \cup {r \in DeviceRows : videoURL[Index(r)].token}
    /\ UNCHANGED <<looks, cams, playing, routerVars>>

-----------------------------------------------------------------------------
(* The list notifies of its selected row. *)
OnSelectRoomItem(row) ==
    /\ row \in DeviceRows
    /\ SelectPlace(Index(row))
    /\ cams' = [cams EXCEPT ![rt.camCtrl].title = List[row]]
    /\ UNCHANGED <<looks, painted, playing>>

From == IF ui.from = 0 THEN cams[rt.camCtrl].videosrc ELSE videoURL[ui.from]
Inserting(k) == load[k] \in DOMAIN Streams

(* Assign(rt->vl, ...), while LoadSource goes on.                           *)
AssignRouter ==
    /\ \/ AssignIp(From.dev) \/ AssignModel \/ AssignPort
       \/ AssignToken(From.token)
       \/ AssignUrls(From.play, ui.from # 0 /\ Inserting(ui.from))
    /\ UNCHANGED <<looks, shows>>

Url(dev, name) == IF name = None THEN None ELSE <<dev, name>>

(* Assign(rt->camCtrl->videosrc, ...) and Load(rt->vl.URL["play"]).  By now *)
(* LoadSource may have found more than it had for the Router's copy.        *)
AssignCam ==
    /\ ui.pc = "cam"
    /\ cams' = [cams EXCEPT ![rt.camCtrl].videosrc = From]
    /\ playing' = [playing EXCEPT ![rt.mediaPlayer] = Url(rt.ip, rt.play)]
    /\ ui' = [ui EXCEPT !.pc = "rest"]
    /\ UNCHANGED <<looks, painted, rt, cmds, fault>>

(* The menu of a cam: play another of its streams, if it has a URL for it.  *)
OnSelectPlayStream(c, name) ==
    /\ Rest
    /\ LET src == cams[c].videosrc
           play == IF name \in src.urls THEN name ELSE None
       IN /\ cams' = [cams EXCEPT ![c].videosrc.play = play]
          /\ playing' = [playing EXCEPT ![c] = Url(src.dev, play)]
    /\ UNCHANGED <<looks, painted, routerVars>>

LoadSource(k) == LogIn(k) \/ LookUpUrl(k)
Assigns == AssignRouter \/ AssignCam
(* The commands are left out here: they change nothing but themselves.      *)
Others == (\E c \in Cams : SelectCam(c)) /\ UNCHANGED <<looks, shows>>

Next ==
    /\ ~fault
    /\ \/ \E k \in Places : LoadSource(k)
       \/ UpdataStatus \/ Assigns \/ Others
       \/ \E row \in DeviceRows : OnSelectRoomItem(row)
       \/ \E c \in Cams, n \in Names : OnSelectPlayStream(c, n)

Spec == Init /\ [][Next]_vars
(* A handler goes on, and the timer fires.                                  *)
FairSpec == Spec /\ WF_vars(~fault /\ Assigns) /\ SF_vars(~fault /\ UpdataStatus)

-----------------------------------------------------------------------------
(* A row selects its own device, whatever rooms, empty ones among them,     *)
(* come before it: what a cam's title names is what its copy holds.         *)
TitleNamesDevice == Rest => \A c \in Cams : cams[c].title = cams[c].videosrc.dev

(* A player plays nothing, or the stream that its own cam's copy says.      *)
PlaysItsOwn ==
    Rest => \A c \in Cams : playing[c] \in
              {None, Url(cams[c].videosrc.dev, cams[c].videosrc.play)}

(* Between two handlers the Router holds one cam, the ip, model and port of *)
(* that cam's device and no other device's token.                           *)
RouterFollows ==
    Rest => /\ rt.mediaPlayer = rt.camCtrl
            /\ {rt.ip, rt.model, rt.port} = {cams[rt.camCtrl].videosrc.dev}
            /\ rt.token \in {None, rt.ip}

(* The row of a device that has granted the login is painted in the end,    *)
(* however late the answer came: a login is never taken back, so it is      *)
(* enough that again and again no such row is left.                         *)
LoggedInIsPainted ==
    []<>(fault \/ \A r \in DeviceRows : videoURL[Index(r)].token => r \in painted)
=============================================================================
