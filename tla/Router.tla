-------------------------------- MODULE Router --------------------------------
(***************************************************************************)
(* The Router of the main window (LoganManager/MainWnd.h): the cam that is *)
(* selected and a copy of its device, which the window's thread assigns    *)
(* field by field (Assign) and the commands of the thread pool read        *)
(* without a lock: the critical section that each command enters is one it *)
(* has just created (MainWnd.cpp).                                         *)
(*                                                                         *)
(* An ip, a model, a port and a token are each named by the device they    *)
(* are of.  Using a string or a map while another thread changes it is     *)
(* undefined behaviour: the model takes either what is there or "fault",   *)
(* and ends there.                                                         *)
(***************************************************************************)
EXTENDS Integers, FiniteSets

CONSTANTS
    Devices,
    Names,       \* the streams of a device
    Cams,
    FirstCam,    \* item "0" of the layout
    Cmds,        \* the commands that may be under way at a time
    None,        \* the empty string
    Turn,        \* which of a command's arguments the compiler reads first
    MaxThreads,  \* MAX_THREAD_POOL, 30 in the code
    MaxPresses   \* bound: presets called

Fields == {"ip", "model", "port", "token"}

ASSUME RouterAssumption ==
    /\ FirstCam \in Cams
    /\ None \notin Devices /\ None \notin Names
    /\ Turn \in [Fields -> Nat]
    /\ MaxThreads \in Nat \ {0}
    /\ MaxPresses \in Nat

VARIABLES
    rt,        \* the Router
    ui,        \* where the window's thread is in a handler that assigns
    cmd,       \* the commands of the pool
    preset,    \* how many presets were called; selprecall holds the last
    sent,      \* history: the presets that were sent
    fault

cmds == <<cmd, preset, sent>>
routerVars == <<rt, ui, cmds, fault>>

Device == Devices \cup {None}
Routers == [camCtrl : Cams, mediaPlayer : Cams,
            ip : Device, model : Device, port : Device, token : Device,
            play : Names \cup {None}]
UiPcs == {"rest", "urls", "cam"} \cup Fields
Commands == [pc : {"free", "queued", "reading", "ready"},
             place : 0..MaxPresses,      \* the preset it is for; 0: none
             ip : Device, model : Device, port : Device, token : Device,
             todo : SUBSET Fields,       \* what is still to be read
             during : SUBSET Device]     \* history: selected since the button

RouterTypeOK ==
    /\ rt \in Routers
    /\ ui \in [pc : UiPcs, from : Nat]
    /\ cmd \in [Cmds -> Commands]
    /\ preset \in 0..MaxPresses /\ sent \subseteq 1..preset
    /\ fault \in BOOLEAN

Free == [pc |-> "free", place |-> 0, ip |-> None, model |-> None,
         port |-> None, token |-> None, todo |-> {}, during |-> {}]

RouterInit ==
    /\ rt = [camCtrl |-> FirstCam, mediaPlayer |-> FirstCam, ip |-> None,
             model |-> None, port |-> None, token |-> None, play |-> None]
    /\ ui = [pc |-> "rest", from |-> 0]
    /\ cmd = [c \in Cmds |-> Free]
    /\ preset = 0 /\ sent = {}
    /\ fault = FALSE

-----------------------------------------------------------------------------
(* The window's thread. *)
Rest == ui.pc = "rest"

(* Mutant: the Router keeps the player of the cam it had. *)
SelectCam_KeepsPlayer(c) ==
    /\ Rest
    /\ rt' = [rt EXCEPT !.camCtrl = c]
    /\ ui' = [pc |-> "ip", from |-> 0]
    /\ UNCHANGED <<cmds, fault>>

(* CCamCtrolUI's DoEvent: a click on a cam, whose source is then assigned. *)
SelectCam(c) ==
    /\ Rest
    /\ rt' = [rt EXCEPT !.camCtrl = c, !.mediaPlayer = c]
    /\ ui' = [pc |-> "ip", from |-> 0]
    /\ UNCHANGED <<cmds, fault>>

(* OnSelectRoomItem: the source is at a place of videoURL. *)
SelectPlace(k) ==
    /\ Rest
    /\ ui' = [pc |-> "ip", from |-> k]
    /\ UNCHANGED <<rt, cmds, fault>>

(* Assign, field by field: the ip of the source's device, ...               *)
AssignIp(d) ==
    /\ ui.pc = "ip"
    /\ rt' = [rt EXCEPT !.ip = d]
    /\ ui' = [ui EXCEPT !.pc = "model"]
    /\ cmd' = [c \in Cmds |-> IF cmd[c].pc = "free" THEN cmd[c]
                              ELSE [cmd[c] EXCEPT !.during = @ \cup {d}]]
    /\ UNCHANGED <<preset, sent, fault>>

(* ... the same device's model, ...                                         *)
AssignModel ==
    /\ ui.pc = "model"
    /\ rt' = [rt EXCEPT !.model = rt.ip]
    /\ ui' = [ui EXCEPT !.pc = "port"]
    /\ UNCHANGED <<cmds, fault>>

(* ... its port, ...                                                        *)
AssignPort ==
    /\ ui.pc = "port"
    /\ rt' = [rt EXCEPT !.port = rt.ip]
    /\ ui' = [ui EXCEPT !.pc = "token"]
    /\ UNCHANGED <<cmds, fault>>

(* Mutant: an empty token leaves the old one. *)
AssignToken_IfAny(ok) ==
    /\ ui.pc = "token"
    /\ rt' = [rt EXCEPT !.token = IF ok THEN rt.ip ELSE @]
    /\ ui' = [ui EXCEPT !.pc = "urls"]
    /\ UNCHANGED <<cmds, fault>>

(* ... its token, if it has one by now, ...                                 *)
AssignToken(ok) ==
    /\ ui.pc = "token"
    /\ rt' = [rt EXCEPT !.token = IF ok THEN rt.ip ELSE None]
    /\ ui' = [ui EXCEPT !.pc = "urls"]
    /\ UNCHANGED <<cmds, fault>>

(* ... and its URLs; the map of them may be in use.  A click ends here.     *)
AssignUrls(play, inUse) ==
    /\ ui.pc = "urls"
    /\ \/ /\ rt' = [rt EXCEPT !.play = play]
          /\ ui' = [ui EXCEPT !.pc = IF ui.from = 0 THEN "rest" ELSE "cam"]
          /\ fault' = FALSE
       \/ inUse /\ fault' = TRUE /\ UNCHANGED <<rt, ui>>
    /\ UNCHANGED cmds

Submitted(p) == [Free EXCEPT !.pc = "queued", !.place = p, !.during = {rt.ip}]

(* The buttons that submit a command: for a direction, the zoom or the view. *)
OnBtnMove(c) ==
    /\ Rest /\ cmd[c].pc = "free"
    /\ cmd' = [cmd EXCEPT ![c] = Submitted(0)]
    /\ UNCHANGED <<rt, ui, preset, sent, fault>>

(* Mutant: no command is submitted while there is one for a preset. *)
OnPrePlace_Once(c) ==
    /\ Rest /\ cmd[c].pc = "free" /\ preset < MaxPresses
    /\ preset' = preset + 1
    /\ cmd' = IF \E d \in Cmds : cmd[d].place > 0 THEN cmd
              ELSE [cmd EXCEPT ![c] = Submitted(preset + 1)]
    /\ UNCHANGED <<rt, ui, sent, fault>>

(* A preset: its name goes into selprecall, which the command reads later.  *)
OnPrePlace(c) ==
    /\ Rest /\ cmd[c].pc = "free" /\ preset < MaxPresses
    /\ preset' = preset + 1
    /\ cmd' = [cmd EXCEPT ![c] = Submitted(preset + 1)]
    /\ UNCHANGED <<rt, ui, sent, fault>>

-----------------------------------------------------------------------------
(* A thread of the pool, if one is free: the command's arguments; ...       *)
ReadArgs(c) ==
    /\ cmd[c].pc = "queued"
    /\ Cardinality({d \in Cmds : cmd[d].pc \in {"reading", "ready"}}) < MaxThreads
    /\ cmd' = [cmd EXCEPT ![c].pc = "reading", ![c].todo = Fields,
                          ![c].place = IF @ = 0 THEN 0 ELSE preset]
    /\ UNCHANGED <<rt, ui, preset, sent, fault>>

(* ... the four fields, in the order the compiler chose, and perhaps just   *)
(* while one is assigned (the model is a number, the others are strings);   *)
(* ...                                                                      *)
ReadField(c, f) ==
    /\ cmd[c].pc = "reading" /\ f \in cmd[c].todo
    /\ \A g \in cmd[c].todo : Turn[f] <= Turn[g]
    /\ \/ /\ cmd' = [cmd EXCEPT ![c].todo = @ \ {f}, ![c][f] = rt[f],
                       ![c].pc = IF cmd[c].todo = {f} THEN "ready" ELSE "reading"]
          /\ fault' = FALSE
       \/ ui.pc = f /\ f # "model" /\ fault' = TRUE /\ cmd' = cmd
    /\ UNCHANGED <<rt, ui, preset, sent>>

(* ... and the request.                                                     *)
Send(c) ==
    /\ cmd[c].pc = "ready"
    /\ sent' = IF cmd[c].place = 0 THEN sent ELSE sent \cup {cmd[c].place}
    /\ cmd' = [cmd EXCEPT ![c] = Free]
    /\ UNCHANGED <<rt, ui, preset, fault>>

Submits(c) == OnBtnMove(c) \/ OnPrePlace(c)
Runs(c) == ReadArgs(c) \/ (\E f \in Fields : ReadField(c, f)) \/ Send(c)

(* What the Router does once a cam is selected, whatever the source holds.  *)
RouterNext ==
    \/ (\E d \in Device : AssignIp(d)) \/ AssignModel \/ AssignPort
    \/ \E ok \in BOOLEAN : AssignToken(ok)
    \/ \E n \in Names \cup {None} : AssignUrls(n, FALSE)
    \/ \E c \in Cmds : Submits(c) \/ Runs(c)

-----------------------------------------------------------------------------
(* Each field of a command's request is of a device that was selected       *)
(* between its button and the request.  The fields are read one by one      *)
(* while they are assigned, so the ip may be one device's and the port      *)
(* another's; but when one device was selected all along, the command goes  *)
(* to that one, with no other's token.                                      *)
CommandAims ==
    \A c \in Cmds : cmd[c].pc = "ready" =>
        /\ {cmd[c].ip, cmd[c].model, cmd[c].port} \subseteq cmd[c].during
        /\ cmd[c].token \in cmd[c].during \cup {None}

(* The preset called last has been sent when no command for one is left.    *)
LastPresetSent ==
    (\A c \in Cmds : cmd[c].place = 0) => preset = 0 \/ preset \in sent
===============================================================================
