------------------------------ MODULE Discovery ------------------------------
(***************************************************************************)
(* The tree of rooms of ClassMateWnd, built from the list that             *)
(* CUdpBroadcast keeps: every second UpdateClassMateUI compares the length *)
(* of the list with the one it has seen last and, when they differ, asks   *)
(* the cloud server for the rooms and builds the tree anew.                *)
(***************************************************************************)
EXTENDS UdpBroadcast

CONSTANT Windows    \* the clients whose window is modelled

ASSUME WindowsAssumption ==
    Windows \subseteq Clients /\ IsFiniteSet(Clients \cup Strangers)

VARIABLES
    countTip,   \* the length of the list at the last comparison
    first,      \* the timer of the first load is set
    wnd,        \* where the window's timer is
    todo,       \* rooms the loop that builds the tree has not come to
    tree,       \* who is shown, and below which room
    named,      \* history: the rooms that the last answer was for
    missed,     \* history: the last request for the rooms failed
    moved       \* history: whose entry has changed since the last answer

wndVars == <<countTip, first, wnd, todo, tree, named, missed>>
vars == <<udpVars, wndVars, moved>>

TypeOK ==
    /\ UdpTypeOK
    /\ countTip \in [Windows -> 0..Cardinality(Addrs)]
    /\ first \in [Windows -> BOOLEAN]
    /\ wnd \in [Windows -> {"idle", "first", "update", "build"}]
    /\ todo \in [Windows -> SUBSET Rooms]
    /\ tree \in [Windows -> SUBSET (Rooms \X Addrs)]
    /\ named \in [Windows -> SUBSET Rooms]
    /\ moved \in [Windows -> SUBSET Addrs]
    /\ missed \in [Windows -> BOOLEAN]

Init ==
    /\ UdpInit
    /\ countTip = [c \in Windows |-> 0]
    /\ first = [c \in Windows |-> TRUE]
    /\ wnd = [c \in Windows |-> "idle"]
    /\ todo = [c \in Windows |-> {}]
    /\ tree = [c \in Windows |-> {}]
    /\ named = [c \in Windows |-> {}]
    /\ moved = [c \in Windows |-> {}]
    /\ missed = [c \in Windows |-> FALSE]

-----------------------------------------------------------------------------
(* The window lives, and its timers fire, from Open to Close. *)
Timer(c, pc) == ui[c] = "open" /\ wnd[c] = pc

(* FirstLoadClassMateUIEvent asks for the rooms ... *)
FirstLoad(c) ==
    /\ Timer(c, "idle") /\ first[c]
    /\ wnd' = [wnd EXCEPT ![c] = "first"]
    /\ UNCHANGED <<countTip, first, todo, tree, named, missed, moved, udpVars>>

(* Mutant: only the first arrivals are noticed. *)
Compare_Once(c) ==
    /\ Timer(c, "idle")
    /\ Listed(c) # {} /\ countTip[c] = 0
    /\ countTip' = [countTip EXCEPT ![c] = Cardinality(Listed(c))]
    /\ wnd' = [wnd EXCEPT ![c] = "update"]
    /\ UNCHANGED <<first, todo, tree, named, missed, moved, udpVars>>

(* ... and so does UpdateClassMateUIEvent, when the list has grown. *)
Compare(c) ==
    /\ Timer(c, "idle")
    /\ Cardinality(Listed(c)) # countTip[c]
    /\ countTip' = [countTip EXCEPT ![c] = Cardinality(Listed(c))]
    /\ wnd' = [wnd EXCEPT ![c] = "update"]
    /\ UNCHANGED <<first, todo, tree, named, missed, moved, udpVars>>

(* The server's answer: the tree is emptied, to be filled with those of its *)
(* entries, of at most 100, that are class rooms (devtype and cnttype "1"); *)
(* or none, and the tree stays.  The first load is tried again until it     *)
(* succeeds, an update is not.                                              *)
Answered(c) ==
    /\ Timer(c, "first") \/ Timer(c, "update")
    /\ first' = [first EXCEPT ![c] = @ /\ wnd[c] # "first"]
    /\ wnd' = [wnd EXCEPT ![c] = "build"]
    /\ \E rooms \in SUBSET Rooms : /\ todo' = [todo EXCEPT ![c] = rooms]
                                   /\ named' = [named EXCEPT ![c] = rooms]
    /\ tree' = [tree EXCEPT ![c] = {}]
    /\ missed' = [missed EXCEPT ![c] = FALSE]
    /\ moved' = [moved EXCEPT ![c] = {}]
    /\ UNCHANGED <<countTip, udpVars>>

NotAnswered(c) ==
    /\ Timer(c, "first") \/ Timer(c, "update")
    /\ missed' = [missed EXCEPT ![c] = @ \/ wnd[c] = "update"]
    /\ wnd' = [wnd EXCEPT ![c] = "idle"]
    /\ UNCHANGED <<countTip, first, todo, tree, named, moved, udpVars>>

(* One room, with those that the list has for it now. *)
BuildRoom(c, r) ==
    /\ Timer(c, "build") /\ r \in todo[c]
    /\ todo' = [todo EXCEPT ![c] = @ \ {r}]
    /\ tree' = [tree EXCEPT ![c] = @ \cup {<<r, a>> : a \in {d \in Addrs : maplist[c][d] = r}}]
    /\ UNCHANGED <<countTip, first, wnd, named, missed, moved, udpVars>>

Built(c) ==
    /\ Timer(c, "build") /\ todo[c] = {}
    /\ wnd' = [wnd EXCEPT ![c] = "idle"]
    /\ UNCHANGED <<countTip, first, todo, tree, named, missed, moved, udpVars>>

Build(c) == (\E r \in Rooms : BuildRoom(c, r)) \/ Built(c)

Window(c) == \/ FirstLoad(c) \/ Compare(c) \/ Answered(c) \/ NotAnswered(c)
             \/ Build(c)

(* Meanwhile the threads go on with the list. *)
Beside ==
    /\ UNCHANGED wndVars
    /\ moved' = [c \in Windows |->
         moved[c] \cup {d \in Listed(c) : maplist'[c][d] # maplist[c][d]}]

Next == (UdpNext /\ Beside) \/ \E c \in Windows : Window(c)

Spec == Init /\ [][Next]_vars

(* Both threads are scheduled, and Close, once called, goes on; a timer     *)
(* that has expired is not passed over for ever in favour of another; a     *)
(* request ends with curl's timeout at the latest; what the server answers  *)
(* is not assumed.                                                          *)
Fairness ==
    /\ \A c \in Clients : /\ WF_vars(SendProc(c) /\ Beside)
                          /\ WF_vars(RecvProc(c) /\ Beside)
                          /\ WF_vars(Close(c) /\ Beside)
    /\ \A c \in Windows :
        /\ SF_vars(Compare(c))
        /\ WF_vars(Answered(c) \/ NotAnswered(c))
        /\ WF_vars(Build(c))
FairSpec == Spec /\ Fairness

-----------------------------------------------------------------------------
(* An address that is listed is shown below the room it announces, if the   *)
(* server has named that room; one that has moved since is left where it    *)
(* was, for its new entry does not change the length of the list.           *)
Shown(c, d) ==
    maplist[c][d] \in named[c] /\ d \notin moved[c] => <<maplist[c][d], d>> \in tree[c]

(* While the window rests and sees no new length, everybody who is listed   *)
(* is shown: whoever arrived while the tree was being built is not          *)
(* forgotten.  A request that failed is not made good.                      *)
NobodyForgotten ==
    \A c \in Windows :
        Timer(c, "idle") /\ ~missed[c] /\ countTip[c] = Cardinality(Listed(c))
        => \A d \in Listed(c) : Shown(c, d)

(* Again and again everybody who is listed is shown, with the same          *)
(* exceptions, unless the window closes.                                    *)
ListedIsShown ==
    \A c \in Windows : []<>(\/ \A d \in Listed(c) : Shown(c, d)
                            \/ missed[c] \/ ui[c] # "open")
=============================================================================
