--------------------------- MODULE DiscoveryProofs ---------------------------
(***************************************************************************)
(* Proofs about UdpBroadcast, for any network and any buffer size, and     *)
(* about Discovery, whose windows run beside it, for any finite network.   *)
(***************************************************************************)
EXTENDS Discovery, TLAPS, FiniteSetTheorems

(* A thread that may still run has its handle and its socket; a handle      *)
(* lasts until it is joined; sockets last until both threads have ended.    *)
Lifecycle ==
    \A c \in Clients :
        /\ sendPc[c] \in {"top", "sendto"} =>
             "send" \in handles[c] /\ "send" \in sockets[c]
        /\ recvPc[c] \in {"top", "select", "store"} =>
             "recv" \in handles[c] /\ "recv" \in sockets[c]
        /\ ui[c] = "new" => handles[c] = {} /\ sockets[c] = {}
        /\ "send" \in handles[c] => ui[c] \in {"open", "joinSend"}
        /\ "recv" \in handles[c] => ui[c] \in {"open", "joinSend", "joinRecv"}
        /\ handles[c] \subseteq Both
        /\ ui[c] = "closed" => sockets[c] = {}

(* What RecvProc is about to list is a datagram that was sent, or blank     *)
(* after a failed recvfrom; before, its buffer is clear.                    *)
Received ==
    \A c \in Clients :
        IF recvPc[c] # "store" THEN msg[c] = Empty
        ELSE
        \/ [from |-> from[c], msg |-> msg[c]] \in Datagrams
        \/ msg[c] = Empty /\ errors > 0

UdpInv == UdpTypeOK /\ Lifecycle /\ Received /\ ListedAsAnnounced

-----------------------------------------------------------------------------
(* The invariant holds before anything was opened. *)
LEMMA InitInv == UdpInit => UdpInv
BY UdpAssumption
   DEF UdpInit, UdpInv, UdpTypeOK, Lifecycle, Received, ListedAsAnnounced,
       Listed, Addrs, Both

(* The parts of a datagram. *)
LEMMA DatagramParts ==
    ASSUME NEW d \in Datagrams
    PROVE  /\ d.from \in Addrs /\ d.msg \in Messages \cup {Empty}
           /\ d = [from |-> d.from, msg |-> d.msg]
BY DEF Datagrams, Addrs, Rooms, Messages

(* Who sends what. *)
LEMMA DatagramSource ==
    ASSUME NEW f, NEW m, [from |-> f, msg |-> m] \in Datagrams
    PROVE  \/ f \in Clients /\ m = Room[f]
           \/ f \in Strangers /\ m \in Messages
<1> DEFINE d == [from |-> f, msg |-> m]
<1>1. CASE d \in [from : Strangers, msg : Messages]
  BY <1>1
<1>2. CASE \E c \in Clients : d = [from |-> c, msg |-> Room[c]]
  <2>1. PICK c \in Clients : d = [from |-> c, msg |-> Room[c]]
    BY <1>2
  <2>2. d.from = f /\ d.msg = m /\ d.from = c /\ d.msg = Room[c]
    BY <2>1
  <2>3. QED
    BY <2>2
<1>3. QED
  BY <1>1, <1>2 DEF Datagrams

(* A buffer keeps datagrams when one arrives. *)
LEMMA ArrivesType ==
    ASSUME UdpTypeOK, NEW d \in Datagrams, NEW who, Arrives(d, who)
    PROVE  buf' \in [Clients -> Seq(Datagrams)]
<1>1. \A c \in Clients : buf[c] \in Seq(Datagrams)
  BY DEF UdpTypeOK
<1>2. \A c \in Clients : Append(buf[c], d) \in Seq(Datagrams)
  BY <1>1
<1>3. QED
  BY <1>1, <1>2 DEF Arrives

(* What is listed depends on the list and on whether recvfrom has failed.  *)
LEMMA ListKept ==
    ASSUME UdpTypeOK, ListedAsAnnounced, maplist' = maplist,
           errors' \in Nat, errors' >= errors
    PROVE  ListedAsAnnounced'
BY DEF ListedAsAnnounced, Listed, UdpTypeOK

(* The caller's steps. *)
LEMMA CallerStep ==
    ASSUME UdpInv, NEW c \in Clients,
           Open(c) \/ OpenFails(c) \/ BeginClose(c) \/ Close(c)
    PROVE  UdpInv'
<1> USE DEF UdpInv
<1>1. maplist' = maplist /\ errors' = errors /\ errors \in Nat
      /\ from' = from /\ msg' = msg
  BY UdpAssumption DEF Open, OpenFails, BeginClose, Close, JoinSend, JoinRecv,
                       CloseSockets, threads, UdpTypeOK
<1>2. UdpTypeOK'
  <2>1. CASE Open(c)
    BY <2>1 DEF Open, UdpTypeOK, Both
  <2>2. CASE OpenFails(c)
    BY <2>2 DEF OpenFails, UdpTypeOK, Both, threads
  <2>3. CASE BeginClose(c)
    BY <2>3 DEF BeginClose, UdpTypeOK, threads
  <2>4. CASE JoinSend(c)
    BY <2>4 DEF JoinSend, UdpTypeOK, threads
  <2>5. CASE JoinRecv(c)
    BY <2>5 DEF JoinRecv, UdpTypeOK, threads
  <2>6. CASE CloseSockets(c)
    BY <2>6 DEF CloseSockets, UdpTypeOK, threads
  <2>7. QED
    BY <2>1, <2>2, <2>3, <2>4, <2>5, <2>6 DEF Close
<1>3. Lifecycle'
  <2>1. CASE Open(c)
    BY <2>1 DEF Open, Lifecycle, UdpTypeOK, Both
  <2>2. CASE OpenFails(c)
    BY <2>2 DEF OpenFails, Lifecycle, UdpTypeOK, Both, threads
  <2>3. CASE BeginClose(c)
    BY <2>3 DEF BeginClose, Lifecycle, UdpTypeOK, threads
  <2>4. CASE JoinSend(c)
    BY <2>4 DEF JoinSend, Lifecycle, UdpTypeOK, threads
  <2>5. CASE JoinRecv(c)
    BY <2>5 DEF JoinRecv, Lifecycle, UdpTypeOK, threads
  <2>6. CASE CloseSockets(c)
    <3>1. handles[c] = {}
      BY ZenonT(60), <2>6 DEF CloseSockets, Lifecycle, UdpTypeOK, Both
    <3>2. QED
      BY <2>6, <3>1 DEF CloseSockets, Lifecycle, UdpTypeOK, threads
  <2>7. QED
    BY <2>1, <2>2, <2>3, <2>4, <2>5, <2>6 DEF Close
<1>4. Received'
  <2>1. \A k \in Clients : recvPc'[k] = "store" <=> recvPc[k] = "store"
    <3>1. CASE Open(c)
      <4>1. recvPc[c] # "store"
        BY <3>1 DEF Open, Lifecycle
      <4>2. QED
        BY <3>1, <4>1 DEF Open, UdpTypeOK
    <3>2. QED
      BY <3>1 DEF OpenFails, BeginClose, Close, JoinSend, JoinRecv,
                  CloseSockets, threads
  <2>2. QED
    BY <1>1, <2>1 DEF Received
<1>5. ListedAsAnnounced'
  BY <1>1, ListKept
<1>6. QED
  BY <1>2, <1>3, <1>4, <1>5

(* The steps that leave the list alone. *)
LEMMA SendStep ==
    ASSUME UdpInv, NEW c \in Clients, SendProc(c)
    PROVE  UdpInv'
<1> USE DEF UdpInv
<1>1. UNCHANGED <<recvPc, from, msg, maplist, errors, caller>>
  BY DEF SendProc, SendTop, SendTo
<1>2. UdpTypeOK'
  <2>1. CASE SendTop(c)
    BY <2>1 DEF SendTop, UdpTypeOK, caller
  <2>2. CASE SendTo(c)
    <3>1. [from |-> c, msg |-> Room[c]] \in Datagrams
      BY DEF Datagrams
    <3>2. buf' \in [Clients -> Seq(Datagrams)]
      BY <2>2, <3>1, ArrivesType DEF SendTo
    <3>3. QED
      BY <2>2, <3>2 DEF SendTo, UdpTypeOK, caller
  <2>3. QED
    BY <2>1, <2>2 DEF SendProc
<1>3. Lifecycle'
  BY DEF SendProc, SendTop, SendTo, Lifecycle, UdpTypeOK, caller
<1>4. Received'
  BY <1>1 DEF Received
<1>5. ListedAsAnnounced'
  BY <1>1, ListKept, UdpAssumption DEF UdpTypeOK
<1>6. QED
  BY <1>2, <1>3, <1>4, <1>5

LEMMA NoiseStep == UdpInv /\ Noise => UdpInv'
<1> SUFFICES ASSUME UdpInv, Noise PROVE UdpInv'
  OBVIOUS
<1> USE DEF UdpInv
<1>1. UNCHANGED <<sendPc, recvPc, from, msg, maplist, errors, caller>>
  BY DEF Noise
<1>2. PICK s \in Strangers, m \in Messages, c \in Clients :
         Arrives([from |-> s, msg |-> m], {c})
  BY DEF Noise
<1>3. buf' \in [Clients -> Seq(Datagrams)]
  <2>1. [from |-> s, msg |-> m] \in Datagrams
    BY DEF Datagrams
  <2>2. QED
    BY <1>2, <2>1, ArrivesType
<1>4. UdpTypeOK' /\ Lifecycle' /\ Received'
  BY <1>1, <1>3 DEF UdpTypeOK, Lifecycle, Received, caller
<1>5. ListedAsAnnounced'
  BY <1>1, ListKept, UdpAssumption DEF UdpTypeOK
<1>6. QED
  BY <1>4, <1>5

(* RecvProc: only Store changes the list. *)
LEMMA RecvStep ==
    ASSUME UdpInv, NEW c \in Clients, RecvProc(c)
    PROVE  UdpInv'
<1> USE DEF UdpInv
<1>0. MaxErrors \in Nat /\ errors \in Nat
  BY UdpAssumption DEF UdpTypeOK
<1>1. CASE RecvTop(c)
  <2>1. UdpTypeOK' /\ Lifecycle' /\ Received'
    BY <1>1 DEF RecvTop, UdpTypeOK, Lifecycle, Received, caller
  <2>2. QED
    BY <1>0, <1>1, <2>1, ListKept DEF RecvTop
<1>2. CASE Receive(c)
  <2>1. CASE buf[c] = <<>>
    <3>1. UdpTypeOK' /\ Lifecycle'
      BY <1>2, <2>1 DEF Receive, UdpTypeOK, Lifecycle, caller
    <3>2. UNCHANGED <<from, msg, maplist, errors>>
      BY <1>2, <2>1 DEF Receive
    <3>3. recvPc[c] # "store" /\ recvPc' = [recvPc EXCEPT ![c] = "top"]
      BY <1>2, <2>1 DEF Receive
    <3>4. Received'
      BY <3>2, <3>3 DEF UdpTypeOK, Received
    <3>5. QED
      BY <1>0, <3>1, <3>2, <3>4, ListKept
  <2>2. CASE buf[c] # <<>>
    <3>1. buf[c] \in Seq(Datagrams)
      BY DEF UdpTypeOK
    <3>2. Head(buf[c]) \in Datagrams /\ Tail(buf[c]) \in Seq(Datagrams)
      BY <2>2, <3>1
    <3>3. /\ Head(buf[c]).from \in Addrs
          /\ Head(buf[c]).msg \in Messages \cup {Empty}
          /\ Head(buf[c])
               = [from |-> Head(buf[c]).from, msg |-> Head(buf[c]).msg]
      BY <3>2, DatagramParts
    <3>4. UdpTypeOK'
      BY ZenonT(60), <1>2, <2>2, <3>2, <3>3 DEF Receive, UdpTypeOK, caller
    <3>5. Lifecycle'
      BY <1>2, <2>2 DEF Receive, UdpTypeOK, Lifecycle, caller
    <3>6. Received'
      <4> DEFINE d == Head(buf[c])
      <4>1. /\ from' = [from EXCEPT ![c] = d.from]
            /\ msg' = [msg EXCEPT ![c] = d.msg]
            /\ recvPc' = [recvPc EXCEPT ![c] = "store"]
        BY <1>2, <2>2 DEF Receive
      <4>2. from'[c] = d.from /\ msg'[c] = d.msg /\ recvPc'[c] = "store"
        BY <4>1 DEF UdpTypeOK
      <4>3. [from |-> from'[c], msg |-> msg'[c]] \in Datagrams
        BY <3>2, <3>3, <4>2
      <4>4. \A k \in Clients \ {c} : /\ from'[k] = from[k] /\ msg'[k] = msg[k]
                                     /\ recvPc'[k] = recvPc[k]
        BY <4>1 DEF UdpTypeOK
      <4>5. errors' = errors
        BY <1>2 DEF Receive
      <4>6. QED
        BY <4>2, <4>3, <4>4, <4>5 DEF Received
    <3>7. QED
      BY <1>0, <1>2, <3>4, <3>5, <3>6, ListKept DEF Receive
  <2>3. QED
    BY <2>1, <2>2
<1>3. CASE ReceiveFails(c)
  <2>1. errors' \in Nat /\ errors' > errors /\ errors' <= MaxErrors
    BY <1>0, <1>3 DEF ReceiveFails
  <2>2. UdpTypeOK' /\ Lifecycle'
    BY <1>0, <1>3, <2>1 DEF ReceiveFails, UdpTypeOK, Lifecycle, caller
  <2>3. Received'
    BY <1>0, <1>3, <2>1 DEF ReceiveFails, UdpTypeOK, Received
  <2>4. QED
    BY <1>0, <1>3, <2>1, <2>2, <2>3, ListKept DEF ReceiveFails
<1>4. CASE Store(c)
  <2>1. UdpTypeOK'
    BY <1>4 DEF Store, UdpTypeOK, caller, Messages
  <2>2. Lifecycle' /\ Received'
    BY <1>4 DEF Store, UdpTypeOK, Lifecycle, Received, caller
  <2>3. ListedAsAnnounced'
    <3>1. \/ from[c] \in Clients /\ msg[c] = Room[from[c]]
          \/ from[c] \in Strangers /\ msg[c] \in Messages
          \/ msg[c] = Empty /\ errors > 0
      <4>1. \/ [from |-> from[c], msg |-> msg[c]] \in Datagrams
            \/ msg[c] = Empty /\ errors > 0
        BY <1>4 DEF Store, Received
      <4>2. QED
        BY <4>1, DatagramSource
    <3>2. \A k \in Clients, d \in Addrs :
             \/ maplist'[k][d] = maplist[k][d]
             \/ /\ k = c /\ d = from[c] /\ msg[c] # Refused
                /\ maplist'[k][d] = msg[c]
      <4>1. /\ maplist \in [Clients -> [Addrs -> Rooms \cup {Other, Empty, NotListed}]]
            /\ maplist' = IF msg[c] = Refused THEN maplist
                          ELSE [maplist EXCEPT ![c][from[c]] = msg[c]]
        BY <1>4 DEF Store, UdpTypeOK
      <4>2. QED
        BY <4>1
    <3>3. errors' = errors
      BY <1>4 DEF Store
    <3>4. QED
      BY <3>1, <3>2, <3>3 DEF ListedAsAnnounced, Listed, Messages
  <2>4. QED
    BY <2>1, <2>2, <2>3
<1>5. QED
  BY <1>1, <1>2, <1>3, <1>4 DEF RecvProc

LEMMA UdpStep == UdpInv /\ [UdpNext]_udpVars => UdpInv'
<1> SUFFICES ASSUME UdpInv, [UdpNext]_udpVars PROVE UdpInv'
  OBVIOUS
<1>1. CASE UNCHANGED udpVars
  BY <1>1 DEF udpVars, UdpInv, UdpTypeOK, Lifecycle, Received,
              ListedAsAnnounced, Listed
<1>2. CASE UdpNext
  BY <1>2, CallerStep, SendStep, RecvStep, NoiseStep DEF UdpNext
<1>3. QED
  BY <1>1, <1>2

-----------------------------------------------------------------------------
(* The invariant holds of every behaviour of the clients. *)
THEOREM UdpInductive == UdpSpec => []UdpInv
<1>1. QED
  BY InitInv, UdpStep, PTL DEF UdpSpec

(* The variables keep their types. *)
THEOREM UdpTypes == UdpSpec => []UdpTypeOK
<1>1. UdpInv => UdpTypeOK
  BY DEF UdpInv
<1>2. QED
  BY <1>1, UdpInductive, PTL

(* Close waits for both threads before it closes the sockets they use. *)
THEOREM SocketsSafe == UdpSpec => []SocketsOutliveThreads
<1>1. UdpInv => SocketsOutliveThreads
  BY DEF UdpInv, Lifecycle, SocketsOutliveThreads
<1>2. QED
  BY <1>1, UdpInductive, PTL

(* After Close no thread, handle or socket is left, whatever Open did. *)
THEOREM CloseLeavesNothing == UdpSpec => []ClosedIsQuiet
<1>1. UdpInv => ClosedIsQuiet
  <2> SUFFICES ASSUME UdpInv, NEW c \in Clients, ui[c] = "closed"
               PROVE  /\ sendPc[c] \in {"none", "ended"}
                      /\ recvPc[c] \in {"none", "ended"}
                      /\ handles[c] = {} /\ sockets[c] = {}
    BY DEF ClosedIsQuiet
  <2>1. "send" \notin handles[c] /\ "recv" \notin handles[c]
    BY DEF UdpInv, Lifecycle
  <2>2. handles[c] = {} /\ sockets[c] = {}
    BY <2>1 DEF UdpInv, Lifecycle, Both
  <2>3. sendPc[c] \in {"none", "ended"} /\ recvPc[c] \in {"none", "ended"}
    BY <2>1 DEF UdpInv, UdpTypeOK, Lifecycle
  <2>4. QED
    BY <2>2, <2>3
<1>2. QED
  BY <1>1, UdpInductive, PTL

(* Every entry of the list is what that address has sent. *)
THEOREM ListIsHonest == UdpSpec => []ListedAsAnnounced
<1>1. UdpInv => ListedAsAnnounced
  BY DEF UdpInv
<1>2. QED
  BY <1>1, UdpInductive, PTL

-----------------------------------------------------------------------------
(* The window and its tree. *)

(* While the length that was seen last is that of the list, the list holds  *)
(* the same addresses as then, since it never shrinks; whose entry is still *)
(* that of the last answer is shown, or the loop has not come to the room.  *)
Coming(c, d) ==
    maplist[c][d] \in named[c] /\ d \notin moved[c] =>
        maplist[c][d] \in todo[c] \/ <<maplist[c][d], d>> \in tree[c]

ShownInv(c) ==
    ~missed[c] /\ countTip[c] = Cardinality(Listed(c)) =>
        /\ wnd[c] \in {"idle", "first"} => \A d \in Listed(c) : Shown(c, d)
        /\ wnd[c] = "build" => \A d \in Listed(c) : Coming(c, d)

CountInv(c) == countTip[c] <= Cardinality(Listed(c))

TreeInv == UdpInv /\ TypeOK /\ \A c \in Windows : CountInv(c) /\ ShownInv(c)

-----------------------------------------------------------------------------
LEMMA FiniteLists ==
    /\ IsFiniteSet(Addrs) /\ Cardinality(Addrs) \in Nat
    /\ \A c : /\ IsFiniteSet(Listed(c)) /\ Cardinality(Listed(c)) \in Nat
              /\ Cardinality(Listed(c)) <= Cardinality(Addrs)
<1>1. IsFiniteSet(Addrs)
  BY WindowsAssumption, FS_AddElement DEF Addrs
<1>2. Cardinality(Addrs) \in Nat
  BY <1>1, FS_CardinalityType
<1>3. ASSUME NEW c
      PROVE  /\ IsFiniteSet(Listed(c)) /\ Cardinality(Listed(c)) \in Nat
             /\ Cardinality(Listed(c)) <= Cardinality(Addrs)
  <2>1. Listed(c) \in SUBSET Addrs
    BY DEF Listed
  <2>2. IsFiniteSet(Listed(c)) /\ Cardinality(Listed(c)) <= Cardinality(Addrs)
    BY <1>1, <2>1, FS_Subset
  <2>3. QED
    BY <2>2, FS_CardinalityType
<1>4. QED
  BY <1>1, <1>2, <1>3

(* Nothing is taken from the list. *)
LEMMA ListGrows ==
    ASSUME UdpInv, UdpNext, NEW c \in Clients
    PROVE  Listed(c) \subseteq Listed(c)'
<1>1. /\ errors \in Nat
      /\ maplist \in [Clients -> [Addrs -> Rooms \cup {Other, Empty, NotListed}]]
      /\ msg \in [Clients -> Messages \cup {Empty}]
      /\ from \in [Clients -> Addrs]
  BY UdpAssumption DEF UdpInv, UdpTypeOK
<1>2. ASSUME maplist' = maplist
      PROVE  Listed(c) \subseteq Listed(c)'
  BY <1>2 DEF Listed
<1>3. ASSUME NEW d \in Clients,
             Open(d) \/ OpenFails(d) \/ BeginClose(d) \/ Close(d) \/ SendProc(d)
      PROVE  maplist' = maplist
  BY <1>3 DEF Open, OpenFails, BeginClose, Close, JoinSend, JoinRecv,
     CloseSockets, SendProc, SendTop, SendTo, threads
<1>4. Noise => maplist' = maplist
  BY DEF Noise
<1>5. ASSUME NEW d \in Clients, RecvTop(d) \/ Receive(d) \/ ReceiveFails(d)
      PROVE  maplist' = maplist
  BY <1>1, <1>5 DEF RecvTop, Receive, ReceiveFails
<1>6. ASSUME NEW d \in Clients, Store(d)
      PROVE  Listed(c) \subseteq Listed(c)'
  <2>1. CASE msg[d] = Refused
    BY <1>6, <2>1 DEF Store, Listed
  <2>2. CASE msg[d] # Refused
    <3>1. maplist' = [maplist EXCEPT ![d][from[d]] = msg[d]]
      BY <1>6, <2>2 DEF Store
    <3>2. msg[d] # NotListed
      BY <1>1, UdpAssumption DEF Messages
    <3>3. ASSUME NEW a \in Addrs, maplist[c][a] # NotListed
          PROVE  maplist'[c][a] # NotListed
      BY <1>1, <3>1, <3>2, <3>3
    <3>4. QED
      BY <3>1, <3>3 DEF Listed
  <2>3. QED
    BY <2>1, <2>2
<1>7. QED
  BY <1>1, <1>2, <1>3, <1>4, <1>5, <1>6 DEF UdpNext, RecvProc

(* A step of the network: who is shown, or will be, either still has the    *)
(* entry it had or has moved.                                               *)
LEMMA NetworkStep ==
    ASSUME TreeInv, UdpNext, Beside
    PROVE  TreeInv'
<1>1. UdpInv'
  BY UdpStep DEF TreeInv
<1>2. /\ UNCHANGED <<countTip, first, wnd, todo, tree, named, missed>>
      /\ moved' = [c \in Windows |->
           moved[c] \cup {d \in Listed(c) : maplist'[c][d] # maplist[c][d]}]
  BY DEF Beside, wndVars
<1>3. TypeOK'
  <2>1. moved' \in [Windows -> SUBSET Addrs]
    <3>1. \A c \in Windows : Listed(c) \subseteq Addrs /\ moved[c] \subseteq Addrs
      BY DEF TreeInv, TypeOK, Listed
    <3>2. QED
      BY <1>2, <3>1
  <2>2. QED
    BY <1>1, <1>2, <2>1 DEF TreeInv, TypeOK, UdpInv
<1>4. ASSUME NEW c \in Windows PROVE CountInv(c)' /\ ShownInv(c)'
  <2>1. CountInv(c) /\ ShownInv(c) /\ countTip[c] \in Nat /\ c \in Clients
    BY FiniteLists, WindowsAssumption DEF TreeInv, TypeOK
  <2>2. Listed(c) \subseteq Listed(c)'
    BY <2>1, ListGrows DEF TreeInv
  <2>3. PICK now, new : now = Listed(c) /\ new = Listed(c)'
    OBVIOUS
  <2>4. IsFiniteSet(new) /\ now \in SUBSET new
    <3>1. IsFiniteSet(Listed(c)')
      <4>1. Listed(c)' \in SUBSET Addrs
        BY DEF Listed
      <4>2. QED
        BY <4>1, FiniteLists, FS_Subset
    <3>2. QED
      BY <2>2, <2>3, <3>1
  <2>5. /\ Cardinality(now) <= Cardinality(new)
        /\ Cardinality(new) = Cardinality(now) => new = now
        /\ Cardinality(now) \in Nat /\ Cardinality(new) \in Nat
    BY <2>3, <2>4, FS_Subset, FS_CardinalityType, FiniteLists
  <2>6. CountInv(c)'
    BY <1>2, <2>1, <2>3, <2>5 DEF CountInv
  <2>7. ASSUME countTip[c] = Cardinality(new)
        PROVE  new = now /\ countTip[c] = Cardinality(now)
    BY <2>1, <2>3, <2>5, <2>7 DEF CountInv
  <2>8. ASSUME NEW d \in now
        PROVE  (Shown(c, d) => Shown(c, d)') /\ (Coming(c, d) => Coming(c, d)')
    <3>1. moved'[c] = moved[c] \cup {e \in Listed(c) : maplist'[c][e] # maplist[c][e]}
      BY <1>2
    <3>2. d \notin moved'[c] => d \notin moved[c] /\ maplist'[c][d] = maplist[c][d]
      BY <2>3, <2>8, <3>1
    <3>3. QED
      BY <1>2, <3>2 DEF Shown, Coming
  <2>9. ShownInv(c)'
    <3>1. SUFFICES ASSUME ~missed'[c], countTip'[c] = Cardinality(Listed(c)')
                   PROVE  /\ wnd'[c] \in {"idle", "first"} =>
                               \A d \in Listed(c)' : Shown(c, d)'
                          /\ wnd'[c] = "build" =>
                               \A d \in Listed(c)' : Coming(c, d)'
      BY DEF ShownInv
    <3>2. new = now /\ countTip[c] = Cardinality(now) /\ ~missed[c]
          /\ wnd'[c] = wnd[c]
      BY <1>2, <2>3, <2>7, <3>1
    <3>3. /\ wnd[c] \in {"idle", "first"} => \A d \in now : Shown(c, d)
          /\ wnd[c] = "build" => \A d \in now : Coming(c, d)
      BY <2>1, <2>3, <3>2 DEF ShownInv
    <3>4. QED
      BY <2>3, <2>8, <3>2, <3>3
  <2>10. QED
    BY <2>6, <2>9
<1>5. QED
  BY <1>1, <1>3, <1>4 DEF TreeInv

-----------------------------------------------------------------------------
(* The list does not change while the window takes a step. *)
LEMMA NetworkKept ==
    ASSUME TreeInv, UNCHANGED udpVars
    PROVE  /\ UdpInv' /\ UdpTypeOK' /\ errors' = errors
           /\ maplist' = maplist /\ \A c : Listed(c)' = Listed(c)
<1>1. UdpInv'
  BY UdpStep DEF TreeInv
<1>2. QED
  BY <1>1 DEF UdpInv, udpVars, Listed

(* Windows whose variables do not change keep their invariant. *)
LEMMA WindowCombine ==
    ASSUME TreeInv, UNCHANGED udpVars, NEW c \in Windows,
           TypeOK', CountInv(c)', ShownInv(c)',
           \A d \in Windows \ {c} :
               /\ countTip'[d] = countTip[d] /\ wnd'[d] = wnd[d]
               /\ todo'[d] = todo[d] /\ tree'[d] = tree[d]
               /\ named'[d] = named[d] /\ missed'[d] = missed[d]
               /\ moved'[d] = moved[d]
    PROVE  TreeInv'
<1>1. ASSUME NEW d \in Windows \ {c} PROVE CountInv(d)' /\ ShownInv(d)'
  BY NetworkKept DEF TreeInv, CountInv, ShownInv, Shown, Coming
<1>2. QED
  BY <1>1, NetworkKept DEF TreeInv

LEMMA WindowTypes ==
    ASSUME TreeInv
    PROVE  /\ countTip \in [Windows -> 0..Cardinality(Addrs)]
           /\ first \in [Windows -> BOOLEAN]
           /\ wnd \in [Windows -> {"idle", "first", "update", "build"}]
           /\ todo \in [Windows -> SUBSET Rooms]
           /\ tree \in [Windows -> SUBSET (Rooms \X Addrs)]
           /\ named \in [Windows -> SUBSET Rooms]
           /\ moved \in [Windows -> SUBSET Addrs]
           /\ missed \in [Windows -> BOOLEAN]
           /\ \A c \in Windows : CountInv(c) /\ ShownInv(c)
BY DEF TreeInv, TypeOK

LEMMA FirstLoadStep ==
    ASSUME TreeInv, NEW c \in Windows, FirstLoad(c)
    PROVE  TreeInv'
<1>1. /\ wnd[c] = "idle" /\ wnd' = [wnd EXCEPT ![c] = "first"]
      /\ UNCHANGED <<countTip, first, todo, tree, named, missed, moved>> /\ UNCHANGED udpVars
  BY DEF FirstLoad, Timer
<1>2. TypeOK'
  BY <1>1, WindowTypes, NetworkKept DEF TypeOK
<1>3. wnd'[c] = "first" /\ \A d \in Windows \ {c} : wnd'[d] = wnd[d]
  BY <1>1, WindowTypes
<1>4. CountInv(c)' /\ ShownInv(c)'
  BY <1>1, <1>3, WindowTypes, NetworkKept DEF CountInv, ShownInv, Shown, Coming
<1>5. QED
  BY <1>1, <1>2, <1>3, <1>4, WindowCombine

LEMMA CompareStep ==
    ASSUME TreeInv, NEW c \in Windows, Compare(c)
    PROVE  TreeInv'
<1>1. /\ wnd' = [wnd EXCEPT ![c] = "update"]
      /\ countTip' = [countTip EXCEPT ![c] = Cardinality(Listed(c))]
      /\ UNCHANGED <<first, todo, tree, named, missed, moved>> /\ UNCHANGED udpVars
  BY DEF Compare
<1>2. PICK n : n = Cardinality(Listed(c))
  OBVIOUS
<1>3. n \in 0..Cardinality(Addrs)
  BY <1>2, FiniteLists
<1>4. /\ wnd' \in [Windows -> {"idle", "first", "update", "build"}]
      /\ wnd'[c] = "update" /\ \A d \in Windows \ {c} : wnd'[d] = wnd[d]
  BY <1>1, WindowTypes
<1>5. /\ countTip' \in [Windows -> 0..Cardinality(Addrs)]
      /\ countTip'[c] = n
      /\ \A d \in Windows \ {c} : countTip'[d] = countTip[d]
  BY <1>1, <1>2, <1>3, WindowTypes
<1>6. TypeOK'
  BY <1>1, <1>4, <1>5, WindowTypes, NetworkKept DEF TypeOK
<1>7. CountInv(c)'
  BY <1>1, <1>2, <1>3, <1>5, NetworkKept DEF CountInv
<1>8. ShownInv(c)'
  BY <1>4 DEF ShownInv
<1>9. QED
  BY <1>1, <1>4, <1>5, <1>6, <1>7, <1>8, WindowCombine

(* Whatever rooms the answer names, the loop has them all before it. *)
LEMMA AnsweredStep ==
    ASSUME TreeInv, NEW c \in Windows, Answered(c)
    PROVE  TreeInv'
<1>1. PICK rooms \in SUBSET Rooms :
        /\ first' = [first EXCEPT ![c] = @ /\ wnd[c] # "first"]
        /\ wnd' = [wnd EXCEPT ![c] = "build"]
        /\ todo' = [todo EXCEPT ![c] = rooms]
        /\ named' = [named EXCEPT ![c] = rooms]
        /\ tree' = [tree EXCEPT ![c] = {}]
        /\ missed' = [missed EXCEPT ![c] = FALSE]
        /\ moved' = [moved EXCEPT ![c] = {}]
        /\ UNCHANGED countTip /\ UNCHANGED udpVars
  BY DEF Answered
<1>2. /\ first' \in [Windows -> BOOLEAN]
      /\ wnd' \in [Windows -> {"idle", "first", "update", "build"}]
      /\ todo' \in [Windows -> SUBSET Rooms]
      /\ named' \in [Windows -> SUBSET Rooms]
      /\ tree' \in [Windows -> SUBSET (Rooms \X Addrs)]
      /\ missed' \in [Windows -> BOOLEAN]
      /\ moved' \in [Windows -> SUBSET Addrs]
      /\ wnd'[c] = "build" /\ todo'[c] = rooms /\ named'[c] = rooms
  BY <1>1, WindowTypes
<1>3. \A d \in Windows \ {c} :
         /\ wnd'[d] = wnd[d] /\ todo'[d] = todo[d] /\ tree'[d] = tree[d]
         /\ named'[d] = named[d] /\ missed'[d] = missed[d]
         /\ moved'[d] = moved[d]
  BY <1>1, WindowTypes
<1>4. TypeOK'
  BY <1>1, <1>2, WindowTypes, NetworkKept DEF TypeOK
<1>5. CountInv(c)'
  BY <1>1, WindowTypes, NetworkKept DEF CountInv
<1>6. ShownInv(c)'
  BY <1>2 DEF ShownInv, Coming
<1>7. QED
  BY <1>1, <1>3, <1>4, <1>5, <1>6, WindowCombine

LEMMA NotAnsweredStep ==
    ASSUME TreeInv, NEW c \in Windows, NotAnswered(c)
    PROVE  TreeInv'
<1>1. /\ wnd[c] \in {"first", "update"}
      /\ missed' = [missed EXCEPT ![c] = @ \/ wnd[c] = "update"]
      /\ wnd' = [wnd EXCEPT ![c] = "idle"]
      /\ UNCHANGED <<countTip, first, todo, tree, named, moved>> /\ UNCHANGED udpVars
  BY DEF NotAnswered, Timer
<1>2. /\ wnd' \in [Windows -> {"idle", "first", "update", "build"}]
      /\ wnd'[c] = "idle" /\ \A d \in Windows \ {c} : wnd'[d] = wnd[d]
  BY <1>1, WindowTypes
<1>3. /\ missed' \in [Windows -> BOOLEAN]
      /\ ~missed'[c] => ~missed[c] /\ wnd[c] # "update"
      /\ \A d \in Windows \ {c} : missed'[d] = missed[d]
  BY <1>1, WindowTypes
<1>4. TypeOK'
  BY <1>1, <1>2, <1>3, WindowTypes, NetworkKept DEF TypeOK
<1>5. CountInv(c)'
  BY <1>1, WindowTypes, NetworkKept DEF CountInv
<1>6. ShownInv(c)'
  BY <1>1, <1>2, <1>3, WindowTypes, NetworkKept DEF ShownInv, Shown, Coming
<1>7. QED
  BY <1>1, <1>2, <1>3, <1>4, <1>5, <1>6, WindowCombine

(* Those whose entry is the room are put below it. *)
LEMMA BuildRoomStep ==
    ASSUME TreeInv, NEW c \in Windows, NEW r \in Rooms, BuildRoom(c, r)
    PROVE  TreeInv'
<1>1. /\ wnd[c] = "build"
      /\ todo' = [todo EXCEPT ![c] = @ \ {r}]
      /\ tree' = [tree EXCEPT
           ![c] = @ \cup {<<r, a>> : a \in {d \in Addrs : maplist[c][d] = r}}]
      /\ UNCHANGED <<countTip, first, wnd, named, missed, moved>>
      /\ UNCHANGED udpVars
  BY DEF BuildRoom, Timer
<1>2. /\ todo' \in [Windows -> SUBSET Rooms] /\ todo'[c] = todo[c] \ {r}
      /\ tree' \in [Windows -> SUBSET (Rooms \X Addrs)]
      /\ tree'[c] = tree[c] \cup {<<r, a>> : a \in {d \in Addrs : maplist[c][d] = r}}
      /\ \A d \in Windows \ {c} : todo'[d] = todo[d] /\ tree'[d] = tree[d]
  BY <1>1, WindowTypes
<1>3. TypeOK'
  BY <1>1, <1>2, WindowTypes, NetworkKept DEF TypeOK
<1>4. CountInv(c)'
  BY <1>1, WindowTypes, NetworkKept DEF CountInv
<1>5. ASSUME NEW d \in Addrs, Coming(c, d)
      PROVE  Coming(c, d)'
  <2>1. maplist' = maplist /\ named' = named /\ moved' = moved
    BY <1>1, NetworkKept
  <2>2. CASE maplist[c][d] = r
    <3>1. <<maplist[c][d], d>> \in tree'[c]
      BY <1>2, <2>2
    <3>2. QED
      BY <2>1, <3>1 DEF Coming
  <2>3. CASE maplist[c][d] # r
    BY <1>2, <1>5, <2>1, <2>3 DEF Coming
  <2>4. QED
    BY <2>2, <2>3
<1>6. ShownInv(c)'
  <2>1. Listed(c)' = Listed(c) /\ Listed(c) \subseteq Addrs
    BY <1>1, NetworkKept DEF Listed
  <2>2. ShownInv(c) /\ wnd'[c] = "build" /\ missed' = missed /\ countTip' = countTip
    BY <1>1, WindowTypes
  <2>3. QED
    BY <1>1, <1>5, <2>1, <2>2 DEF ShownInv
<1>7. QED
  BY <1>1, <1>2, <1>3, <1>4, <1>6, WindowCombine

LEMMA BuiltStep ==
    ASSUME TreeInv, NEW c \in Windows, Built(c)
    PROVE  TreeInv'
<1>1. /\ wnd[c] = "build" /\ todo[c] = {}
      /\ wnd' = [wnd EXCEPT ![c] = "idle"]
      /\ UNCHANGED <<countTip, first, todo, tree, named, missed, moved>> /\ UNCHANGED udpVars
  BY DEF Built, Timer
<1>2. /\ wnd' \in [Windows -> {"idle", "first", "update", "build"}]
      /\ wnd'[c] = "idle" /\ \A d \in Windows \ {c} : wnd'[d] = wnd[d]
  BY <1>1, WindowTypes
<1>3. TypeOK'
  BY <1>1, <1>2, WindowTypes, NetworkKept DEF TypeOK
<1>4. CountInv(c)' /\ ShownInv(c)'
  BY <1>1, <1>2, WindowTypes, NetworkKept DEF CountInv, ShownInv, Shown, Coming
<1>5. QED
  BY <1>1, <1>2, <1>3, <1>4, WindowCombine

-----------------------------------------------------------------------------
LEMMA TreeInit == Init => TreeInv
<1>1. SUFFICES ASSUME Init PROVE TreeInv
  OBVIOUS
<1>2. UdpInv
  BY <1>1, InitInv DEF Init
<1>3. TypeOK
  <2>1. 0 \in 0..Cardinality(Addrs)
    BY FiniteLists
  <2>2. QED
    BY <1>1, <1>2, <2>1 DEF Init, TypeOK, UdpInv
<1>4. ASSUME NEW c \in Windows PROVE CountInv(c) /\ ShownInv(c)
  <2>1. c \in Clients /\ Listed(c) = {} /\ countTip[c] = 0
    BY <1>1, WindowsAssumption DEF Init, UdpInit, Listed
  <2>2. Cardinality(Listed(c)) \in Nat /\ wnd[c] = "idle"
    BY <1>1, FiniteLists DEF Init
  <2>3. QED
    BY <2>1, <2>2 DEF CountInv, ShownInv
<1>5. QED
  BY <1>2, <1>3, <1>4 DEF TreeInv

LEMMA TreeStep == TreeInv /\ [Next]_vars => TreeInv'
<1>1. SUFFICES ASSUME TreeInv, [Next]_vars PROVE TreeInv'
  OBVIOUS
<1>2. CASE UNCHANGED vars
  <2>1. UNCHANGED udpVars /\ UNCHANGED wndVars /\ moved' = moved
    BY <1>2 DEF vars
  <2>2. TypeOK'
    BY <1>1, <2>1, WindowTypes, NetworkKept DEF TypeOK, wndVars
  <2>3. \A c \in Windows : CountInv(c)' /\ ShownInv(c)'
    BY <1>1, <2>1, WindowTypes, NetworkKept
       DEF CountInv, ShownInv, Shown, Coming, wndVars
  <2>4. QED
    BY <1>1, <2>1, <2>2, <2>3, NetworkKept DEF TreeInv
<1>3. CASE UdpNext /\ Beside
  BY <1>1, <1>3, NetworkStep
<1>4. ASSUME NEW c \in Windows, Window(c) PROVE TreeInv'
  BY <1>1, <1>4, FirstLoadStep, CompareStep, AnsweredStep, NotAnsweredStep,
     BuildRoomStep, BuiltStep DEF Window, Build
<1>5. QED
  BY <1>1, <1>2, <1>3, <1>4 DEF Next

(* TreeInv is inductive, for any finite network, any windows and whatever   *)
(* rooms the server names: while no new length is seen, each address of the *)
(* list is shown below its room, or the loop is still to come to the room,  *)
(* or the server did not name it, or the address has moved.                 *)
THEOREM TreeInductive == Spec => []TreeInv
<1>1. QED
  BY TreeInit, TreeStep, PTL DEF Spec

(* Every variable keeps its type: no more is counted than addresses exist.  *)
THEOREM TreeTypes == Spec => []TypeOK
<1>1. TreeInv => TypeOK
  BY DEF TreeInv
<1>2. QED
  BY <1>1, TreeInductive, PTL

(* Comparing lengths is enough for whoever keeps to a room that the server  *)
(* names: who joined while the tree was being built is shown below that     *)
(* room, or the lengths differ and it will be.                              *)
THEOREM NobodyIsForgotten == Spec => []NobodyForgotten
<1>1. TreeInv => NobodyForgotten
  BY DEF TreeInv, ShownInv, NobodyForgotten, Timer
<1>2. QED
  BY <1>1, TreeInductive, PTL

(* What CUdpBroadcast promises holds below the window too: threads do not   *)
(* outlive their sockets, and an address is listed as it announced itself.  *)
THEOREM TreeListHonest == Spec => [](SocketsOutliveThreads /\ ListedAsAnnounced)
<1>1. TreeInv => SocketsOutliveThreads /\ ListedAsAnnounced
  BY DEF TreeInv, UdpInv, Lifecycle, SocketsOutliveThreads
<1>2. QED
  BY <1>1, TreeInductive, PTL
=============================================================================
