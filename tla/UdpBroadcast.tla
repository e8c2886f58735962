---------------------------- MODULE UdpBroadcast ----------------------------
(***************************************************************************)
(* Discovery of the other clients of a local network: CUdpBroadcast        *)
(* (LoganManager/UdpBroadcast.cpp), one object per client.  SendProc       *)
(* broadcasts the client's room once a second, RecvProc lists what         *)
(* arrives under the sender's address.  Open starts the two threads, Close *)
(* joins them and closes the sockets.                                      *)
(*                                                                         *)
(* A datagram reaches any of the open sockets, its sender's included, or   *)
(* none.  A receive buffer is in order; what finds it full is dropped.     *)
(***************************************************************************)
EXTENDS Integers, Sequences, FiniteSets

CONSTANTS
    Clients,     \* addresses of the clients
    Strangers,   \* other addresses that use the port, among them clients that
                 \* log in from one room and later, started again, from another
    NoAddr,      \* "0.0.0.0", RecvProc's address before the first datagram
    Room,        \* m_loginIp of each client, which Open gets as password
    Refused,     \* the messages "no" and "nono"
    Other,       \* any other message of a stranger
    Empty,       \* the empty message
    NotListed,   \* an address that is not a key of maplist
    BufSize,     \* bound: datagrams a receive buffer holds
    MaxErrors    \* bound: failed calls of recvfrom

Rooms == {Room[c] : c \in Clients}
Addrs == Clients \cup Strangers \cup {NoAddr}
Messages == Rooms \cup {Refused, Other}
(* A client announces its room, a stranger sends anything. *)
Datagrams == {[from |-> c, msg |-> Room[c]] : c \in Clients}
             \cup [from : Strangers, msg : Messages]

ASSUME UdpAssumption ==
    /\ DOMAIN Room = Clients
    /\ Clients \cap Strangers = {} /\ NoAddr \notin Clients \cup Strangers
    /\ Refused \notin Rooms /\ Empty \notin Rooms /\ Refused # Other
    /\ NotListed \notin Rooms \cup {Refused, Other, Empty}
    /\ BufSize \in Nat /\ MaxErrors \in Nat

VARIABLES
    ui,             \* where the thread is that calls Open and Close
    m_nThreadState,
    handles,        \* which of m_hSendThread and m_hRecvThread are not NULL
    sockets,        \* m_nSendSocket and m_nRecvSocket, if open and bound
    sendPc, recvPc, \* where the threads are
    from, msg,      \* RecvProc's addr and szRecvBuf
    maplist,        \* the message listed for each address
    buf,            \* the buffer of each receive socket
    errors          \* history: failed calls of recvfrom

udpVars == <<ui, m_nThreadState, handles, sockets, sendPc, recvPc, from, msg,
             maplist, buf, errors>>

Both == {"send", "recv"}

UdpTypeOK ==
    /\ ui \in [Clients -> {"new", "open", "joinSend", "joinRecv",
                           "closeSockets", "closed"}]
    /\ m_nThreadState \in [Clients -> {0, 1}]
    /\ handles \in [Clients -> SUBSET Both]
    /\ sockets \in [Clients -> SUBSET (Both \cup {"unbound"})]
    /\ sendPc \in [Clients -> {"none", "top", "sendto", "ended"}]
    /\ recvPc \in [Clients -> {"none", "top", "select", "store", "ended"}]
    /\ from \in [Clients -> Addrs]
    /\ msg \in [Clients -> Messages \cup {Empty}]
    /\ maplist \in [Clients ->
                      [Addrs -> Rooms \cup {Other, Empty, NotListed}]]
    /\ buf \in [Clients -> Seq(Datagrams)]
    /\ errors \in 0..MaxErrors

UdpInit ==
    /\ ui = [c \in Clients |-> "new"]
    /\ m_nThreadState = [c \in Clients |-> 0]
    /\ handles = [c \in Clients |-> {}]
    /\ sockets = [c \in Clients |-> {}]
    /\ sendPc = [c \in Clients |-> "none"]
    /\ recvPc = [c \in Clients |-> "none"]
    /\ from = [c \in Clients |-> NoAddr]
    /\ msg = [c \in Clients |-> Empty]
    /\ maplist = [c \in Clients |-> [a \in Addrs |-> NotListed]]
    /\ buf = [c \in Clients |-> <<>>]
    /\ errors = 0

Listed(c) == {a \in Addrs : maplist[c][a] # NotListed}

-----------------------------------------------------------------------------
(* The caller *)

threads == <<sendPc, recvPc, from, msg, maplist, errors>>

(* Open succeeds: both sockets, then both threads. *)
Open(c) ==
    /\ ui[c] = "new"
    /\ ui' = [ui EXCEPT ![c] = "open"]
    /\ sockets' = [sockets EXCEPT ![c] = Both]
    /\ m_nThreadState' = [m_nThreadState EXCEPT ![c] = 1]
    /\ handles' = [handles EXCEPT ![c] = Both]
    /\ recvPc' = [recvPc EXCEPT ![c] = "top"]
    /\ sendPc' = [sendPc EXCEPT ![c] = "top"]
    /\ UNCHANGED <<from, msg, maplist, buf, errors>>

(* Open fails and leaves the sockets it made; its caller ignores that. *)
OpenFails(c) ==
    /\ ui[c] = "new"
    /\ ui' = [ui EXCEPT ![c] = "open"]
    /\ \E made \in {{}, {"send"}, {"send", "unbound"}} :
         sockets' = [sockets EXCEPT ![c] = made]
    /\ UNCHANGED <<m_nThreadState, handles, buf, threads>>

(* Close.  The destructor calls it once more, which changes nothing. *)
BeginClose(c) ==
    /\ ui[c] \in {"new", "open"}
    /\ ui' = [ui EXCEPT ![c] = "joinSend"]
    /\ m_nThreadState' = [m_nThreadState EXCEPT ![c] = 0]
    /\ UNCHANGED <<handles, sockets, buf, threads>>

JoinSend(c) ==
    /\ ui[c] = "joinSend"
    /\ "send" \in handles[c] => sendPc[c] = "ended"
    /\ handles' = [handles EXCEPT ![c] = @ \ {"send"}]
    /\ ui' = [ui EXCEPT ![c] = "joinRecv"]
    /\ UNCHANGED <<m_nThreadState, sockets, buf, threads>>

(* Mutant: Close does not wait for RecvProc. *)
JoinRecv_NoWait(c) ==
    /\ ui[c] = "joinRecv"
    /\ handles' = [handles EXCEPT ![c] = @ \ {"recv"}]
    /\ ui' = [ui EXCEPT ![c] = "closeSockets"]
    /\ UNCHANGED <<m_nThreadState, sockets, buf, threads>>

JoinRecv(c) ==
    /\ ui[c] = "joinRecv"
    /\ "recv" \in handles[c] => recvPc[c] = "ended"
    /\ handles' = [handles EXCEPT ![c] = @ \ {"recv"}]
    /\ ui' = [ui EXCEPT ![c] = "closeSockets"]
    /\ UNCHANGED <<m_nThreadState, sockets, buf, threads>>

CloseSockets(c) ==
    /\ ui[c] = "closeSockets"
    /\ sockets' = [sockets EXCEPT ![c] = {}]
    /\ buf' = [buf EXCEPT ![c] = <<>>]
    /\ ui' = [ui EXCEPT ![c] = "closed"]
    /\ UNCHANGED <<m_nThreadState, handles, threads>>

-----------------------------------------------------------------------------
(* The threads *)

caller == <<ui, m_nThreadState, handles, sockets>>

SendTop(c) ==
    /\ sendPc[c] = "top"
    /\ sendPc' = [sendPc EXCEPT
                    ![c] = IF m_nThreadState[c] = 1 THEN "sendto" ELSE "ended"]
    /\ UNCHANGED <<recvPc, from, msg, maplist, buf, errors, caller>>

(* A datagram arrives in the buffers of some of the clients. *)
Arrives(d, who) ==
    buf' = [c \in Clients |->
              IF c \in who /\ "recv" \in sockets[c] /\ Len(buf[c]) < BufSize
              THEN Append(buf[c], d) ELSE buf[c]]

SendTo(c) ==
    /\ sendPc[c] = "sendto"
    /\ \E who \in SUBSET Clients : Arrives([from |-> c, msg |-> Room[c]], who)
    /\ sendPc' = [sendPc EXCEPT ![c] = "top"]
    /\ UNCHANGED <<recvPc, from, msg, maplist, errors, caller>>

(* Mutant: the thread does not look at m_nThreadState. *)
RecvTop_ForEver(c) ==
    /\ recvPc[c] = "top"
    /\ recvPc' = [recvPc EXCEPT ![c] = "select"]
    /\ UNCHANGED <<sendPc, from, msg, maplist, buf, errors, caller>>

RecvTop(c) ==
    /\ recvPc[c] = "top"
    /\ recvPc' = [recvPc EXCEPT
                    ![c] = IF m_nThreadState[c] = 1 THEN "select" ELSE "ended"]
    /\ UNCHANGED <<sendPc, from, msg, maplist, buf, errors, caller>>

(* Mutant: the sender's address is that of the first datagram. *)
Receive_FirstAddr(c) ==
    /\ recvPc[c] = "select" /\ buf[c] # <<>>
    /\ from' = [from EXCEPT ![c] = IF @ = NoAddr THEN Head(buf[c]).from ELSE @]
    /\ msg' = [msg EXCEPT ![c] = Head(buf[c]).msg]
    /\ buf' = [buf EXCEPT ![c] = Tail(@)]
    /\ recvPc' = [recvPc EXCEPT ![c] = "store"]
    /\ UNCHANGED <<sendPc, maplist, errors, caller>>

(* select and recvfrom: a datagram, or none within two seconds. *)
Receive(c) ==
    /\ recvPc[c] = "select"
    /\ IF buf[c] = <<>>
       THEN /\ recvPc' = [recvPc EXCEPT ![c] = "top"]
            /\ UNCHANGED <<from, msg, buf>>
       ELSE /\ from' = [from EXCEPT ![c] = Head(buf[c]).from]
            /\ msg' = [msg EXCEPT ![c] = Head(buf[c]).msg]
            /\ buf' = [buf EXCEPT ![c] = Tail(@)]
            /\ recvPc' = [recvPc EXCEPT ![c] = "store"]
    /\ UNCHANGED <<sendPc, maplist, errors, caller>>

(* recvfrom fails: its result is not 0, szRecvBuf is as memset left it, and *)
(* addr is still the last sender.                                           *)
ReceiveFails(c) ==
    /\ recvPc[c] = "select" /\ errors < MaxErrors
    /\ errors' = errors + 1
    /\ recvPc' = [recvPc EXCEPT ![c] = "store"]
    /\ UNCHANGED <<sendPc, from, msg, maplist, buf, caller>>

(* The message is listed, and memset clears the buffer for the next.        *)
Store(c) ==
    /\ recvPc[c] = "store"
    /\ maplist' = IF msg[c] = Refused THEN maplist
                  ELSE [maplist EXCEPT ![c][from[c]] = msg[c]]
    /\ msg' = [msg EXCEPT ![c] = Empty]
    /\ recvPc' = [recvPc EXCEPT ![c] = "top"]
    /\ UNCHANGED <<sendPc, from, buf, errors, caller>>

(* Something else sends to the port. *)
Noise ==
    /\ \E s \in Strangers, m \in Messages, c \in Clients :
         Arrives([from |-> s, msg |-> m], {c})
    /\ UNCHANGED <<sendPc, recvPc, from, msg, maplist, errors, caller>>

-----------------------------------------------------------------------------
Close(c) == JoinSend(c) \/ JoinRecv(c) \/ CloseSockets(c)
SendProc(c) == SendTop(c) \/ SendTo(c)
RecvProc(c) == RecvTop(c) \/ Receive(c) \/ ReceiveFails(c) \/ Store(c)

UdpNext ==
    \/ \E c \in Clients : \/ Open(c) \/ OpenFails(c) \/ BeginClose(c)
                          \/ Close(c) \/ SendProc(c) \/ RecvProc(c)
    \/ Noise

UdpSpec == UdpInit /\ [][UdpNext]_udpVars
(* Both threads are scheduled; Close, once called, goes on. *)
UdpFairness ==
    \A c \in Clients : /\ WF_udpVars(SendProc(c)) /\ WF_udpVars(RecvProc(c))
                       /\ WF_udpVars(Close(c))

-----------------------------------------------------------------------------
(* A thread uses its socket only while that is open: Close waits for both   *)
(* threads before it closes the sockets.                                    *)
SocketsOutliveThreads ==
    \A c \in Clients :
        /\ sendPc[c] = "sendto" => "send" \in sockets[c]
        /\ recvPc[c] \in {"select", "store"} => "recv" \in sockets[c]

(* After Close nothing is left of an Open, however far that came: no thread *)
(* that runs, no handle, no socket.                                         *)
ClosedIsQuiet ==
    \A c \in Clients : ui[c] = "closed" =>
        /\ sendPc[c] \in {"none", "ended"} /\ recvPc[c] \in {"none", "ended"}
        /\ handles[c] = {} /\ sockets[c] = {}

(* What is listed for an address is what that address has sent, never a     *)
(* refusal and never the message of another: a client is listed with its    *)
(* own room.  A recvfrom that failed may have blanked an entry.             *)
ListedAsAnnounced ==
    \A c \in Clients : \A d \in Listed(c) :
        \/ d \in Clients /\ maplist[c][d] = Room[d]
        \/ d \in Strangers /\ maplist[c][d] \in Rooms \cup {Other}
        \/ errors > 0 /\ maplist[c][d] = Empty

(* Close returns: no caller stays in it for ever. *)
CloseReturns ==
    \A c \in Clients : []<>(ui[c] \notin {"joinSend", "joinRecv", "closeSockets"})

=============================================================================
