----------------------------- MODULE PacketList -----------------------------
(***************************************************************************)
(* The linked list inside PacketQueue (VideoPlayer/VideoPlayer.cpp), where *)
(* VideoPlayer has a sequence of packets.  PktQuePut, PktQueGet and        *)
(* PktQueFlush hold the queue's mutex from their first access to the list  *)
(* to the last, so each is one operator here as it is there.  The heap is  *)
(* the AVPacketList nodes that are allocated, by address.                  *)
(***************************************************************************)
EXTENDS VideoPlayer

NULL  == 0
Nodes == Nat \ {NULL}

(* PktQueInit zeroes the struct, whatever it held. *)
NewList == [heap |-> <<>>, first_pkt |-> NULL, last_pkt |-> NULL,
            nb_packets |-> 0, size |-> 0]

(* p goes behind the last packet, in the node that av_malloc returned. *)
ListPut(L, node, p) ==
    LET linked == IF L.last_pkt = NULL THEN L.heap
                  ELSE [L.heap EXCEPT ![L.last_pkt].next = node]
    IN  [heap |-> [n \in DOMAIN L.heap \cup {node} |->
                     IF n = node THEN [pkt |-> p, next |-> NULL]
                                 ELSE linked[n]],
         first_pkt |-> IF L.last_pkt = NULL THEN node ELSE L.first_pkt,
         last_pkt |-> node,
         nb_packets |-> L.nb_packets + 1,
         size |-> L.size + Bytes(p)]

(* The first packet is taken, and its node freed. *)
ListGet(L) ==
    LET head == L.heap[L.first_pkt]
    IN  [heap |-> [n \in DOMAIN L.heap \ {L.first_pkt} |-> L.heap[n]],
         first_pkt |-> head.next,
         last_pkt |-> IF head.next = NULL THEN NULL ELSE L.last_pkt,
         nb_packets |-> L.nb_packets - 1,
         size |-> L.size - Bytes(head.pkt)]

(* S holds the first node, and the next of each node it holds. *)
Follows(L, S) ==
    /\ L.first_pkt # NULL => L.first_pkt \in S
    /\ \A m \in S : L.heap[m].next # NULL => L.heap[m].next \in S

(* The nodes that the walk from first_pkt along next comes to: those in     *)
(* every such set.                                                          *)
Walked(L) ==
    {n \in DOMAIN L.heap :
        \A S \in SUBSET DOMAIN L.heap : Follows(L, S) => n \in S}

(* Every node on the walk is freed. *)
ListFlush(L) ==
    [NewList EXCEPT !.heap = [n \in DOMAIN L.heap \ Walked(L) |-> L.heap[n]]]

(* What may happen to a list in one step of the player.  PktQueInit is      *)
(* called on an empty list only: it would free nothing.                     *)
ListStep(L, M) ==
    \/ M = L
    \/ \E node \in Nodes \ DOMAIN L.heap, p \in Packets : M = ListPut(L, node, p)
    \/ L.first_pkt # NULL /\ M = ListGet(L)
    \/ M = ListFlush(L)
    \/ DOMAIN L.heap = {} /\ M = NewList

-----------------------------------------------------------------------------
(* L is the queue Q: path are the addresses of the nodes, in order and each *)
(* once, with the packets of Q; the two pointers, the links and the two     *)
(* counts agree with it, and no other node is allocated.                    *)
Represents(L, path, Q) ==
    /\ path \in Seq(Nodes) /\ Len(path) = Len(Q.pkts)
    /\ \A i, j \in 1..Len(path) : path[i] = path[j] => i = j
    /\ DOMAIN L.heap = {path[i] : i \in 1..Len(path)}
    /\ \A i \in 1..Len(path) :
          L.heap[path[i]] =
              [pkt |-> Q.pkts[i],
               next |-> IF i = Len(path) THEN NULL ELSE path[i + 1]]
    /\ L.first_pkt = IF path = <<>> THEN NULL ELSE path[1]
    /\ L.last_pkt = IF path = <<>> THEN NULL ELSE path[Len(path)]
    /\ L.nb_packets = Len(path) /\ L.size = Q.size

(* Each function of the list does to the queue that the list stands for     *)
(* what VideoPlayer's operator of that name does.                           *)
Implements(L, path, Q) ==
    /\ Represents(NewList, <<>>, Emptied)
    /\ Represents(ListFlush(L), <<>>, Emptied)
    /\ Q.pkts = <<>> <=> L.first_pkt = NULL
    /\ Q.pkts # <<>> =>
          /\ L.heap[L.first_pkt].pkt = Head(Q.pkts)
          /\ Represents(ListGet(L), Tail(path), PktQueGet(Q))
=============================================================================
