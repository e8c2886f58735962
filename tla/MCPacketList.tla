---------------------------- MODULE MCPacketList -----------------------------
(* The player with its lists, for the run stop: TLC evaluates what the list *)
(* functions do before it starts.                                           *)
EXTENDS MCVideoPlayer, PacketList

(* The list with the packets of Q in the nodes of path. *)
ListOf(path, Q) ==
    LET n == Len(path)
        Place(a) == CHOOSE i \in 1..n : path[i] = a
    IN  [heap |-> [a \in {path[i] : i \in 1..n} |->
                     [pkt |-> Q.pkts[Place(a)],
                      next |-> IF Place(a) = n THEN NULL ELSE path[Place(a) + 1]]],
         first_pkt |-> IF n = 0 THEN NULL ELSE path[1],
         last_pkt |-> IF n = 0 THEN NULL ELSE path[n],
         nb_packets |-> n, size |-> Q.size]

(* The functions on lists of up to three nodes, which TLC tries out.        *)
ASSUME ListAssumption ==
    \A n \in 0..3 : \A pkts \in [1..n -> {0, PktFlush}], path \in [1..n -> 1..4] :
        LET Q == [pkts |-> pkts, size |-> Cardinality({i \in 1..n : pkts[i] = 0})]
            L == ListOf(path, Q)
        IN  Cardinality({path[i] : i \in 1..n}) = n =>
              /\ Represents(L, path, Q) /\ Implements(L, path, Q)
              /\ \A node \in (1..4) \ DOMAIN L.heap, p \in {0, PktFlush} :
                    Represents(ListPut(L, node, p), Append(path, node),
                               PktQuePut(Q, p))
==============================================================================
