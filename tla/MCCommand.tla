------------------------------ MODULE MCCommand ------------------------------
(* Values for TLC: data at the limits of the length byte.                    *)
EXTENDS Command

Ones(n)   == [i \in 1..n |-> 1]
SomeData  == {<<>>, <<7, 9>>, Ones(255)}
==============================================================================
