----------------------------- MODULE MCRegistry -----------------------------
(* An instance of Registry for TLC: two names; two addresses a listener    *)
(* can have, a host name for one of them, port 0, and a host name that     *)
(* does not resolve.                                                       *)
EXTENDS Registry

CONSTANTS k1, k2, n1, n2, a1, a2, host, port0, bad

Resolved == [a \in Addresses |->
               CASE a = host -> a1 [] a = bad -> Nobody [] OTHER -> a]
Bound == [a \in Addresses |->
            CASE a = host -> {a1} [] a = port0 -> {a1, a2} [] a = bad -> {} [] OTHER -> {a}]

On(n, a)  == [name |-> n, listen |-> a, start |-> TRUE]
Off(n, a) == [name |-> n, listen |-> a, start |-> FALSE]

SomeBodies == {On(n1, host), Off(n1, bad), On(n2, a1)}
SomeLists == {<<On(n1, host), On(n2, port0)>>, <<Off(n1, bad)>>}
=============================================================================
