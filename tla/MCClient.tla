------------------------------ MODULE MCClient ------------------------------
(* An instance of Client for TLC: one name; one address a listener can    *)
(* have and a host name for it.                                            *)
EXTENDS Client, TLC

CONSTANTS k1, k2, c1, n1, a1, host

Resolved == [a \in Addresses |-> IF a = host THEN a1 ELSE a]
Bound == [a \in Addresses |-> IF a = host THEN {a1} ELSE {a}]

SomeBodies == {[name |-> n1, listen |-> host, start |-> b] : b \in BOOLEAN}
SomeLists == {<<[name |-> n1, listen |-> a1, start |-> TRUE]>>}
Configured == <<[name |-> n1, listen |-> host, start |-> TRUE]>>

Symmetry == Permutations({k1, k2})
=============================================================================
