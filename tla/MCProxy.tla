------------------------------ MODULE MCProxy ------------------------------
(* Instances of Proxy for TLC.                                             *)
EXTENDS Proxy, TLC

CONSTANTS k1, k2, c1, c2, s1, s2

OwnAddress == [c \in Conns |-> c]    \* every connection its own
OneAddress == [c \in Conns |-> c1]   \* the client reuses its port

Symmetry == Permutations({k1, k2}) \cup Permutations({s1, s2})
=============================================================================
