---------------------------- MODULE MCCollection ----------------------------
(* An instance of Collection for TLC: two links the same way, toxics both. *)
EXTENDS Collection

CONSTANTS k1, k2, l1, l2

BothDown == [l \in Links |-> "downstream"]
=============================================================================
