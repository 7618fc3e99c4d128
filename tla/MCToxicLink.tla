----------------------------- MODULE MCToxicLink -----------------------------
(***************************************************************************)
(* ToxicLink for TLC.  A toxic is named after its type, as a toxic created *)
(* without a name is.                                                      *)
(***************************************************************************)
EXTENDS ToxicLink

NameIsType == [t \in Toxics \cup {Noop} |-> t]

(* The API takes any number, also one that makes no sense.                 *)
AnyAttr == {-1, 0, 2}
=============================================================================
