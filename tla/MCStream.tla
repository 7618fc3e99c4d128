------------------------------ MODULE MCStream ------------------------------
(* An instance of Stream for TLC.                                          *)
EXTENDS Stream

Sizes == {1, 2, 4, 6}
=============================================================================
