------------------------------- MODULE BytePipe -------------------------------
(***************************************************************************)
(* What a ToxicLink promises the two connections it joins: the destination *)
(* is given the source's bytes, each once, in order and without a gap, and *)
(* its end of stream after the last of them; and neither the bytes nor the *)
(* end of stream stay under way for ever, while the API changes the toxics.*)
(* A toxic that cuts the stream short releases the link from giving the    *)
(* rest, never from the order, and it may close the destination early.     *)
(* A link that breaks promises nothing from then on; whoever implements    *)
(* this says when it does.                                                 *)
(***************************************************************************)
EXTENDS Naturals, Sequences

VARIABLES
  taken,   \* how many bytes have been read from the source
  given,   \* the offsets of the bytes the destination has been given
  ended,   \* the source has ended
  cut,     \* a toxic has cut the stream short
  broken,  \* the link no longer keeps its promise
  closed   \* the destination has been closed

vars == <<taken, given, ended, cut, broken, closed>>

Init == taken = 0 /\ given = <<>> /\ ~ended /\ ~cut /\ ~broken /\ ~closed

Take ==
  /\ ~ended
  /\ taken' \in Nat /\ taken' > taken
  /\ UNCHANGED <<given, ended, cut, broken, closed>>

End ==
  /\ ended' = TRUE
  /\ UNCHANGED <<taken, given, cut, broken, closed>>

Cut ==
  /\ cut' = TRUE
  /\ UNCHANGED <<taken, given, ended, broken, closed>>

Give(n) ==
  /\ Len(given) + n <= taken
  /\ given' = given \o [i \in 1 .. n |-> Len(given) + i]
  /\ UNCHANGED <<taken, ended, cut, broken, closed>>

Close ==
  /\ cut \/ (ended /\ Len(given) = taken)
  /\ closed' = TRUE
  /\ UNCHANGED <<taken, given, ended, cut, broken>>

GiveSome == \E n \in 1 .. taken - Len(given) : Give(n)

Break == broken' = TRUE

Next == Break \/ (~broken /\ (Take \/ End \/ Cut \/ GiveSome \/ Close))

Spec ==
  /\ Init /\ [][Next]_vars
  /\ WF_vars(~broken /\ ~cut /\ GiveSome)
  /\ WF_vars(~broken /\ ended /\ ~cut /\ Close)
=============================================================================
