------------------------------ MODULE ToxicSet ------------------------------
(***************************************************************************)
(* What a ToxicCollection promises its callers: for each direction a list  *)
(* of toxics, names being unique over both, which calls change at once;    *)
(* and a listing of it at one moment for whoever asks.                     *)
(***************************************************************************)
EXTENDS Sequences, SequencesExt

CONSTANTS Callers, Names

VARIABLES
  upstream,    \* the names of the toxics, in the order data meets them
  downstream,
  answer       \* the listing each caller is being given

vars == <<upstream, downstream, answer>>

Used == Range(upstream) \cup Range(downstream)

Init ==
  /\ upstream = <<>> /\ downstream = <<>>
  /\ answer = [k \in Callers |-> <<>>]

Insert(n) ==
  /\ n \notin Used
  /\ \/ upstream' = Append(upstream, n) /\ UNCHANGED downstream
     \/ downstream' = Append(downstream, n) /\ UNCHANGED upstream
  /\ UNCHANGED answer

Delete ==
  /\ \/ \E i \in 1 .. Len(upstream) : upstream' = RemoveAt(upstream, i) /\ UNCHANGED downstream
     \/ \E i \in 1 .. Len(downstream) : downstream' = RemoveAt(downstream, i) /\ UNCHANGED upstream
  /\ UNCHANGED answer

Reset ==
  /\ upstream' = <<>> /\ downstream' = <<>>
  /\ UNCHANGED answer

List(k) ==
  /\ answer' = [answer EXCEPT ![k] = upstream \o downstream]
  /\ UNCHANGED <<upstream, downstream>>

Show(k, n) ==
  /\ answer' = [answer EXCEPT ![k] = IF n \in Used THEN <<n>> ELSE <<>>]
  /\ UNCHANGED <<upstream, downstream>>

Told(k) ==
  /\ answer' = [answer EXCEPT ![k] = <<>>]
  /\ UNCHANGED <<upstream, downstream>>

Next ==
  \/ Delete \/ Reset
  \/ \E n \in Names : Insert(n)
  \/ \E k \in Callers : List(k) \/ Told(k) \/ \E n \in Names : Show(k, n)

Spec == Init /\ [][Next]_vars
=============================================================================
