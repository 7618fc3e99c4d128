------------------------------ MODULE Service ------------------------------
(***************************************************************************)
(* What a proxy promises to those who configure it: it is up or down, goes *)
(* down with all its connections, changes its settings only while it is    *)
(* down, and connects clients to the settings it has.                      *)
(***************************************************************************)
CONSTANTS Conns, Settings, Nobody

VARIABLES up, config, serves   \* serves: the settings each connection has, if any

vars == <<up, config, serves>>

Init == up = FALSE /\ config \in Settings /\ serves = [c \in Conns |-> Nobody]

GoUp == ~up /\ up' = TRUE /\ UNCHANGED <<config, serves>>

GoDown ==
  /\ up /\ up' = FALSE
  /\ serves' = [c \in Conns |-> Nobody]
  /\ UNCHANGED config

Configure == ~up /\ config' \in Settings /\ UNCHANGED <<up, serves>>

Serve(c) ==
  /\ up /\ serves[c] = Nobody
  /\ serves' = [serves EXCEPT ![c] = config]
  /\ UNCHANGED <<up, config>>

Disconnect(c) ==
  /\ serves[c] # Nobody
  /\ serves' = [serves EXCEPT ![c] = Nobody]
  /\ UNCHANGED <<up, config>>

Next ==
  \/ GoUp \/ GoDown \/ Configure
  \/ \E c \in Conns : Serve(c) \/ Disconnect(c)

Spec == Init /\ [][Next]_vars
=============================================================================
