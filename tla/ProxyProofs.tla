----------------------------- MODULE ProxyProofs -----------------------------
(***************************************************************************)
(* Theorems about Proxy, for any number of handlers, starts, clients and   *)
(* changes.  What is said of the connections assumes that no two of them   *)
(* have the same remote address: a client that reuses its port is what     *)
(* breaks those properties (the run of ActiveDropped).                     *)
(***************************************************************************)
EXTENDS Proxy, FiniteSetTheorems, SequenceTheorems, TLAPS

(* The handlers: one at a time works on the proxy, and those that wait for *)
(* a server to come or to go have not marked it as enabled.                *)
InCall(k) == caller[k].pc \notin {"idle", "lock"}

CallerOK(k) ==
  LET c == caller[k] IN
  /\ InCall(k) <=> lock = k
  /\ c.pc = "idle" => c.op = "stop"
  /\ c.pc \in {"start", "started"} => c.op # "stop"
  /\ c.pc \in {"update", "assign", "toggle"} => c.op = "update"
  /\ c.op = "update" => c.input \in Input
  /\ c.pc \in {"started", "wait", "close", "assign"} => ~enabled

CallersOK == \A k \in Callers : CallerOK(k)

(* Each handler that may still start the proxy has a generation left.      *)
MayStillStart == {k \in Starting : caller[k].pc # "started"}
StartsLeft == gen + Cardinality(MayStillStart) <= MaxStarts

(* The goroutines of a start: before server() has sent its answer, while   *)
(* it serves, while stop() waits for it, and when there is none.           *)
Working == {"spawn", "accept", "dial", "register", "upstream", "downstream"}
Holding == {"dial", "register", "upstream", "downstream"}

Launching == \E k \in Callers : caller[k].pc = "started"
Waiting   == \E k \in Callers : caller[k].pc = "wait"

OldOnesDone ==
  \A g \in Gens :
    /\ g > gen => server[g].pc = "off" /\ blocker[g] = "off"
    /\ g < gen => server[g].pc = "done" /\ blocker[g] \in {"off", "done"}
    /\ server[g].conn # Nobody <=> server[g].pc \in Holding

Launched ==
  Launching =>
    /\ gen \in Gens /\ tomb = "alive" /\ blocker[gen] = "off"
    /\ \/ server[gen].pc \in {"listen", "error"} /\ open = {}
       \/ server[gen].pc = "ok" /\ listener = gen /\ open = {gen}

Served ==
  enabled \/ Waiting =>
    /\ gen \in Gens /\ listener = gen
    /\ server[gen].pc \in Working \cup {"done"}
    /\ server[gen].pc = "spawn" <=> blocker[gen] = "off"
    /\ open = IF blocker[gen] \in {"off", "wait"} THEN {gen} ELSE {}
    /\ enabled => /\ tomb = "alive" /\ blocker[gen] \in {"off", "wait"}
                  /\ AcceptMayFail \/ server[gen].pc # "done"
    /\ Waiting => tomb # "alive" /\ (tomb = "dead" <=> blocker[gen] = "done")
    /\ blocker[gen] = "done" => server[gen].pc = "done"

Down ==
  ~enabled /\ ~Waiting /\ ~Launching =>
    /\ open = {}
    /\ gen \in Gens => server[gen].pc = "done" /\ blocker[gen] \in {"off", "done"}

Goroutines == OldOnesDone /\ Launched /\ Served /\ Down

CInv == TypeOK /\ CallersOK /\ StartsLeft /\ Goroutines

(* The connections.  Each is accepted once, has a socket in a direction no *)
(* longer than its link there, is listed from Register to Forget, and its  *)
(* links from StartLink to Unlink.                                         *)
OwnAddresses == \A b, c \in Conns : AddrOf[b] = AddrOf[c] => b = c

AcceptedOnce ==
  /\ \A i, j \in 1 .. Len(queue) : queue[i] = queue[j] => i = j
  /\ \A c \in Conns :
       c \notin came \/ (\E i \in 1 .. Len(queue) : queue[i] = c) =>
         /\ \A d \in Dirs : link[<<c, d>>] = "none" /\ <<c, d>> \notin sockets
         /\ \A g \in Gens : server[g].conn # c

NotYetLinked ==
  \A g \in Gens, c \in Conns :
    server[g].conn = c =>
      /\ server[g].pc = "dial" => <<c, "upstream">> \notin sockets
      /\ server[g].pc # "downstream" => link[<<c, "upstream">>] = "none"
      /\ link[<<c, "downstream">>] = "none"

SocketsListed ==
  \A c \in Conns, d \in Dirs :
    <<c, d>> \in sockets =>
      /\ link[<<c, d>>] \in {"none", "runs"}
      /\ \/ list[<<AddrOf[c], d>>] = c
         \/ \E g \in Gens : server[g].conn = c /\ server[g].pc \in {"dial", "register"}

LinksListed ==
  \A c \in Conns, d \in Dirs :
    link[<<c, d>>] = "runs" => links[<<AddrOf[c], d>>] = c /\ runs[<<c, d>>] = chain[d]

DialedCurrent ==
  \A c \in Conns : <<c, "upstream">> \in sockets => target[c] = settings

NoneWhenDown ==
  ~enabled /\ (\A k \in Callers : caller[k].pc \notin {"wait", "close"}) => sockets = {}

PInv ==
  /\ AcceptedOnce /\ NotYetLinked /\ SocketsListed /\ LinksListed
  /\ DialedCurrent /\ NoneWhenDown
-----------------------------------------------------------------------------
(* The starts that are left.                                               *)

LEMMA StartingFinite ==
  /\ IsFiniteSet(MayStillStart) /\ Cardinality(MayStillStart) \in Nat
  /\ IsFiniteSet(Starting) /\ Cardinality(Starting) \in Nat
<1>1. MayStillStart \subseteq Callers /\ Starting \subseteq Callers
  BY DEF MayStillStart, Starting
<1>2. IsFiniteSet(MayStillStart) /\ IsFiniteSet(Starting)
  BY <1>1, ProxyAssumption, FS_Subset
<1> QED
  BY <1>2, FS_CardinalityType

LEMMA StartingPrimed ==
  IsFiniteSet(MayStillStart') /\ Cardinality(MayStillStart') \in Nat
<1>1. MayStillStart' \subseteq Callers
  BY DEF MayStillStart, Starting
<1>2. IsFiniteSet(MayStillStart')
  BY <1>1, ProxyAssumption, FS_Subset
<1> QED
  BY <1>2, FS_CardinalityType

(* A step of a handler that does not come to start the proxy by it.        *)
LEMMA NoMoreStarts ==
  ASSUME StartsLeft, gen \in Nat, gen' = gen,
         NEW k \in Callers, \A j \in Callers \ {k} : caller'[j] = caller[j],
         k \in MayStillStart' => k \in MayStillStart
  PROVE  StartsLeft'
<1>1. MayStillStart' \subseteq MayStillStart
  <2> SUFFICES ASSUME NEW j \in Callers, j \in MayStillStart' PROVE j \in MayStillStart
    BY DEF MayStillStart, Starting
  <2>1. CASE j = k
    BY <2>1
  <2>2. CASE j # k
    BY <2>2 DEF MayStillStart, Starting
  <2> QED
    BY <2>1, <2>2
<1>2. Cardinality(MayStillStart') <= Cardinality(MayStillStart)
  BY <1>1, StartingFinite, FS_Subset
<1> QED
  BY <1>2, StartingFinite, StartingPrimed, ProxyAssumption DEF StartsLeft

(* The step that uses up one of them.                                      *)
LEMMA OneStartLess ==
  ASSUME StartsLeft, gen \in Nat,
         NEW k \in Callers, \A j \in Callers \ {k} : caller'[j] = caller[j],
         k \in MayStillStart, k \notin MayStillStart'
  PROVE  gen + 1 <= MaxStarts /\ (gen' = gen + 1 => StartsLeft')
<1>1. MayStillStart' \subseteq MayStillStart \ {k}
  BY DEF MayStillStart, Starting
<1>2. /\ IsFiniteSet(MayStillStart \ {k})
      /\ Cardinality(MayStillStart \ {k}) = Cardinality(MayStillStart) - 1
  BY StartingFinite, FS_RemoveElement
<1>3. Cardinality(MayStillStart') <= Cardinality(MayStillStart) - 1
  BY <1>1, <1>2, FS_Subset
<1> QED
  BY <1>3, StartingFinite, StartingPrimed, ProxyAssumption DEF StartsLeft

(* The request that is let in only while there is one to spare.            *)
LEMMA OneStartMore ==
  ASSUME MayStart, gen \in Nat, gen' = gen,
         NEW k \in Callers, \A j \in Callers \ {k} : caller'[j] = caller[j],
         k \notin Starting
  PROVE  StartsLeft'
<1>1. MayStillStart' \subseteq Starting \cup {k}
  BY DEF MayStillStart, Starting
<1>2. /\ IsFiniteSet(Starting \cup {k})
      /\ Cardinality(Starting \cup {k}) = Cardinality(Starting) + 1
  BY StartingFinite, FS_AddElement
<1>3. Cardinality(MayStillStart') <= Cardinality(Starting) + 1
  BY <1>1, <1>2, FS_Subset
<1> QED
  BY <1>3, StartingFinite, StartingPrimed, ProxyAssumption DEF StartsLeft, MayStart
-----------------------------------------------------------------------------
(* Steps of one handler, as the others and the goroutines see them.        *)

Places == {"idle", "lock", "start", "started", "stop", "wait", "close",
           "update", "assign", "toggle"}

LEMMA IdleType == Idle \in Call
BY DEF Idle, Call

LEMMA Moved ==
  ASSUME TypeOK, NEW k \in Callers, NEW c \in Call, caller' = [caller EXCEPT ![k] = c]
  PROVE  /\ caller' \in [Callers -> Call] /\ caller'[k] = c
         /\ \A j \in Callers \ {k} : caller'[j] = caller[j]
BY DEF TypeOK

LEMMA Went ==
  ASSUME TypeOK, NEW k \in Callers, NEW place \in Places, Goto(k, place)
  PROVE  /\ caller' \in [Callers -> Call] /\ lock' = lock
         /\ caller'[k].pc = place /\ caller'[k].op = caller[k].op
         /\ caller'[k].input = caller[k].input
         /\ \A j \in Callers \ {k} : caller'[j] = caller[j]
<1> DEFINE c == [caller[k] EXCEPT !.pc = place]
<1>1. caller[k] \in Call
  BY DEF TypeOK
<1>2. /\ c \in Call /\ c.pc = place /\ c.op = caller[k].op
      /\ c.input = caller[k].input
  BY <1>1 DEF Call, Places
<1>3. caller' = [caller EXCEPT ![k] = c] /\ lock' = lock
  BY DEF Goto
<1> HIDE DEF c
<1> QED
  BY <1>2, <1>3, Moved

LEMMA Returned ==
  ASSUME TypeOK, NEW k \in Callers, Return(k)
  PROVE  /\ caller' \in [Callers -> Call] /\ lock' = Nobody /\ caller'[k] = Idle
         /\ \A j \in Callers \ {k} : caller'[j] = caller[j]
BY IdleType, Moved DEF Return

(* The mutex keeps the others out.                                         *)
LEMMA OthersKeep ==
  ASSUME CallersOK, NEW k \in Callers,
         \A j \in Callers \ {k} : caller'[j] = caller[j] /\ (lock' = j <=> lock = j),
         enabled' = enabled \/ lock = k,
         CallerOK(k)'
  PROVE  CallersOK'
<1> SUFFICES ASSUME NEW j \in Callers PROVE CallerOK(j)'
  BY DEF CallersOK
<1>1. CASE j = k
  BY <1>1
<1>2. CASE j # k
  BY <1>2 DEF CallersOK, CallerOK, InCall
<1> QED
  BY <1>1, <1>2

LEMMA OthersOut ==
  ASSUME CallersOK, NEW k \in Callers, InCall(k)
  PROVE  /\ lock = k
         /\ \A j \in Callers \ {k} : caller[j].pc \in {"idle", "lock"}
BY DEF CallersOK, CallerOK, InCall

(* What a handler in a call has the goroutines do is its own business.     *)
LEMMA OnlyItsPhase ==
  ASSUME CallersOK, NEW k \in Callers, InCall(k),
         \A j \in Callers \ {k} : caller'[j] = caller[j]
  PROVE  /\ Launching <=> caller[k].pc = "started"
         /\ Waiting <=> caller[k].pc = "wait"
         /\ Launching' <=> caller'[k].pc = "started"
         /\ Waiting' <=> caller'[k].pc = "wait"
<1>1. \A j \in Callers \ {k} :
        caller[j].pc \in {"idle", "lock"} /\ caller'[j].pc \in {"idle", "lock"}
  BY OthersOut
<1> QED
  BY <1>1 DEF Launching, Waiting

LEMMA SamePhase ==
  ASSUME NEW k \in Callers,
         \A j \in Callers \ {k} : caller'[j] = caller[j],
         caller[k].pc \notin {"started", "wait"},
         caller'[k].pc \notin {"started", "wait"}
  PROVE  (Launching' <=> Launching) /\ (Waiting' <=> Waiting)
BY DEF Launching, Waiting

LEMMA GoroutinesKept ==
  ASSUME Goroutines, UNCHANGED <<enabled, serving>>,
         Launching' <=> Launching, Waiting' <=> Waiting
  PROVE  Goroutines'
BY DEF Goroutines, OldOnesDone, Launched, Served, Down, serving
-----------------------------------------------------------------------------
(* The steps of the handlers.                                              *)

LEMMA ControlKept ==
  ASSUME CInv, NEW k \in Callers,
         caller' \in [Callers -> Call], lock' \in {lock, k, Nobody},
         \A j \in Callers \ {k} : caller'[j] = caller[j] /\ (lock' = j <=> lock = j),
         enabled' \in BOOLEAN, enabled' = enabled \/ lock = k, settings' \in Settings,
         sockets' \subseteq sockets,
         UNCHANGED <<clients, toxics, target, list, links, link>>,
         gen' \in 0 .. MaxStarts, tomb' \in {"alive", "dying", "dead"},
         server' \in [Gens -> Loop], UNCHANGED <<listener, open, blocker>>,
         CallerOK(k)'
  PROVE  TypeOK' /\ CallersOK'
<1>1. TypeOK /\ CallersOK
  BY DEF CInv
<1>2. CallersOK'
  BY <1>1, OthersKeep
<1>3. TypeOK'
  BY <1>1 DEF TypeOK, clients, toxics
<1> QED
  BY <1>2, <1>3

(* A step after which the goroutines are where they were.                  *)
LEMMA HandlerKeeps ==
  ASSUME CInv, NEW k \in Callers,
         caller' \in [Callers -> Call], lock' \in {lock, k, Nobody},
         \A j \in Callers \ {k} : caller'[j] = caller[j] /\ (lock' = j <=> lock = j),
         settings' \in Settings, sockets' \subseteq sockets,
         UNCHANGED <<enabled, serving, clients, toxics, target, list, links, link>>,
         caller[k].pc \notin {"started", "wait"},
         caller'[k].pc \notin {"started", "wait"},
         CallerOK(k)', StartsLeft'
  PROVE  CInv'
<1>1. TypeOK /\ CallersOK /\ Goroutines
  BY DEF CInv
<1>2. TypeOK' /\ CallersOK'
  BY <1>1, ControlKept DEF serving, TypeOK
<1>3. Goroutines'
  BY <1>1, SamePhase, GoroutinesKept
<1> QED
  BY <1>2, <1>3 DEF CInv

LEMMA AskKeeps ==
  ASSUME CInv, NEW k \in Callers, Ask(k) \/ AskUpdate(k)
  PROVE  CInv'
<1>1. /\ TypeOK /\ CallersOK /\ StartsLeft /\ CallerOK(k) /\ gen \in Nat
      /\ caller[k] \in Call /\ settings \in Settings
  BY ProxyAssumption DEF CInv, TypeOK, CallersOK
<1>2. /\ caller[k].pc = "idle"
      /\ UNCHANGED <<lock, enabled, settings, serving, clients, piping, toxics>>
  BY DEF Ask, AskUpdate
<1>3. PICK c \in Call :
        /\ caller' = [caller EXCEPT ![k] = c]
        /\ c.pc = "lock" /\ (c.op = "update" => c.input \in Input)
        /\ c.op # "stop" => MayStart
  <2>1. CASE AskUpdate(k)
    <3>1. PICK i \in Input :
            caller' = [caller EXCEPT ![k].pc = "lock", ![k].op = "update", ![k].input = i]
      BY <2>1 DEF AskUpdate
    <3> DEFINE c == [caller[k] EXCEPT !.pc = "lock", !.op = "update", !.input = i]
    <3>2. c \in Call
      BY <1>1 DEF Call, Input
    <3>3. c.pc = "lock" /\ c.op = "update" /\ c.input \in Input
      BY <1>1 DEF Call
    <3>4. caller' = [caller EXCEPT ![k] = c]
      BY <1>1, <3>1 DEF TypeOK
    <3>5. MayStart
      BY <2>1 DEF AskUpdate
    <3> HIDE DEF c
    <3> QED
      BY <3>2, <3>3, <3>4, <3>5
  <2>2. CASE Ask(k)
    <3>1. PICK op \in {"start", "stop"} :
            /\ op = "start" => MayStart
            /\ caller' = [caller EXCEPT ![k].pc = "lock", ![k].op = op]
      BY <2>2 DEF Ask
    <3> DEFINE c == [caller[k] EXCEPT !.pc = "lock", !.op = op]
    <3>2. c \in Call /\ c.pc = "lock" /\ c.op = op
      BY <1>1 DEF Call
    <3>3. caller' = [caller EXCEPT ![k] = c]
      BY <1>1, <3>1 DEF TypeOK
    <3> HIDE DEF c
    <3> QED
      BY <3>1, <3>2, <3>3
  <2> QED
    BY <2>1, <2>2
<1>4. /\ caller' \in [Callers -> Call] /\ caller'[k] = c
      /\ \A j \in Callers \ {k} : caller'[j] = caller[j]
  BY <1>1, <1>3, Moved
<1>5. StartsLeft'
  <2>1. gen' = gen /\ k \notin Starting
    BY <1>2 DEF serving, Starting
  <2>2. CASE c.op = "stop"
    <3>1. k \notin MayStillStart'
      BY <1>4, <2>2 DEF MayStillStart, Starting
    <3> QED
      BY <1>1, <1>4, <2>1, <3>1, NoMoreStarts
  <2>3. CASE c.op # "stop"
    BY <1>1, <1>3, <1>4, <2>1, <2>3, OneStartMore
  <2> QED
    BY <2>2, <2>3
<1>6. CallerOK(k)'
  BY <1>1, <1>2, <1>3, <1>4 DEF CallerOK, InCall
<1> QED
  BY <1>1, <1>2, <1>3, <1>4, <1>5, <1>6, HandlerKeeps DEF piping, CInv

LEMMA EnterKeeps ==
  ASSUME CInv, NEW k \in Callers, Enter(k)
  PROVE  CInv'
<1>1. /\ TypeOK /\ CallersOK /\ StartsLeft /\ CallerOK(k) /\ gen \in Nat
      /\ caller[k] \in Call /\ settings \in Settings
  BY ProxyAssumption DEF CInv, TypeOK, CallersOK
<1>2. /\ caller[k].pc = "lock" /\ lock = Nobody /\ lock' = k
      /\ UNCHANGED <<enabled, settings, serving, clients, piping, toxics>>
  BY DEF Enter
<1> DEFINE c == [caller[k] EXCEPT !.pc = caller[k].op]
<1>3. /\ c \in Call /\ c.pc = caller[k].op /\ c.op = caller[k].op
      /\ c.input = caller[k].input /\ caller[k].op \in {"start", "stop", "update"}
  BY <1>1 DEF Call
<1>4. caller' = [caller EXCEPT ![k] = c]
  BY DEF Enter
<1> HIDE DEF c
<1>5. /\ caller' \in [Callers -> Call] /\ caller'[k] = c
      /\ \A j \in Callers \ {k} : caller'[j] = caller[j]
  BY <1>1, <1>3, <1>4, Moved
<1>6. StartsLeft'
  <2>1. gen' = gen
    BY <1>2 DEF serving
  <2>2. k \in MayStillStart' => k \in MayStillStart
    BY <1>2, <1>3, <1>5 DEF MayStillStart, Starting
  <2> QED
    BY <1>1, <1>5, <2>1, <2>2, NoMoreStarts
<1>7. CallerOK(k)'
  BY <1>1, <1>2, <1>3, <1>5 DEF CallerOK, InCall
<1>8. \A j \in Callers \ {k} : lock' = j <=> lock = j
  BY <1>2, ProxyAssumption
<1> QED
  BY <1>1, <1>2, <1>3, <1>5, <1>6, <1>7, <1>8, HandlerKeeps DEF piping

(* A call that ends, and one that goes on without the goroutines.          *)
LEMMA ReturnKeeps ==
  ASSUME CInv, NEW k \in Callers, InCall(k),
         caller[k].pc \notin {"started", "wait"}, Return(k), sockets' \subseteq sockets,
         UNCHANGED <<enabled, settings, serving, clients, toxics, target, list, links, link>>
  PROVE  CInv'
<1>1. /\ TypeOK /\ CallersOK /\ StartsLeft /\ lock = k /\ gen \in Nat
      /\ settings \in Settings
  BY OthersOut, ProxyAssumption DEF CInv, TypeOK
<1>2. /\ caller' \in [Callers -> Call] /\ lock' = Nobody /\ caller'[k] = Idle
      /\ \A j \in Callers \ {k} : caller'[j] = caller[j]
  BY <1>1, Returned
<1>3. StartsLeft'
  <2>1. k \notin MayStillStart' /\ gen' = gen
    BY <1>2 DEF MayStillStart, Starting, Idle, serving
  <2> QED
    BY <1>1, <1>2, <2>1, NoMoreStarts
<1>4. CallerOK(k)'
  BY <1>2, ProxyAssumption DEF CallerOK, InCall, Idle
<1>5. \A j \in Callers \ {k} : lock' = j <=> lock = j
  BY <1>1, <1>2, ProxyAssumption
<1> QED
  BY <1>1, <1>2, <1>3, <1>4, <1>5, HandlerKeeps DEF Idle

LEMMA GotoKeeps ==
  ASSUME CInv, NEW k \in Callers, InCall(k),
         caller[k].pc \notin {"started", "wait"},
         NEW place \in {"start", "stop", "assign", "toggle"}, Goto(k, place),
         place = "start" => caller[k].op # "stop",
         place \in {"assign", "toggle"} => caller[k].op = "update",
         place = "assign" => ~enabled,
         settings' \in Settings, sockets' \subseteq sockets,
         UNCHANGED <<enabled, serving, clients, toxics, target, list, links, link>>
  PROVE  CInv'
<1>1. /\ TypeOK /\ CallersOK /\ CallerOK(k) /\ StartsLeft /\ lock = k /\ gen \in Nat
      /\ place \in Places
  BY OthersOut, ProxyAssumption DEF CInv, TypeOK, CallersOK, Places
<1>2. /\ caller' \in [Callers -> Call] /\ lock' = lock
      /\ caller'[k].pc = place /\ caller'[k].op = caller[k].op
      /\ caller'[k].input = caller[k].input
      /\ \A j \in Callers \ {k} : caller'[j] = caller[j]
  BY <1>1, Went
<1>3. StartsLeft'
  <2>1. k \in MayStillStart' => k \in MayStillStart
    BY <1>2 DEF MayStillStart, Starting, InCall
  <2>2. gen' = gen
    BY DEF serving
  <2> QED
    BY <1>1, <1>2, <2>1, <2>2, NoMoreStarts
<1>4. CallerOK(k)'
  BY <1>1, <1>2 DEF CallerOK, InCall
<1> QED
  BY <1>1, <1>2, <1>3, <1>4, HandlerKeeps

LEMMA QuietStepsKeep ==
  ASSUME CInv, NEW k \in Callers,
         \/ AlreadyStarted(k) \/ AlreadyStopped(k) \/ CloseConnections(k)
         \/ UpdateCompares(k) \/ UpdateAssigns(k) \/ UpdateToggles(k)
  PROVE  CInv'
<1>1. TypeOK /\ CallersOK /\ CallerOK(k) /\ caller[k] \in Call /\ settings \in Settings
  BY DEF CInv, TypeOK, CallersOK
<1>2. CASE AlreadyStarted(k)
  BY <1>2, ReturnKeeps DEF AlreadyStarted, InCall, piping
<1>3. CASE AlreadyStopped(k)
  <2>1. /\ InCall(k) /\ caller[k].pc = "stop" /\ ~enabled
        /\ UNCHANGED <<enabled, settings, serving, clients, piping, toxics>>
    BY <1>3 DEF AlreadyStopped, InCall
  <2>2. \/ Goto(k, "assign") /\ caller[k].op = "update"
        \/ Return(k)
    BY <1>3 DEF AlreadyStopped, AfterStop
  <2> QED
    BY <1>1, <2>1, <2>2, ReturnKeeps, GotoKeeps DEF piping
<1>4. CASE CloseConnections(k)
  <2>1. /\ InCall(k) /\ caller[k].pc = "close" /\ ~enabled /\ sockets' \subseteq sockets
        /\ UNCHANGED <<enabled, settings, serving, clients, target, list, links, link, toxics>>
    BY <1>1, <1>4 DEF CloseConnections, InCall, CallerOK
  <2>2. \/ Goto(k, "assign") /\ caller[k].op = "update"
        \/ Return(k)
    BY <1>4 DEF CloseConnections, AfterStop
  <2> QED
    BY <1>1, <2>1, <2>2, ReturnKeeps, GotoKeeps
<1>5. CASE UpdateCompares(k)
  <2>1. /\ InCall(k) /\ caller[k].pc = "update" /\ caller[k].op = "update"
        /\ UNCHANGED <<enabled, settings, serving, clients, piping, toxics>>
    BY <1>1, <1>5 DEF UpdateCompares, InCall, CallerOK
  <2>2. Goto(k, "stop") \/ Goto(k, "toggle")
    BY <1>5 DEF UpdateCompares
  <2> QED
    BY <1>1, <2>1, <2>2, GotoKeeps DEF piping
<1>6. CASE UpdateAssigns(k)
  <2>1. /\ InCall(k) /\ caller[k].pc = "assign" /\ caller[k].op = "update"
        /\ caller[k].input \in Input /\ settings' = caller[k].input.settings
        /\ UNCHANGED <<enabled, serving, clients, piping, toxics>>
    BY <1>1, <1>6 DEF UpdateAssigns, InCall, CallerOK
  <2>2. Goto(k, "toggle") /\ settings' \in Settings
    BY <1>6, <2>1 DEF UpdateAssigns, Input
  <2> QED
    BY <2>1, <2>2, GotoKeeps DEF piping
<1>7. CASE UpdateToggles(k)
  <2>1. /\ InCall(k) /\ caller[k].pc = "toggle" /\ caller[k].op = "update"
        /\ UNCHANGED <<enabled, settings, serving, clients, piping, toxics>>
    BY <1>1, <1>7 DEF UpdateToggles, InCall, CallerOK
  <2>2. Return(k) \/ Goto(k, "start") \/ Goto(k, "stop")
    BY <1>7 DEF UpdateToggles
  <2> QED
    BY <1>1, <2>1, <2>2, ReturnKeeps, GotoKeeps DEF piping
<1> QED
  BY <1>2, <1>3, <1>4, <1>5, <1>6, <1>7

LEMMA StartServerKeeps ==
  ASSUME CInv, NEW k \in Callers, StartServer(k)
  PROVE  CInv'
<1>1. /\ TypeOK /\ CallersOK /\ CallerOK(k) /\ StartsLeft /\ Goroutines
      /\ gen \in Nat /\ settings \in Settings
      /\ server \in [Gens -> Loop] /\ blocker \in [Gens -> {"off", "wait", "join", "done"}]
  BY ProxyAssumption DEF CInv, TypeOK, CallersOK
<1>2. /\ caller[k].pc = "start" /\ ~enabled /\ InCall(k) /\ Goto(k, "started")
      /\ gen' = gen + 1 /\ tomb' = "alive"
      /\ server' = [server EXCEPT ![gen + 1].pc = "listen"]
      /\ UNCHANGED <<enabled, settings, listener, open, blocker, clients, piping, toxics>>
  BY DEF StartServer, InCall
<1>3. /\ caller' \in [Callers -> Call] /\ lock' = lock
      /\ caller'[k].pc = "started" /\ caller'[k].op = caller[k].op
      /\ caller'[k].input = caller[k].input
      /\ \A j \in Callers \ {k} : caller'[j] = caller[j]
  BY <1>1, <1>2, Went DEF Places
<1>4. gen + 1 <= MaxStarts /\ StartsLeft'
  <2>1. k \in MayStillStart /\ k \notin MayStillStart'
    BY <1>1, <1>2, <1>3 DEF MayStillStart, Starting, CallerOK
  <2> QED
    BY <1>1, <1>2, <1>3, <2>1, OneStartLess
<1>5. gen + 1 \in Gens /\ gen' \in 0 .. MaxStarts
  BY <1>1, <1>2, <1>4, ProxyAssumption DEF Gens
<1>6. /\ ~Launching /\ ~Waiting /\ Launching' /\ ~Waiting'
  BY <1>1, <1>2, <1>3, OnlyItsPhase
<1>7. /\ open = {} /\ server[gen + 1].pc = "off" /\ blocker[gen + 1] = "off"
      /\ gen \in Gens => server[gen].pc = "done" /\ blocker[gen] \in {"off", "done"}
  BY <1>1, <1>2, <1>5, <1>6 DEF Goroutines, Down, OldOnesDone
<1>8. /\ server' \in [Gens -> Loop] /\ server'[gen + 1].pc = "listen"
      /\ server'[gen + 1].conn = server[gen + 1].conn
      /\ \A g \in Gens : g # gen + 1 => server'[g] = server[g]
  BY <1>1, <1>2, <1>5 DEF Loop
<1>9. Goroutines'
  <2>1. \A g \in Gens : g < gen + 1 => server[g].pc = "done" /\ blocker[g] \in {"off", "done"}
    <3> SUFFICES ASSUME NEW g \in Gens, g < gen + 1
                 PROVE  server[g].pc = "done" /\ blocker[g] \in {"off", "done"}
      OBVIOUS
    <3>1. g = gen \/ g < gen
      BY <1>1, ProxyAssumption DEF Gens
    <3> QED
      BY <1>1, <1>7, <3>1 DEF Goroutines, OldOnesDone
  <2>2. OldOnesDone'
    <3> SUFFICES ASSUME NEW g \in Gens
                 PROVE  /\ g > gen' => server'[g].pc = "off" /\ blocker'[g] = "off"
                        /\ g < gen' => server'[g].pc = "done" /\ blocker'[g] \in {"off", "done"}
                        /\ server'[g].conn # Nobody <=> server'[g].pc \in Holding
      BY DEF OldOnesDone
    <3>1. g \in Int /\ gen \in Int
      BY <1>1, ProxyAssumption DEF Gens
    <3>2. CASE g = gen + 1
      BY <1>1, <1>2, <1>5, <1>7, <1>8, <3>1, <3>2 DEF Goroutines, OldOnesDone, Holding
    <3>3. CASE g # gen + 1
      <4>1. server'[g] = server[g] /\ blocker'[g] = blocker[g]
        BY <1>2, <1>8, <3>3
      <4>2. server[g].conn # Nobody <=> server[g].pc \in Holding
        BY <1>1 DEF Goroutines, OldOnesDone
      <4>3. g > gen + 1 => server[g].pc = "off" /\ blocker[g] = "off"
        BY <1>1, <3>1 DEF Goroutines, OldOnesDone
      <4> QED
        BY <1>2, <2>1, <4>1, <4>2, <4>3
    <3> QED
      BY <3>2, <3>3
  <2>3. Launched'
    BY <1>2, <1>5, <1>7, <1>8 DEF Launched
  <2>4. Served' /\ Down'
    BY <1>2, <1>6 DEF Served, Down
  <2> QED
    BY <2>2, <2>3, <2>4 DEF Goroutines
<1>10. CallerOK(k)'
  BY <1>1, <1>2, <1>3 DEF CallerOK, InCall
<1>11. TypeOK' /\ CallersOK'
  BY <1>1, <1>2, <1>3, <1>5, <1>8, <1>10, ControlKept DEF piping, TypeOK
<1> QED
  BY <1>4, <1>9, <1>11 DEF CInv

LEMMA StartedKeeps ==
  ASSUME CInv, NEW k \in Callers, Started(k)
  PROVE  CInv'
<1>1. /\ TypeOK /\ CallersOK /\ CallerOK(k) /\ StartsLeft /\ Goroutines
      /\ gen \in Nat /\ settings \in Settings /\ lock = k /\ InCall(k)
      /\ server \in [Gens -> Loop] /\ blocker \in [Gens -> {"off", "wait", "join", "done"}]
      /\ caller[k].pc = "started" /\ ~enabled
  BY OthersOut, ProxyAssumption DEF CInv, TypeOK, CallersOK, CallerOK, InCall, Started
<1>2. PICK g \in Gens :
        /\ server[g].pc \in {"ok", "error"}
        /\ enabled' = (server[g].pc = "ok")
        /\ server' = [server EXCEPT
             ![g].pc = IF server[g].pc = "ok" THEN "spawn" ELSE "done"]
  BY DEF Started
<1>3. /\ UNCHANGED <<settings, gen, tomb, listener, open, blocker, clients, piping, toxics>>
      /\ caller' \in [Callers -> Call] /\ lock' = Nobody /\ caller'[k] = Idle
      /\ \A j \in Callers \ {k} : caller'[j] = caller[j]
  BY <1>1, Returned DEF Started
<1>4. Launching /\ ~Waiting /\ ~Launching' /\ ~Waiting'
  BY <1>1, <1>3, OnlyItsPhase DEF Idle
<1>5. g = gen
  <2>1. g \in Int /\ gen \in Int /\ ~(g > gen) /\ ~(g < gen)
    BY <1>1, <1>2, ProxyAssumption DEF Goroutines, OldOnesDone, Gens
  <2> QED
    BY <2>1
<1>6. /\ tomb = "alive" /\ blocker[gen] = "off"
      /\ server[gen].pc = "error" => open = {}
      /\ server[gen].pc = "ok" => listener = gen /\ open = {gen}
  BY <1>1, <1>2, <1>4, <1>5 DEF Goroutines, Launched
<1>7. /\ server' \in [Gens -> Loop]
      /\ server'[gen].pc = (IF server[gen].pc = "ok" THEN "spawn" ELSE "done")
      /\ server'[gen].conn = server[gen].conn
      /\ \A h \in Gens : h # gen => server'[h] = server[h]
  BY <1>1, <1>2, <1>5 DEF Loop
<1>8. Goroutines'
  <2>1. OldOnesDone'
    BY <1>1, <1>2, <1>3, <1>5, <1>7 DEF Goroutines, OldOnesDone, Holding
  <2>2. Launched'
    BY <1>4 DEF Launched
  <2>3. Served'
    <3> SUFFICES ASSUME enabled' \/ Waiting' PROVE Served'
      BY DEF Served
    <3>1. server[gen].pc = "ok"
      BY <1>2, <1>4, <1>5
    <3>2. server'[gen].pc = "spawn"
      BY <1>7, <3>1
    <3> QED
      BY <1>3, <1>4, <1>5, <1>6, <3>1, <3>2 DEF Served, Working
  <2>4. Down'
    BY <1>2, <1>3, <1>4, <1>5, <1>6, <1>7 DEF Down
  <2> QED
    BY <2>1, <2>2, <2>3, <2>4 DEF Goroutines
<1>9. CallerOK(k)'
  BY <1>3, ProxyAssumption DEF CallerOK, InCall, Idle
<1>10. StartsLeft'
  <2>1. k \notin MayStillStart'
    BY <1>3 DEF MayStillStart, Starting, Idle
  <2> QED
    BY <1>1, <1>3, <2>1, NoMoreStarts
<1>11. \A j \in Callers \ {k} : lock' = j <=> lock = j
  BY <1>1, <1>3, ProxyAssumption
<1>12. TypeOK' /\ CallersOK'
  BY <1>1, <1>2, <1>3, <1>7, <1>9, <1>11, ControlKept DEF piping, TypeOK
<1> QED
  BY <1>8, <1>10, <1>12 DEF CInv

LEMMA KillServerKeeps ==
  ASSUME CInv, NEW k \in Callers, KillServer(k) \/ ServerStopped(k)
  PROVE  CInv'
<1>1. /\ TypeOK /\ CallersOK /\ CallerOK(k) /\ StartsLeft /\ Goroutines
      /\ gen \in Nat /\ settings \in Settings /\ lock = k /\ InCall(k)
  BY OthersOut, ProxyAssumption
  DEF CInv, TypeOK, CallersOK, InCall, KillServer, ServerStopped
<1>2. PICK place \in {"wait", "close"} :
        /\ Goto(k, place)
        /\ \/ place = "wait" /\ KillServer(k)
           \/ place = "close" /\ ServerStopped(k)
  BY DEF KillServer, ServerStopped
<1>3. /\ enabled' = FALSE /\ tomb' \in {"alive", "dying", "dead"}
      /\ UNCHANGED <<settings, gen, listener, open, server, blocker, clients, piping, toxics>>
  BY <1>1, <1>2 DEF KillServer, ServerStopped, serving, CallerOK, TypeOK
<1>4. /\ caller' \in [Callers -> Call] /\ lock' = lock
      /\ caller'[k].pc = place /\ caller'[k].op = caller[k].op
      /\ caller'[k].input = caller[k].input
      /\ \A j \in Callers \ {k} : caller'[j] = caller[j]
  BY <1>1, <1>2, Went DEF Places
<1>5. /\ ~Launching /\ ~Launching' /\ (Waiting <=> caller[k].pc = "wait")
      /\ (Waiting' <=> place = "wait")
  BY <1>1, <1>2, <1>4, OnlyItsPhase DEF KillServer, ServerStopped
<1>6. Goroutines'
  <2>1. OldOnesDone' /\ Launched'
    BY <1>1, <1>3, <1>5 DEF Goroutines, OldOnesDone, Launched
  <2>2. CASE place = "wait"
    <3>1. enabled /\ tomb' = "dying" /\ Waiting'
      BY <1>2, <1>5, <2>2 DEF KillServer
    <3>2. Served' /\ Down'
      BY <1>1, <1>3, <3>1 DEF Goroutines, Served, Down
    <3> QED
      BY <2>1, <3>2 DEF Goroutines
  <2>3. CASE place = "close"
    <3>1. Waiting /\ ~Waiting' /\ tomb = "dead"
      BY <1>2, <1>5, <2>3 DEF ServerStopped, Dead
    <3>2. Served' /\ Down'
      BY <1>1, <1>3, <3>1 DEF Goroutines, Served, Down
    <3> QED
      BY <2>1, <3>2 DEF Goroutines
  <2> QED
    BY <2>2, <2>3
<1>7. StartsLeft'
  <2>1. k \in MayStillStart' => k \in MayStillStart
    BY <1>2, <1>4 DEF MayStillStart, Starting, KillServer, ServerStopped
  <2> QED
    BY <1>1, <1>3, <1>4, <2>1, NoMoreStarts
<1>8. CallerOK(k)'
  BY <1>1, <1>2, <1>3, <1>4 DEF CallerOK, InCall
<1>9. TypeOK' /\ CallersOK'
  BY <1>1, <1>3, <1>4, <1>8, ControlKept DEF piping, TypeOK
<1> QED
  BY <1>6, <1>7, <1>9 DEF CInv
-----------------------------------------------------------------------------
(* The steps of the goroutines of a start, which no handler notices.       *)

LEMMA HandlersKept ==
  ASSUME CInv, UNCHANGED <<control, gen>>
  PROVE  /\ CallersOK' /\ StartsLeft'
         /\ (Launching' <=> Launching) /\ (Waiting' <=> Waiting)
         /\ UNCHANGED <<caller, lock, enabled, settings>>
BY DEF CInv, CallersOK, CallerOK, InCall, StartsLeft, MayStillStart, Starting,
       Launching, Waiting, control

LEMMA Placed ==
  ASSUME TypeOK, NEW g \in Gens,
         NEW place \in {"off", "listen", "ok", "error", "spawn", "accept", "dial",
                        "register", "upstream", "downstream", "done"},
         NEW c \in Conns \cup {Nobody},
         \/ ServerGoto(g, place) /\ c = server[g].conn
         \/ server' = [server EXCEPT ![g] = [pc |-> place, conn |-> c]]
  PROVE  /\ server' \in [Gens -> Loop]
         /\ server'[g].pc = place /\ server'[g].conn = c
         /\ \A h \in Gens \ {g} : server'[h] = server[h]
<1>1. server \in [Gens -> Loop] /\ server[g] \in Loop
  BY DEF TypeOK
<1>2. [server[g] EXCEPT !.pc = place] \in Loop /\ [pc |-> place, conn |-> c] \in Loop
  BY <1>1 DEF Loop
<1>3. CASE ServerGoto(g, place) /\ c = server[g].conn
  BY <1>1, <1>2, <1>3 DEF ServerGoto, Loop
<1>4. CASE server' = [server EXCEPT ![g] = [pc |-> place, conn |-> c]]
  BY <1>1, <1>2, <1>4
<1> QED
  BY <1>3, <1>4

(* Only the last start has goroutines left, before it has answered ...     *)
LEMMA OnlyTheLast ==
  ASSUME CInv, NEW g \in Gens, server[g].pc \notin {"off", "done"}
  PROVE  g = gen /\ gen \in Gens
<1>1. g \in Int /\ gen \in Int
  BY ProxyAssumption DEF CInv, TypeOK, Gens
<1>2. ~(g > gen) /\ ~(g < gen)
  BY DEF CInv, Goroutines, OldOnesDone
<1> QED
  BY <1>1, <1>2

LEMMA NotYetServing ==
  ASSUME CInv, NEW g \in Gens, server[g].pc \in {"listen", "ok", "error"}
  PROVE  g = gen /\ Launching /\ ~enabled /\ ~Waiting
<1>1. g = gen /\ gen \in Gens
  BY OnlyTheLast
<1>2. Launching
  BY <1>1 DEF CInv, Goroutines, Served, Down, Working
<1>3. PICK k \in Callers : caller[k].pc = "started"
  BY <1>2 DEF Launching
<1>4. CallersOK /\ ~enabled /\ InCall(k)
  BY <1>3 DEF CInv, CallersOK, CallerOK, InCall
<1>5. \A j \in Callers \ {k} : caller[j].pc \in {"idle", "lock"}
  BY <1>4, OthersOut
<1> QED
  BY <1>1, <1>2, <1>3, <1>4, <1>5 DEF Waiting

(* ... and for as long as it is enabled or waited for.                     *)
LEMMA WorkingServes ==
  ASSUME CInv, NEW g \in Gens, server[g].pc \in Working
  PROVE  /\ g = gen /\ (enabled \/ Waiting) /\ ~Launching /\ listener = gen
         /\ blocker[gen] # "done"
<1>1. g = gen /\ gen \in Gens
  BY OnlyTheLast DEF Working
<1>2. ~Launching
  BY <1>1 DEF CInv, Goroutines, Launched, Working
<1>3. enabled \/ Waiting
  BY <1>1, <1>2 DEF CInv, Goroutines, Down, Working
<1> QED
  BY <1>1, <1>2, <1>3 DEF CInv, Goroutines, Served, Working

LEMMA BlockerServes ==
  ASSUME CInv, NEW g \in Gens, blocker[g] \in {"wait", "join"}
  PROVE  /\ g = gen /\ (enabled \/ Waiting) /\ ~Launching /\ listener = gen
<1>1. g \in Int /\ gen \in Int
  BY ProxyAssumption DEF CInv, TypeOK, Gens
<1>2. g = gen
  BY <1>1 DEF CInv, Goroutines, OldOnesDone
<1>3. ~Launching
  BY <1>2 DEF CInv, Goroutines, Launched
<1>4. enabled \/ Waiting
  BY <1>2, <1>3 DEF CInv, Goroutines, Down
<1> QED
  BY <1>2, <1>3, <1>4 DEF CInv, Goroutines, Served

(* A step of the accept loop, which only the loop itself notices.          *)
LEMMA LoopKeeps ==
  ASSUME CInv, NEW g \in Gens, server[g].pc \in Working \ {"spawn"},
         server' \in [Gens -> Loop],
         \A h \in Gens \ {g} : server'[h] = server[h],
         server'[g].pc \in (Working \ {"spawn"}) \cup {"done"},
         server'[g].conn # Nobody <=> server'[g].pc \in Holding,
         server'[g].pc = "done" => ~enabled \/ AcceptMayFail,
         UNCHANGED <<control, gen, tomb, listener, open, blocker>>
  PROVE  Goroutines' /\ CallersOK' /\ StartsLeft'
<1>1. /\ CallersOK' /\ StartsLeft'
      /\ (Launching' <=> Launching) /\ (Waiting' <=> Waiting)
      /\ UNCHANGED <<caller, lock, enabled, settings>>
  BY HandlersKept
<1>2. /\ g = gen /\ (enabled \/ Waiting) /\ ~Launching /\ listener = gen
      /\ Goroutines /\ blocker[gen] # "done"
  BY WorkingServes DEF CInv
<1>3. OldOnesDone'
  <2> SUFFICES ASSUME NEW h \in Gens
               PROVE  /\ h > gen' => server'[h].pc = "off" /\ blocker'[h] = "off"
                      /\ h < gen' => server'[h].pc = "done" /\ blocker'[h] \in {"off", "done"}
                      /\ server'[h].conn # Nobody <=> server'[h].pc \in Holding
    BY DEF OldOnesDone
  <2>1. CASE h = g
    BY <1>2, <2>1, ProxyAssumption DEF Gens
  <2>2. CASE h # g
    BY <1>2, <2>2 DEF Goroutines, OldOnesDone
  <2> QED
    BY <2>1, <2>2
<1>4. Served'
  BY <1>1, <1>2 DEF Goroutines, Served
<1>5. Launched' /\ Down'
  BY <1>1, <1>2 DEF Launched, Down
<1> QED
  BY <1>1, <1>3, <1>4, <1>5 DEF Goroutines

LEMMA ListenKeeps ==
  ASSUME CInv, NEW g \in Gens, Listen(g)
  PROVE  CInv'
<1>1. /\ g = gen /\ Launching /\ ~enabled /\ ~Waiting /\ TypeOK /\ Goroutines
      /\ gen \in 0 .. MaxStarts /\ tomb = "alive" /\ blocker[gen] = "off" /\ open = {}
  BY NotYetServing DEF CInv, Listen, TypeOK, Goroutines, Launched
<1>2. /\ CallersOK' /\ StartsLeft'
      /\ (Launching' <=> Launching) /\ (Waiting' <=> Waiting)
      /\ UNCHANGED <<caller, lock, enabled, settings>>
  BY HandlersKept DEF Listen
<1>3. PICK place \in {"ok", "error"} :
        /\ ServerGoto(g, place)
        /\ listener' = (IF place = "ok" THEN g ELSE 0)
        /\ open' = (IF place = "ok" THEN open \cup {g} ELSE open)
  BY DEF Listen
<1>4. UNCHANGED <<control, gen, tomb, blocker, clients, piping, toxics>>
  BY DEF Listen
<1>5. /\ server' \in [Gens -> Loop]
      /\ server'[g].pc = place /\ server'[g].conn = server[g].conn
      /\ \A h \in Gens \ {g} : server'[h] = server[h]
  <2>1. server[g].conn \in Conns \cup {Nobody}
    BY <1>1 DEF TypeOK, Loop
  <2> QED
    BY <1>1, <1>3, <2>1, Placed
<1>6. Goroutines'
  <2>1. server[g].pc = "listen" /\ server[g].conn = Nobody
    BY <1>1 DEF Listen, Goroutines, OldOnesDone, Holding
  <2>2. OldOnesDone'
    BY <1>1, <1>4, <1>5, <2>1 DEF Goroutines, OldOnesDone, Holding
  <2>3. Launched'
    BY <1>1, <1>3, <1>4, <1>5 DEF Launched
  <2>4. Served' /\ Down'
    BY <1>1, <1>2 DEF Served, Down
  <2> QED
    BY <2>2, <2>3, <2>4 DEF Goroutines
<1>7. TypeOK'
  BY <1>1, <1>3, <1>4, <1>5, ProxyAssumption
  DEF TypeOK, control, clients, piping, toxics, Gens
<1> QED
  BY <1>2, <1>6, <1>7 DEF CInv

LEMMA SpawnBlockerKeeps ==
  ASSUME CInv, NEW g \in Gens, SpawnBlocker(g)
  PROVE  CInv'
<1>1. /\ server[g].pc = "spawn" /\ TypeOK /\ Goroutines
      /\ blocker' = [blocker EXCEPT ![g] = "wait"] /\ ServerGoto(g, "accept")
      /\ UNCHANGED <<control, gen, tomb, listener, open, clients, piping, toxics>>
  BY DEF SpawnBlocker, CInv
<1>2. /\ CallersOK' /\ StartsLeft'
      /\ (Launching' <=> Launching) /\ (Waiting' <=> Waiting)
      /\ UNCHANGED <<caller, lock, enabled, settings>>
  BY <1>1, HandlersKept
<1>3. /\ g = gen /\ (enabled \/ Waiting) /\ ~Launching /\ blocker[gen] = "off"
      /\ server[g].conn = Nobody
  BY <1>1, WorkingServes DEF Working, Goroutines, Served, OldOnesDone, Holding
<1>4. /\ server' \in [Gens -> Loop] /\ server'[g].pc = "accept"
      /\ server'[g].conn = server[g].conn
      /\ \A h \in Gens \ {g} : server'[h] = server[h]
      /\ blocker' \in [Gens -> {"off", "wait", "join", "done"}] /\ blocker'[g] = "wait"
      /\ \A h \in Gens \ {g} : blocker'[h] = blocker[h]
  <2>1. server[g].conn \in Conns \cup {Nobody}
    BY <1>1 DEF TypeOK, Loop
  <2>2. blocker \in [Gens -> {"off", "wait", "join", "done"}]
    BY <1>1 DEF TypeOK
  <2> QED
    BY <1>1, <2>1, <2>2, Placed
<1>5. Goroutines'
  <2>1. OldOnesDone'
    BY <1>1, <1>3, <1>4, ProxyAssumption DEF Goroutines, OldOnesDone, Holding, Gens
  <2>2. Served'
    BY <1>1, <1>2, <1>3, <1>4 DEF Goroutines, Served, Working
  <2>3. Launched' /\ Down'
    BY <1>2, <1>3 DEF Launched, Down
  <2> QED
    BY <2>1, <2>2, <2>3 DEF Goroutines
<1>6. TypeOK'
  BY <1>1, <1>4 DEF TypeOK, control, clients, piping, toxics
<1> QED
  BY <1>2, <1>5, <1>6 DEF CInv

LEMMA AcceptKeeps ==
  ASSUME CInv, NEW g \in Gens, Accept(g) \/ AcceptError(g)
  PROVE  CInv'
<1>1. /\ TypeOK /\ Goroutines /\ server[g].pc = "accept"
      /\ UNCHANGED <<control, gen, tomb, listener, open, blocker, came, away,
                     target, list, links, link, toxics>>
  BY DEF CInv, Accept, AcceptError, clients, piping
<1>2. g = gen /\ gen \in Gens /\ server[g].conn = Nobody
  BY <1>1, OnlyTheLast DEF Goroutines, OldOnesDone, Holding
<1>3. CASE Accept(g)
  <2>1. queue \in Seq(came) /\ came \subseteq Conns /\ queue # <<>>
    BY <1>1, <1>3 DEF TypeOK, Accept
  <2>2. Head(queue) \in Conns /\ Tail(queue) \in Seq(came)
    BY <2>1, HeadTailProperties
  <2>3. /\ server' \in [Gens -> Loop] /\ server'[g].pc = "dial"
        /\ server'[g].conn = Head(queue)
        /\ \A h \in Gens \ {g} : server'[h] = server[h]
    BY <1>1, <1>3, <2>2, Placed DEF Accept
  <2>4. Head(queue) # Nobody
    BY <2>2, ProxyAssumption
  <2>5. Goroutines' /\ CallersOK' /\ StartsLeft'
    BY <1>1, <2>3, <2>4, LoopKeeps DEF Working, Holding
  <2>6. TypeOK'
    BY <1>1, <1>3, <2>2, <2>3 DEF TypeOK, Accept, control, toxics, Dirs
  <2> QED
    BY <2>5, <2>6 DEF CInv
<1>4. CASE AcceptError(g)
  <2>1. /\ server' \in [Gens -> Loop] /\ server'[g].pc = "done"
        /\ server'[g].conn = Nobody
        /\ \A h \in Gens \ {g} : server'[h] = server[h]
    BY <1>1, <1>2, <1>4, Placed DEF AcceptError
  <2>2. ~enabled \/ AcceptMayFail
    BY <1>1, <1>2, <1>4 DEF AcceptError, Goroutines, Served
  <2>3. Goroutines' /\ CallersOK' /\ StartsLeft'
    BY <1>1, <2>1, <2>2, LoopKeeps DEF Working, Holding
  <2>4. TypeOK'
    BY <1>1, <1>4, <2>1 DEF TypeOK, AcceptError, control, clients, piping, toxics
  <2> QED
    BY <2>3, <2>4 DEF CInv
<1> QED
  BY <1>3, <1>4

LEMMA HoldingConn ==
  ASSUME CInv, NEW g \in Gens, server[g].pc \in Holding
  PROVE  server[g].conn \in Conns
<1>1. server[g].conn \in Conns \cup {Nobody} /\ server[g].conn # Nobody
  BY DEF CInv, TypeOK, Loop, Goroutines, OldOnesDone
<1> QED
  BY <1>1

LEMMA DialKeeps ==
  ASSUME CInv, NEW g \in Gens, Dial(g) \/ DialFails(g)
  PROVE  CInv'
<1>1. /\ TypeOK /\ server[g].pc = "dial" /\ server[g].conn \in Conns
      /\ settings \in Settings /\ server[g].conn # Nobody
      /\ UNCHANGED <<control, gen, tomb, listener, open, blocker, clients,
                     list, links, link, toxics>>
  BY HoldingConn, ProxyAssumption DEF CInv, Dial, DialFails, TypeOK, Holding
<1>2. PICK place \in {"register", "accept"}, c \in Conns \cup {Nobody} :
        /\ \/ ServerGoto(g, place) /\ c = server[g].conn
           \/ server' = [server EXCEPT ![g] = [pc |-> place, conn |-> c]]
        /\ c # Nobody <=> place = "register"
  BY <1>1 DEF Dial, DialFails
<1>3. /\ server' \in [Gens -> Loop] /\ server'[g].pc = place /\ server'[g].conn = c
      /\ \A h \in Gens \ {g} : server'[h] = server[h]
  BY <1>1, <1>2, Placed
<1>4. Goroutines' /\ CallersOK' /\ StartsLeft'
  BY <1>1, <1>2, <1>3, LoopKeeps DEF Working, Holding
<1>5. /\ sockets' \subseteq Conns \X Dirs
      /\ target' \in [Conns -> Settings \cup {Nobody}]
  <2>1. sockets \subseteq Conns \X Dirs /\ target \in [Conns -> Settings \cup {Nobody}]
    BY <1>1 DEF TypeOK
  <2>2. CASE Dial(g)
    <3>1. <<server[g].conn, "upstream">> \in Conns \X Dirs
      BY <1>1 DEF Dirs
    <3> QED
      BY <1>1, <2>1, <2>2, <3>1 DEF Dial
  <2>3. CASE DialFails(g)
    BY <2>1, <2>3 DEF DialFails
  <2> QED
    BY <2>2, <2>3
<1>6. TypeOK'
  BY <1>1, <1>3, <1>5 DEF TypeOK, control, clients, toxics
<1> QED
  BY <1>4, <1>6 DEF CInv

LEMMA RegisterKeeps ==
  ASSUME CInv, NEW g \in Gens, Register(g)
  PROVE  CInv'
<1>1. /\ TypeOK /\ server[g].pc = "register" /\ server[g].conn \in Conns
      /\ server[g].conn # Nobody /\ ServerGoto(g, "upstream")
      /\ UNCHANGED <<control, gen, tomb, listener, open, blocker, clients,
                     sockets, target, links, link, toxics>>
  BY HoldingConn, ProxyAssumption DEF CInv, Register, Holding
<1>2. /\ server' \in [Gens -> Loop] /\ server'[g].pc = "upstream"
      /\ server'[g].conn = server[g].conn
      /\ \A h \in Gens \ {g} : server'[h] = server[h]
  BY <1>1, Placed
<1>3. Goroutines' /\ CallersOK' /\ StartsLeft'
  BY <1>1, <1>2, LoopKeeps DEF Working, Holding
<1>4. list' \in [Addrs \X Dirs -> Conns \cup {Nobody}]
  BY <1>1 DEF TypeOK, Register
<1>5. TypeOK'
  BY <1>1, <1>2, <1>4 DEF TypeOK, control, clients, toxics
<1> QED
  BY <1>3, <1>5 DEF CInv

LEMMA StartLinksKeeps ==
  ASSUME CInv, NEW g \in Gens, StartLinks(g)
  PROVE  CInv'
<1> DEFINE d == server[g].pc
           c == server[g].conn
<1>1. /\ TypeOK /\ d \in Dirs /\ c \in Conns /\ c # Nobody /\ StartLink(c, d)
      /\ AddrOf[c] \in Addrs
      /\ UNCHANGED <<control, gen, tomb, listener, open, blocker, clients,
                     sockets, target, list, chain>>
  BY HoldingConn, ProxyAssumption DEF CInv, StartLinks, Holding, Dirs, Addrs
<1>2. PICK place \in {"downstream", "accept"}, b \in Conns \cup {Nobody} :
        /\ \/ ServerGoto(g, place) /\ b = server[g].conn
           \/ server' = [server EXCEPT ![g] = [pc |-> place, conn |-> b]]
        /\ b # Nobody <=> place = "downstream"
  BY <1>1 DEF StartLinks
<1>3. /\ server' \in [Gens -> Loop] /\ server'[g].pc = place /\ server'[g].conn = b
      /\ \A h \in Gens \ {g} : server'[h] = server[h]
  BY <1>1, <1>2, Placed
<1>4. Goroutines' /\ CallersOK' /\ StartsLeft'
  BY <1>1, <1>2, <1>3, LoopKeeps DEF Working, Holding, Dirs
<1> HIDE DEF c, d
<1>5. /\ link' \in [Conns \X Dirs -> {"none", "runs", "unlink", "forget", "done"}]
      /\ runs' \in [Conns \X Dirs -> 0 .. MaxChanges]
      /\ links' \in [Addrs \X Dirs -> Conns \cup {Nobody}]
  BY <1>1 DEF TypeOK, StartLink
<1>6. TypeOK'
  BY <1>1, <1>3, <1>5 DEF TypeOK, control, clients
<1> QED
  BY <1>4, <1>6 DEF CInv

LEMMA BlockerKeeps ==
  ASSUME CInv, NEW g \in Gens, Blocker(g)
  PROVE  CInv'
<1>1. /\ TypeOK /\ Goroutines /\ blocker[g] \in {"wait", "join"}
      /\ UNCHANGED <<control, gen, listener, server, came, away, piping, toxics>>
      /\ blocker \in [Gens -> {"off", "wait", "join", "done"}]
      /\ open \subseteq Gens /\ gen \in 0 .. MaxStarts
  BY DEF CInv, Blocker, CloseListener, ServerDead, clients, TypeOK
<1>2. /\ CallersOK' /\ StartsLeft'
      /\ (Launching' <=> Launching) /\ (Waiting' <=> Waiting)
      /\ UNCHANGED <<caller, lock, enabled, settings>>
  BY <1>1, HandlersKept
<1>3. g = gen /\ (enabled \/ Waiting) /\ ~Launching /\ listener = gen
  BY <1>1, BlockerServes
<1>4. tomb # "alive" /\ ~enabled
  <2>1. enabled => tomb = "alive" /\ blocker[gen] \in {"off", "wait"}
    BY <1>1, <1>3 DEF Goroutines, Served
  <2>2. Waiting => tomb # "alive"
    BY <1>1, <1>3 DEF Goroutines, Served
  <2> QED
    BY <1>1, <1>3, <2>1, <2>2 DEF Blocker, CloseListener, ServerDead
<1>5. CASE CloseListener(g)
  <2>1. /\ blocker' = [blocker EXCEPT ![g] = "join"] /\ tomb' = tomb
        /\ open' = open \ {listener} /\ queue' = <<>> /\ blocker[g] = "wait"
    BY <1>5 DEF CloseListener, StillOpen
  <2>2. open = {gen} /\ open' = {}
    BY <1>1, <1>3, <2>1 DEF Goroutines, Served
  <2>3. /\ blocker' \in [Gens -> {"off", "wait", "join", "done"}]
        /\ blocker'[g] = "join"
        /\ \A h \in Gens \ {g} : blocker'[h] = blocker[h]
    BY <1>1, <2>1
  <2>4. OldOnesDone'
    BY <1>1, <1>3, <2>3, ProxyAssumption DEF Goroutines, OldOnesDone, Gens
  <2>5. Served'
    BY <1>1, <1>2, <1>3, <1>4, <2>1, <2>2, <2>3 DEF Goroutines, Served
  <2>6. Launched' /\ Down'
    BY <1>2, <1>3 DEF Launched, Down
  <2>7. TypeOK'
    <3>1. queue' \in Seq(came)
      BY <2>1, EmptySeq
    <3> QED
      BY <1>1, <2>1, <2>2, <2>3, <3>1 DEF TypeOK, control, clients, piping, toxics
  <2> QED
    BY <1>2, <2>4, <2>5, <2>6, <2>7 DEF CInv, Goroutines
<1>6. CASE ServerDead(g)
  <2>1. /\ blocker' = [blocker EXCEPT ![g] = "done"] /\ tomb' = "dead"
        /\ server[g].pc = "done" /\ UNCHANGED <<open, clients>> /\ blocker[g] = "join"
    BY <1>6 DEF ServerDead, Joined
  <2>2. /\ blocker' \in [Gens -> {"off", "wait", "join", "done"}]
        /\ blocker'[g] = "done"
        /\ \A h \in Gens \ {g} : blocker'[h] = blocker[h]
    BY <1>1, <2>1
  <2>3. OldOnesDone'
    BY <1>1, <1>3, <2>2, ProxyAssumption DEF Goroutines, OldOnesDone, Gens
  <2>4. Served'
    BY <1>1, <1>2, <1>3, <1>4, <2>1, <2>2 DEF Goroutines, Served
  <2>5. Launched' /\ Down'
    BY <1>2, <1>3 DEF Launched, Down
  <2>6. TypeOK'
    BY <1>1, <2>1, <2>2 DEF TypeOK, control, clients, piping, toxics
  <2> QED
    BY <1>2, <2>3, <2>4, <2>5, <2>6 DEF CInv, Goroutines
<1> QED
  BY <1>5, <1>6 DEF Blocker
-----------------------------------------------------------------------------
(* The steps of the clients, of the links and of the toxics.               *)

LEMMA ServingKept ==
  ASSUME CInv, UNCHANGED <<control, serving>>
  PROVE  CallersOK' /\ StartsLeft' /\ Goroutines'
BY HandlersKept, GoroutinesKept DEF CInv, serving

LEMMA ClientsKeep ==
  ASSUME CInv, NEW c \in Conns, Connect(c) \/ Abort(c)
  PROVE  CInv'
<1>1. /\ TypeOK /\ UNCHANGED <<control, serving, piping, toxics>>
      /\ queue \in Seq(came) /\ came \subseteq Conns /\ away \subseteq came
  BY DEF CInv, TypeOK, Connect, Abort
<1>2. CallersOK' /\ StartsLeft' /\ Goroutines'
  BY <1>1, ServingKept
<1>3. came' \subseteq Conns /\ away' \subseteq came' /\ queue' \in Seq(came')
  <2>1. CASE Connect(c)
    <3>1. came' = came \cup {c} /\ queue' = Append(queue, c) /\ away' = away
      BY <2>1 DEF Connect
    <3>2. queue \in Seq(came \cup {c})
      BY <1>1, SeqDef
    <3> QED
      BY <1>1, <3>1, <3>2, AppendProperties
  <2>2. CASE Abort(c)
    BY <1>1, <2>2 DEF Abort
  <2> QED
    BY <2>1, <2>2
<1>4. TypeOK'
  BY <1>1, <1>3 DEF TypeOK, control, serving, piping, toxics
<1> QED
  BY <1>2, <1>4 DEF CInv

LEMMA LinksKeep ==
  ASSUME CInv, NEW c \in Conns, NEW d \in Dirs, LinkEnds(c, d) \/ Unlink(c, d) \/ Forget(c, d)
  PROVE  CInv'
<1>1. TypeOK /\ UNCHANGED <<control, serving, clients, target, toxics>>
  BY DEF CInv, LinkEnds, Unlink, Forget
<1>2. CallersOK' /\ StartsLeft' /\ Goroutines'
  BY <1>1, ServingKept
<1>3. sockets' \subseteq Conns \X Dirs
  BY <1>1 DEF LinkEnds, Unlink, Forget, TypeOK
<1>4. link' \in [Conns \X Dirs -> {"none", "runs", "unlink", "forget", "done"}]
  BY <1>1 DEF LinkEnds, Unlink, Forget, LinkGoto, TypeOK
<1>5. /\ list' \in [Addrs \X Dirs -> Conns \cup {Nobody}]
      /\ links' \in [Addrs \X Dirs -> Conns \cup {Nobody}]
  BY <1>1 DEF LinkEnds, Unlink, Forget, TypeOK
<1>6. TypeOK'
  BY <1>1, <1>3, <1>4, <1>5 DEF TypeOK, control, serving, clients, toxics
<1> QED
  BY <1>2, <1>6 DEF CInv

LEMMA ToxicsKeep ==
  ASSUME CInv, NEW d \in Dirs, ChangeToxics(d)
  PROVE  CInv'
<1>1. TypeOK /\ UNCHANGED <<control, serving, clients, piping>>
  BY DEF CInv, ChangeToxics
<1>2. CallersOK' /\ StartsLeft' /\ Goroutines'
  BY <1>1, ServingKept
<1>3. /\ chain["upstream"] \in Nat /\ chain["downstream"] \in Nat
      /\ chain \in [Dirs -> 0 .. MaxChanges] /\ runs \in [Conns \X Dirs -> 0 .. MaxChanges]
      /\ chain["upstream"] + chain["downstream"] < MaxChanges
  BY <1>1, ProxyAssumption DEF TypeOK, Dirs, ChangeToxics
<1>4. chain[d] + 1 \in 0 .. MaxChanges
  BY <1>3, ProxyAssumption DEF Dirs
<1>5. /\ chain' \in [Dirs -> 0 .. MaxChanges]
      /\ runs' \in [Conns \X Dirs -> 0 .. MaxChanges]
  BY <1>3, <1>4 DEF ChangeToxics
<1>6. TypeOK'
  BY <1>1, <1>5 DEF TypeOK, control, serving, clients, piping
<1> QED
  BY <1>2, <1>6 DEF CInv
-----------------------------------------------------------------------------
(* What holds whatever addresses the clients have.                         *)

LEMMA InitCInv == Init => CInv
<1> SUFFICES ASSUME Init PROVE CInv
  OBVIOUS
<1>1. TypeOK
  <2>1. queue \in Seq(came)
    BY EmptySeq DEF Init
  <2>2. caller \in [Callers -> Call] /\ server \in [Gens -> Loop]
    BY IdleType DEF Init, Loop
  <2>3. /\ gen \in 0 .. MaxStarts /\ listener \in 0 .. MaxStarts
        /\ chain \in [Dirs -> 0 .. MaxChanges] /\ runs \in [Conns \X Dirs -> 0 .. MaxChanges]
    BY ProxyAssumption DEF Init
  <2>4. blocker \in [Gens -> {"off", "wait", "join", "done"}]
    BY DEF Init
  <2> QED
    BY <2>1, <2>2, <2>3, <2>4 DEF Init, TypeOK
<1>2. CallersOK
  BY ProxyAssumption DEF Init, CallersOK, CallerOK, InCall, Idle
<1>3. StartsLeft
  <2>1. MayStillStart = {}
    BY DEF Init, MayStillStart, Starting, Idle
  <2> QED
    BY <2>1, FS_EmptySet, ProxyAssumption DEF StartsLeft, Init
<1>4. Goroutines
  <2>1. ~Launching /\ ~Waiting /\ gen = 0
    BY DEF Init, Launching, Waiting, Idle
  <2> QED
    BY <2>1, ProxyAssumption
    DEF Init, Goroutines, OldOnesDone, Launched, Served, Down, Gens, Holding
<1> QED
  BY <1>1, <1>2, <1>3, <1>4 DEF CInv

LEMMA NextCInv == CInv /\ [Next]_vars => CInv'
<1> SUFFICES ASSUME CInv, [Next]_vars PROVE CInv'
  OBVIOUS
<1>1. CASE UNCHANGED vars
  <2>1. UNCHANGED <<control, serving>> /\ TypeOK'
    BY <1>1 DEF vars, CInv, TypeOK, control, serving, clients, piping, toxics
  <2> QED
    BY <2>1, ServingKept DEF CInv
<1>2. ASSUME NEW k \in Callers, Ask(k) \/ AskUpdate(k) \/ Handler(k) PROVE CInv'
  BY <1>2, AskKeeps, EnterKeeps, QuietStepsKeep, StartServerKeeps, StartedKeeps,
     KillServerKeeps DEF Handler
<1>3. ASSUME NEW g \in Gens, Server(g) \/ Blocker(g) PROVE CInv'
  BY <1>3, ListenKeeps, SpawnBlockerKeeps, AcceptKeeps, DialKeeps, RegisterKeeps,
     StartLinksKeeps, BlockerKeeps DEF Server
<1> QED
  BY <1>1, <1>2, <1>3, ClientsKeep, LinksKeep, ToxicsKeep DEF Next

LEMMA SpecCInv == Spec => []CInv
BY InitCInv, NextCInv, PTL DEF Spec

(* The proxy's mutex, its fields, the goroutines of its starts and the     *)
(* connections they leave behind have their types (proxy.go, link.go).     *)
THEOREM ProxyTypeCorrect == Spec => []TypeOK
<1>1. CInv => TypeOK
  BY DEF CInv
<1> QED
  BY <1>1, SpecCInv, PTL

(* No two goroutines of server() run at once, and the one that does only   *)
(* accepts on the listener it opened (server, freeBlocker and stop).       *)
THEOREM OwnListenerCorrect == Spec => []OwnListener
<1>1. CInv => OwnListener
  <2> SUFFICES ASSUME CInv PROVE OwnListener
    OBVIOUS
  <2>1. \A g \in Gens : Alive(g) => listener = g
    BY WorkingServes DEF Alive, Working
  <2>2. \A g \in Gens : blocker[g] \in {"wait", "join"} => g = gen
    BY BlockerServes
  <2>3. open \subseteq {listener}
    BY DEF CInv, Goroutines, Launched, Served, Down
  <2> QED
    BY <2>1, <2>2, <2>3 DEF OwnListener
<1> QED
  BY <1>1, SpecCInv, PTL

(* A proxy that is enabled has its listener open and its accept loop alive,*)
(* if Accept does not fail on an open listener (server returns if it does).*)
THEOREM EnabledServesCorrect ==
  ASSUME ~AcceptMayFail
  PROVE  Spec => []EnabledServes
<1>1. CInv => EnabledServes
  <2> SUFFICES ASSUME CInv, enabled PROVE /\ Alive(gen) /\ listener = gen /\ gen \in open
                                          /\ tomb = "alive"
    BY DEF EnabledServes
  <2> QED
    BY DEF CInv, Goroutines, Served, Alive, Working
<1> QED
  BY <1>1, SpecCInv, PTL
-----------------------------------------------------------------------------
(* What holds of the connections.                                          *)

Stopping == \E k \in Callers : caller[k].pc \in {"wait", "close"}

(* The steps of the handlers close connections at most.                    *)
LEMMA HandlersLeave ==
  ASSUME CInv, NEW k \in Callers, Ask(k) \/ AskUpdate(k) \/ Handler(k)
  PROVE  /\ UNCHANGED <<clients, toxics, target, list, links, link>>
         /\ sockets' \subseteq sockets
         /\ \A j \in Callers \ {k} : caller'[j] = caller[j]
         /\ \A g \in Gens : /\ server'[g].conn = server[g].conn
                            /\ server[g].pc \in Holding => server'[g].pc = server[g].pc
<1>1. TypeOK /\ caller \in [Callers -> Call] /\ server \in [Gens -> Loop]
  BY DEF CInv, TypeOK
<1>2. /\ UNCHANGED <<clients, toxics, target, list, links, link>>
      /\ sockets' \subseteq sockets
  BY DEF Ask, AskUpdate, Handler, Enter, AlreadyStarted, StartServer, Started,
         AlreadyStopped, KillServer, ServerStopped, CloseConnections,
         UpdateCompares, UpdateAssigns, UpdateToggles, piping
<1>3. \A j \in Callers \ {k} : caller'[j] = caller[j]
  BY <1>1 DEF Ask, AskUpdate, Handler, Enter, AlreadyStarted, StartServer, Started,
         AlreadyStopped, KillServer, ServerStopped, CloseConnections,
         UpdateCompares, UpdateAssigns, UpdateToggles, AfterStop, Goto, Return
<1>4. /\ \A g \in Gens : /\ server'[g].conn = server[g].conn
                         /\ server[g].pc \in Holding => server'[g].pc = server[g].pc
  <2>1. CASE StartServer(k)
    <3>1. /\ caller[k].pc = "start" /\ ~enabled
          /\ server' = [server EXCEPT ![gen + 1].pc = "listen"]
      BY <2>1 DEF StartServer
    <3>2. ~Launching /\ ~Waiting
      BY <3>1, OthersOut DEF Launching, Waiting, CInv, InCall
    <3>3. \A g \in Gens : server[g].pc \notin Holding
      BY <3>1, <3>2, WorkingServes DEF Holding, Working
    <3> QED
      BY <1>1, <3>1, <3>3 DEF Loop
  <2>2. CASE Started(k)
    <3>1. PICK g \in Gens :
            /\ server[g].pc \in {"ok", "error"}
            /\ server' = [server EXCEPT
                 ![g].pc = IF server[g].pc = "ok" THEN "spawn" ELSE "done"]
      BY <2>2 DEF Started
    <3> QED
      BY <1>1, <3>1 DEF Loop, Holding
  <2>3. CASE ~StartServer(k) /\ ~Started(k)
    <3>1. server' = server
      BY <2>3 DEF Ask, AskUpdate, Handler, Enter, AlreadyStarted,
         AlreadyStopped, KillServer, ServerStopped, CloseConnections,
         UpdateCompares, UpdateAssigns, UpdateToggles, serving
    <3> QED
      BY <3>1
  <2> QED
    BY <2>1, <2>2, <2>3
<1> QED
  BY <1>2, <1>3, <1>4

(* A handler that stops the proxy finds all connections in the list.       *)
LEMMA NoneHeld ==
  ASSUME CInv, ~enabled, ~Waiting
  PROVE  \A g \in Gens : server[g].conn = Nobody
<1>1. \A g \in Gens : server[g].pc \notin Holding
  BY WorkingServes DEF Holding, Working
<1> QED
  BY <1>1 DEF CInv, Goroutines, OldOnesDone

LEMMA AllListed ==
  ASSUME CInv, PInv, NEW k \in Callers, caller[k].pc = "close"
  PROVE  ~enabled /\ ~Waiting /\ Listed = sockets
<1>1. ~enabled /\ ~Waiting
  BY OthersOut DEF CInv, CallersOK, CallerOK, InCall, Waiting
<1>2. \A c \in Conns, d \in Dirs : <<c, d>> \in sockets => list[<<AddrOf[c], d>>] = c
  BY <1>1, NoneHeld, ProxyAssumption DEF PInv, SocketsListed
<1>3. sockets \subseteq Conns \X Dirs
  BY DEF CInv, TypeOK
<1> QED
  BY <1>1, <1>2, <1>3 DEF Listed

LEMMA HandlersKeepConns ==
  ASSUME CInv, PInv, NEW k \in Callers, Ask(k) \/ AskUpdate(k) \/ Handler(k)
  PROVE  PInv'
<1>1. /\ UNCHANGED <<clients, toxics, target, list, links, link>>
      /\ sockets' \subseteq sockets
      /\ \A j \in Callers \ {k} : caller'[j] = caller[j]
      /\ \A g \in Gens : /\ server'[g].conn = server[g].conn
                         /\ server[g].pc \in Holding => server'[g].pc = server[g].pc
  BY HandlersLeave
<1>2. TypeOK /\ caller \in [Callers -> Call] /\ CallersOK /\ CallerOK(k)
  BY DEF CInv, TypeOK, CallersOK
<1>3. \A g \in Gens, c \in Conns : server[g].conn = c => server'[g].pc = server[g].pc
  BY <1>1, ProxyAssumption DEF CInv, Goroutines, OldOnesDone
<1>4. AcceptedOnce'
  BY <1>1 DEF PInv, AcceptedOnce, clients
<1>5. NotYetLinked'
  BY <1>1, <1>3 DEF PInv, NotYetLinked
<1>6. SocketsListed'
  BY <1>1, <1>3 DEF PInv, SocketsListed
<1>7. LinksListed'
  BY <1>1 DEF PInv, LinksListed, toxics
<1>8. InCall(k) => \A j \in Callers \ {k} : caller[j].pc \in {"idle", "lock"}
  BY <1>2, OthersOut
<1>9. DialedCurrent'
  <2>1. CASE UpdateAssigns(k)
    <3>1. ~enabled /\ InCall(k) /\ caller[k].pc = "assign"
      BY <1>2, <2>1 DEF UpdateAssigns, InCall, CallerOK
    <3>2. sockets = {}
      BY <1>8, <3>1 DEF PInv, NoneWhenDown
    <3> QED
      BY <1>1, <3>2 DEF DialedCurrent
  <2>2. CASE ~UpdateAssigns(k)
    <3>1. settings' = settings
      BY <2>2 DEF Ask, AskUpdate, Handler, Enter, AlreadyStarted, StartServer, Started,
         AlreadyStopped, KillServer, ServerStopped, CloseConnections,
         UpdateCompares, UpdateToggles
    <3> QED
      BY <1>1, <3>1 DEF PInv, DialedCurrent
  <2> QED
    BY <2>1, <2>2
<1>10. NoneWhenDown'
  <2> SUFFICES ASSUME ~enabled', \A j \in Callers : caller'[j].pc \notin {"wait", "close"}
               PROVE  sockets' = {}
    BY DEF NoneWhenDown
  <2>1. CASE CloseConnections(k)
    BY <2>1, AllListed DEF CloseConnections
  <2>2. CASE Started(k)
    <3>1. caller[k].pc = "started" /\ InCall(k) /\ ~enabled
      BY <1>2, <2>2 DEF Started, InCall, CallerOK
    <3> QED
      BY <1>1, <1>8, <3>1 DEF PInv, NoneWhenDown
  <2>3. CASE ~CloseConnections(k) /\ ~Started(k)
    <3>1. ~KillServer(k) /\ ~ServerStopped(k)
      <4>1. KillServer(k) \/ ServerStopped(k) => caller'[k].pc \in {"wait", "close"}
        BY <1>2, Went DEF KillServer, ServerStopped, Places
      <4> QED
        BY <4>1
    <3>2. enabled' = enabled /\ caller[k].pc \notin {"wait", "close"}
      BY <2>3, <3>1 DEF Ask, AskUpdate, Handler, Enter, AlreadyStarted, StartServer,
         AlreadyStopped, UpdateCompares, UpdateAssigns, UpdateToggles
    <3> QED
      BY <1>1, <3>2 DEF PInv, NoneWhenDown
  <2> QED
    BY <2>1, <2>2, <2>3
<1> QED
  BY <1>4, <1>5, <1>6, <1>7, <1>9, <1>10 DEF PInv

(* The steps of the goroutines: one that handles no connection, ...        *)
LEMMA IdleStepKeepsConns ==
  ASSUME CInv, PInv, UNCHANGED <<control, came, away, piping, toxics>>,
         queue' = queue \/ queue' = <<>>,
         \A g \in Gens : /\ server'[g].conn = server[g].conn
                         /\ server[g].pc \in Holding => server'[g].pc = server[g].pc
  PROVE  PInv'
<1>1. \A g \in Gens, c \in Conns : server[g].conn = c => server'[g].pc = server[g].pc
  BY ProxyAssumption DEF CInv, Goroutines, OldOnesDone
<1>2. UNCHANGED <<enabled, settings, caller, sockets, target, list, links, link, chain, runs>>
  BY DEF control, piping, toxics
<1>3. AcceptedOnce'
  <2>1. CASE queue' = queue
    BY <1>2, <2>1 DEF PInv, AcceptedOnce
  <2>2. CASE queue' = <<>>
    <3>1. Len(queue') = 0
      BY <2>2
    <3>2. \A i \in 1 .. Len(queue') : FALSE
      BY <3>1
    <3> QED
      BY <1>2, <3>2 DEF PInv, AcceptedOnce
  <2> QED
    BY <2>1, <2>2
<1>4. NotYetLinked' /\ SocketsListed'
  BY <1>1, <1>2 DEF PInv, NotYetLinked, SocketsListed
<1>5. LinksListed' /\ DialedCurrent' /\ NoneWhenDown'
  BY <1>2 DEF PInv, LinksListed, DialedCurrent, NoneWhenDown
<1> QED
  BY <1>3, <1>4, <1>5 DEF PInv

LEMMA IdleStepsKeepConns ==
  ASSUME CInv, PInv, NEW g \in Gens,
         Listen(g) \/ SpawnBlocker(g) \/ AcceptError(g) \/ Blocker(g)
  PROVE  PInv'
<1>1. server \in [Gens -> Loop]
  BY DEF CInv, TypeOK
<1>2. /\ UNCHANGED <<control, came, away, piping, toxics>>
      /\ queue' = queue \/ queue' = <<>>
  BY DEF Listen, SpawnBlocker, AcceptError, Blocker, CloseListener, ServerDead, clients
<1>3. \/ server' = server
      \/ /\ server[g].pc \in {"listen", "spawn", "accept"}
         /\ \E place \in {"ok", "error", "accept", "done"} : ServerGoto(g, place)
  BY DEF Listen, SpawnBlocker, AcceptError, Blocker, CloseListener, ServerDead
<1>4. \A h \in Gens : /\ server'[h].conn = server[h].conn
                      /\ server[h].pc \in Holding => server'[h].pc = server[h].pc
  BY <1>1, <1>3 DEF ServerGoto, Loop, Holding
<1> QED
  BY <1>2, <1>4, IdleStepKeepsConns

LEMMA UpWhileWorking ==
  ASSUME CInv, NEW g \in Gens, server[g].pc \in Working, UNCHANGED control
  PROVE  NoneWhenDown' /\ UNCHANGED <<caller, enabled, settings>>
<1>1. enabled \/ Waiting
  BY WorkingServes
<1> QED
  BY <1>1 DEF NoneWhenDown, Waiting, control

LEMMA OneHolds ==
  ASSUME CInv, NEW g \in Gens, server[g].pc \in Working
  PROVE  \A h \in Gens \ {g} : server[h].conn = Nobody
<1>1. \A h \in Gens \ {g} : server[h].pc \notin Holding
  BY OnlyTheLast DEF Holding, Working
<1> QED
  BY <1>1 DEF CInv, Goroutines, OldOnesDone

LEMMA AcceptKeepsConns ==
  ASSUME CInv, PInv, NEW g \in Gens, Accept(g)
  PROVE  PInv'
<1> DEFINE c == Head(queue)
<1>1. /\ TypeOK /\ queue \in Seq(came) /\ queue # <<>> /\ came \subseteq Conns
      /\ server \in [Gens -> Loop] /\ server[g].pc = "accept"
      /\ queue' = Tail(queue) /\ sockets' = sockets \cup {<<c, "downstream">>}
      /\ server' = [server EXCEPT ![g] = [pc |-> "dial", conn |-> c]]
      /\ UNCHANGED <<control, came, target, list, links, link, chain, runs>>
  BY DEF CInv, TypeOK, Accept, toxics
<1>2. /\ c \in came /\ c \in Conns /\ c # Nobody /\ c = queue[1] /\ Len(queue) \in Nat
      /\ Len(Tail(queue)) = Len(queue) - 1 /\ Len(queue) >= 1
      /\ \A i \in 1 .. Len(Tail(queue)) : Tail(queue)[i] = queue[i + 1]
  BY <1>1, HeadTailProperties, EmptySeq, LenProperties, ProxyAssumption
<1> HIDE DEF c
<1>3. /\ server'[g].pc = "dial" /\ server'[g].conn = c
      /\ \A h \in Gens \ {g} : server'[h] = server[h] /\ server[h].conn = Nobody
      /\ server[g].conn = Nobody
  <2>1. \A h \in Gens \ {g} : server[h].conn = Nobody
    BY <1>1, OneHolds DEF Working
  <2>2. server[g].conn = Nobody
    BY <1>1 DEF CInv, Goroutines, OldOnesDone, Holding
  <2> QED
    BY <1>1, <2>1, <2>2
<1>4. \A d \in Dirs : link[<<c, d>>] = "none" /\ <<c, d>> \notin sockets
  BY <1>1, <1>2 DEF PInv, AcceptedOnce
<1>5. AcceptedOnce'
  <2>1. \A i \in 1 .. Len(queue') : i + 1 \in 1 .. Len(queue) /\ queue'[i] = queue[i + 1]
    BY <1>1, <1>2
  <2>2. \A i, j \in 1 .. Len(queue') : queue'[i] = queue'[j] => i = j
    BY <2>1 DEF PInv, AcceptedOnce
  <2>3. \A b \in Conns : b \notin came \/ (\E i \in 1 .. Len(queue') : queue'[i] = b)
          => b # c /\ (b \notin came \/ (\E i \in 1 .. Len(queue) : queue[i] = b))
    <3>1. \A i \in 1 .. Len(queue') : queue'[i] # c
      BY <1>2, <2>1 DEF PInv, AcceptedOnce
    <3> QED
      BY <1>2, <2>1, <3>1
  <2> QED
    BY <1>1, <1>3, <2>2, <2>3, ProxyAssumption DEF PInv, AcceptedOnce
<1>6. NotYetLinked'
  BY <1>1, <1>3, <1>4, ProxyAssumption DEF NotYetLinked, Dirs
<1>7. SocketsListed'
  <2> SUFFICES ASSUME NEW b \in Conns, NEW d \in Dirs, <<b, d>> \in sockets'
               PROVE  /\ link[<<b, d>>] \in {"none", "runs"}
                      /\ \/ list[<<AddrOf[b], d>>] = b
                         \/ \E h \in Gens : /\ server'[h].conn = b
                                            /\ server'[h].pc \in {"dial", "register"}
    BY <1>1 DEF SocketsListed
  <2>1. CASE b = c
    BY <1>3, <1>4, <2>1
  <2>2. CASE b # c
    BY <1>1, <1>3, <2>2, ProxyAssumption DEF PInv, SocketsListed
  <2> QED
    BY <2>1, <2>2
<1>8. NoneWhenDown' /\ UNCHANGED <<caller, enabled, settings>>
  BY <1>1, UpWhileWorking DEF Working
<1>9. LinksListed' /\ DialedCurrent'
  BY <1>1, <1>8 DEF PInv, LinksListed, DialedCurrent
<1> QED
  BY <1>5, <1>6, <1>7, <1>8, <1>9 DEF PInv

(* ... and one that handles the connection it holds.                       *)
LEMMA HeldIsNotQueued ==
  ASSUME CInv, PInv, NEW g \in Gens, server[g].conn \in Conns, UNCHANGED <<came, queue>>,
         \A h \in Gens \ {g} : server'[h] = server[h],
         server'[g].conn \in {server[g].conn, Nobody},
         \A b \in Conns \ {server[g].conn}, d \in Dirs :
           /\ link'[<<b, d>>] = link[<<b, d>>]
           /\ <<b, d>> \in sockets' => <<b, d>> \in sockets
  PROVE  AcceptedOnce'
<1>1. \A b \in Conns : b \notin came \/ (\E i \in 1 .. Len(queue) : queue[i] = b)
                         => b # server[g].conn
  BY DEF PInv, AcceptedOnce
<1> QED
  BY <1>1, ProxyAssumption DEF PInv, AcceptedOnce

LEMMA DialKeepsConns ==
  ASSUME CInv, PInv, NEW g \in Gens, Dial(g)
  PROVE  PInv'
<1> DEFINE c == server[g].conn
<1>1. /\ c \in Conns /\ server[g].pc = "dial" /\ server \in [Gens -> Loop]
      /\ sockets' = sockets \cup {<<c, "upstream">>}
      /\ target \in [Conns -> Settings \cup {Nobody}]
      /\ target' = [target EXCEPT ![c] = settings]
      /\ ServerGoto(g, "register")
      /\ UNCHANGED <<control, came, queue, list, links, link, chain, runs>>
  BY HoldingConn DEF Dial, Holding, clients, toxics, CInv, TypeOK
<1>2. /\ server'[g].pc = "register" /\ server'[g].conn = c
      /\ \A h \in Gens \ {g} : server'[h] = server[h] /\ server[h].conn = Nobody
  BY <1>1, OneHolds DEF ServerGoto, Loop, Working
<1>3. c = server[g].conn
  OBVIOUS
<1> HIDE DEF c
<1>4. AcceptedOnce'
  BY <1>1, <1>2, <1>3, HeldIsNotQueued
<1>5. /\ link[<<c, "upstream">>] = "none" /\ link[<<c, "downstream">>] = "none"
  BY <1>1, <1>3 DEF PInv, NotYetLinked
<1>6. NotYetLinked'
  BY <1>1, <1>2, <1>5, ProxyAssumption DEF NotYetLinked
<1>7. SocketsListed'
  <2> SUFFICES ASSUME NEW b \in Conns, NEW d \in Dirs, <<b, d>> \in sockets'
               PROVE  /\ link[<<b, d>>] \in {"none", "runs"}
                      /\ \/ list[<<AddrOf[b], d>>] = b
                         \/ \E h \in Gens : /\ server'[h].conn = b
                                            /\ server'[h].pc \in {"dial", "register"}
    BY <1>1 DEF SocketsListed
  <2>1. CASE b = c
    BY <1>2, <1>5, <2>1 DEF Dirs
  <2>2. CASE b # c
    BY <1>1, <1>2, <1>3, <2>2, ProxyAssumption DEF PInv, SocketsListed
  <2> QED
    BY <2>1, <2>2
<1>8. NoneWhenDown' /\ UNCHANGED <<caller, enabled, settings>>
  BY <1>1, UpWhileWorking DEF Working
<1>9. LinksListed' /\ DialedCurrent'
  BY <1>1, <1>8 DEF PInv, LinksListed, DialedCurrent
<1> QED
  BY <1>4, <1>6, <1>7, <1>8, <1>9 DEF PInv

LEMMA DialFailsKeepsConns ==
  ASSUME CInv, PInv, NEW g \in Gens, DialFails(g)
  PROVE  PInv'
<1> DEFINE c == server[g].conn
<1>1. /\ c \in Conns /\ server[g].pc = "dial" /\ server \in [Gens -> Loop]
      /\ sockets' = sockets \ {<<c, "downstream">>}
      /\ server' = [server EXCEPT ![g] = [pc |-> "accept", conn |-> Nobody]]
      /\ UNCHANGED <<control, came, queue, target, list, links, link, chain, runs>>
  BY HoldingConn DEF DialFails, Holding, clients, toxics, CInv, TypeOK
<1>2. /\ server'[g].pc = "accept" /\ server'[g].conn = Nobody
      /\ \A h \in Gens \ {g} : server'[h] = server[h] /\ server[h].conn = Nobody
  BY <1>1, OneHolds DEF Working
<1>3. c = server[g].conn
  OBVIOUS
<1> HIDE DEF c
<1>4. AcceptedOnce'
  BY <1>1, <1>2, <1>3, HeldIsNotQueued
<1>5. \A d \in Dirs : <<c, d>> \notin sockets'
  BY <1>1, <1>3 DEF PInv, NotYetLinked, Dirs
<1>6. NotYetLinked'
  BY <1>2, ProxyAssumption DEF NotYetLinked
<1>7. SocketsListed'
  BY <1>1, <1>2, <1>3, <1>5 DEF PInv, SocketsListed
<1>8. NoneWhenDown' /\ UNCHANGED <<caller, enabled, settings>>
  BY <1>1, UpWhileWorking DEF Working
<1>9. LinksListed' /\ DialedCurrent'
  BY <1>1, <1>8 DEF PInv, LinksListed, DialedCurrent
<1> QED
  BY <1>4, <1>6, <1>7, <1>8, <1>9 DEF PInv

(* Another connection's entries stay what they are under OwnAddresses.     *)
LEMMA RegisterKeepsConns ==
  ASSUME OwnAddresses, CInv, PInv, NEW g \in Gens, Register(g)
  PROVE  PInv'
<1> DEFINE c == server[g].conn
<1>1. /\ c \in Conns /\ server[g].pc = "register" /\ server \in [Gens -> Loop]
      /\ list \in [Addrs \X Dirs -> Conns \cup {Nobody}]
      /\ list' = [e \in DOMAIN list |-> IF e[1] = AddrOf[c] THEN c ELSE list[e]]
      /\ ServerGoto(g, "upstream")
      /\ UNCHANGED <<control, came, queue, sockets, target, links, link, chain, runs>>
  BY HoldingConn DEF Register, Holding, clients, toxics, CInv, TypeOK
<1>2. /\ server'[g].pc = "upstream" /\ server'[g].conn = c
      /\ \A h \in Gens \ {g} : server'[h] = server[h] /\ server[h].conn = Nobody
  BY <1>1, OneHolds DEF ServerGoto, Loop, Working
<1>3. c = server[g].conn
  OBVIOUS
<1> HIDE DEF c
<1>4. AcceptedOnce'
  BY <1>1, <1>2, <1>3, HeldIsNotQueued
<1>5. NotYetLinked'
  BY <1>1, <1>2, <1>3, ProxyAssumption DEF PInv, NotYetLinked
<1>6. \A b \in Conns, d \in Dirs :
        list'[<<AddrOf[b], d>>] = IF b = c THEN c ELSE list[<<AddrOf[b], d>>]
  <2> SUFFICES ASSUME NEW b \in Conns, NEW d \in Dirs
               PROVE  list'[<<AddrOf[b], d>>] = IF b = c THEN c ELSE list[<<AddrOf[b], d>>]
    OBVIOUS
  <2>1. <<AddrOf[b], d>> \in DOMAIN list
    BY <1>1 DEF Addrs
  <2>2. list'[<<AddrOf[b], d>>] = IF AddrOf[b] = AddrOf[c] THEN c ELSE list[<<AddrOf[b], d>>]
    BY <1>1, <2>1
  <2> QED
    BY <1>1, <2>2 DEF OwnAddresses
<1>7. SocketsListed'
  <2> SUFFICES ASSUME NEW b \in Conns, NEW d \in Dirs, <<b, d>> \in sockets
               PROVE  /\ link[<<b, d>>] \in {"none", "runs"}
                      /\ \/ list'[<<AddrOf[b], d>>] = b
                         \/ \E h \in Gens : /\ server'[h].conn = b
                                            /\ server'[h].pc \in {"dial", "register"}
    BY <1>1 DEF SocketsListed
  <2>1. /\ link[<<b, d>>] \in {"none", "runs"}
        /\ \/ list[<<AddrOf[b], d>>] = b
           \/ \E h \in Gens : server[h].conn = b /\ server[h].pc \in {"dial", "register"}
    BY DEF PInv, SocketsListed
  <2>2. CASE b = c
    BY <1>6, <2>1, <2>2
  <2>3. CASE b # c
    BY <1>2, <1>3, <1>6, <2>1, <2>3, ProxyAssumption
  <2> QED
    BY <2>2, <2>3
<1>8. NoneWhenDown' /\ UNCHANGED <<caller, enabled, settings>>
  BY <1>1, UpWhileWorking DEF Working
<1>9. LinksListed' /\ DialedCurrent'
  BY <1>1, <1>8 DEF PInv, LinksListed, DialedCurrent
<1> QED
  BY <1>4, <1>5, <1>7, <1>8, <1>9 DEF PInv

LEMMA StartLinksKeepsConns ==
  ASSUME OwnAddresses, CInv, PInv, NEW g \in Gens, StartLinks(g)
  PROVE  PInv'
<1> DEFINE c == server[g].conn
           d == server[g].pc
<1>1. /\ c \in Conns /\ d \in Dirs /\ server \in [Gens -> Loop]
      /\ StartLink(c, d)
      /\ links \in [Addrs \X Dirs -> Conns \cup {Nobody}]
      /\ link \in [Conns \X Dirs -> {"none", "runs", "unlink", "forget", "done"}]
      /\ runs \in [Conns \X Dirs -> 0 .. MaxChanges]
      /\ UNCHANGED <<control, came, queue, sockets, target, list, chain>>
  BY HoldingConn DEF StartLinks, Holding, Dirs, clients, CInv, TypeOK
<1>2. \/ /\ d = "upstream" /\ server'[g].pc = "downstream" /\ server'[g].conn = c
      \/ /\ d = "downstream" /\ server'[g].conn = Nobody
  BY <1>1 DEF StartLinks, ServerGoto, Loop
<1>3. \A h \in Gens \ {g} : server'[h] = server[h] /\ server[h].conn = Nobody
  BY <1>1, OneHolds DEF StartLinks, ServerGoto, Working, Dirs
<1>4. c = server[g].conn /\ d = server[g].pc
  OBVIOUS
<1> HIDE DEF c, d
<1>5. /\ link'[<<c, d>>] = "runs" /\ links'[<<AddrOf[c], d>>] = c
      /\ runs'[<<c, d>>] = chain[d]
  BY <1>1 DEF StartLink, Addrs
<1>6. ASSUME NEW b \in Conns, NEW e \in Dirs, b # c \/ e # d
      PROVE  /\ link'[<<b, e>>] = link[<<b, e>>]
             /\ links'[<<AddrOf[b], e>>] = links[<<AddrOf[b], e>>]
             /\ runs'[<<b, e>>] = runs[<<b, e>>]
  <2>1. AddrOf[b] \in Addrs /\ (AddrOf[b] = AddrOf[c] <=> b = c)
    BY <1>1 DEF Addrs, OwnAddresses
  <2> QED
    BY <1>1, <1>6, <2>1 DEF StartLink
<1>7. AcceptedOnce'
  <2>1. \A b \in Conns \ {server[g].conn}, e \in Dirs :
          /\ link'[<<b, e>>] = link[<<b, e>>]
          /\ <<b, e>> \in sockets' => <<b, e>> \in sockets
    BY <1>1, <1>4, <1>6
  <2>2. server'[g].conn \in {server[g].conn, Nobody} /\ UNCHANGED <<came, queue>>
    BY <1>1, <1>2, <1>4
  <2> QED
    BY <1>1, <1>3, <1>4, <2>1, <2>2, HeldIsNotQueued
<1>8. NotYetLinked'
  <2> SUFFICES ASSUME NEW h \in Gens, NEW b \in Conns, server'[h].conn = b
               PROVE  /\ server'[h].pc = "dial" => <<b, "upstream">> \notin sockets
                      /\ server'[h].pc # "downstream" => link'[<<b, "upstream">>] = "none"
                      /\ link'[<<b, "downstream">>] = "none"
    BY <1>1 DEF NotYetLinked
  <2>1. h = g
    BY <1>3, ProxyAssumption
  <2>2. b = c /\ d = "upstream" /\ server'[g].pc = "downstream"
    BY <1>2, <2>1, ProxyAssumption
  <2>3. link[<<c, "downstream">>] = "none"
    BY <1>1, <1>4, <2>1 DEF PInv, NotYetLinked
  <2>4. link'[<<c, "downstream">>] = "none"
    BY <1>1, <1>6, <2>2, <2>3 DEF Dirs
  <2> QED
    BY <2>1, <2>2, <2>4
<1>9. SocketsListed'
  <2> SUFFICES ASSUME NEW b \in Conns, NEW e \in Dirs, <<b, e>> \in sockets
               PROVE  /\ link'[<<b, e>>] \in {"none", "runs"}
                      /\ \/ list[<<AddrOf[b], e>>] = b
                         \/ \E h \in Gens : /\ server'[h].conn = b
                                            /\ server'[h].pc \in {"dial", "register"}
    BY <1>1 DEF SocketsListed
  <2>1. /\ link[<<b, e>>] \in {"none", "runs"}
        /\ \/ list[<<AddrOf[b], e>>] = b
           \/ \E h \in Gens : server[h].conn = b /\ server[h].pc \in {"dial", "register"}
    BY DEF PInv, SocketsListed
  <2>2. link'[<<b, e>>] \in {"none", "runs"}
    BY <1>5, <1>6, <2>1
  <2>3. list[<<AddrOf[b], e>>] = b
    BY <1>1, <1>3, <1>4, <2>1, ProxyAssumption DEF Dirs
  <2> QED
    BY <2>2, <2>3
<1>10. LinksListed'
  <2> SUFFICES ASSUME NEW b \in Conns, NEW e \in Dirs, link'[<<b, e>>] = "runs"
               PROVE  links'[<<AddrOf[b], e>>] = b /\ runs'[<<b, e>>] = chain[e]
    BY <1>1 DEF LinksListed
  <2>1. CASE b = c /\ e = d
    BY <1>5, <2>1
  <2>2. CASE b # c \/ e # d
    BY <1>6, <2>2 DEF PInv, LinksListed
  <2> QED
    BY <2>1, <2>2
<1>11. NoneWhenDown' /\ UNCHANGED <<caller, enabled, settings>>
  BY <1>1, <1>4, UpWhileWorking DEF Working, Dirs
<1>12. DialedCurrent'
  BY <1>1, <1>11 DEF PInv, DialedCurrent
<1> QED
  BY <1>7, <1>8, <1>10, <1>11, <1>12, <1>9 DEF PInv

(* The steps of the clients, of the links and of the toxics.               *)
LEMMA ClientsKeepConns ==
  ASSUME CInv, PInv, NEW c \in Conns, Connect(c) \/ Abort(c)
  PROVE  PInv'
<1>1. UNCHANGED <<control, serving, piping, toxics>> /\ queue \in Seq(came)
  BY DEF CInv, TypeOK, Connect, Abort
<1>2. NotYetLinked' /\ SocketsListed' /\ LinksListed' /\ DialedCurrent' /\ NoneWhenDown'
  BY <1>1 DEF PInv, NotYetLinked, SocketsListed, LinksListed, DialedCurrent, NoneWhenDown,
              control, serving, piping, toxics
<1>3. CASE Abort(c)
  BY <1>1, <1>2, <1>3 DEF PInv, AcceptedOnce, Abort, serving, piping
<1>4. CASE Connect(c)
  <2>1. c \notin came /\ came' = came \cup {c} /\ queue' = Append(queue, c)
    BY <1>4 DEF Connect
  <2>2. /\ Len(queue) \in Nat /\ Len(queue') = Len(queue) + 1
        /\ \A i \in 1 .. Len(queue) : queue'[i] = queue[i] /\ queue[i] \in came
        /\ queue'[Len(queue) + 1] = c
    <3>1. \A i \in 1 .. Len(queue) : queue[i] \in came
      BY <1>1, ElementOfSeq
    <3>2. queue \in Seq(came \cup {c})
      BY <1>1, SeqDef
    <3> QED
      BY <2>1, <3>1, <3>2, AppendProperties, LenProperties
  <2>3. \A i, j \in 1 .. Len(queue') : queue'[i] = queue'[j] => i = j
    <3> SUFFICES ASSUME NEW i \in 1 .. Len(queue'), NEW j \in 1 .. Len(queue'),
                        queue'[i] = queue'[j]
                 PROVE  i = j
      OBVIOUS
    <3>1. /\ i \in 1 .. Len(queue) \/ i = Len(queue) + 1
          /\ j \in 1 .. Len(queue) \/ j = Len(queue) + 1
      BY <2>2
    <3> QED
      BY <2>1, <2>2, <3>1 DEF PInv, AcceptedOnce
  <2>4. \A b \in Conns : b \notin came' \/ (\E i \in 1 .. Len(queue') : queue'[i] = b)
          => b \notin came \/ (\E i \in 1 .. Len(queue) : queue[i] = b)
    <3> SUFFICES ASSUME NEW b \in Conns, NEW i \in 1 .. Len(queue'), queue'[i] = b
                 PROVE  b \notin came \/ (\E j \in 1 .. Len(queue) : queue[j] = b)
      BY <2>1
    <3>1. i \in 1 .. Len(queue) \/ i = Len(queue) + 1
      BY <2>2
    <3> QED
      BY <2>1, <2>2, <3>1
  <2>5. AcceptedOnce'
    BY <1>1, <2>3, <2>4 DEF PInv, AcceptedOnce, serving, piping
  <2> QED
    BY <1>2, <2>5 DEF PInv
<1> QED
  BY <1>2, <1>3, <1>4 DEF PInv

LEMMA LinkEndsKeepsConns ==
  ASSUME CInv, PInv, NEW c \in Conns, NEW d \in Dirs, LinkEnds(c, d)
  PROVE  PInv'
<1>1. /\ link[<<c, d>>] = "runs" /\ sockets' = sockets \ {<<c, d>>}
      /\ link \in [Conns \X Dirs -> {"none", "runs", "unlink", "forget", "done"}]
      /\ link' = [link EXCEPT ![<<c, d>>] = "unlink"]
      /\ UNCHANGED <<control, serving, came, queue, target, list, links, toxics>>
  BY DEF LinkEnds, LinkGoto, clients, CInv, TypeOK
<1>2. \A b \in Conns, e \in Dirs : b # c \/ e # d => link'[<<b, e>>] = link[<<b, e>>]
  BY <1>1
<1>3. link'[<<c, d>>] = "unlink"
  BY <1>1
<1>4. \A b \in Conns, e \in Dirs : link[<<b, e>>] = "none" => link'[<<b, e>>] = "none"
  BY <1>1, <1>2
<1>5. AcceptedOnce'
  BY <1>1, <1>4 DEF PInv, AcceptedOnce, serving
<1>6. NotYetLinked'
  BY <1>1, <1>4 DEF PInv, NotYetLinked, serving, Dirs
<1>7. SocketsListed'
  BY <1>1, <1>2 DEF PInv, SocketsListed, serving
<1>8. LinksListed'
  BY <1>1, <1>2, <1>3 DEF PInv, LinksListed, toxics
<1>9. DialedCurrent' /\ NoneWhenDown'
  BY <1>1 DEF PInv, DialedCurrent, NoneWhenDown, control
<1> QED
  BY <1>5, <1>6, <1>7, <1>8, <1>9 DEF PInv

LEMMA UnlinkKeepsConns ==
  ASSUME OwnAddresses, CInv, PInv, NEW c \in Conns, NEW d \in Dirs, Unlink(c, d) \/ Forget(c, d)
  PROVE  PInv'
<1>1. /\ link[<<c, d>>] \in {"unlink", "forget"}
      /\ link \in [Conns \X Dirs -> {"none", "runs", "unlink", "forget", "done"}]
      /\ list \in [Addrs \X Dirs -> Conns \cup {Nobody}]
      /\ links \in [Addrs \X Dirs -> Conns \cup {Nobody}]
      /\ UNCHANGED <<control, serving, came, queue, sockets, target, toxics>>
  BY DEF Unlink, Forget, clients, CInv, TypeOK
<1>2. \E place \in {"forget", "done"} : link' = [link EXCEPT ![<<c, d>>] = place]
  BY DEF Unlink, Forget, LinkGoto
<1>3. ASSUME NEW b \in Conns, NEW e \in Dirs, b # c \/ e # d
      PROVE  /\ link'[<<b, e>>] = link[<<b, e>>]
             /\ list'[<<AddrOf[b], e>>] = list[<<AddrOf[b], e>>]
             /\ links'[<<AddrOf[b], e>>] = links[<<AddrOf[b], e>>]
  <2>1. AddrOf[b] \in Addrs /\ (AddrOf[b] = AddrOf[c] <=> b = c)
    BY DEF Addrs, OwnAddresses
  <2>2. link'[<<b, e>>] = link[<<b, e>>]
    BY <1>1, <1>2, <1>3
  <2>3. CASE Unlink(c, d)
    BY <1>1, <1>3, <2>1, <2>2, <2>3 DEF Unlink
  <2>4. CASE Forget(c, d)
    BY <1>1, <1>3, <2>1, <2>2, <2>4 DEF Forget
  <2> QED
    BY <2>3, <2>4
<1>4. link'[<<c, d>>] \in {"forget", "done"} /\ <<c, d>> \notin sockets
  <2>1. link'[<<c, d>>] \in {"forget", "done"}
    BY <1>1, <1>2
  <2>2. <<c, d>> \notin sockets
    BY <1>1 DEF PInv, SocketsListed
  <2> QED
    BY <2>1, <2>2
<1>5. \A b \in Conns, e \in Dirs : link[<<b, e>>] = "none" => link'[<<b, e>>] = "none"
  BY <1>1, <1>3
<1>6. AcceptedOnce'
  BY <1>1, <1>5 DEF PInv, AcceptedOnce, serving
<1>7. NotYetLinked'
  BY <1>1, <1>5 DEF PInv, NotYetLinked, serving, Dirs
<1>8. SocketsListed'
  BY <1>1, <1>3, <1>4 DEF PInv, SocketsListed, serving
<1>9. LinksListed'
  BY <1>1, <1>3, <1>4 DEF PInv, LinksListed, toxics
<1>10. DialedCurrent' /\ NoneWhenDown'
  BY <1>1 DEF PInv, DialedCurrent, NoneWhenDown, control
<1> QED
  BY <1>6, <1>7, <1>8, <1>9, <1>10 DEF PInv

LEMMA ToxicsKeepConns ==
  ASSUME CInv, PInv, NEW d \in Dirs, ChangeToxics(d)
  PROVE  PInv'
<1>1. /\ UNCHANGED <<control, serving, clients, piping>>
      /\ chain \in [Dirs -> 0 .. MaxChanges] /\ runs \in [Conns \X Dirs -> 0 .. MaxChanges]
  BY DEF ChangeToxics, CInv, TypeOK
<1>2. AcceptedOnce' /\ NotYetLinked' /\ SocketsListed' /\ DialedCurrent' /\ NoneWhenDown'
  BY <1>1 DEF PInv, AcceptedOnce, NotYetLinked, SocketsListed, DialedCurrent, NoneWhenDown,
              control, serving, clients, piping
<1>3. LinksListed'
  <2> SUFFICES ASSUME NEW c \in Conns, NEW e \in Dirs, link[<<c, e>>] = "runs"
               PROVE  links[<<AddrOf[c], e>>] = c /\ runs'[<<c, e>>] = chain'[e]
    BY <1>1 DEF LinksListed, piping
  <2>1. links[<<AddrOf[c], e>>] = c /\ runs[<<c, e>>] = chain[e]
    BY DEF PInv, LinksListed
  <2>2. /\ runs'[<<c, e>>] = (IF e = d /\ links[<<AddrOf[c], d>>] = c
                              THEN chain[d] + 1 ELSE runs[<<c, e>>])
        /\ chain'[e] = IF e = d THEN chain[d] + 1 ELSE chain[e]
    BY <1>1 DEF ChangeToxics
  <2> QED
    BY <2>1, <2>2
<1> QED
  BY <1>2, <1>3 DEF PInv
-----------------------------------------------------------------------------
(* What holds if no two connections have the same address.                 *)

LEMMA InitPInv == Init => PInv
<1> SUFFICES ASSUME Init PROVE PInv
  OBVIOUS
<1>1. Len(queue) = 0 /\ \A i \in 1 .. Len(queue) : FALSE
  BY DEF Init
<1>2. AcceptedOnce
  BY <1>1, ProxyAssumption DEF Init, AcceptedOnce
<1>3. NotYetLinked
  BY ProxyAssumption DEF Init, NotYetLinked
<1>4. SocketsListed /\ LinksListed /\ DialedCurrent /\ NoneWhenDown
  BY DEF Init, SocketsListed, LinksListed, DialedCurrent, NoneWhenDown
<1> QED
  BY <1>2, <1>3, <1>4 DEF PInv

LEMMA NextPInv ==
  ASSUME OwnAddresses
  PROVE  CInv /\ PInv /\ [Next]_vars => PInv'
<1> SUFFICES ASSUME CInv, PInv, [Next]_vars PROVE PInv'
  OBVIOUS
<1>1. CASE UNCHANGED vars
  <2>1. UNCHANGED <<control, came, away, piping, toxics, queue, server>>
    BY <1>1 DEF vars, serving, clients
  <2> QED
    BY <2>1, IdleStepKeepsConns
<1>2. ASSUME NEW k \in Callers, Ask(k) \/ AskUpdate(k) \/ Handler(k) PROVE PInv'
  BY <1>2, HandlersKeepConns
<1>3. ASSUME NEW g \in Gens, Server(g) \/ Blocker(g) PROVE PInv'
  BY <1>3, IdleStepsKeepConns, AcceptKeepsConns, DialKeepsConns, DialFailsKeepsConns,
     RegisterKeepsConns, StartLinksKeepsConns DEF Server
<1>4. ASSUME NEW c \in Conns, NEW d \in Dirs, LinkEnds(c, d) \/ Unlink(c, d) \/ Forget(c, d)
      PROVE  PInv'
  BY <1>4, LinkEndsKeepsConns, UnlinkKeepsConns
<1> QED
  BY <1>1, <1>2, <1>3, <1>4, ClientsKeepConns, ToxicsKeepConns DEF Next

LEMMA SpecPInv ==
  ASSUME OwnAddresses
  PROVE  Spec => [](CInv /\ PInv)
BY InitCInv, NextCInv, InitPInv, NextPInv, PTL DEF Spec

LEMMA NobodyInCall ==
  ASSUME CInv, Quiet
  PROVE  \A k \in Callers : caller[k].pc \in {"idle", "lock"}
BY ProxyAssumption DEF CInv, CallersOK, CallerOK, InCall, Quiet

(* A proxy that is down has no connection left, accepted before, during or *)
(* after the stop() that took it down.                                     *)
THEOREM DownMeansDownCorrect ==
  ASSUME OwnAddresses
  PROVE  Spec => []DownMeansDown
<1>1. CInv /\ PInv => DownMeansDown
  <2> SUFFICES ASSUME CInv, PInv, Quiet, ~enabled PROVE sockets = {}
    BY DEF DownMeansDown
  <2> QED
    BY NobodyInCall DEF PInv, NoneWhenDown
<1> QED
  BY <1>1, SpecPInv, PTL

(* Update leaves no connection behind that was dialed with the settings it *)
(* has replaced.                                                           *)
THEOREM ConnectedToCurrentCorrect ==
  ASSUME OwnAddresses
  PROVE  Spec => []ConnectedToCurrent
<1>1. CInv /\ PInv => ConnectedToCurrent
  BY DEF PInv, DialedCurrent, ConnectedToCurrent
<1> QED
  BY <1>1, SpecPInv, PTL

(* No change of toxics misses a running link of its direction, listed or   *)
(* being started (StartLink and the chain functions of ToxicCollection).   *)
THEOREM RunsChainCorrect ==
  ASSUME OwnAddresses
  PROVE  Spec => []RunsChain
<1>1. CInv /\ PInv => RunsChain
  BY DEF PInv, LinksListed, RunsChain
<1> QED
  BY <1>1, SpecPInv, PTL
-----------------------------------------------------------------------------
(* The proxy implements Service, step by step.                             *)

Up == enabled \/ Stopping
ServedBy(c) == IF <<c, "upstream">> \in sockets THEN target[c] ELSE Nobody
Serves == [c \in Conns |-> ServedBy(c)]

LEMMA AbstractStep ==
  ASSUME \/ /\ Up' = Up /\ settings' = settings /\ Serves' = Serves
         \/ /\ ~Up /\ Up' /\ settings' = settings /\ Serves' = Serves
         \/ /\ Up /\ ~Up' /\ settings' = settings /\ Serves' = [c \in Conns |-> Nobody]
         \/ /\ ~Up /\ ~Up' /\ settings' \in Settings /\ Serves' = Serves
         \/ /\ Up /\ Up' /\ settings' = settings
            /\ \E c \in Conns : /\ Serves[c] = Nobody
                                /\ Serves' = [Serves EXCEPT ![c] = settings]
         \/ /\ Up' = Up /\ settings' = settings
            /\ \E c \in Conns : /\ Serves[c] # Nobody
                                /\ Serves' = [Serves EXCEPT ![c] = Nobody]
  PROVE  [Abstract!Next]_(Abstract!vars)
<1>1. (Up' = Up /\ settings' = settings /\ Serves' = Serves) => UNCHANGED Abstract!vars
  BY DEF Abstract!vars, Up, Stopping, Serves, ServedBy
<1>2. (~Up /\ Up' /\ settings' = settings /\ Serves' = Serves) => Abstract!GoUp
  BY DEF Abstract!GoUp, Up, Stopping, Serves, ServedBy
<1>3. (Up /\ ~Up' /\ settings' = settings /\ Serves' = [c \in Conns |-> Nobody])
        => Abstract!GoDown
  BY DEF Abstract!GoDown, Up, Stopping, Serves, ServedBy
<1>4. (~Up /\ ~Up' /\ settings' \in Settings /\ Serves' = Serves) => Abstract!Configure
  BY DEF Abstract!Configure, Up, Stopping, Serves, ServedBy
<1>5. ASSUME NEW c \in Conns, Up, Up', settings' = settings, Serves[c] = Nobody,
             Serves' = [Serves EXCEPT ![c] = settings]
      PROVE  Abstract!Serve(c)
  BY <1>5 DEF Abstract!Serve, Up, Stopping, Serves, ServedBy
<1>6. ASSUME NEW c \in Conns, Up' = Up, settings' = settings, Serves[c] # Nobody,
             Serves' = [Serves EXCEPT ![c] = Nobody]
      PROVE  Abstract!Disconnect(c)
  BY <1>6 DEF Abstract!Disconnect, Up, Stopping, Serves, ServedBy
<1> QED
  BY <1>1, <1>2, <1>3, <1>4, <1>5, <1>6 DEF Abstract!Next

LEMMA SameUp ==
  ASSUME Up' <=> Up
  PROVE  Up' = Up
BY DEF Up

LEMMA SameServes ==
  ASSUME UNCHANGED target,
         \A c \in Conns : <<c, "upstream">> \in sockets' <=> <<c, "upstream">> \in sockets
  PROVE  Serves' = Serves
BY DEF Serves, ServedBy

LEMMA HandlersMap ==
  ASSUME CInv, PInv, NEW k \in Callers, Ask(k) \/ AskUpdate(k) \/ Handler(k)
  PROVE  [Abstract!Next]_(Abstract!vars)
<1>1. /\ target' = target /\ sockets' \subseteq sockets
      /\ \A j \in Callers \ {k} : caller'[j] = caller[j]
  BY HandlersLeave
<1>2. TypeOK /\ CallersOK /\ CallerOK(k) /\ caller \in [Callers -> Call]
  BY DEF CInv, TypeOK, CallersOK
<1>3. InCall(k) => \A j \in Callers \ {k} : caller[j].pc \in {"idle", "lock"}
  BY <1>2, OthersOut
<1>4. ASSUME NEW b \in Callers, InCall(b), b = k
      PROVE  /\ Stopping <=> caller[k].pc \in {"wait", "close"}
             /\ Stopping' <=> caller'[k].pc \in {"wait", "close"}
  BY <1>1, <1>3, <1>4 DEF Stopping
<1>5. CASE CloseConnections(k)
  <2>1. /\ caller[k].pc = "close" /\ InCall(k) /\ UNCHANGED <<enabled, settings>>
        /\ ~enabled /\ sockets' = {}
    BY <1>5, AllListed DEF CloseConnections, InCall
  <2>2. caller'[k].pc \in {"assign", "idle"}
    BY <1>2, <1>5, Went, Returned DEF CloseConnections, AfterStop, Places, Idle
  <2>3. Up /\ ~Up'
    BY <1>4, <2>1, <2>2 DEF Up
  <2>4. Serves' = [c \in Conns |-> Nobody]
    BY <2>1 DEF Serves, ServedBy
  <2> QED
    BY <2>1, <2>3, <2>4, AbstractStep
<1>6. CASE ~CloseConnections(k)
  <2>1. Serves' = Serves
    <3>1. sockets' = sockets
      BY <1>6 DEF Ask, AskUpdate, Handler, Enter, AlreadyStarted, StartServer, Started,
         AlreadyStopped, KillServer, ServerStopped,
         UpdateCompares, UpdateAssigns, UpdateToggles, piping
    <3> QED
      BY <1>1, <3>1, SameServes
  <2>2. CASE UpdateAssigns(k)
    <3>1. /\ caller[k].pc = "assign" /\ InCall(k) /\ ~enabled /\ enabled' = enabled
          /\ caller'[k].pc = "toggle" /\ settings' \in Settings
      BY <1>2, <2>2, Went DEF UpdateAssigns, CallerOK, InCall, Places, Input
    <3>2. ~Up /\ ~Up'
      BY <1>4, <3>1 DEF Up
    <3> QED
      BY <2>1, <3>1, <3>2, AbstractStep
  <2>3. CASE Started(k)
    <3>1. /\ caller[k].pc = "started" /\ InCall(k) /\ ~enabled /\ settings' = settings
          /\ caller'[k].pc = "idle"
      BY <1>2, <2>3, Returned DEF Started, CallerOK, InCall, Idle
    <3>2. ~Up /\ ~Stopping'
      BY <1>4, <3>1 DEF Up
    <3> QED
      BY <2>1, <3>1, <3>2, SameUp, AbstractStep
  <2>4. CASE KillServer(k) \/ ServerStopped(k)
    <3>1. /\ enabled \/ caller[k].pc = "wait"
          /\ caller'[k].pc \in {"wait", "close"} /\ settings' = settings
      BY <1>2, <2>4, Went DEF KillServer, ServerStopped, Places
    <3>2. Up /\ Up'
      BY <3>1 DEF Up, Stopping
    <3> QED
      BY <2>1, <3>1, <3>2, SameUp, AbstractStep
  <2>5. CASE /\ ~UpdateAssigns(k) /\ ~Started(k) /\ ~KillServer(k) /\ ~ServerStopped(k)
    <3>1. /\ UNCHANGED <<enabled, settings>>
          /\ caller[k].pc \notin {"wait", "close"}
      BY <1>6, <2>5 DEF Ask, AskUpdate, Handler, Enter, AlreadyStarted, StartServer,
         AlreadyStopped, UpdateCompares, UpdateToggles
    <3>2. caller'[k].pc \notin {"wait", "close"}
      <4>1. CASE Ask(k) \/ AskUpdate(k)
        BY <1>2, <4>1 DEF Ask, AskUpdate, Call
      <4>2. CASE Enter(k)
        BY <1>2, <4>2 DEF Enter, Call
      <4>3. CASE \/ AlreadyStarted(k) \/ StartServer(k) \/ AlreadyStopped(k)
                 \/ UpdateCompares(k) \/ UpdateToggles(k)
        BY <1>2, <4>3, Went, Returned DEF AlreadyStarted, StartServer, AlreadyStopped,
           AfterStop, UpdateCompares, UpdateToggles, Places, Idle
      <4> QED
        BY <1>6, <2>5, <4>1, <4>2, <4>3 DEF Handler
    <3>3. Up' <=> Up
      BY <1>1, <3>1, <3>2 DEF Up, Stopping
    <3> QED
      BY <2>1, <3>1, <3>3, SameUp, AbstractStep
  <2> QED
    BY <2>2, <2>3, <2>4, <2>5
<1> QED
  BY <1>5, <1>6

(* The others: Dial serves, the end of the upstream link disconnects.      *)
LEMMA ControlKeptUp ==
  ASSUME UNCHANGED control
  PROVE  Up' = Up /\ settings' = settings
BY DEF Up, Stopping, control

LEMMA DialMaps ==
  ASSUME CInv, PInv, NEW g \in Gens, Dial(g)
  PROVE  [Abstract!Next]_(Abstract!vars)
<1> DEFINE c == server[g].conn
<1>1. /\ c \in Conns /\ server[g].pc = "dial" /\ UNCHANGED control
      /\ target \in [Conns -> Settings \cup {Nobody}]
      /\ sockets' = sockets \cup {<<c, "upstream">>}
      /\ target' = [target EXCEPT ![c] = settings]
  BY HoldingConn DEF Dial, Holding, CInv, TypeOK
<1>2. <<c, "upstream">> \notin sockets
  BY <1>1 DEF PInv, NotYetLinked
<1>3. Up
  BY <1>1, WorkingServes DEF Working, Up, Waiting, Stopping
<1>4. Up' /\ settings' = settings
  BY <1>1, <1>3, ControlKeptUp
<1> HIDE DEF c
<1>5. Serves[c] = Nobody
  BY <1>1, <1>2 DEF Serves, ServedBy
<1>6. Serves' = [Serves EXCEPT ![c] = settings]
  <2>1. \A b \in Conns : ServedBy(b)' = IF b = c THEN settings ELSE ServedBy(b)
    BY <1>1 DEF ServedBy
  <2> QED
    BY <1>1, <2>1 DEF Serves
<1> QED
  BY <1>1, <1>3, <1>4, <1>5, <1>6, AbstractStep

LEMMA LinkEndsMaps ==
  ASSUME CInv, PInv, NEW c \in Conns, NEW d \in Dirs, LinkEnds(c, d)
  PROVE  [Abstract!Next]_(Abstract!vars)
<1>1. sockets' = sockets \ {<<c, d>>} /\ UNCHANGED <<control, target>>
  BY DEF LinkEnds
<1>2. Up' = Up /\ settings' = settings
  BY <1>1, ControlKeptUp
<1>3. CASE d = "upstream" /\ <<c, "upstream">> \in sockets
  <2>1. target[c] = settings /\ settings \in Settings
    BY <1>3 DEF PInv, DialedCurrent, CInv, TypeOK
  <2>2. Serves[c] # Nobody
    BY <1>3, <2>1, ProxyAssumption DEF Serves, ServedBy
  <2>3. Serves' = [Serves EXCEPT ![c] = Nobody]
    <3>1. \A b \in Conns : ServedBy(b)' = IF b = c THEN Nobody ELSE ServedBy(b)
      BY <1>1, <1>3 DEF ServedBy
    <3> QED
      BY <3>1 DEF Serves
  <2> QED
    BY <1>2, <2>2, <2>3, AbstractStep
<1>4. CASE ~(d = "upstream" /\ <<c, "upstream">> \in sockets)
  <2>1. Serves' = Serves
    BY <1>1, <1>4, SameServes
  <2> QED
    BY <1>2, <2>1, AbstractStep
<1> QED
  BY <1>3, <1>4

LEMMA NextMaps ==
  ASSUME CInv, PInv, [Next]_vars
  PROVE  [Abstract!Next]_(Abstract!vars)
<1>1. ASSUME UNCHANGED control, UNCHANGED target,
             \A c \in Conns : <<c, "upstream">> \in sockets' <=> <<c, "upstream">> \in sockets
      PROVE  [Abstract!Next]_(Abstract!vars)
  BY <1>1, SameServes, ControlKeptUp, AbstractStep
<1>2. CASE UNCHANGED vars
  BY <1>1, <1>2 DEF vars, piping
<1>3. ASSUME NEW k \in Callers, Ask(k) \/ AskUpdate(k) \/ Handler(k)
      PROVE  [Abstract!Next]_(Abstract!vars)
  BY <1>3, HandlersMap
<1>4. ASSUME NEW g \in Gens, Server(g) \/ Blocker(g)
      PROVE  [Abstract!Next]_(Abstract!vars)
  <2>1. CASE Dial(g)
    BY <2>1, DialMaps
  <2>2. CASE ~Dial(g)
    <3>1. /\ UNCHANGED control /\ UNCHANGED target
          /\ \/ sockets' = sockets
             \/ \E c \in Conns \cup {Nobody} :
                  \/ sockets' = sockets \cup {<<c, "downstream">>}
                  \/ sockets' = sockets \ {<<c, "downstream">>}
      <4>1. CASE Accept(g)
        <5>1. queue \in Seq(came) /\ came \subseteq Conns /\ queue # <<>>
          BY <4>1 DEF CInv, TypeOK, Accept
        <5>2. Head(queue) \in Conns
          BY <5>1, HeadTailProperties
        <5> QED
          BY <4>1, <5>2 DEF Accept
      <4>2. CASE DialFails(g)
        BY <4>2, HoldingConn DEF DialFails, Holding
      <4>3. CASE /\ ~Accept(g) /\ ~DialFails(g)
        BY <1>4, <2>2, <4>3 DEF Server, Blocker, Listen, SpawnBlocker, AcceptError,
           Register, StartLinks, CloseListener, ServerDead, piping
      <4> QED
        BY <4>1, <4>2, <4>3
    <3> QED
      BY <1>1, <3>1
  <2> QED
    BY <2>1, <2>2
<1>5. ASSUME NEW c \in Conns, Connect(c) \/ Abort(c)
      PROVE  [Abstract!Next]_(Abstract!vars)
  BY <1>1, <1>5 DEF Connect, Abort, piping
<1>6. ASSUME NEW c \in Conns, NEW d \in Dirs, LinkEnds(c, d) \/ Unlink(c, d) \/ Forget(c, d)
      PROVE  [Abstract!Next]_(Abstract!vars)
  BY <1>1, <1>6, LinkEndsMaps DEF Unlink, Forget
<1>7. ASSUME NEW d \in Dirs, ChangeToxics(d)
      PROVE  [Abstract!Next]_(Abstract!vars)
  BY <1>1, <1>7 DEF ChangeToxics, piping
<1> QED
  BY <1>2, <1>3, <1>4, <1>5, <1>6, <1>7 DEF Next

LEMMA InitMaps == Init => Abstract!Init
<1> SUFFICES ASSUME Init PROVE Abstract!Init
  OBVIOUS
<1>1. ~Up
  BY DEF Init, Up, Stopping, Idle
<1>2. Up = FALSE
  BY <1>1
<1>3. Serves = [c \in Conns |-> Nobody] /\ settings \in Settings
  BY DEF Init, Serves, ServedBy
<1> QED
  BY <1>2, <1>3 DEF Abstract!Init, Up, Stopping, Serves, ServedBy

(* A client of the API sees a service that goes down with its connections, *)
(* changes its settings only while it is down and connects to the settings *)
(* it has, if no two connections have the same address.                    *)
THEOREM ImplementsServiceCorrect ==
  ASSUME OwnAddresses
  PROVE  Spec => ImplementsService
<1>1. CInv /\ PInv /\ [Next]_vars => [Abstract!Next]_(Abstract!vars)
  BY NextMaps
<1> QED
  BY <1>1, InitMaps, SpecPInv, PTL DEF Spec, ImplementsService, Abstract!Spec
=============================================================================
