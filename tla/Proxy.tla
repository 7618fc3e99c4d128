------------------------------- MODULE Proxy -------------------------------
(***************************************************************************)
(* One Proxy (proxy.go): the HTTP handlers that start, stop and update it, *)
(* the goroutine of server() that accepts clients, the goroutine of        *)
(* freeBlocker() that unblocks it, and the connections they leave behind,  *)
(* each with its two links in the ToxicCollection.                         *)
(*                                                                         *)
(* Every start has a generation: a listener and two goroutines of its own, *)
(* while proxy.tomb and proxy.listener are fields every start overwrites.  *)
(* A socket is named after the direction of the link that writes to it:    *)
(* <<c, "upstream">> is the connection made to the upstream for client c,  *)
(* <<c, "downstream">> the client's own.  A link is abstracted to its end  *)
(* (module ToxicLink has the rest), and its toxics to a version number.    *)
(***************************************************************************)
EXTENDS Integers, Sequences, FiniteSets

CONSTANTS
  Callers,        \* the HTTP handlers that use the proxy
  Nobody,         \* the holder of a free mutex, an absent entry of a map
  Settings,       \* the values of Listen and Upstream, taken together
  Conns,          \* the connections clients make
  AddrOf,         \* the remote address of each
  MaxStarts,      \* bound on the times the proxy is started
  MaxChanges,     \* bound on the changes of toxics
  ListenMayFail,  \* whether net.Listen may return an error
  AcceptMayFail   \* whether Accept may on an open listener

Addrs == {AddrOf[c] : c \in Conns}
Gens  == 1 .. MaxStarts
Dirs  == {"upstream", "downstream"}

ASSUME ProxyAssumption ==
  /\ IsFiniteSet(Callers) /\ Nobody \notin Callers /\ Nobody \notin Conns
  /\ Nobody \notin Settings
  /\ AddrOf \in [Conns -> Addrs]
  /\ MaxStarts \in Nat /\ MaxChanges \in Nat
  /\ ListenMayFail \in BOOLEAN /\ AcceptMayFail \in BOOLEAN

VARIABLES
  lock,      \* the handler that holds the proxy's mutex
  caller,    \* what each handler does, and with what
  enabled,   \* proxy.Enabled
  settings,  \* proxy.Listen and proxy.Upstream
  gen,       \* how many times server() has been started
  tomb,      \* proxy.tomb
  listener,  \* the generation of the listener in proxy.listener, or 0
  open,      \* the listeners that are open
  server,    \* the goroutine of server()
  blocker,   \* the goroutine of freeBlocker()
  came,      \* the connections clients have made
  away,      \* those whose client has closed or reset its end
  queue,     \* those that wait to be accepted
  sockets,   \* the sockets the proxy holds open
  target,    \* the settings a connection's upstream was dialed with
  list,      \* proxy.connections.list
  links,     \* proxy.Toxics.links
  link,      \* each link of each connection
  chain,     \* the version of the toxics of each direction
  runs       \* the version each link runs

control == <<lock, caller, enabled, settings>>
serving == <<gen, tomb, listener, open, server, blocker>>
clients == <<came, away, queue>>
piping  == <<sockets, target, list, links, link>>
toxics  == <<chain, runs>>
vars    == <<control, serving, clients, piping, toxics>>

Input == [settings : Settings, enabled : BOOLEAN]

Idle == [pc |-> "idle", op |-> "stop",
         input |-> [settings |-> Nobody, enabled |-> FALSE]]

Call == [pc : {"idle", "lock", "start", "started", "stop", "wait", "close",
              "update", "assign", "toggle"},
         op : {"start", "stop", "update"},
         input : [settings : Settings \cup {Nobody}, enabled : BOOLEAN]]

Loop == [pc : {"off", "listen", "ok", "error", "spawn", "accept", "dial",
               "register", "upstream", "downstream", "done"},
         conn : Conns \cup {Nobody}]

TypeOK ==
  /\ lock \in Callers \cup {Nobody}
  /\ caller \in [Callers -> Call]
  /\ enabled \in BOOLEAN /\ settings \in Settings
  /\ gen \in 0 .. MaxStarts
  /\ tomb \in {"alive", "dying", "dead"}
  /\ listener \in 0 .. MaxStarts /\ open \subseteq Gens
  /\ server \in [Gens -> Loop]
  /\ blocker \in [Gens -> {"off", "wait", "join", "done"}]
  /\ came \subseteq Conns /\ away \subseteq came 
  /\ queue \in Seq(came)
  /\ sockets \subseteq Conns \X Dirs
  /\ target \in [Conns -> Settings \cup {Nobody}]
  /\ list \in [Addrs \X Dirs -> Conns \cup {Nobody}]
  /\ links \in [Addrs \X Dirs -> Conns \cup {Nobody}]
  /\ link \in [Conns \X Dirs -> {"none", "runs", "unlink", "forget", "done"}]
  /\ chain \in [Dirs -> 0 .. MaxChanges]
  /\ runs \in [Conns \X Dirs -> 0 .. MaxChanges]

(* NewProxy: everything empty and nothing started.                         *)
Init ==
  /\ lock = Nobody
  /\ settings \in Settings /\ enabled = FALSE
  /\ caller = [k \in Callers |-> Idle]
  /\ gen = 0 /\ tomb = "alive" /\ listener = 0 /\ open = {}
  /\ server = [g \in Gens |-> [pc |-> "off", conn |-> Nobody]]
  /\ blocker = [g \in Gens |-> "off"]
  /\ came = {} /\ away = {} /\ queue = <<>>
  /\ sockets = {} /\ target = [c \in Conns |-> Nobody]
  /\ list = [e \in Addrs \X Dirs |-> Nobody]
  /\ links = [e \in Addrs \X Dirs |-> Nobody]
  /\ link = [e \in Conns \X Dirs |-> "none"]
  /\ chain = [d \in Dirs |-> 0]
  /\ runs = [e \in Conns \X Dirs |-> 0]
-----------------------------------------------------------------------------
(* The handlers.  The proxy's mutex is held from Enter to Return.          *)

Starting == {k \in Callers : caller[k].pc # "idle" /\ caller[k].op # "stop"}
MayStart == gen + Cardinality(Starting) < MaxStarts

(* ResetState, ProxyCreate and Populate call Start, ProxyDelete and        *)
(* Populate call Stop.                                                     *)
Ask(k) ==
  /\ caller[k].pc = "idle"
  /\ \E op \in {"start", "stop"} :
       /\ op = "start" => MayStart
       /\ caller' = [caller EXCEPT ![k].pc = "lock", ![k].op = op]
  /\ UNCHANGED <<lock, enabled, settings, serving, clients, piping, toxics>>

(* ProxyUpdate reads the fields its request leaves out from the proxy      *)
(* without the mutex: what it asks for may be out of date by then, and is  *)
(* one more input.                                                         *)
AskUpdate(k) ==
  /\ caller[k].pc = "idle" /\ MayStart
  /\ \E i \in Input :
       caller' = [caller EXCEPT ![k].pc = "lock", ![k].op = "update", ![k].input = i]
  /\ UNCHANGED <<lock, enabled, settings, serving, clients, piping, toxics>>

Enter(k) ==
  /\ caller[k].pc = "lock" /\ lock = Nobody
  /\ lock' = k
  /\ caller' = [caller EXCEPT ![k].pc = caller[k].op]
  /\ UNCHANGED <<enabled, settings, serving, clients, piping, toxics>>

Goto(k, place) == caller' = [caller EXCEPT ![k].pc = place] /\ UNCHANGED lock
Return(k) == caller' = [caller EXCEPT ![k] = Idle] /\ lock' = Nobody

(* start()                                                                 *)
AlreadyStarted(k) ==
  /\ caller[k].pc = "start" /\ enabled
  /\ Return(k)
  /\ UNCHANGED <<enabled, settings, serving, clients, piping, toxics>>

StartServer(k) ==
  /\ caller[k].pc = "start" /\ ~enabled
  /\ gen' = gen + 1
  /\ tomb' = "alive"
  /\ server' = [server EXCEPT ![gen + 1].pc = "listen"]
  /\ Goto(k, "started")
  /\ UNCHANGED <<enabled, settings, listener, open, blocker, clients, piping, toxics>>

(* <-proxy.started, which server() has sent nil or the error to.           *)
StartedAnyway(k) ==
  /\ caller[k].pc = "started"
  /\ \E g \in Gens :
       /\ server[g].pc \in {"ok", "error"}
       /\ enabled' = TRUE
       /\ server' = [server EXCEPT
            ![g].pc = IF server[g].pc = "ok" THEN "spawn" ELSE "done"]
  /\ Return(k)
  /\ UNCHANGED <<settings, gen, tomb, listener, open, blocker, clients, piping, toxics>>
Started(k) ==
  /\ caller[k].pc = "started"
  /\ \E g \in Gens :
       /\ server[g].pc \in {"ok", "error"}
       /\ enabled' = (server[g].pc = "ok")
       /\ server' = [server EXCEPT
            ![g].pc = IF server[g].pc = "ok" THEN "spawn" ELSE "done"]
  /\ Return(k)
  /\ UNCHANGED <<settings, gen, tomb, listener, open, blocker, clients, piping, toxics>>

(* stop()                                                                  *)
Differs(k) == caller[k].input.settings # settings
AfterStop(k) ==
  IF caller[k].op = "update" /\ Differs(k) THEN Goto(k, "assign") ELSE Return(k)

AlreadyStopped(k) ==
  /\ caller[k].pc = "stop" /\ ~enabled
  /\ AfterStop(k)
  /\ UNCHANGED <<enabled, settings, serving, clients, piping, toxics>>

KillServer(k) ==
  /\ caller[k].pc = "stop" /\ enabled
  /\ enabled' = FALSE
  /\ tomb' = "dying"
  /\ Goto(k, "wait")
  /\ UNCHANGED <<settings, gen, listener, open, server, blocker, clients, piping, toxics>>

WaitNot(k) == TRUE
Dead(k) == tomb = "dead"   \* <-tomb.Dead() in proxy.tomb.Wait()

ServerStopped(k) ==
  /\ caller[k].pc = "wait" /\ Dead(k)
  /\ Goto(k, "close")
  /\ UNCHANGED <<enabled, settings, serving, clients, piping, toxics>>

ListedClients == {e \in sockets : e[2] = "downstream" /\ list[<<AddrOf[e[1]], e[2]>>] = e[1]}
Listed == {e \in sockets : list[<<AddrOf[e[1]], e[2]>>] = e[1]}

CloseConnections(k) ==
  /\ caller[k].pc = "close"
  /\ sockets' = sockets \ Listed
  /\ AfterStop(k)
  /\ UNCHANGED <<enabled, settings, serving, clients, target, list, links, link, toxics>>

(* Update()                                                                *)
UpdateKeepsServing(k) ==
  /\ caller[k].pc = "update"
  /\ Goto(k, IF Differs(k) THEN "assign" ELSE "toggle")
  /\ UNCHANGED <<enabled, settings, serving, clients, piping, toxics>>
UpdateCompares(k) ==
  /\ caller[k].pc = "update"
  /\ Goto(k, IF Differs(k) THEN "stop" ELSE "toggle")
  /\ UNCHANGED <<enabled, settings, serving, clients, piping, toxics>>

UpdateAssigns(k) ==
  /\ caller[k].pc = "assign"
  /\ settings' = caller[k].input.settings
  /\ Goto(k, "toggle")
  /\ UNCHANGED <<enabled, serving, clients, piping, toxics>>

UpdateToggles(k) ==
  /\ caller[k].pc = "toggle"
  /\ IF caller[k].input.enabled = enabled THEN Return(k)
     ELSE Goto(k, IF caller[k].input.enabled THEN "start" ELSE "stop")
  /\ UNCHANGED <<enabled, settings, serving, clients, piping, toxics>>
-----------------------------------------------------------------------------
(* The goroutines of one start.                                            *)

ServerGoto(g, place) == server' = [server EXCEPT ![g].pc = place]

Listen(g) ==
  /\ server[g].pc = "listen"
  /\ \/ /\ listener' = g /\ open' = open \cup {g}
        /\ ServerGoto(g, "ok")
     \/ /\ ListenMayFail
        /\ listener' = 0 /\ UNCHANGED open
        /\ ServerGoto(g, "error")
  /\ UNCHANGED <<control, gen, tomb, blocker, clients, piping, toxics>>

SpawnBlocker(g) ==
  /\ server[g].pc = "spawn"
  /\ blocker' = [blocker EXCEPT ![g] = "wait"]
  /\ ServerGoto(g, "accept")
  /\ UNCHANGED <<control, gen, tomb, listener, open, clients, piping, toxics>>

(* Accept uses whatever listener the field holds by then.                  *)
Accept(g) ==
  /\ server[g].pc = "accept" /\ listener \in open
  /\ queue # <<>>
  /\ queue' = Tail(queue)
  /\ sockets' = sockets \cup {<<Head(queue), "downstream">>}
  /\ server' = [server EXCEPT ![g] = [pc |-> "dial", conn |-> Head(queue)]]
  /\ UNCHANGED <<control, gen, tomb, listener, open, blocker, came, away,
                 target, list, links, link, toxics>>

AcceptError(g) ==
  /\ server[g].pc = "accept"
  /\ listener \notin open \/ AcceptMayFail
  /\ ServerGoto(g, "done")
  /\ UNCHANGED <<control, gen, tomb, listener, open, blocker, clients, piping, toxics>>

Dial(g) ==
  /\ server[g].pc = "dial"
  /\ sockets' = sockets \cup {<<server[g].conn, "upstream">>}
  /\ target' = [target EXCEPT ![server[g].conn] = settings]
  /\ ServerGoto(g, "register")
  /\ UNCHANGED <<control, gen, tomb, listener, open, blocker, clients,
                 list, links, link, toxics>>

DialFails(g) ==
  /\ server[g].pc = "dial"
  /\ sockets' = sockets \ {<<server[g].conn, "downstream">>}
  /\ server' = [server EXCEPT ![g] = [pc |-> "accept", conn |-> Nobody]]
  /\ UNCHANGED <<control, gen, tomb, listener, open, blocker, clients,
                 target, list, links, link, toxics>>

Register(g) ==
  /\ server[g].pc = "register"
  /\ list' = [e \in DOMAIN list |->
                IF e[1] = AddrOf[server[g].conn] THEN server[g].conn ELSE list[e]]
  /\ ServerGoto(g, "upstream")
  /\ UNCHANGED <<control, gen, tomb, listener, open, blocker, clients,
                 sockets, target, links, link, toxics>>

(* ToxicCollection.StartLink, which holds the collection's mutex.          *)
StartLinkUnlisted(c, d) ==
  /\ link' = [link EXCEPT ![<<c, d>>] = "runs"]
  /\ runs' = [runs EXCEPT ![<<c, d>>] = chain[d]]
  /\ UNCHANGED links
StartLinkAhead(c, d) ==
  /\ link' = [link EXCEPT ![<<c, d>>] = "runs"]
  /\ runs' = [runs EXCEPT ![<<c, d>>] = chain[d] + 1]
  /\ links' = [links EXCEPT ![<<AddrOf[c], d>>] = c]
StartLink(c, d) ==
  /\ link' = [link EXCEPT ![<<c, d>>] = "runs"]
  /\ runs' = [runs EXCEPT ![<<c, d>>] = chain[d]]
  /\ links' = [links EXCEPT ![<<AddrOf[c], d>>] = c]

StartLinks(g) ==
  /\ \/ server[g].pc = "upstream" /\ ServerGoto(g, "downstream")
     \/ server[g].pc = "downstream"
        /\ server' = [server EXCEPT ![g] = [pc |-> "accept", conn |-> Nobody]]
  /\ StartLink(server[g].conn, server[g].pc)
  /\ UNCHANGED <<control, gen, tomb, listener, open, blocker, clients,
                 sockets, target, list, chain>>

(* freeBlocker(): <-tomb.Dying(), then proxy.close().                      *)
StillOpen == open \ {listener}   \* proxy.close()

CloseListenerNot(g) ==
  /\ blocker[g] = "wait" /\ tomb # "alive"
  /\ blocker' = [blocker EXCEPT ![g] = "join"]
  /\ UNCHANGED <<control, gen, tomb, listener, open, server, clients, piping, toxics>>
CloseListener(g) ==
  /\ blocker[g] = "wait" /\ tomb # "alive"
  /\ open' = StillOpen
  /\ queue' = <<>>
  /\ blocker' = [blocker EXCEPT ![g] = "join"]
  /\ UNCHANGED <<control, gen, tomb, listener, server, came, away, piping, toxics>>

(* acceptTomb.Wait() returns: proxy.tomb.Done().                           *)
JoinedNot(g) == TRUE
Joined(g) == server[g].pc = "done"

ServerDead(g) ==
  /\ blocker[g] = "join" /\ Joined(g)
  /\ tomb' = "dead"
  /\ blocker' = [blocker EXCEPT ![g] = "done"]
  /\ UNCHANGED <<control, gen, listener, open, server, clients, piping, toxics>>
-----------------------------------------------------------------------------
(* The clients.  A connection may have the remote address of an earlier    *)
(* one whose client is gone.                                               *)

Connect(c) ==
  /\ c \notin came /\ open # {}
  /\ \A b \in came : AddrOf[b] = AddrOf[c] => b \in away
  /\ came' = came \cup {c} /\ queue' = Append(queue, c)
  /\ UNCHANGED <<control, serving, away, piping, toxics>>

Abort(c) ==
  /\ c \in came \ away
  /\ away' = away \cup {c}
  /\ UNCHANGED <<control, serving, came, queue, piping, toxics>>
-----------------------------------------------------------------------------
(* The end of a link: ToxicLink.write() after io.Copy has returned, which  *)
(* it may do at any time since peers and toxics close connections.         *)

LinkGoto(c, d, place) == link' = [link EXCEPT ![<<c, d>>] = place]

LinkEndsOpen(c, d) ==
  /\ link[<<c, d>>] = "runs"
  /\ LinkGoto(c, d, "unlink")
  /\ UNCHANGED <<control, serving, clients, sockets, target, list, links, toxics>>
LinkEnds(c, d) ==
  /\ link[<<c, d>>] = "runs"
  /\ sockets' = sockets \ {<<c, d>>}
  /\ LinkGoto(c, d, "unlink")
  /\ UNCHANGED <<control, serving, clients, target, list, links, toxics>>

(* RemoveLink(name): whatever link the name stands for by then.            *)
Unlink(c, d) ==
  /\ link[<<c, d>>] = "unlink"
  /\ links' = [links EXCEPT ![<<AddrOf[c], d>>] = Nobody]
  /\ LinkGoto(c, d, "forget")
  /\ UNCHANGED <<control, serving, clients, sockets, target, list, toxics>>

(* RemoveConnection(name).                                                 *)
Forget(c, d) ==
  /\ link[<<c, d>>] = "forget"
  /\ list' = [list EXCEPT ![<<AddrOf[c], d>>] = Nobody]
  /\ LinkGoto(c, d, "done")
  /\ UNCHANGED <<control, serving, clients, sockets, target, links, toxics>>

(* chainAddToxic, chainUpdateToxic and chainRemoveToxic, which hold the    *)
(* collection's mutex until every listed link has the change.              *)
ChangeToxics(d) ==
  /\ chain["upstream"] + chain["downstream"] < MaxChanges
  /\ chain' = [chain EXCEPT ![d] = @ + 1]
  /\ runs' = [e \in DOMAIN runs |->
                IF e[2] = d /\ links[<<AddrOf[e[1]], d>>] = e[1]
                THEN chain[d] + 1 ELSE runs[e]]
  /\ UNCHANGED <<control, serving, clients, piping>>
-----------------------------------------------------------------------------
Handler(k) ==
  \/ Enter(k)
  \/ AlreadyStarted(k) \/ StartServer(k) \/ Started(k)
  \/ AlreadyStopped(k) \/ KillServer(k) \/ ServerStopped(k) \/ CloseConnections(k)
  \/ UpdateCompares(k) \/ UpdateAssigns(k) \/ UpdateToggles(k)

Server(g) ==
  \/ Listen(g) \/ SpawnBlocker(g)
  \/ Accept(g) \/ AcceptError(g)
  \/ Dial(g) \/ DialFails(g) \/ Register(g) \/ StartLinks(g)

Blocker(g) == CloseListener(g) \/ ServerDead(g)

Next ==
  \/ \E k \in Callers : Ask(k) \/ AskUpdate(k) \/ Handler(k)
  \/ \E g \in Gens : Server(g) \/ Blocker(g)
  \/ \E c \in Conns : Connect(c) \/ Abort(c)
  \/ \E c \in Conns, d \in Dirs : LinkEnds(c, d) \/ Unlink(c, d) \/ Forget(c, d)
  \/ \E d \in Dirs : ChangeToxics(d)

Spec == Init /\ [][Next]_vars

(* Goroutines run; a mutex wakes those who wait for it in turn; Accept     *)
(* fails on a closed listener, Dial succeeds or times out, calls on the    *)
(* ToxicCollection return, and a link whose input is closed comes to its   *)
(* end, the peer at the other taking what is left or refusing it.          *)
Other(d) == IF d = "upstream" THEN "downstream" ELSE "upstream"
InputClosed(c, d) == <<c, Other(d)>> \notin sockets

Fairness ==
  /\ \A k \in Callers : WF_vars(Handler(k)) /\ SF_vars(Enter(k))
  /\ \A g \in Gens :
       /\ WF_vars(Server(g) /\ (server[g].pc = "accept" => listener \notin open))
       /\ WF_vars(Blocker(g))
  /\ \A c \in Conns, d \in Dirs :
       /\ WF_vars(LinkEnds(c, d) /\ InputClosed(c, d))
       /\ WF_vars(Unlink(c, d) \/ Forget(c, d))

FairSpec == Spec /\ Fairness
-----------------------------------------------------------------------------
(* Properties.                                                             *)

Alive(g) == server[g].pc \in {"spawn", "accept", "dial", "register", "upstream", "downstream"}
Quiet == lock = Nobody

(* A goroutine of server() only ever accepts on the listener it opened and *)
(* no two run at once: stop() leaves none behind for a later start() to    *)
(* share proxy.listener and proxy.tomb with.                               *)
OwnListener ==
  /\ \A g \in Gens : Alive(g) => listener = g
  /\ \A g \in Gens : blocker[g] \in {"wait", "join"} => g = gen
  /\ open \subseteq {listener}

(* A proxy that is down has no connection left, accepted before, during or *)
(* after the call that stopped it (README.md:465, :470).                   *)
DownMeansDown == Quiet /\ ~enabled => sockets = {}

(* At least, no connection of a client that is still there goes on, both   *)
(* its sockets open, through a proxy that is down.                         *)
ActiveDropped ==
  Quiet /\ ~enabled =>
    \A c \in Conns \ away : <<c, "upstream">> \notin sockets \/ <<c, "downstream">> \notin sockets

(* No handler at work, every connection goes to the current settings:      *)
(* Update leaves none behind that was dialed with the old ones.            *)
ConnectedToCurrent ==
  Quiet => \A c \in Conns : <<c, "upstream">> \in sockets => target[c] = settings

(* A running link runs the toxics of its direction: no change of toxics    *)
(* misses a connection that is being accepted or has been.                 *)
RunsChain ==
  \A c \in Conns, d \in Dirs : link[<<c, d>>] = "runs" => runs[<<c, d>>] = chain[d]

(* A proxy that says it is enabled has its listener open and its accept    *)
(* loop alive (for as long as Accept itself does not fail).                *)
EnabledServes ==
  Quiet /\ enabled => /\ Alive(gen) /\ listener = gen /\ gen \in open
                      /\ tomb = "alive"

(* Every call of Start, Stop and Update returns, and with it the mutex.    *)
CallsReturn == \A k \in Callers : caller[k].pc = "lock" ~> caller[k].pc = "idle"

(* A connection one side of which has been closed comes to its end, and    *)
(* nothing in the proxy remembers it.                                      *)
ConnectionsEnd ==
  \A c \in Conns :
    (\E d \in Dirs : link[<<c, d>>] \in {"unlink", "forget", "done"})
      ~> /\ \A d \in Dirs : <<c, d>> \notin sockets
         /\ \A e \in Addrs \X Dirs : list[e] # c /\ links[e] # c

(* The proxy implements the service a client of the API sees.              *)
Abstract == INSTANCE Service WITH
  up     <- enabled \/ \E k \in Callers : caller[k].pc \in {"wait", "close"},
  config <- settings,
  serves <- [c \in Conns |-> IF <<c, "upstream">> \in sockets THEN target[c] ELSE Nobody]

ImplementsService == Abstract!Spec
=============================================================================
