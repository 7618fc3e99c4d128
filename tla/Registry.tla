------------------------------ MODULE Registry ------------------------------
(***************************************************************************)
(* The ProxyCollection (proxy_collection.go) and the HTTP handlers that    *)
(* use it (api.go): creating, deleting and populating hold the             *)
(* collection's write lock, while updating and resetting take pointers     *)
(* from it and work on the proxies under the proxies' own mutexes.         *)
(*                                                                         *)
(* A proxy is a pointer, whether it listens, and where: module Proxy has   *)
(* the rest of it.  The address of a request may be a host name, a         *)
(* wildcard or port 0: what net.ResolveTCPAddr makes of it (Resolve) and   *)
(* what a listener on it says its address is (Binds) need not agree.  An   *)
(* address one proxy listens on is not free for another.                   *)
(*                                                                         *)
(* A handler ends with its answer, for which it holds no lock any more.    *)
(***************************************************************************)
EXTENDS Naturals, Sequences, FiniteSets

CONSTANTS
  Callers,     \* the HTTP handlers at work
  Nobody,      \* the holder of a free lock, an absent proxy
  Names,
  Addresses,   \* the values of Listen
  Resolve,     \* what each is resolved to, Nobody if it cannot be
  Binds,       \* the addresses a listener on it may be bound to
  Bodies,      \* the proxies a request may describe
  Lists,       \* the lists of them Populate may be given, none empty: that does nothing
  MaxProxies   \* bound on the proxies ever made

Pointers == 1 .. MaxProxies
Entry == [name : Names, listen : Addresses, start : BOOLEAN]

ASSUME RegistryAssumption ==
  /\ IsFiniteSet(Callers) /\ Nobody \notin Callers /\ Nobody \notin Pointers
  /\ Nobody \notin Addresses
  /\ Resolve \in [Addresses -> Addresses \cup {Nobody}]
  /\ Binds \in [Addresses -> SUBSET Addresses]
  /\ \A a \in Addresses : Resolve[a] = Nobody => Binds[a] = {}
  /\ \A a \in Addresses : \A b \in Binds[a] : Resolve[b] = b /\ Binds[b] = {b}
  /\ \A a \in Addresses : Resolve[a] \in Binds[a] => Binds[a] = {Resolve[a]}
  /\ Bodies \subseteq Entry /\ Lists \subseteq Seq(Entry) \ {<<>>}
  /\ MaxProxies \in Nat

VARIABLES
  proxies,   \* collection.proxies
  writer,    \* the handler that holds the collection's write lock
  mutex,     \* the handler that holds each proxy's mutex
  proxy,     \* the proxies ever made: Listen, what it was when it was last
             \* assigned, and Enabled
  caller,    \* what each handler does
  revived    \* history: the proxies that an update or a reset has started
             \* while or after the collection let go of them

vars == <<proxies, writer, mutex, proxy, caller, revived>>

Idle == [pc |-> "idle", op |-> "none", todo |-> <<>>, left |-> {}, at |-> Nobody,
         err |-> "none"]

Call == [pc : {"idle", "lock", "look", "stop", "drop", "make", "get", "change",
              "toggle", "list", "start", "answer"},
         op : {"none", "create", "delete", "populate", "update", "reset", "show"},
         todo : Seq(Entry \cup [name : Names]), left : SUBSET Pointers,
         at : Pointers \cup {Nobody},
         err : {"none", "exists", "not found", "address", "start"}]

TypeOK ==
  /\ proxies \in [Names -> Pointers \cup {Nobody}]
  /\ writer \in Callers \cup {Nobody}
  /\ mutex \in [Pointers -> Callers \cup {Nobody}]
  /\ proxy \in Seq([listen : Addresses, given : Addresses, enabled : BOOLEAN])
  /\ Len(proxy) <= MaxProxies
  /\ caller \in [Callers -> Call]
  /\ revived \subseteq Pointers

Init ==
  /\ proxies = [n \in Names |-> Nobody]
  /\ writer = Nobody /\ mutex = [p \in Pointers |-> Nobody]
  /\ proxy = <<>>
  /\ caller = [k \in Callers |-> Idle]
  /\ revived = {}

Made == 1 .. Len(proxy)
Listed == {proxies[n] : n \in Names} \ {Nobody}
Enabled(p) == proxy[p].enabled
AddressFree(a, p) == \A q \in Made \ {p} : Enabled(q) => proxy[q].listen # a

Goto(k, place) == caller' = [caller EXCEPT ![k].pc = place]
Return(k) == caller' = [caller EXCEPT ![k] = Idle]
Reply(k, p, e) ==
  caller' = [caller EXCEPT ![k] = [Idle EXCEPT !.pc = "answer", !.at = p, !.err = e]]
Request(k) == Head(caller[k].todo)
-----------------------------------------------------------------------------
(* A request arrives: the handler's name, its input, and where it starts.  *)
Begin(k, op, todo, place) ==
  /\ caller[k].pc = "idle"
  /\ caller' = [caller EXCEPT ![k].op = op, ![k].todo = todo, ![k].pc = place]
  /\ UNCHANGED <<proxies, writer, mutex, proxy, revived>>

Pending == {e \in Callers \X Pointers :
              caller[e[1]].op \in {"create", "populate"} /\ e[2] <= Len(caller[e[1]].todo)}
MayMake(n) == Len(proxy) + Cardinality(Pending) + n <= MaxProxies

ProxyCreate(k) == MayMake(1) /\ \E e \in Bodies : Begin(k, "create", <<e>>, "lock")
Populate(k) == \E es \in Lists : MayMake(Len(es)) /\ Begin(k, "populate", es, "lock")
ProxyDelete(k) == \E e \in [name : Names] : Begin(k, "delete", <<e>>, "lock")
ProxyUpdate(k) == \E e \in Bodies : Begin(k, "update", <<e>>, "get")
ProxyShow(k) == \E e \in [name : Names] : Begin(k, "show", <<e>>, "get")
ResetState(k) == Begin(k, "reset", <<>>, "list")

Lock(k) ==
  /\ caller[k].pc = "lock" /\ writer = Nobody
  /\ writer' = k
  /\ Goto(k, "look")
  /\ UNCHANGED <<proxies, mutex, proxy, revived>>
-----------------------------------------------------------------------------
(* Under the write lock.  The call on the collection ends and unlocks it;  *)
(* Populate goes on with the next proxy of its list.                       *)
Unlock(k, p, e) == writer' = Nobody /\ Reply(k, p, e)
Proceed(k, p) ==
  IF Len(caller[k].todo) = 1 THEN Unlock(k, p, "none")
  ELSE /\ writer' = Nobody
       /\ caller' = [caller EXCEPT ![k].pc = "lock", ![k].at = Nobody,
                                   ![k].todo = Tail(@)]

Existing(k) == proxies[Request(k).name]

(* Differs reads the proxy's fields without its mutex.                     *)
Unresolvable(e) == Resolve[e.listen] = Nobody
Differs(p, e) == proxy[p].listen # Resolve[e.listen]

CannotAddUnchecked(k) == FALSE
CannotAdd(k) == caller[k].op = "create" /\ Existing(k) # Nobody
CannotRemove(k) == caller[k].op = "delete" /\ Existing(k) = Nobody
Replaces(k) == caller[k].op = "populate" /\ Existing(k) # Nobody
CannotReplace(k) == Replaces(k) /\ Unresolvable(Request(k))
Unchanged(k) ==
  Replaces(k) /\ ~CannotReplace(k) /\ ~Differs(Existing(k), Request(k))

Rejected(k) ==
  /\ caller[k].pc = "look"
  /\ \/ CannotAdd(k) /\ Unlock(k, Nobody, "exists")
     \/ CannotRemove(k) /\ Unlock(k, Nobody, "not found")
     \/ CannotReplace(k) /\ Unlock(k, Nobody, "address")
  /\ UNCHANGED <<proxies, mutex, proxy, revived>>

Keep(k) ==
  /\ caller[k].pc = "look" /\ Unchanged(k)
  /\ Proceed(k, Existing(k))
  /\ UNCHANGED <<proxies, mutex, proxy, revived>>

Find(k) ==
  /\ caller[k].pc = "look"
  /\ ~CannotAdd(k) /\ ~CannotRemove(k) /\ ~CannotReplace(k) /\ ~Unchanged(k)
  /\ caller' = [caller EXCEPT ![k].at = Existing(k),
                              ![k].pc = IF caller[k].op = "create" \/ Existing(k) = Nobody
                                        THEN "make" ELSE "stop"]
  /\ UNCHANGED <<proxies, writer, mutex, proxy, revived>>

(* Stop, which waits for the mutex of the proxy found.                     *)
StopFound(p) ==
  /\ proxy' = [proxy EXCEPT ![p].enabled = FALSE]
  /\ revived' = revived \ {p}
Stop(k) ==
  /\ caller[k].pc = "stop" /\ mutex[caller[k].at] = Nobody
  /\ StopFound(caller[k].at)
  /\ Goto(k, IF caller[k].op = "delete" THEN "drop" ELSE "make")
  /\ UNCHANGED <<proxies, writer, mutex>>

Drop(k) ==
  /\ caller[k].pc = "drop"
  /\ proxies' = [proxies EXCEPT ![Request(k).name] = Nobody]
  /\ Unlock(k, Nobody, "none")
  /\ UNCHANGED <<mutex, proxy, revived>>

(* Listening: the proxy's address becomes the one the listener is bound    *)
(* to.                                                                     *)
FreeFor(a, p) == {b \in Binds[a] : AddressFree(b, p)}

(* A new proxy is listed once it has started, if it is to start.           *)
NewOffByOne == Len(proxy)
New == Len(proxy) + 1
StartedAtGiven(e) ==
  {[listen |-> e.listen, given |-> e.listen, enabled |-> TRUE] : a \in FreeFor(e.listen, New)}
Started(e) ==
  {[listen |-> a, given |-> e.listen, enabled |-> TRUE] : a \in FreeFor(e.listen, New)}
Stopped(e) == [listen |-> e.listen, given |-> e.listen, enabled |-> FALSE]
Make(k) ==
  LET e == Request(k) IN
  /\ caller[k].pc = "make"
  /\ \E p \in IF e.start THEN Started(e) ELSE {Stopped(e)} : proxy' = Append(proxy, p)
  /\ proxies' = [proxies EXCEPT ![e.name] = New]
  /\ Proceed(k, New)
  /\ UNCHANGED <<mutex, revived>>

MakeFailsListed(k) ==
  LET e == Request(k) IN
  /\ caller[k].pc = "make" /\ e.start
  /\ proxy' = Append(proxy, Stopped(e))
  /\ proxies' = [proxies EXCEPT ![e.name] = New]
  /\ Unlock(k, Nobody, "start")
  /\ UNCHANGED <<mutex, revived>>
MakeFailsLocked(k) ==
  /\ caller[k].pc = "make" /\ Request(k).start
  /\ Reply(k, Nobody, "start")
  /\ UNCHANGED <<proxies, writer, mutex, proxy, revived>>
MakeFails(k) ==
  /\ caller[k].pc = "make" /\ Request(k).start
  /\ Unlock(k, Nobody, "start")
  /\ UNCHANGED <<proxies, mutex, proxy, revived>>
-----------------------------------------------------------------------------
(* Without the write lock: Get and Proxies copy pointers under the read    *)
(* lock, and the calls on the proxies come later.                          *)
Get(k) ==
  /\ caller[k].pc = "get" /\ writer = Nobody
  /\ \/ Existing(k) = Nobody /\ Reply(k, Nobody, "not found")
     \/ Existing(k) # Nobody /\ caller[k].op = "show" /\ Reply(k, Existing(k), "none")
     \/ /\ Existing(k) # Nobody /\ caller[k].op = "update"
        /\ caller' = [caller EXCEPT ![k].at = Existing(k), ![k].pc = "change"]
  /\ UNCHANGED <<proxies, writer, mutex, proxy, revived>>

(* Update: what it stops, it stops and assigns at once to whoever looks.   *)
Change(k) ==
  LET p == caller[k].at  e == Request(k) IN
  /\ caller[k].pc = "change" /\ mutex[p] = Nobody
  /\ \/ Unresolvable(e) /\ Reply(k, Nobody, "address") /\ UNCHANGED <<mutex, proxy, revived>>
     \/ /\ ~Unresolvable(e)
        /\ mutex' = [mutex EXCEPT ![p] = k]
        /\ IF Differs(p, e)
           THEN proxy' = [proxy EXCEPT ![p] = Stopped(e)] /\ revived' = revived \ {p}
           ELSE UNCHANGED <<proxy, revived>>
        /\ Goto(k, "toggle")
  /\ UNCHANGED <<proxies, writer>>

LetGo(p) ==
  \/ p \notin Listed
  \/ \E w \in Callers : writer = w /\ caller[w].pc \in {"drop", "make"} /\ caller[w].at = p

StartFound(p) ==
  /\ \E a \in FreeFor(proxy[p].listen, p) :
       proxy' = [proxy EXCEPT ![p].listen = a, ![p].enabled = TRUE]
  /\ revived' = IF LetGo(p) THEN revived \cup {p} ELSE revived

Toggle(k) ==
  LET p == caller[k].at  e == Request(k) IN
  /\ caller[k].pc = "toggle"
  /\ mutex' = [mutex EXCEPT ![p] = Nobody]
  /\ \/ e.start /\ ~Enabled(p) /\ StartFound(p) /\ Reply(k, p, "none")
     \/ e.start /\ ~Enabled(p) /\ Reply(k, Nobody, "start") /\ UNCHANGED <<proxy, revived>>
     \/ e.start /\ Enabled(p) /\ Reply(k, p, "none") /\ UNCHANGED <<proxy, revived>>
     \/ ~e.start /\ StopFound(p) /\ Reply(k, p, "none")
  /\ UNCHANGED <<proxies, writer>>

ListProxies(k) ==
  /\ caller[k].pc = "list" /\ writer = Nobody
  /\ IF Listed = {} THEN Reply(k, Nobody, "none")
     ELSE caller' = [caller EXCEPT ![k].pc = "start", ![k].left = Listed]
  /\ UNCHANGED <<proxies, writer, mutex, proxy, revived>>

(* One round of ResetState: ErrProxyAlreadyStarted is no error.  It then   *)
(* resets the proxy's toxics (api.go:193), which takes the mutex of their  *)
(* collection and waits for links: module Collection has that part, and    *)
(* here the round ends as if it always returned.                           *)
NextProxy(k, p) ==
  IF caller[k].left = {p} THEN Reply(k, Nobody, "none")
  ELSE caller' = [caller EXCEPT ![k].left = @ \ {p}]
ResetStarts(k) ==
  /\ caller[k].pc = "start"
  /\ \E p \in caller[k].left :
       /\ mutex[p] = Nobody
       /\ \/ Enabled(p) /\ NextProxy(k, p) /\ UNCHANGED <<proxy, revived>>
          \/ ~Enabled(p) /\ NextProxy(k, p) /\ StartFound(p)
          \/ ~Enabled(p) /\ Reply(k, Nobody, "start") /\ UNCHANGED <<proxy, revived>>
  /\ UNCHANGED <<proxies, writer, mutex>>

Answer(k) ==
  /\ caller[k].pc = "answer"
  /\ Return(k)
  /\ UNCHANGED <<proxies, writer, mutex, proxy, revived>>
-----------------------------------------------------------------------------
Ask(k) == ProxyCreate(k) \/ Populate(k) \/ ProxyDelete(k) \/ ProxyUpdate(k) \/ ResetState(k)

Waits(k) == Lock(k) \/ Stop(k) \/ Get(k) \/ Change(k) \/ ListProxies(k) \/ ResetStarts(k)

Works(k) ==
  \/ Waits(k)
  \/ Rejected(k) \/ Keep(k) \/ Find(k) \/ Drop(k)
  \/ Make(k) \/ MakeFails(k) \/ Toggle(k)

Handler(k) == Works(k) \/ Answer(k)

Next == \E k \in Callers : Ask(k) \/ Handler(k)

Spec == Init /\ [][Next]_vars

(* A handler goes on, and a mutex does not keep one that waits out for     *)
(* ever.                                                                   *)
Fairness == \A k \in Callers : WF_vars(Handler(k)) /\ SF_vars(Waits(k))

FairSpec == Spec /\ Fairness
-----------------------------------------------------------------------------
(* Properties.                                                             *)

(* Creating, replacing and deleting leave no proxy listening that the      *)
(* collection does not list, whatever runs beside them; the only way to    *)
(* one is an update or a reset with a pointer from before.                 *)
NoneLeftListening ==
  writer = Nobody => \A p \in Made : Enabled(p) => p \in Listed \cup revived

(* A proxy that is to be started when it is made is listed once it listens *)
(* (Add and AddOrReplace: an error of Start lists nothing).                *)
StartedBeforeListed ==
  [][\A k \in Callers, n \in Names :
       caller[k].pc = "make" /\ Request(k).start /\ proxies'[n] # proxies[n]
         => proxy'[proxies'[n]].enabled]_vars

(* Populating again with what a proxy was made or updated with leaves the  *)
(* proxy alone as long as it listens (PopulateJson, Differs and listen),   *)
(* provided the address resolves to what a listener on it is bound to: a   *)
(* host name or an address does, a wildcard or port 0 does not, and a      *)
(* stopped proxy still has the address as it was given.                    *)
Consistent(p, e) ==
  Enabled(p) /\ proxy[p].given = e.listen /\ Resolve[e.listen] \in Binds[e.listen]

RepeatedPopulateKeeps ==
  [][\A k \in Callers :
       caller[k].pc = "look" /\ Replaces(k) /\ Consistent(Existing(k), Request(k))
         => caller'[k].pc # "stop"]_vars

(* Every handler returns: the collection's lock and the proxies' mutexes   *)
(* are always taken in that order and given back on every path.            *)
CallsReturn == \A k \in Callers : caller[k].pc # "idle" ~> caller[k].pc = "idle"
=============================================================================
