---------------------------- MODULE RegistryProofs ----------------------------
(***************************************************************************)
(* Theorems about Registry, for any number of handlers, names, addresses   *)
(* and proxies: whatever the handlers do between each other's steps.       *)
(***************************************************************************)
EXTENDS Registry, FiniteSetTheorems, SequenceTheorems, TLAPS

(* The inductive invariant.  What a handler is doing fits its request, and *)
(* the collection does not change under the one that has its write lock.   *)
Locked == {"look", "stop", "drop", "make"}
Making == {"create", "populate"}

CallOK(k) ==
  LET c == caller[k] IN
  /\ c.pc \in Locked <=> writer = k
  /\ c.pc = "idle" => c = Idle
  /\ c.pc \in Locked \cup {"lock"} => c.todo # <<>> /\ c.op \in Making \cup {"delete"}
  /\ c.pc \in {"get", "change", "toggle"} => c.todo # <<>> /\ c.op \in {"update", "show"}
  /\ c.pc \in {"change", "toggle"} => c.op = "update"
  /\ c.pc = "make" => c.op \in Making
  /\ c.op \in Making \cup {"update"} => c.todo \in Seq(Entry)
  /\ c.op \in Making => Len(c.todo) <= MaxProxies
  /\ c.pc \in {"stop", "change", "toggle"} => c.at \in Made
  /\ c.pc \in {"stop", "drop", "make"} => c.at = Existing(k)
  /\ c.left \subseteq Made

CallsOK == \A k \in Callers : CallOK(k)

(* There is room for the proxies that are still to be made.                *)
RoomLeft == Len(proxy) + Cardinality(Pending) <= MaxProxies

(* A proxy listens on an address its Listen stands for.                    *)
AddressesOK ==
  \A p \in Made :
    /\ proxy[p].listen \in Binds[proxy[p].given] \cup {proxy[p].given}
    /\ Enabled(p) => proxy[p].listen \in Binds[proxy[p].given]

(* A proxy that listens is listed, or was started after it had been let    *)
(* go; so is the one that a handler has stopped and is about to let go.    *)
ListeningListed == \A p \in Made : Enabled(p) => p \in Listed \cup revived
ListeningLetGo ==
  \A k \in Callers :
    LET p == caller[k].at IN
    caller[k].pc \in {"drop", "make"} /\ p # Nobody /\ Enabled(p) => p \in revived

IInv ==
  /\ TypeOK /\ CallsOK
  /\ Listed \subseteq Made
  /\ RoomLeft /\ AddressesOK /\ ListeningListed /\ ListeningLetGo
-----------------------------------------------------------------------------
(* The proxies that are still to be made.                                  *)

LEMMA PointersFinite == IsFiniteSet(Pointers) /\ IsFiniteSet(Callers \X Pointers)
<1>1. IsFiniteSet(Pointers)
  BY RegistryAssumption, FS_Interval DEF Pointers
<1> QED
  BY <1>1, RegistryAssumption, FS_Product

LEMMA PendingFinite == IsFiniteSet(Pending) /\ Cardinality(Pending) \in Nat
<1>1. Pending \subseteq Callers \X Pointers
  BY DEF Pending
<1>2. IsFiniteSet(Pending)
  BY <1>1, PointersFinite, FS_Subset
<1> QED
  BY <1>2, FS_CardinalityType

LEMMA PendingPrimed == IsFiniteSet(Pending') /\ Cardinality(Pending') \in Nat
<1>1. Pending' \subseteq Callers \X Pointers
  BY DEF Pending
<1>2. IsFiniteSet(Pending')
  BY <1>1, PointersFinite, FS_Subset
<1> QED
  BY <1>2, FS_CardinalityType

(* A step that gives no handler more to make leaves the room there was.    *)
LEMMA NothingMoreToMake ==
  ASSUME RoomLeft, Len(proxy) \in Nat, Len(proxy') = Len(proxy),
         NEW k \in Callers,
         \A j \in Callers \ {k} : caller'[j] = caller[j],
         caller'[k].op \in Making =>
           /\ caller[k].op \in Making
           /\ Len(caller[k].todo) \in Nat /\ Len(caller'[k].todo) \in Nat
           /\ Len(caller'[k].todo) <= Len(caller[k].todo)
  PROVE  RoomLeft'
<1>1. Pending' \subseteq Pending
  <2> SUFFICES ASSUME NEW j \in Callers, NEW i \in Pointers, <<j, i>> \in Pending'
               PROVE  <<j, i>> \in Pending
    BY DEF Pending
  <2>1. caller'[j].op \in Making /\ i <= Len(caller'[j].todo)
    BY DEF Pending, Making
  <2>2. CASE j = k
    <3>1. i \in Int
      BY RegistryAssumption DEF Pointers
    <3>2. i <= Len(caller[k].todo)
      BY <2>1, <2>2, <3>1
    <3> QED
      BY <2>1, <2>2, <3>2 DEF Pending, Making
  <2>3. CASE j # k
    BY <2>1, <2>3 DEF Pending, Making
  <2> QED
    BY <2>2, <2>3
<1>2. Cardinality(Pending') <= Cardinality(Pending)
  BY <1>1, PendingFinite, FS_Subset
<1> QED
  BY <1>2, PendingFinite, PendingPrimed, RegistryAssumption DEF RoomLeft

(* A step that takes the first entry off a list to make it.                *)
LEMMA OneLessToMake ==
  ASSUME RoomLeft, Len(proxy) \in Nat, Len(proxy') = Len(proxy) + 1,
         NEW k \in Callers,
         \A j \in Callers \ {k} : caller'[j] = caller[j],
         caller[k].op \in Making,
         Len(caller[k].todo) \in Pointers,
         caller'[k].op \in Making =>
           /\ Len(caller'[k].todo) \in Nat
           /\ Len(caller'[k].todo) = Len(caller[k].todo) - 1
  PROVE  RoomLeft'
<1> DEFINE e == <<k, Len(caller[k].todo)>>
<1>1. e \in Pending
  BY RegistryAssumption DEF Pending, Making, Pointers
<1>2. Pending' \subseteq Pending \ {e}
  <2> SUFFICES ASSUME NEW j \in Callers, NEW i \in Pointers, <<j, i>> \in Pending'
               PROVE  <<j, i>> \in Pending \ {e}
    BY DEF Pending
  <2>1. caller'[j].op \in Making /\ i <= Len(caller'[j].todo)
    BY DEF Pending, Making
  <2>2. CASE j = k
    <3>1. i \in Int /\ Len(caller[k].todo) \in Int
      BY RegistryAssumption DEF Pointers
    <3>2. i < Len(caller[k].todo)
      BY <2>1, <2>2, <3>1
    <3> QED
      BY <2>2, <3>1, <3>2 DEF Pending, Making
  <2>3. CASE j # k
    BY <2>1, <2>3 DEF Pending, Making
  <2> QED
    BY <2>2, <2>3
<1>3. /\ IsFiniteSet(Pending \ {e})
      /\ Cardinality(Pending \ {e}) = Cardinality(Pending) - 1
  BY <1>1, PendingFinite, FS_RemoveElement, ZenonT(40)
<1>4. Cardinality(Pending') <= Cardinality(Pending) - 1
  BY <1>2, <1>3, FS_Subset
<1> QED
  BY <1>4, PendingFinite, PendingPrimed, RegistryAssumption DEF RoomLeft

LEMMA IntervalSize ==
  ASSUME NEW n \in Nat
  PROVE  IsFiniteSet(1 .. n) /\ Cardinality(1 .. n) = n
<1>1. 1 \in Int /\ n \in Int
  OBVIOUS
<1>2. /\ IsFiniteSet(1 .. n)
      /\ Cardinality(1 .. n) = IF 1 > n THEN 0 ELSE n - 1 + 1
  BY <1>1, FS_Interval, Zenon
<1> QED
  BY <1>2

(* A request that is admitted (MayMake) has room for what it makes.        *)
LEMMA MoreToMake ==
  ASSUME Len(proxy) \in Nat, Len(proxy') = Len(proxy),
         NEW k \in Callers,
         \A j \in Callers \ {k} : caller'[j] = caller[j],
         caller[k].op \notin Making,
         Len(caller'[k].todo) \in Nat,
         MayMake(Len(caller'[k].todo))
  PROVE  RoomLeft'
<1> DEFINE n == Len(caller'[k].todo)
           new == {k} \X (1 .. n)
<1>1. Pending' \subseteq Pending \cup new
  <2> SUFFICES ASSUME NEW j \in Callers, NEW i \in Pointers, <<j, i>> \in Pending'
               PROVE  <<j, i>> \in Pending \cup new
    BY DEF Pending
  <2>1. caller'[j].op \in Making /\ i <= Len(caller'[j].todo)
    BY DEF Pending, Making
  <2>2. CASE j = k
    <3>1. i \in 1 .. n
      BY <2>1, <2>2, RegistryAssumption DEF Pointers
    <3> QED
      BY <2>2, <3>1
  <2>3. CASE j # k
    BY <2>1, <2>3 DEF Pending, Making
  <2> QED
    BY <2>2, <2>3
<1>2. IsFiniteSet(new) /\ Cardinality(new) = n
  <2>0. n \in Nat
    OBVIOUS
  <2> HIDE DEF n
  <2>1. IsFiniteSet({k}) /\ Cardinality({k}) = 1
    BY FS_Singleton
  <2>2. IsFiniteSet(1 .. n) /\ Cardinality(1 .. n) = n
    BY <2>0, IntervalSize
  <2>3. /\ IsFiniteSet({k} \X (1 .. n))
        /\ Cardinality({k} \X (1 .. n)) = Cardinality({k}) * Cardinality(1 .. n)
    BY <2>1, <2>2, FS_Product
  <2> QED
    BY <2>0, <2>1, <2>2, <2>3 DEF new
<1> HIDE DEF new
<1>3. /\ IsFiniteSet(Pending \cup new) /\ IsFiniteSet(Pending \cap new)
      /\ Cardinality(Pending \cup new)
           = Cardinality(Pending) + Cardinality(new) - Cardinality(Pending \cap new)
  BY <1>2, PendingFinite, FS_Union, FS_Intersection
<1>4. Cardinality(Pending \cap new) \in Nat
  BY <1>3, FS_CardinalityType
<1>5. Cardinality(Pending') <= Cardinality(Pending \cup new)
  BY <1>1, <1>3, FS_Subset
<1> QED
  BY <1>2, <1>3, <1>4, <1>5, PendingFinite, PendingPrimed, RegistryAssumption
  DEF RoomLeft, MayMake
-----------------------------------------------------------------------------
(* Steps of one handler, as the others see them.                           *)

LEMMA MadeProxies ==
  ASSUME TypeOK
  PROVE  /\ Len(proxy) \in Nat /\ Made \subseteq Pointers /\ Nobody \notin Made
         /\ \A p \in Made :
              proxy[p] \in [listen : Addresses, given : Addresses, enabled : BOOLEAN]
<1>1. Len(proxy) \in Nat /\ Len(proxy) <= MaxProxies
  BY DEF TypeOK
<1>2. Made \subseteq Pointers
  BY <1>1, RegistryAssumption DEF Made, Pointers
<1>3. \A p \in Made :
        proxy[p] \in [listen : Addresses, given : Addresses, enabled : BOOLEAN]
  <2> DEFINE R == [listen : Addresses, given : Addresses, enabled : BOOLEAN]
  <2>1. proxy \in Seq(R)
    BY DEF TypeOK
  <2> HIDE DEF R
  <2>2. \A p \in Made : proxy[p] \in R
    BY <2>1, ElementOfSeq DEF Made
  <2> QED
    BY <2>2 DEF R
<1> QED
  BY <1>1, <1>2, <1>3, RegistryAssumption

(* What another handler is doing still fits: the collection has changed    *)
(* only under its write lock.                                              *)
LEMMA OthersKeep ==
  ASSUME TypeOK, CallsOK,
         NEW k \in Callers,
         \A j \in Callers \ {k} : caller'[j] = caller[j],
         \A j \in Callers \ {k} : writer' = j <=> writer = j,
         Made \subseteq Made',
         proxies' = proxies \/ writer = k,
         CallOK(k)'
  PROVE  CallsOK'
<1> SUFFICES ASSUME NEW j \in Callers PROVE CallOK(j)'
  BY DEF CallsOK
<1>1. CASE j = k
  BY <1>1
<1>2. CASE j # k
  <2>1. caller'[j] = caller[j] /\ CallOK(j) /\ (writer' = j <=> writer = j)
    BY <1>2 DEF CallsOK
  <2>2. caller[j].pc \in Locked => proxies' = proxies
    BY <1>2, <2>1 DEF CallOK
  <2>3. Made \subseteq Made'
    OBVIOUS
  <2> HIDE DEF Made
  <2> QED
    BY <2>1, <2>2, <2>3 DEF CallOK, Existing, Request, Locked
<1> QED
  BY <1>1, <1>2

(* A step that touches no proxy and no name.                               *)
LEMMA ProxiesKept ==
  ASSUME IInv,
         UNCHANGED <<proxies, proxy, revived>>,
         NEW k \in Callers,
         \A j \in Callers \ {k} : caller'[j] = caller[j],
         LET p == caller'[k].at IN
           caller'[k].pc \in {"drop", "make"} /\ p # Nobody /\ Enabled(p) => p \in revived
  PROVE  /\ (Listed \subseteq Made)' /\ AddressesOK' /\ ListeningListed'
         /\ ListeningLetGo' /\ Made' = Made
<1>1. (Listed \subseteq Made)' /\ AddressesOK' /\ ListeningListed' /\ Made' = Made
  BY DEF IInv, Listed, Made, AddressesOK, Enabled, ListeningListed
<1>2. ListeningLetGo'
  BY DEF IInv, ListeningLetGo, Enabled
<1> QED
  BY <1>1, <1>2
-----------------------------------------------------------------------------
(* What a handler becomes.                                                 *)

Places == {"idle", "lock", "look", "stop", "drop", "make", "get", "change",
           "toggle", "list", "start", "answer"}
Errors == {"none", "exists", "not found", "address", "start"}

LEMMA IdleType == Idle \in Call
<1>1. <<>> \in Seq(Entry \cup [name : Names])
  BY EmptySeq
<1> QED
  BY <1>1 DEF Idle, Call

LEMMA Went ==
  ASSUME TypeOK, NEW k \in Callers, NEW place \in Places, Goto(k, place)
  PROVE  /\ caller' \in [Callers -> Call]
         /\ \A j \in Callers \ {k} : caller'[j] = caller[j]
         /\ caller'[k] = [caller[k] EXCEPT !.pc = place]
<1>1. caller \in [Callers -> Call]
  BY DEF TypeOK
<1>2. caller' = [caller EXCEPT ![k] = [caller[k] EXCEPT !.pc = place]]
  BY DEF Goto
<1>3. [caller[k] EXCEPT !.pc = place] \in Call
  BY <1>1 DEF Call, Places
<1> QED
  BY <1>1, <1>2, <1>3

LEMMA Replied ==
  ASSUME TypeOK, NEW k \in Callers, NEW p \in Pointers \cup {Nobody},
         NEW e \in Errors, Reply(k, p, e)
  PROVE  /\ caller' \in [Callers -> Call]
         /\ \A j \in Callers \ {k} : caller'[j] = caller[j]
         /\ caller'[k] = [Idle EXCEPT !.pc = "answer", !.at = p, !.err = e]
         /\ caller'[k].pc = "answer" /\ caller'[k].op = "none"
         /\ caller'[k].todo = <<>> /\ caller'[k].left = {}
<1>1. caller \in [Callers -> Call]
  BY DEF TypeOK
<1>2. [Idle EXCEPT !.pc = "answer", !.at = p, !.err = e] \in Call
  BY IdleType DEF Call, Errors
<1>3. caller' = [caller EXCEPT ![k] = [Idle EXCEPT !.pc = "answer", !.at = p, !.err = e]]
  BY DEF Reply
<1> QED
  BY <1>1, <1>2, <1>3 DEF Idle

(* What a handler that has a request can look up.                          *)
LEMMA Asked ==
  ASSUME IInv, NEW k \in Callers, caller[k].todo # <<>>
  PROVE  /\ Request(k).name \in Names
         /\ Existing(k) \in Made \cup {Nobody}
         /\ caller[k].op \in Making \cup {"update"} => Request(k) \in Entry
         /\ Len(caller[k].todo) \in Nat \ {0}
         /\ Tail(caller[k].todo) \in Seq(Entry \cup [name : Names])
         /\ caller[k].op \in Making \cup {"update"} => Tail(caller[k].todo) \in Seq(Entry)
         /\ Len(Tail(caller[k].todo)) = Len(caller[k].todo) - 1
<1> DEFINE E == Entry \cup [name : Names]
           todo == caller[k].todo
<1>1. todo \in Seq(E) /\ todo # <<>>
  BY DEF IInv, TypeOK, Call
<1>2. E = Entry \cup [name : Names]
  OBVIOUS
<1> HIDE DEF E
<1>3. Head(todo) \in E /\ Tail(todo) \in Seq(E) /\ Len(todo) \in Nat \ {0}
      /\ Len(Tail(todo)) = Len(todo) - 1
  BY <1>1, HeadTailProperties, EmptySeq, LenProperties
<1>4. Head(todo).name \in Names
  BY <1>2, <1>3 DEF Entry
<1>5. Existing(k) \in Made \cup {Nobody}
  BY <1>4 DEF IInv, TypeOK, Existing, Request, Listed
<1>6. ASSUME caller[k].op \in Making \cup {"update"}
      PROVE  Head(todo) \in Entry /\ Tail(todo) \in Seq(Entry)
  <2>1. todo \in Seq(Entry)
    BY <1>6 DEF IInv, CallsOK, CallOK
  <2> QED
    BY <1>1, <2>1, HeadTailProperties
<1> QED
  BY <1>2, <1>3, <1>4, <1>5, <1>6 DEF Request
LEMMA NotEmpty ==
  ASSUME NEW S, NEW s \in Seq(S), Len(s) # 0
  PROVE  s # <<>>
BY EmptySeq

(* A step that leaves the request as it is.                                *)
LEMMA SameRequest ==
  ASSUME RoomLeft, Len(proxy) \in Nat, Len(proxy') = Len(proxy),
         NEW k \in Callers, caller[k] \in Call,
         \A j \in Callers \ {k} : caller'[j] = caller[j],
         caller'[k].op = caller[k].op, caller'[k].todo = caller[k].todo
  PROVE  RoomLeft'
<1>1. caller[k].todo \in Seq(Entry \cup [name : Names])
  BY DEF Call
<1>2. Len(caller[k].todo) \in Nat
  BY <1>1, LenProperties
<1>3. Len(caller'[k].todo) \in Nat /\ Len(caller'[k].todo) <= Len(caller[k].todo)
  BY <1>2
<1> QED
  BY <1>2, <1>3, NothingMoreToMake

(* Populate goes on with the rest of its list, or a call ends.             *)
LEMMA Proceeded ==
  ASSUME IInv, NEW k \in Callers, NEW p \in Pointers \cup {Nobody},
         caller[k].pc \in {"look", "make"}, caller[k].op \in Making, Proceed(k, p),
         Made \subseteq Made'
  PROVE  /\ caller' \in [Callers -> Call] /\ writer' = Nobody
         /\ \A j \in Callers \ {k} : caller'[j] = caller[j]
         /\ caller'[k].pc \in {"lock", "answer"}
         /\ caller'[k].op \in Making =>
              /\ Len(caller'[k].todo) \in Nat
              /\ Len(caller'[k].todo) = Len(caller[k].todo) - 1
         /\ CallOK(k)'
<1>1. /\ TypeOK /\ caller \in [Callers -> Call] /\ CallOK(k) /\ Listed \subseteq Made
  BY DEF IInv, TypeOK, CallsOK
<1>2. caller[k].todo # <<>>
  BY <1>1 DEF CallOK, Locked
<1>3. /\ Len(caller[k].todo) \in Nat \ {0}
      /\ Tail(caller[k].todo) \in Seq(Entry \cup [name : Names])
      /\ Tail(caller[k].todo) \in Seq(Entry)
      /\ Len(Tail(caller[k].todo)) = Len(caller[k].todo) - 1
  BY <1>2, Asked
<1>4. CASE Len(caller[k].todo) = 1
  <2>1. Reply(k, p, "none") /\ writer' = Nobody
    BY <1>4 DEF Proceed, Unlock
  <2>2. /\ caller' \in [Callers -> Call]
        /\ \A j \in Callers \ {k} : caller'[j] = caller[j]
        /\ caller'[k].pc = "answer" /\ caller'[k].op = "none"
        /\ caller'[k].todo = <<>> /\ caller'[k].left = {}
    BY <1>1, <2>1, Replied DEF Errors
  <2>3. CallOK(k)'
    BY <2>1, <2>2, RegistryAssumption DEF CallOK, Locked, Making
  <2> QED
    BY <2>1, <2>2, <2>3 DEF Making
<1>5. CASE Len(caller[k].todo) # 1
  <2> DEFINE c == [caller[k] EXCEPT !.pc = "lock", !.at = Nobody, !.todo = Tail(@)]
  <2>1. caller' = [caller EXCEPT ![k] = c] /\ writer' = Nobody
    BY <1>5 DEF Proceed
  <2>2. c \in Call
    BY <1>1, <1>3, ZenonT(40) DEF Call
  <2>3. /\ c.pc = "lock" /\ c.op = caller[k].op /\ c.left = caller[k].left
        /\ c.todo = Tail(caller[k].todo)
    BY <1>1 DEF Call
  <2> HIDE DEF c
  <2>4. caller'[k] = c
    BY <1>1, <2>1
  <2>5. Tail(caller[k].todo) # <<>>
    <3>1. Len(Tail(caller[k].todo)) # 0
      BY <1>3, <1>5
    <3> QED
      BY <1>3, <3>1, NotEmpty
  <2>6. c.op \in Making => Len(c.todo) <= MaxProxies
    <3>1. Len(caller[k].todo) <= MaxProxies
      BY <1>1 DEF CallOK
    <3> QED
      BY <1>3, <2>3, <3>1, RegistryAssumption
  <2>7. c.left \subseteq Made'
    BY <1>1, <2>3 DEF CallOK
  <2>8. CallOK(k)'
    <3>1. writer' # k
      BY <2>1, RegistryAssumption
    <3>2. c.todo \in Seq(Entry) /\ c.todo # <<>> /\ c.op \in Making
      BY <1>3, <2>3, <2>5
    <3> QED
      BY <2>3, <2>4, <2>6, <2>7, <3>1, <3>2 DEF CallOK, Locked, Making
  <2> QED
    <3>1. /\ caller' \in [Callers -> Call]
          /\ \A j \in Callers \ {k} : caller'[j] = caller[j]
      BY <1>1, <2>1, <2>2
    <3>2. Len(c.todo) \in Nat /\ Len(c.todo) = Len(caller[k].todo) - 1
      BY <1>3, <2>3
    <3> QED
      BY <2>1, <2>3, <2>4, <2>8, <3>1, <3>2
<1> QED
  BY <1>4, <1>5
-----------------------------------------------------------------------------
(* Each step of a handler keeps the invariant.                             *)

(* What a handler may be asked, and where it starts.                       *)
Fits(op, todo, place) ==
  /\ todo \in Seq(Entry \cup [name : Names])
  /\ \/ /\ op \in Making /\ place = "lock" /\ todo # <<>>
        /\ todo \in Seq(Entry) /\ MayMake(Len(todo))
     \/ op = "delete" /\ place = "lock" /\ todo # <<>>
     \/ op = "update" /\ place = "get" /\ todo # <<>> /\ todo \in Seq(Entry)
     \/ op = "show" /\ place = "get" /\ todo # <<>>
     \/ op = "reset" /\ place = "list" /\ todo = <<>>

LEMMA BeganKeeps ==
  ASSUME IInv, NEW k \in Callers, NEW op, NEW todo, NEW place,
         Begin(k, op, todo, place), Fits(op, todo, place)
  PROVE  /\ IInv'
         /\ caller[k].pc = "idle"
         /\ caller'[k].pc = place /\ caller'[k].op = op /\ caller'[k].todo = todo
         /\ \A j \in Callers \ {k} : caller'[j] = caller[j]
<1>1. /\ TypeOK /\ caller \in [Callers -> Call] /\ CallsOK /\ CallOK(k) /\ RoomLeft
      /\ Len(proxy) \in Nat
  BY MadeProxies DEF IInv, TypeOK, CallsOK
<1> DEFINE c == [caller[k] EXCEPT !.op = op, !.todo = todo, !.pc = place]
<1>4. /\ caller' = [caller EXCEPT ![k] = c] /\ caller[k].pc = "idle"
      /\ UNCHANGED <<proxies, writer, mutex, proxy, revived>>
  BY DEF Begin
<1>5. caller[k].op = "none" /\ caller[k].left = {} /\ writer # k
  BY <1>1, <1>4 DEF CallOK, Idle, Locked
<1>6. c \in Call /\ c.op = op /\ c.todo = todo /\ c.pc = place /\ c.left = {}
  BY <1>1, <1>5 DEF Call, Making, Fits
<1> HIDE DEF c
<1>7. /\ caller' \in [Callers -> Call] /\ caller'[k] = c
      /\ \A j \in Callers \ {k} : caller'[j] = caller[j]
  BY <1>1, <1>4, <1>6
<1>8. TypeOK'
  BY <1>1, <1>4, <1>7 DEF TypeOK
<1>9. Len(todo) \in Nat
  BY LenProperties DEF Fits
<1>10. RoomLeft'
  <2>1. CASE op \in Making
    <3>1. MayMake(Len(todo))
      BY <2>1 DEF Fits, Making
    <3> QED
      BY <1>1, <1>4, <1>5, <1>6, <1>7, <1>9, <2>1, <3>1, MoreToMake DEF Making
  <2>2. CASE op \notin Making
    BY <1>1, <1>4, <1>6, <1>7, <2>2, NothingMoreToMake
  <2> QED
    BY <2>1, <2>2
<1>11. CallOK(k)'
  <2>1. op \in Making => Len(todo) <= MaxProxies
    BY <1>1, <1>9, PendingFinite, RegistryAssumption DEF MayMake, Making, Fits
  <2> QED
    BY <1>4, <1>5, <1>6, <1>7, <2>1 DEF CallOK, Locked, Making, Fits
<1>12. Made' = Made
  BY <1>4 DEF Made
<1>13. CallsOK'
  BY <1>1, <1>4, <1>7, <1>11, <1>12, OthersKeep
<1>14. caller'[k].pc \notin {"drop", "make"}
  BY <1>6, <1>7 DEF Fits
<1>15. IInv'
  BY <1>4, <1>7, <1>8, <1>10, <1>13, <1>14, ProxiesKept DEF IInv
<1> QED
  BY <1>4, <1>6, <1>7, <1>15

(* The lists of one entry.                                                 *)
LEMMA OneEntry ==
  /\ \A e \in Entry :
       /\ <<e>> \in Seq(Entry) /\ <<e>> \in Seq(Entry \cup [name : Names])
       /\ <<e>> # <<>> /\ Len(<<e>>) = 1 /\ Head(<<e>>) = e
  /\ \A e \in [name : Names] :
       /\ <<e>> \in Seq(Entry \cup [name : Names])
       /\ <<e>> # <<>> /\ Len(<<e>>) = 1 /\ Head(<<e>>) = e
<1> DEFINE N == [name : Names]
           E == Entry \cup N
<1>1. Entry \subseteq E /\ N \subseteq E
  OBVIOUS
<1> HIDE DEF E, N
<1>2. /\ \A e \in Entry : /\ <<e>> \in Seq(Entry) /\ <<e>> \in Seq(E)
                          /\ <<e>> # <<>> /\ Len(<<e>>) = 1 /\ Head(<<e>>) = e
      /\ \A e \in N : <<e>> \in Seq(E) /\ <<e>> # <<>> /\ Len(<<e>>) = 1 /\ Head(<<e>>) = e
  BY <1>1
<1> QED
  BY <1>2 DEF E, N

LEMMA AskBegins ==
  ASSUME NEW k \in Callers, Ask(k)
  PROVE  \E op, todo, place : Begin(k, op, todo, place) /\ Fits(op, todo, place)
<1>1. CASE ProxyCreate(k)
  BY <1>1, OneEntry, RegistryAssumption DEF ProxyCreate, Fits, Making
<1>2. CASE Populate(k)
  <2>1. \A es \in Lists :
          es \in Seq(Entry) /\ es \in Seq(Entry \cup [name : Names]) /\ es # <<>>
    <3> DEFINE E == Entry \cup [name : Names]
    <3>1. Entry \subseteq E
      OBVIOUS
    <3> HIDE DEF E
    <3>2. \A es \in Lists : es \in Seq(Entry) /\ es \in Seq(E) /\ es # <<>>
      BY <3>1, RegistryAssumption, SeqMonotonic
    <3> QED
      BY <3>2 DEF E
  <2> QED
    BY <1>2, <2>1 DEF Populate, Fits, Making
<1>3. CASE ProxyDelete(k)
  BY <1>3, OneEntry DEF ProxyDelete, Fits
<1>4. CASE ProxyUpdate(k)
  BY <1>4, OneEntry, RegistryAssumption DEF ProxyUpdate, Fits
<1>5. CASE ResetState(k)
  BY <1>5, EmptySeq DEF ResetState, Fits
<1> QED
  BY <1>1, <1>2, <1>3, <1>4, <1>5 DEF Ask

LEMMA BeginKeeps ==
  ASSUME IInv, NEW k \in Callers, Ask(k)
  PROVE  IInv'
<1>1. PICK op, todo, place : Begin(k, op, todo, place) /\ Fits(op, todo, place)
  BY AskBegins
<1> QED
  BY <1>1, BeganKeeps
-----------------------------------------------------------------------------
(* Under the write lock.                                                   *)

LEMMA LockKeeps ==
  ASSUME IInv, NEW k \in Callers, Lock(k)
  PROVE  IInv'
<1>1. /\ TypeOK /\ CallsOK /\ CallOK(k) /\ RoomLeft /\ Len(proxy) \in Nat
      /\ caller[k] \in Call
  BY MadeProxies DEF IInv, TypeOK, CallsOK
<1>2. /\ caller[k].pc = "lock" /\ writer = Nobody /\ writer' = k /\ Goto(k, "look")
      /\ UNCHANGED <<proxies, mutex, proxy, revived>>
  BY DEF Lock
<1>3. /\ caller' \in [Callers -> Call]
      /\ \A j \in Callers \ {k} : caller'[j] = caller[j]
      /\ caller'[k] = [caller[k] EXCEPT !.pc = "look"]
  BY <1>1, <1>2, Went DEF Places
<1>4. /\ caller'[k].pc = "look" /\ caller'[k].op = caller[k].op
      /\ caller'[k].todo = caller[k].todo /\ caller'[k].left = caller[k].left
  BY <1>1, <1>3 DEF Call
<1>5. TypeOK' /\ Made' = Made
  BY <1>1, <1>2, <1>3 DEF TypeOK, Made
<1>6. RoomLeft'
  BY <1>1, <1>2, <1>3, <1>4, SameRequest
<1>7. CallOK(k)'
  BY <1>1, <1>2, <1>4, <1>5 DEF CallOK, Locked, Making
<1>8. CallsOK'
  BY <1>1, <1>2, <1>3, <1>5, <1>7, OthersKeep, RegistryAssumption
<1> QED
  BY <1>2, <1>3, <1>4, <1>5, <1>6, <1>8, ProxiesKept DEF IInv

(* A call on the collection that ends without a change.                    *)
LEMMA GivesUp ==
  ASSUME IInv, NEW k \in Callers, NEW p \in Pointers \cup {Nobody}, NEW e \in Errors,
         Reply(k, p, e), writer' = (IF writer = k THEN Nobody ELSE writer),
         mutex' \in [Pointers -> Callers \cup {Nobody}],
         UNCHANGED <<proxies, proxy, revived>>
  PROVE  IInv'
<1>1. TypeOK /\ CallsOK /\ RoomLeft /\ Len(proxy) \in Nat
  BY MadeProxies DEF IInv
<1>2. /\ caller' \in [Callers -> Call]
      /\ \A j \in Callers \ {k} : caller'[j] = caller[j]
      /\ caller'[k].pc = "answer" /\ caller'[k].op = "none"
      /\ caller'[k].todo = <<>> /\ caller'[k].left = {}
  BY <1>1, Replied
<1>3. TypeOK' /\ Made' = Made
  BY <1>1, <1>2 DEF TypeOK, Made
<1>4. RoomLeft'
  BY <1>1, <1>2, NothingMoreToMake DEF Making
<1>5. CallOK(k)'
  BY <1>2, RegistryAssumption DEF CallOK, Locked, Making
<1>6. CallsOK'
  BY <1>1, <1>2, <1>3, <1>5, OthersKeep, RegistryAssumption
<1> QED
  BY <1>2, <1>3, <1>4, <1>6, ProxiesKept DEF IInv

LEMMA RejectedKeeps ==
  ASSUME IInv, NEW k \in Callers, Rejected(k)
  PROVE  IInv'
<1>1. PICK e \in Errors : Reply(k, Nobody, e) /\ writer' = Nobody
  BY DEF Rejected, Unlock, Errors
<1>2. writer = k
  BY DEF Rejected, IInv, CallsOK, CallOK, Locked
<1> QED
  BY <1>1, <1>2, GivesUp DEF Rejected, IInv, TypeOK

LEMMA MakeFailsKeeps ==
  ASSUME IInv, NEW k \in Callers, MakeFails(k)
  PROVE  IInv'
<1>1. Reply(k, Nobody, "start") /\ writer' = Nobody
  BY DEF MakeFails, Unlock
<1>2. writer = k
  BY DEF MakeFails, IInv, CallsOK, CallOK, Locked
<1> QED
  BY <1>1, <1>2, GivesUp DEF MakeFails, IInv, TypeOK, Errors

LEMMA KeepKeeps ==
  ASSUME IInv, NEW k \in Callers, Keep(k)
  PROVE  IInv'
<1>1. /\ TypeOK /\ CallsOK /\ CallOK(k) /\ RoomLeft /\ Len(proxy) \in Nat
      /\ caller[k] \in Call
  BY MadeProxies DEF IInv, TypeOK, CallsOK
<1>2. /\ caller[k].pc = "look" /\ caller[k].op \in Making /\ Proceed(k, Existing(k))
      /\ UNCHANGED <<proxies, mutex, proxy, revived>>
  BY DEF Keep, Unchanged, Replaces, Making
<1>3. writer = k /\ caller[k].todo # <<>>
  BY <1>1, <1>2 DEF CallOK, Locked
<1>4. Existing(k) \in Pointers \cup {Nobody} /\ Len(caller[k].todo) \in Nat
  BY <1>1, <1>3, Asked, MadeProxies
<1>5. Made' = Made
  BY <1>2 DEF Made
<1>6. /\ caller' \in [Callers -> Call] /\ writer' = Nobody
      /\ \A j \in Callers \ {k} : caller'[j] = caller[j]
      /\ caller'[k].pc \in {"lock", "answer"}
      /\ caller'[k].op \in Making =>
           /\ Len(caller'[k].todo) \in Nat
           /\ Len(caller'[k].todo) = Len(caller[k].todo) - 1
      /\ CallOK(k)'
  BY <1>2, <1>4, <1>5, Proceeded
<1>7. TypeOK'
  BY <1>1, <1>2, <1>6 DEF TypeOK
<1>8. RoomLeft'
  BY <1>1, <1>2, <1>4, <1>6, NothingMoreToMake
<1>9. CallsOK'
  BY <1>1, <1>2, <1>3, <1>5, <1>6, OthersKeep, RegistryAssumption
<1> QED
  BY <1>2, <1>6, <1>7, <1>8, <1>9, ProxiesKept DEF IInv
(* Who waits for a proxy, or holds the write lock for one, has a proxy.    *)
LEMMA AtMade ==
  ASSUME IInv, NEW k \in Callers
  PROVE  /\ caller[k].pc \in {"drop", "make"} => caller[k].at \in Made \cup {Nobody}
         /\ caller[k].pc \in {"stop", "change", "toggle"} => caller[k].at \in Made
         /\ caller[k].pc \in Locked => caller[k].todo # <<>>
         /\ caller[k].pc \in {"get", "change", "toggle"} => caller[k].todo # <<>>
<1>1. CallOK(k)
  BY DEF IInv, CallsOK
<1>2. caller[k].pc \in {"drop", "make"} => Existing(k) \in Made \cup {Nobody}
  BY <1>1, Asked DEF CallOK, Locked
<1> QED
  BY <1>1, <1>2 DEF CallOK, Locked

LEMMA FindKeeps ==
  ASSUME IInv, NEW k \in Callers, Find(k)
  PROVE  IInv'
<1> DEFINE place == IF caller[k].op = "create" \/ Existing(k) = Nobody
                    THEN "make" ELSE "stop"
           c == [caller[k] EXCEPT !.at = Existing(k), !.pc = place]
<1>1. /\ TypeOK /\ CallsOK /\ CallOK(k) /\ RoomLeft /\ Len(proxy) \in Nat
      /\ caller \in [Callers -> Call] /\ caller[k] \in Call
  BY MadeProxies DEF IInv, TypeOK, CallsOK
<1>2. /\ caller[k].pc = "look" /\ ~CannotAdd(k) /\ ~CannotRemove(k)
      /\ caller' = [caller EXCEPT ![k] = c]
      /\ UNCHANGED <<proxies, writer, mutex, proxy, revived>>
  BY DEF Find
<1>3. /\ writer = k /\ caller[k].todo # <<>> /\ Existing(k) \in Made \cup {Nobody}
      /\ caller[k].op \in Making \cup {"delete"}
  BY <1>1, <1>2, AtMade, Asked DEF CallOK, Locked
<1>4. /\ c \in Call /\ c.at = Existing(k) /\ c.pc = place
      /\ c.op = caller[k].op /\ c.todo = caller[k].todo /\ c.left = caller[k].left
  BY <1>1, <1>3, MadeProxies DEF Call
<1>5. /\ place = "make" => Existing(k) = Nobody /\ caller[k].op \in Making
      /\ place = "stop" => Existing(k) \in Made
      /\ place \in {"make", "stop"}
  BY <1>2, <1>3 DEF CannotAdd, CannotRemove, Making
<1> HIDE DEF c, place
<1>6. /\ caller' \in [Callers -> Call] /\ caller'[k] = c
      /\ \A j \in Callers \ {k} : caller'[j] = caller[j]
  BY <1>1, <1>2, <1>4
<1>7. TypeOK' /\ Made' = Made /\ Existing(k)' = Existing(k)
  BY <1>1, <1>2, <1>4, <1>6 DEF TypeOK, Made, Existing, Request
<1>8. RoomLeft'
  BY <1>1, <1>2, <1>4, <1>6, SameRequest
<1>9. CallOK(k)'
  <2>1. caller[k].pc \in Locked
    BY <1>2 DEF Locked
  <2> QED
    BY <1>1, <1>2, <1>3, <1>4, <1>5, <1>6, <1>7, <2>1 DEF CallOK, Locked, Making
<1>10. CallsOK'
  BY <1>1, <1>2, <1>6, <1>7, <1>9, OthersKeep
<1> QED
  BY <1>2, <1>4, <1>5, <1>6, <1>7, <1>8, <1>10, ProxiesKept DEF IInv
-----------------------------------------------------------------------------
(* Proxies stop and start.                                                 *)

ProxyRecord == [listen : Addresses, given : Addresses, enabled : BOOLEAN]

(* A proxy that is stopped, by Stop or by an Update that assigns its       *)
(* addresses.                                                              *)
LEMMA StoppingKeeps ==
  ASSUME IInv, NEW p \in Made, NEW q \in ProxyRecord,
         ~q.enabled, q.listen \in Binds[q.given] \cup {q.given},
         proxy' = [proxy EXCEPT ![p] = q], revived' = revived \ {p}, proxies' = proxies,
         NEW k \in Callers,
         \A j \in Callers \ {k} : caller'[j] = caller[j],
         caller'[k].pc \in {"drop", "make"} => caller'[k].at = p
  PROVE  /\ proxy' \in Seq(ProxyRecord) /\ Len(proxy') = Len(proxy)
         /\ revived' \subseteq Pointers
         /\ Made' = Made /\ (Listed \subseteq Made)' /\ AddressesOK'
         /\ ListeningListed' /\ ListeningLetGo'
<1>1. /\ proxy \in Seq(ProxyRecord) /\ Listed \subseteq Made
      /\ AddressesOK /\ ListeningListed /\ ListeningLetGo /\ revived \subseteq Pointers
  BY DEF IInv, TypeOK, ProxyRecord
<1>2. proxy' \in Seq(ProxyRecord) /\ Len(proxy') = Len(proxy)
  BY <1>1, ExceptSeq DEF Made
<1>3. /\ proxy'[p] = q
      /\ \A x \in Made \ {p} : proxy'[x] = proxy[x]
  BY <1>1 DEF Made
<1>4. Made' = Made /\ (Listed \subseteq Made)' /\ Listed' = Listed
  BY <1>1, <1>2 DEF Made, Listed
<1>5. AddressesOK'
  BY <1>1, <1>3, <1>4 DEF AddressesOK, Enabled
<1>6. ListeningListed'
  BY <1>1, <1>3, <1>4 DEF ListeningListed, Enabled
<1>7. ListeningLetGo'
  <2> SUFFICES ASSUME NEW j \in Callers, caller'[j].pc \in {"drop", "make"},
                      caller'[j].at # Nobody, proxy'[caller'[j].at].enabled
               PROVE  caller'[j].at \in revived'
    BY DEF ListeningLetGo, Enabled
  <2>1. j # k
    BY <1>3
  <2>2. caller'[j] = caller[j] /\ caller[j].at \in Made
    BY <2>1, AtMade
  <2>3. caller[j].at # p
    BY <1>3, <2>2
  <2>4. Enabled(caller[j].at)
    BY <1>3, <2>2, <2>3 DEF Enabled
  <2> QED
    BY <1>1, <2>2, <2>3, <2>4 DEF ListeningLetGo
<1> QED
  BY <1>1, <1>2, <1>4, <1>5, <1>6, <1>7

LEMMA StopFoundKeeps ==
  ASSUME IInv, NEW p \in Made, StopFound(p), proxies' = proxies,
         NEW k \in Callers,
         \A j \in Callers \ {k} : caller'[j] = caller[j],
         caller'[k].pc \in {"drop", "make"} => caller'[k].at = p
  PROVE  /\ proxy' \in Seq(ProxyRecord) /\ Len(proxy') = Len(proxy)
         /\ revived' \subseteq Pointers
         /\ Made' = Made /\ (Listed \subseteq Made)' /\ AddressesOK'
         /\ ListeningListed' /\ ListeningLetGo'
<1> DEFINE q == [proxy[p] EXCEPT !.enabled = FALSE]
<1>1. proxy[p] \in ProxyRecord /\ AddressesOK
  BY MadeProxies DEF IInv, ProxyRecord
<1>2. /\ q \in ProxyRecord /\ ~q.enabled
      /\ q.listen = proxy[p].listen /\ q.given = proxy[p].given
  BY <1>1 DEF ProxyRecord
<1>3. proxy' = [proxy EXCEPT ![p] = q] /\ revived' = revived \ {p}
  BY DEF StopFound
<1> HIDE DEF q
<1>4. q.listen \in Binds[q.given] \cup {q.given}
  BY <1>1, <1>2 DEF AddressesOK
<1> QED
  BY <1>2, <1>3, <1>4, StoppingKeeps

(* A proxy that is started listens where its Listen said, and is marked if *)
(* the collection has let it go.                                           *)
LEMMA StartFoundKeeps ==
  ASSUME IInv, NEW p \in Made, StartFound(p), proxies' = proxies,
         NEW k \in Callers,
         \A j \in Callers \ {k} : caller'[j] = caller[j],
         caller'[k].pc \notin {"drop", "make"}
  PROVE  /\ proxy' \in Seq(ProxyRecord) /\ Len(proxy') = Len(proxy)
         /\ revived' \subseteq Pointers
         /\ Made' = Made /\ (Listed \subseteq Made)' /\ AddressesOK'
         /\ ListeningListed' /\ ListeningLetGo'
<1>1. /\ proxy \in Seq(ProxyRecord) /\ Listed \subseteq Made /\ CallsOK
      /\ AddressesOK /\ ListeningListed /\ ListeningLetGo /\ revived \subseteq Pointers
      /\ proxy[p] \in ProxyRecord /\ Made \subseteq Pointers
  BY MadeProxies DEF IInv, TypeOK, ProxyRecord
<1>2. PICK a \in Binds[proxy[p].listen] :
        proxy' = [proxy EXCEPT ![p].listen = a, ![p].enabled = TRUE]
  BY DEF StartFound, FreeFor
<1> DEFINE q == [proxy[p] EXCEPT !.listen = a, !.enabled = TRUE]
<1>3. a \in Binds[proxy[p].given] /\ a \in Addresses
  <2>1. proxy[p].listen \in Addresses /\ proxy[p].given \in Addresses
    BY <1>1 DEF ProxyRecord
  <2>2. proxy[p].listen \in Binds[proxy[p].given] \cup {proxy[p].given}
    BY <1>1 DEF AddressesOK
  <2> QED
    BY <2>1, <2>2, RegistryAssumption
<1>4. /\ q \in ProxyRecord /\ q.listen = a /\ q.given = proxy[p].given
      /\ proxy' = [proxy EXCEPT ![p] = q]
  BY <1>1, <1>2, <1>3 DEF ProxyRecord
<1> HIDE DEF q
<1>5. proxy' \in Seq(ProxyRecord) /\ Len(proxy') = Len(proxy)
  BY <1>1, <1>4, ExceptSeq DEF Made
<1>6. /\ proxy'[p] = q
      /\ \A x \in Made \ {p} : proxy'[x] = proxy[x]
  BY <1>1, <1>4 DEF Made
<1>7. Made' = Made /\ (Listed \subseteq Made)' /\ Listed' = Listed
  BY <1>1, <1>5 DEF Made, Listed
<1>8. AddressesOK'
  BY <1>1, <1>3, <1>4, <1>6, <1>7 DEF AddressesOK, Enabled
<1>9. /\ revived \subseteq revived' /\ revived' \subseteq Pointers
      /\ LetGo(p) => p \in revived'
  BY <1>1 DEF StartFound
<1>10. ListeningListed'
  <2>1. p \in Listed \cup revived'
    BY <1>9 DEF LetGo
  <2> QED
    BY <1>1, <1>6, <1>7, <1>9, <2>1 DEF ListeningListed, Enabled
<1>11. ListeningLetGo'
  <2> SUFFICES ASSUME NEW j \in Callers, caller'[j].pc \in {"drop", "make"},
                      caller'[j].at # Nobody, proxy'[caller'[j].at].enabled
               PROVE  caller'[j].at \in revived'
    BY DEF ListeningLetGo, Enabled
  <2>1. caller'[j] = caller[j] /\ caller[j].at \in Made
    BY AtMade
  <2>2. CASE caller[j].at = p
    <3>1. writer = j
      BY <1>1, <2>1 DEF CallsOK, CallOK, Locked
    <3> QED
      BY <1>9, <2>1, <2>2, <3>1 DEF LetGo
  <2>3. CASE caller[j].at # p
    BY <1>1, <1>6, <1>9, <2>1, <2>3 DEF ListeningLetGo, Enabled
  <2> QED
    BY <2>2, <2>3
<1> QED
  BY <1>5, <1>7, <1>8, <1>9, <1>10, <1>11

LEMMA StopKeeps ==
  ASSUME IInv, NEW k \in Callers, Stop(k)
  PROVE  IInv'
<1> DEFINE p == caller[k].at
           place == IF caller[k].op = "delete" THEN "drop" ELSE "make"
<1>1. /\ TypeOK /\ CallsOK /\ CallOK(k) /\ RoomLeft /\ Len(proxy) \in Nat
      /\ caller[k] \in Call
  BY MadeProxies DEF IInv, TypeOK, CallsOK
<1>2. /\ caller[k].pc = "stop" /\ StopFound(p) /\ Goto(k, place)
      /\ UNCHANGED <<proxies, writer, mutex>>
  BY DEF Stop
<1>3. /\ p \in Made /\ p = Existing(k) /\ writer = k /\ caller[k].todo # <<>>
      /\ caller[k].op \in Making \cup {"delete"}
  BY <1>1, <1>2 DEF CallOK, Locked
<1>4. /\ place \in {"drop", "make"} /\ place \in Places
      /\ place = "make" => caller[k].op \in Making
  BY <1>3 DEF Places
<1> HIDE DEF place
<1>5. /\ caller' \in [Callers -> Call]
      /\ \A j \in Callers \ {k} : caller'[j] = caller[j]
      /\ caller'[k] = [caller[k] EXCEPT !.pc = place]
  BY <1>1, <1>2, <1>4, Went
<1>6. /\ caller'[k].pc = place /\ caller'[k].at = p /\ caller'[k].op = caller[k].op
      /\ caller'[k].todo = caller[k].todo /\ caller'[k].left = caller[k].left
  BY <1>1, <1>5 DEF Call
<1>7. /\ proxy' \in Seq(ProxyRecord) /\ Len(proxy') = Len(proxy)
      /\ revived' \subseteq Pointers
      /\ Made' = Made /\ (Listed \subseteq Made)' /\ AddressesOK'
      /\ ListeningListed' /\ ListeningLetGo'
  BY <1>2, <1>3, <1>5, <1>6, StopFoundKeeps
<1>8. TypeOK' /\ Existing(k)' = Existing(k)
  BY <1>1, <1>2, <1>5, <1>6, <1>7 DEF TypeOK, ProxyRecord, Existing, Request
<1>9. RoomLeft'
  BY <1>1, <1>5, <1>6, <1>7, SameRequest
<1>10. CallOK(k)'
  <2>1. caller[k].pc \in Locked /\ caller'[k].pc \in Locked /\ writer' = k
    BY <1>2, <1>3, <1>4, <1>6 DEF Locked
  <2> QED
    BY <1>1, <1>2, <1>3, <1>4, <1>6, <1>7, <1>8, <2>1 DEF CallOK, Locked, Making
<1>11. CallsOK'
  BY <1>1, <1>2, <1>5, <1>7, <1>10, OthersKeep
<1> QED
  BY <1>7, <1>8, <1>9, <1>11 DEF IInv

(* What it lets go is stopped, or marked.                                  *)
LEMMA DropKeeps ==
  ASSUME IInv, NEW k \in Callers, Drop(k)
  PROVE  IInv'
<1> DEFINE n == Request(k).name
<1>1. /\ TypeOK /\ CallsOK /\ CallOK(k) /\ RoomLeft /\ Len(proxy) \in Nat
      /\ Listed \subseteq Made /\ AddressesOK /\ ListeningListed /\ ListeningLetGo
  BY MadeProxies DEF IInv, CallsOK
<1>2. /\ caller[k].pc = "drop" /\ proxies' = [proxies EXCEPT ![n] = Nobody]
      /\ Reply(k, Nobody, "none") /\ writer' = Nobody
      /\ UNCHANGED <<mutex, proxy, revived>>
  BY DEF Drop, Unlock
<1>3. /\ caller[k].at = proxies[n] /\ writer = k /\ n \in Names
  BY <1>1, <1>2, AtMade, Asked DEF CallOK, Locked, Existing
<1>4. /\ caller' \in [Callers -> Call]
      /\ \A j \in Callers \ {k} : caller'[j] = caller[j]
      /\ caller'[k].pc = "answer" /\ caller'[k].op = "none"
      /\ caller'[k].todo = <<>> /\ caller'[k].left = {}
  BY <1>1, <1>2, Replied DEF Errors
<1>5. TypeOK' /\ Made' = Made
  BY <1>1, <1>2, <1>4 DEF TypeOK, Made
<1>6. RoomLeft'
  BY <1>1, <1>2, <1>4, NothingMoreToMake DEF Making
<1>7. CallOK(k)'
  BY <1>2, <1>4, RegistryAssumption DEF CallOK, Locked, Making
<1>8. CallsOK'
  BY <1>1, <1>2, <1>3, <1>4, <1>5, <1>7, OthersKeep, RegistryAssumption
<1>9. Listed \subseteq Listed' \cup {proxies[n]} /\ Listed' \subseteq Listed
  BY <1>1, <1>2 DEF Listed, TypeOK
<1>10. (Listed \subseteq Made)' /\ AddressesOK'
  BY <1>1, <1>2, <1>5, <1>9 DEF AddressesOK, Enabled
<1>11. ListeningListed'
  <2> SUFFICES ASSUME NEW p \in Made, Enabled(p) PROVE p \in Listed' \cup revived
    BY <1>2, <1>5 DEF ListeningListed, Enabled
  <2>1. CASE p = proxies[n]
    BY <1>1, <1>2, <1>3, <2>1, MadeProxies DEF ListeningLetGo
  <2>2. CASE p # proxies[n]
    BY <1>1, <1>9, <2>2 DEF ListeningListed
  <2> QED
    BY <2>1, <2>2
<1>12. ListeningLetGo'
  BY <1>1, <1>2, <1>4 DEF ListeningLetGo, Enabled
<1> QED
  BY <1>5, <1>6, <1>8, <1>10, <1>11, <1>12 DEF IInv

(* A new proxy takes the place of the one let go.                          *)
LEMMA MakeKeeps ==
  ASSUME IInv, NEW k \in Callers, Make(k)
  PROVE  IInv'
<1> DEFINE e == Request(k)
<1>1. /\ TypeOK /\ CallsOK /\ CallOK(k) /\ RoomLeft /\ Len(proxy) \in Nat
      /\ Listed \subseteq Made /\ AddressesOK /\ ListeningListed /\ ListeningLetGo
      /\ proxy \in Seq(ProxyRecord)
  BY MadeProxies DEF IInv, CallsOK, TypeOK, ProxyRecord
<1>2. /\ caller[k].pc = "make" /\ proxies' = [proxies EXCEPT ![e.name] = New]
      /\ Proceed(k, New) /\ UNCHANGED <<mutex, revived>>
  BY DEF Make
<1>3. /\ caller[k].at = proxies[e.name] /\ writer = k /\ caller[k].op \in Making
      /\ caller[k].todo # <<>> /\ Len(caller[k].todo) <= MaxProxies
  BY <1>1, <1>2, AtMade DEF CallOK, Locked, Existing
<1>4. e \in Entry /\ e.name \in Names /\ Len(caller[k].todo) \in Pointers
  <2>1. Len(caller[k].todo) \in Nat \ {0}
    BY <1>3, Asked
  <2>2. e \in Entry
    BY <1>3, Asked
  <2> QED
    BY <1>3, <2>1, <2>2, RegistryAssumption DEF Entry, Pointers
<1>5. PICK q \in ProxyRecord :
        /\ proxy' = Append(proxy, q)
        /\ q.listen \in Binds[q.given] \cup {q.given}
        /\ q.enabled => q.listen \in Binds[q.given]
  <2>1. PICK q \in IF e.start THEN Started(e) ELSE {Stopped(e)} :
          proxy' = Append(proxy, q)
    BY DEF Make
  <2>2. CASE e.start
    <3>1. PICK a \in Binds[e.listen] :
            q = [listen |-> a, given |-> e.listen, enabled |-> TRUE]
      BY <2>1, <2>2 DEF Started, FreeFor
    <3>2. e.listen \in Addresses /\ a \in Addresses
      BY <1>4, RegistryAssumption DEF Entry
    <3>3. q \in ProxyRecord /\ q.listen = a /\ q.given = e.listen
      BY <3>1, <3>2 DEF ProxyRecord
    <3> QED
      BY <2>1, <3>3
  <2>3. CASE ~e.start
    <3>1. q = Stopped(e) /\ e.listen \in Addresses
      BY <1>4, <2>1, <2>3 DEF Entry
    <3>2. q \in ProxyRecord /\ q.listen = e.listen /\ q.given = e.listen /\ ~q.enabled
      BY <3>1 DEF ProxyRecord, Stopped
    <3> QED
      BY <2>1, <3>2
  <2> QED
    BY <2>2, <2>3
<1>6. /\ proxy' \in Seq(ProxyRecord) /\ Len(proxy') = Len(proxy) + 1
      /\ proxy'[New] = q
      /\ \A x \in Made : proxy'[x] = proxy[x]
  BY <1>1, <1>5, AppendProperties DEF Made, New
<1>7. Made' = Made \cup {New} /\ New \notin Made
  BY <1>1, <1>6 DEF Made, New
<1>8. New \in Pointers
  <2>1. <<k, Len(caller[k].todo)>> \in Pending
    BY <1>3, <1>4, RegistryAssumption DEF Pending, Making, Pointers
  <2>2. Cardinality(Pending) # 0
    BY <2>1, PendingFinite, FS_EmptySet
  <2> QED
    BY <1>1, <2>2, PendingFinite, RegistryAssumption DEF RoomLeft, New, Pointers
<1>9. /\ caller' \in [Callers -> Call] /\ writer' = Nobody
      /\ \A j \in Callers \ {k} : caller'[j] = caller[j]
      /\ caller'[k].pc \in {"lock", "answer"}
      /\ caller'[k].op \in Making =>
           /\ Len(caller'[k].todo) \in Nat
           /\ Len(caller'[k].todo) = Len(caller[k].todo) - 1
      /\ CallOK(k)'
  BY <1>2, <1>3, <1>7, <1>8, Proceeded
<1>10. RoomLeft'
  BY <1>1, <1>3, <1>4, <1>6, <1>9, OneLessToMake
<1>11. TypeOK'
  <2>1. Len(proxy') <= MaxProxies
    BY <1>6, <1>8, RegistryAssumption DEF New, Pointers
  <2> QED
    BY <1>1, <1>2, <1>4, <1>6, <1>8, <1>9, <2>1 DEF TypeOK, ProxyRecord
<1>12. CallsOK'
  BY <1>1, <1>3, <1>7, <1>9, OthersKeep, RegistryAssumption
<1>13. /\ Listed \subseteq Listed' \cup {proxies[e.name]} /\ Listed' \subseteq Listed \cup {New}
       /\ New \in Listed'
  BY <1>1, <1>2, <1>4, <1>8, RegistryAssumption DEF Listed, TypeOK
<1>14. (Listed \subseteq Made)' /\ AddressesOK'
  <2>1. ASSUME NEW p \in Made'
        PROVE  /\ proxy'[p].listen \in Binds[proxy'[p].given] \cup {proxy'[p].given}
               /\ proxy'[p].enabled => proxy'[p].listen \in Binds[proxy'[p].given]
    <3>1. CASE p = New
      BY <1>5, <1>6, <3>1
    <3>2. CASE p \in Made
      BY <1>1, <1>6, <3>2 DEF AddressesOK, Enabled
    <3> QED
      BY <1>7, <3>1, <3>2
  <2>2. AddressesOK'
    BY <2>1 DEF AddressesOK, Enabled
  <2> QED
    BY <1>1, <1>7, <1>13, <2>2
<1>15. ListeningListed'
  <2> SUFFICES ASSUME NEW p \in Made, Enabled(p) PROVE p \in Listed' \cup revived
    BY <1>2, <1>6, <1>7, <1>13 DEF ListeningListed, Enabled
  <2>1. CASE p = proxies[e.name]
    BY <1>1, <1>2, <1>3, <2>1, MadeProxies DEF ListeningLetGo
  <2>2. CASE p # proxies[e.name]
    BY <1>1, <1>13, <2>2 DEF ListeningListed
  <2> QED
    BY <2>1, <2>2
<1>16. ListeningLetGo'
  <2> SUFFICES ASSUME NEW j \in Callers, caller'[j].pc \in {"drop", "make"},
                      caller'[j].at # Nobody, proxy'[caller'[j].at].enabled
               PROVE  caller'[j].at \in revived
    BY <1>2 DEF ListeningLetGo, Enabled
  <2>1. caller'[j] = caller[j] /\ caller[j].at \in Made
    BY <1>9, AtMade
  <2> QED
    BY <1>1, <1>6, <2>1 DEF ListeningLetGo, Enabled
<1> QED
  BY <1>10, <1>11, <1>12, <1>14, <1>15, <1>16 DEF IInv
-----------------------------------------------------------------------------
(* Without the write lock.                                                 *)

LEMMA GetKeeps ==
  ASSUME IInv, NEW k \in Callers, Get(k)
  PROVE  IInv'
<1>1. /\ TypeOK /\ CallsOK /\ CallOK(k) /\ RoomLeft /\ Len(proxy) \in Nat
      /\ caller \in [Callers -> Call] /\ caller[k] \in Call
  BY MadeProxies DEF IInv, TypeOK, CallsOK
<1>2. /\ caller[k].pc = "get" /\ UNCHANGED <<proxies, writer, mutex, proxy, revived>>
  BY DEF Get
<1>3. /\ caller[k].todo # <<>> /\ Existing(k) \in Made \cup {Nobody} /\ writer # k
      /\ Made \subseteq Pointers
  BY <1>1, <1>2, AtMade, Asked, MadeProxies DEF CallOK, Locked
<1>4. ASSUME NEW p \in Pointers \cup {Nobody}, NEW e \in Errors, Reply(k, p, e)
      PROVE  IInv'
  BY <1>1, <1>2, <1>3, <1>4, GivesUp DEF TypeOK
<1>5. ASSUME Existing(k) # Nobody, caller[k].op = "update",
             caller' = [caller EXCEPT ![k].at = Existing(k), ![k].pc = "change"]
      PROVE  IInv'
  <2> DEFINE c == [caller[k] EXCEPT !.at = Existing(k), !.pc = "change"]
  <2>1. /\ c \in Call /\ c.at \in Made /\ c.pc = "change" /\ c.op = caller[k].op
        /\ c.todo = caller[k].todo /\ c.left = caller[k].left
    BY <1>1, <1>3, <1>5 DEF Call
  <2>2. caller' = [caller EXCEPT ![k] = c]
    BY <1>5
  <2> HIDE DEF c
  <2>3. /\ caller' \in [Callers -> Call] /\ caller'[k] = c
        /\ \A j \in Callers \ {k} : caller'[j] = caller[j]
    BY <1>1, <2>1, <2>2
  <2>4. TypeOK' /\ Made' = Made
    BY <1>1, <1>2, <2>3 DEF TypeOK, Made
  <2>5. RoomLeft'
    BY <1>1, <1>2, <2>1, <2>3, SameRequest
  <2>6. CallOK(k)'
    BY <1>1, <1>2, <1>3, <1>5, <2>1, <2>3, <2>4 DEF CallOK, Locked, Making
  <2>7. CallsOK'
    BY <1>1, <1>2, <2>3, <2>4, <2>6, OthersKeep
  <2> QED
    BY <1>2, <2>1, <2>3, <2>4, <2>5, <2>7, ProxiesKept DEF IInv
<1> QED
  BY <1>3, <1>4, <1>5 DEF Get, Errors

LEMMA ChangeKeeps ==
  ASSUME IInv, NEW k \in Callers, Change(k)
  PROVE  IInv'
<1> DEFINE p == caller[k].at
           e == Request(k)
<1>1. /\ TypeOK /\ CallsOK /\ CallOK(k) /\ RoomLeft /\ Len(proxy) \in Nat
      /\ caller[k] \in Call /\ proxy \in Seq(ProxyRecord)
  BY MadeProxies DEF IInv, TypeOK, CallsOK, ProxyRecord
<1>2. caller[k].pc = "change" /\ UNCHANGED <<proxies, writer>>
  BY DEF Change
<1>3. /\ p \in Made /\ p \in Pointers /\ caller[k].op = "update" /\ caller[k].todo # <<>>
      /\ writer # k
  BY <1>1, <1>2, AtMade, MadeProxies DEF CallOK, Locked
<1>4. e \in Entry /\ e.listen \in Addresses
  BY <1>3, Asked DEF Entry
<1>5. CASE Reply(k, Nobody, "address") /\ UNCHANGED <<mutex, proxy, revived>>
  BY <1>1, <1>2, <1>3, <1>5, GivesUp DEF TypeOK, Errors
<1>6. CASE /\ mutex' = [mutex EXCEPT ![p] = k] /\ Goto(k, "toggle")
           /\ \/ proxy' = [proxy EXCEPT ![p] = Stopped(e)] /\ revived' = revived \ {p}
              \/ UNCHANGED <<proxy, revived>>
  <2>1. /\ caller' \in [Callers -> Call]
        /\ \A j \in Callers \ {k} : caller'[j] = caller[j]
        /\ caller'[k] = [caller[k] EXCEPT !.pc = "toggle"]
    BY <1>1, <1>6, Went DEF Places
  <2>2. /\ caller'[k].pc = "toggle" /\ caller'[k].at = p /\ caller'[k].op = caller[k].op
        /\ caller'[k].todo = caller[k].todo /\ caller'[k].left = caller[k].left
    BY <1>1, <2>1 DEF Call
  <2>3. /\ proxy' \in Seq(ProxyRecord) /\ Len(proxy') = Len(proxy)
        /\ revived' \subseteq Pointers
        /\ Made' = Made /\ (Listed \subseteq Made)' /\ AddressesOK'
        /\ ListeningListed' /\ ListeningLetGo'
    <3>1. CASE proxy' = [proxy EXCEPT ![p] = Stopped(e)] /\ revived' = revived \ {p}
      <4>1. /\ Stopped(e) \in ProxyRecord /\ ~Stopped(e).enabled
            /\ Stopped(e).listen \in Binds[Stopped(e).given] \cup {Stopped(e).given}
        BY <1>4 DEF Stopped, ProxyRecord
      <4> QED
        BY <1>2, <1>3, <2>1, <2>2, <3>1, <4>1, StoppingKeeps
    <3>2. CASE UNCHANGED <<proxy, revived>>
      BY <1>1, <1>2, <2>1, <2>2, <3>2, ProxiesKept DEF TypeOK
    <3> QED
      BY <1>6, <3>1, <3>2
  <2>4. TypeOK'
    BY <1>1, <1>2, <1>3, <1>6, <2>1, <2>3 DEF TypeOK, ProxyRecord
  <2>5. RoomLeft'
    BY <1>1, <2>1, <2>2, <2>3, SameRequest
  <2>6. CallOK(k)'
    BY <1>1, <1>2, <1>3, <2>2, <2>3 DEF CallOK, Locked, Making
  <2>7. CallsOK'
    BY <1>1, <1>2, <2>1, <2>3, <2>6, OthersKeep
  <2> QED
    BY <2>3, <2>4, <2>5, <2>7 DEF IInv
<1> QED
  BY <1>5, <1>6 DEF Change

LEMMA ToggleKeeps ==
  ASSUME IInv, NEW k \in Callers, Toggle(k)
  PROVE  IInv'
<1> DEFINE p == caller[k].at
<1>1. /\ TypeOK /\ CallsOK /\ CallOK(k) /\ RoomLeft /\ Len(proxy) \in Nat
      /\ proxy \in Seq(ProxyRecord) /\ mutex \in [Pointers -> Callers \cup {Nobody}]
  BY MadeProxies DEF IInv, TypeOK, CallsOK, ProxyRecord
<1>2. /\ caller[k].pc = "toggle" /\ UNCHANGED <<proxies, writer>>
      /\ mutex' = [mutex EXCEPT ![p] = Nobody]
  BY DEF Toggle
<1>3. p \in Made /\ p \in Pointers /\ writer # k
  BY <1>1, <1>2, AtMade, MadeProxies DEF CallOK, Locked
<1>4. mutex' \in [Pointers -> Callers \cup {Nobody}]
  BY <1>1, <1>2
<1>5. PICK r \in Pointers \cup {Nobody}, e \in Errors : Reply(k, r, e)
  BY <1>3 DEF Toggle, Errors
<1>6. /\ caller' \in [Callers -> Call]
      /\ \A j \in Callers \ {k} : caller'[j] = caller[j]
      /\ caller'[k].pc = "answer" /\ caller'[k].op = "none"
      /\ caller'[k].todo = <<>> /\ caller'[k].left = {}
  BY <1>1, <1>5, Replied
<1>7. CASE UNCHANGED <<proxy, revived>>
  BY <1>2, <1>3, <1>4, <1>5, <1>7, GivesUp
<1>8. CASE StartFound(p) \/ StopFound(p)
  <2>1. /\ proxy' \in Seq(ProxyRecord) /\ Len(proxy') = Len(proxy)
        /\ revived' \subseteq Pointers
        /\ Made' = Made /\ (Listed \subseteq Made)' /\ AddressesOK'
        /\ ListeningListed' /\ ListeningLetGo'
    <3>1. CASE StartFound(p)
      BY <1>2, <1>3, <1>6, <3>1, StartFoundKeeps
    <3>2. CASE StopFound(p)
      BY <1>2, <1>3, <1>6, <3>2, StopFoundKeeps
    <3> QED
      BY <1>8, <3>1, <3>2
  <2>2. TypeOK'
    BY <1>1, <1>2, <1>4, <1>6, <2>1 DEF TypeOK, ProxyRecord
  <2>3. RoomLeft'
    BY <1>1, <1>6, <2>1, NothingMoreToMake DEF Making
  <2>4. CallOK(k)'
    BY <1>2, <1>3, <1>6 DEF CallOK, Locked, Making
  <2>5. CallsOK'
    BY <1>1, <1>2, <1>6, <2>1, <2>4, OthersKeep
  <2> QED
    BY <2>1, <2>2, <2>3, <2>5 DEF IInv
<1> QED
  BY <1>7, <1>8 DEF Toggle

LEMMA ListProxiesKeeps ==
  ASSUME IInv, NEW k \in Callers, ListProxies(k)
  PROVE  IInv'
<1>1. /\ TypeOK /\ CallsOK /\ CallOK(k) /\ RoomLeft /\ Len(proxy) \in Nat
      /\ caller \in [Callers -> Call] /\ caller[k] \in Call /\ Listed \subseteq Made
      /\ Made \subseteq Pointers
  BY MadeProxies DEF IInv, TypeOK, CallsOK
<1>2. /\ caller[k].pc = "list" /\ UNCHANGED <<proxies, writer, mutex, proxy, revived>>
  BY DEF ListProxies
<1>3. writer # k
  BY <1>1, <1>2 DEF CallOK, Locked
<1>4. CASE Reply(k, Nobody, "none")
  BY <1>1, <1>2, <1>3, <1>4, GivesUp DEF TypeOK, Errors
<1>5. CASE caller' = [caller EXCEPT ![k].pc = "start", ![k].left = Listed]
  <2> DEFINE c == [caller[k] EXCEPT !.pc = "start", !.left = Listed]
  <2>1. /\ c \in Call /\ c.pc = "start" /\ c.op = caller[k].op
        /\ c.todo = caller[k].todo /\ c.left = Listed
    BY <1>1 DEF Call
  <2>2. caller' = [caller EXCEPT ![k] = c]
    BY <1>5
  <2> HIDE DEF c
  <2>3. /\ caller' \in [Callers -> Call] /\ caller'[k] = c
        /\ \A j \in Callers \ {k} : caller'[j] = caller[j]
    BY <1>1, <2>1, <2>2
  <2>4. TypeOK' /\ Made' = Made
    BY <1>1, <1>2, <2>3 DEF TypeOK, Made
  <2>5. RoomLeft'
    BY <1>1, <1>2, <2>1, <2>3, SameRequest
  <2>6. CallOK(k)'
    BY <1>1, <1>2, <1>3, <2>1, <2>3, <2>4 DEF CallOK, Locked, Making
  <2>7. CallsOK'
    BY <1>1, <1>2, <2>3, <2>4, <2>6, OthersKeep
  <2> QED
    BY <1>2, <2>1, <2>3, <2>4, <2>5, <2>7, ProxiesKept DEF IInv
<1> QED
  BY <1>4, <1>5 DEF ListProxies

LEMMA ResetStartsKeeps ==
  ASSUME IInv, NEW k \in Callers, ResetStarts(k)
  PROVE  IInv'
<1>1. /\ TypeOK /\ CallsOK /\ CallOK(k) /\ RoomLeft /\ Len(proxy) \in Nat
      /\ caller \in [Callers -> Call] /\ caller[k] \in Call
      /\ caller[k].left \subseteq Made /\ caller[k].left \subseteq Pointers
      /\ mutex \in [Pointers -> Callers \cup {Nobody}]
      /\ proxy \in Seq(ProxyRecord) /\ revived \subseteq Pointers
  BY MadeProxies DEF IInv, TypeOK, CallsOK, CallOK, Call, ProxyRecord
<1>2. caller[k].pc = "start" /\ UNCHANGED <<proxies, writer, mutex>>
  BY DEF ResetStarts
<1>3. writer # k
  BY <1>1, <1>2 DEF CallOK, Locked
<1>4. PICK p \in caller[k].left :
        \/ NextProxy(k, p) /\ UNCHANGED <<proxy, revived>>
        \/ NextProxy(k, p) /\ StartFound(p)
        \/ Reply(k, Nobody, "start") /\ UNCHANGED <<proxy, revived>>
  BY DEF ResetStarts
<1>5. /\ caller' \in [Callers -> Call]
      /\ \A j \in Callers \ {k} : caller'[j] = caller[j]
      /\ caller'[k].pc \in {"start", "answer"}
      /\ \/ caller'[k].op \notin Making \cup {"update"}
         \/ caller'[k].op = caller[k].op /\ caller'[k].todo = caller[k].todo
      /\ caller'[k].left \subseteq Made
  <2>1. CASE \E e \in Errors : Reply(k, Nobody, e)
    BY <1>1, <2>1, Replied DEF Making
  <2>2. CASE caller' = [caller EXCEPT ![k].left = @ \ {p}]
    <3> DEFINE c == [caller[k] EXCEPT !.left = @ \ {p}]
    <3>1. /\ c \in Call /\ c.pc = caller[k].pc /\ c.op = caller[k].op
          /\ c.todo = caller[k].todo /\ c.left \subseteq Made
      BY <1>1 DEF Call
    <3>2. caller' = [caller EXCEPT ![k] = c]
      BY <2>2
    <3> HIDE DEF c
    <3>3. /\ caller' \in [Callers -> Call] /\ caller'[k] = c
          /\ \A j \in Callers \ {k} : caller'[j] = caller[j]
      BY <1>1, <3>1, <3>2
    <3> QED
      BY <1>2, <3>1, <3>3
  <2> QED
    BY <1>4, <2>1, <2>2 DEF NextProxy, Errors
<1>6. /\ proxy' \in Seq(ProxyRecord) /\ Len(proxy') = Len(proxy)
      /\ revived' \subseteq Pointers
      /\ Made' = Made /\ (Listed \subseteq Made)' /\ AddressesOK'
      /\ ListeningListed' /\ ListeningLetGo'
  <2>1. CASE UNCHANGED <<proxy, revived>>
    BY <1>1, <1>2, <1>5, <2>1, ProxiesKept
  <2>2. CASE StartFound(p)
    BY <1>1, <1>2, <1>5, <2>2, StartFoundKeeps
  <2> QED
    BY <1>4, <2>1, <2>2
<1>7. TypeOK'
  BY <1>1, <1>2, <1>5, <1>6 DEF TypeOK, ProxyRecord
<1>8. RoomLeft'
  <2>1. CASE caller'[k].op = caller[k].op /\ caller'[k].todo = caller[k].todo
    BY <1>1, <1>5, <1>6, <2>1, SameRequest
  <2>2. CASE caller'[k].op \notin Making
    BY <1>1, <1>5, <1>6, <2>2, NothingMoreToMake
  <2> QED
    BY <1>5, <2>1, <2>2
<1>9. CallOK(k)'
  BY <1>1, <1>2, <1>3, <1>5, <1>6 DEF CallOK, Locked, Making
<1>10. CallsOK'
  BY <1>1, <1>2, <1>5, <1>6, <1>9, OthersKeep
<1> QED
  BY <1>6, <1>7, <1>8, <1>10 DEF IInv

LEMMA AnswerKeeps ==
  ASSUME IInv, NEW k \in Callers, Answer(k)
  PROVE  IInv'
<1>1. /\ TypeOK /\ CallsOK /\ CallOK(k) /\ RoomLeft /\ Len(proxy) \in Nat
      /\ caller \in [Callers -> Call]
  BY MadeProxies DEF IInv, TypeOK, CallsOK
<1>2. /\ caller[k].pc = "answer" /\ caller' = [caller EXCEPT ![k] = Idle]
      /\ UNCHANGED <<proxies, writer, mutex, proxy, revived>>
  BY DEF Answer, Return
<1>3. /\ caller' \in [Callers -> Call] /\ caller'[k] = Idle
      /\ \A j \in Callers \ {k} : caller'[j] = caller[j]
  BY <1>1, <1>2, IdleType
<1>4. TypeOK' /\ Made' = Made
  BY <1>1, <1>2, <1>3 DEF TypeOK, Made
<1>5. RoomLeft'
  BY <1>1, <1>2, <1>3, NothingMoreToMake DEF Idle, Making
<1>6. CallOK(k)'
  BY <1>1, <1>2, <1>3 DEF CallOK, Locked, Making, Idle
<1>7. CallsOK'
  BY <1>1, <1>2, <1>3, <1>4, <1>6, OthersKeep
<1> QED
  BY <1>2, <1>3, <1>4, <1>5, <1>7, ProxiesKept DEF IInv, Idle
-----------------------------------------------------------------------------
(* The theorems.                                                           *)

LEMMA InitIInv == Init => IInv
<1> SUFFICES ASSUME Init PROVE IInv
  OBVIOUS
<1>1. /\ proxies = [n \in Names |-> Nobody] /\ writer = Nobody
      /\ mutex = [p \in Pointers |-> Nobody] /\ proxy = <<>>
      /\ caller = [k \in Callers |-> Idle] /\ revived = {}
  BY DEF Init
<1>2. Len(proxy) = 0 /\ Made = {} /\ Listed = {}
  BY <1>1 DEF Made, Listed
<1>3. TypeOK
  <2>1. proxy \in Seq(ProxyRecord)
    BY <1>1, EmptySeq
  <2> QED
    BY <1>1, <1>2, <2>1, IdleType, RegistryAssumption DEF TypeOK, ProxyRecord
<1>4. CallsOK
  BY <1>1, <1>2, RegistryAssumption DEF CallsOK, CallOK, Idle, Locked, Making
<1>5. RoomLeft
  <2>1. Pending = {}
    BY <1>1 DEF Pending, Idle
  <2>2. Cardinality(Pending) = 0
    BY <2>1, FS_EmptySet
  <2> QED
    BY <1>2, <2>2, RegistryAssumption DEF RoomLeft
<1>6. AddressesOK /\ ListeningListed
  BY <1>2 DEF AddressesOK, ListeningListed
<1>7. ListeningLetGo
  BY <1>1 DEF ListeningLetGo, Idle
<1> QED
  BY <1>2, <1>3, <1>4, <1>5, <1>6, <1>7 DEF IInv

LEMMA NextIInv == IInv /\ [Next]_vars => IInv'
<1> SUFFICES ASSUME IInv, [Next]_vars PROVE IInv'
  OBVIOUS
<1>1. CASE UNCHANGED vars
  BY <1>1 DEF vars, IInv, TypeOK, CallsOK, CallOK, Existing, Request, Listed, Made,
              RoomLeft, Pending, AddressesOK, Enabled, ListeningListed, ListeningLetGo
<1>2. ASSUME NEW k \in Callers, Ask(k) \/ Handler(k) PROVE IInv'
  BY <1>2, BeginKeeps, LockKeeps, RejectedKeeps, KeepKeeps, FindKeeps, StopKeeps,
     DropKeeps, MakeKeeps, MakeFailsKeeps, GetKeeps, ChangeKeeps, ToggleKeeps,
     ListProxiesKeeps, ResetStartsKeeps, AnswerKeeps DEF Handler, Works, Waits
<1> QED
  BY <1>1, <1>2 DEF Next

LEMMA SpecIInv == Spec => []IInv
BY InitIInv, NextIInv, PTL DEF Spec

(* The collection's map, its lock, the proxies made and the handlers that  *)
(* work on them have their types, and no more proxies are made than there  *)
(* is room for (proxy_collection.go, api.go).                              *)
THEOREM RegistryTypeCorrect == Spec => []TypeOK
<1>1. IInv => TypeOK
  BY DEF IInv
<1> QED
  BY <1>1, SpecIInv, PTL

(* Add, AddOrReplace and Remove leave no proxy listening that is not       *)
(* listed, but for those an update or a reset starts from a pointer it     *)
(* took before (proxy_collection.go, ProxyUpdate and ResetState of api.go).*)
THEOREM NoneLeftListeningCorrect == Spec => []NoneLeftListening
<1>1. IInv => NoneLeftListening
  BY DEF IInv, NoneLeftListening, ListeningListed
<1> QED
  BY <1>1, SpecIInv, PTL

(* Only the handler that has the write lock changes the map.               *)
LEMMA OnlyWriterLists ==
  ASSUME IInv, NEW j \in Callers, Ask(j) \/ Handler(j), proxies' # proxies
  PROVE  writer = j /\ (Drop(j) \/ Make(j))
<1>1. Drop(j) \/ Make(j)
  <2>1. ~Ask(j)
    BY DEF Ask, ProxyCreate, Populate, ProxyDelete, ProxyUpdate, ResetState, Begin
  <2>2. ~Waits(j) /\ ~Answer(j)
    BY DEF Waits, Lock, Stop, Get, Change, ListProxies, ResetStarts, Answer
  <2>3. ~Rejected(j) /\ ~Keep(j) /\ ~Find(j) /\ ~MakeFails(j) /\ ~Toggle(j)
    BY DEF Rejected, Keep, Find, MakeFails, Toggle
  <2> QED
    BY <2>1, <2>2, <2>3 DEF Handler, Works
<1>2. caller[j].pc \in Locked
  BY <1>1 DEF Drop, Make, Locked
<1> QED
  BY <1>1, <1>2 DEF IInv, CallsOK, CallOK

(* Add and AddOrReplace list a proxy that is to be started once it listens.*)
THEOREM StartedBeforeListedCorrect == Spec => StartedBeforeListed
<1> DEFINE A == \A k \in Callers, n \in Names :
                  caller[k].pc = "make" /\ Request(k).start /\ proxies'[n] # proxies[n]
                    => proxy'[proxies'[n]].enabled
<1>1. IInv /\ [Next]_vars => [A]_vars
  <2> SUFFICES ASSUME IInv, Next, NEW k \in Callers, NEW n \in Names,
                      caller[k].pc = "make", Request(k).start, proxies'[n] # proxies[n]
               PROVE  proxy'[proxies'[n]].enabled
    OBVIOUS
  <2>1. PICK j \in Callers : Ask(j) \/ Handler(j)
    BY DEF Next
  <2>2. writer = j /\ (Drop(j) \/ Make(j))
    BY <2>1, OnlyWriterLists
  <2>3. writer = k
    BY DEF IInv, CallsOK, CallOK, Locked
  <2>4. Make(k)
    BY <2>2, <2>3 DEF Drop
  <2>5. proxies \in [Names -> Pointers \cup {Nobody}] /\ proxy \in Seq(ProxyRecord)
        /\ Len(proxy) \in Nat
    BY MadeProxies DEF IInv, TypeOK, ProxyRecord
  <2>6. proxies'[n] = New
    BY <2>4, <2>5 DEF Make
  <2>7. PICK q \in Started(Request(k)) : proxy' = Append(proxy, q)
    BY <2>4 DEF Make
  <2>8. q.enabled
    BY <2>7 DEF Started
  <2>9. proxy'[New] = q
    BY <2>5, <2>7 DEF New
  <2> QED
    BY <2>6, <2>8, <2>9
<1> QED
  BY <1>1, SpecIInv, PTL DEF Spec, StartedBeforeListed

(* Populating with what a listening proxy was given finds it unchanged, if *)
(* the address resolves to what a listener on it is bound to (Differs and  *)
(* listen of proxy.go).                                                    *)
THEOREM RepeatedPopulateCorrect == Spec => RepeatedPopulateKeeps
<1> DEFINE A == \A k \in Callers :
                  caller[k].pc = "look" /\ Replaces(k) /\ Consistent(Existing(k), Request(k))
                    => caller'[k].pc # "stop"
<1>1. IInv /\ [Next]_vars => [A]_vars
  <2> SUFFICES ASSUME IInv, Next, NEW k \in Callers, caller[k].pc = "look", Replaces(k),
                      Consistent(Existing(k), Request(k))
               PROVE  caller'[k].pc # "stop"
    OBVIOUS
  <2> DEFINE e == Request(k)
             p == Existing(k)
  <2>1. /\ TypeOK /\ AddressesOK /\ caller[k].todo # <<>> /\ caller[k].op = "populate"
        /\ p # Nobody
    BY AtMade DEF IInv, Locked, Replaces
  <2>2. e \in Entry /\ p \in Made /\ e.listen \in Addresses
    BY <2>1, Asked DEF Making, Entry
  <2>3. proxy[p].listen = Resolve[e.listen] /\ Resolve[e.listen] # Nobody
    <3>1. /\ Resolve[e.listen] \in Binds[e.listen]
          /\ proxy[p].listen \in Binds[e.listen]
      BY <2>1, <2>2 DEF Consistent, AddressesOK
    <3> QED
      BY <2>2, <3>1, RegistryAssumption
  <2>4. Unchanged(k)
    BY <2>1, <2>3 DEF Unchanged, CannotReplace, Unresolvable, Differs, Replaces
  <2>5. PICK j \in Callers : Ask(j) \/ Handler(j)
    BY DEF Next
  <2>6. CASE j = k
    <3>1. ~Find(k)
      BY <2>4 DEF Find
    <3>2. Rejected(k) \/ Keep(k)
      BY <2>5, <2>6, <3>1 DEF Ask, ProxyCreate, Populate, ProxyDelete, ProxyUpdate,
         ResetState, Begin, Handler, Works, Waits, Lock, Stop, Get, Change, ListProxies,
         ResetStarts, Answer, Drop, Make, MakeFails, Toggle
    <3>3. CASE Keep(k)
      <4>1. Proceed(k, p) /\ p \in Pointers \cup {Nobody} /\ Made' = Made
        BY <2>1, <2>2, <3>3, MadeProxies DEF Keep, Made
      <4> QED
        BY <2>1, <4>1, Proceeded DEF Making
    <3>4. CASE Rejected(k)
      <4>1. PICK r \in Errors : Reply(k, Nobody, r)
        BY <3>4 DEF Rejected, Unlock, Errors
      <4> QED
        BY <2>1, <4>1, Replied
    <3> QED
      BY <3>2, <3>3, <3>4
  <2>7. CASE j # k
    <3>1. caller'[k] = caller[k]
      <4>1. caller \in [Callers -> Call]
        BY <2>1 DEF TypeOK
      <4> QED
        BY <2>5, <2>7, <4>1 DEF Ask, ProxyCreate, Populate, ProxyDelete, ProxyUpdate,
           ResetState, Begin, Handler, Works, Waits, Lock, Stop, Get, Change, ListProxies,
           ResetStarts, Answer, Drop, Make, MakeFails, Toggle, Goto, Return, Reply,
           Unlock, Proceed, Rejected, Keep, Find, NextProxy
    <3> QED
      BY <3>1
  <2> QED
    BY <2>6, <2>7
<1> QED
  BY <1>1, SpecIInv, PTL DEF Spec, RepeatedPopulateKeeps
=============================================================================
