---------------------------- MODULE ClientProofs ----------------------------
(***************************************************************************)
(* Theorems about Client, for any number of clients, handlers, names,      *)
(* addresses and proxies, and any number of lives of the server.           *)
(***************************************************************************)
EXTENDS Client, RegistryProofs

(* Nothing is left of a server that is down, and no copy of it is current. *)
DownOK ==
  ~up => /\ Init
         /\ \A c \in Clients : call[c].slot = Nobody /\ ~view[c].fresh

(* What a handler answers is about a proxy it knows of.                    *)
AnswerOK(k) ==
  /\ caller[k].pc = "answer" => caller[k].at \in Made \cup {Nobody}
  /\ caller[k].pc # "answer" => reply[k] = NoReply
  /\ reply[k].listen = Nobody => reply[k].enabled = Nobody

(* A call and its handler: what each call asks for.                        *)
Serves ==
  {<<"save", "create">>, <<"save", "update">>, <<"fetch", "show">>, <<"toggle", "show">>,
   <<"populate", "populate">>, <<"delete", "delete">>, <<"reset", "reset">>}

CalledOK(c) ==
  LET k == call[c].slot  w == caller[k]  o == object[c] IN
  k # Nobody =>
    /\ w.pc # "idle"
    /\ call[c].op # "none" /\ (call[c].op # "reset" => call[c].name \in Names)
    /\ w.pc # "answer" =>
         /\ <<call[c].op, w.op>> \in Serves
         /\ call[c].op # "reset" => Len(w.todo) = 1 /\ Request(k).name = call[c].name
    /\ w.pc = "answer" /\ w.at # Nobody => call[c].op \notin {"delete", "reset"}
    /\ call[c].op = "save" => call[c].name = o.name
    /\ call[c].op = "save" /\ w.pc # "answer" =>
         /\ Request(k) = [name |-> o.name, listen |-> o.listen, start |-> o.enabled]
         /\ w.op = "create" => ~o.created

(* The calls of one client, and the object they are about.                 *)
CallingOK(c) ==
  /\ call[c].op \in {"none", "flip"} => call[c].slot = Nobody
  /\ call[c].op \in {"save", "flip"} => object[c] # Nobody
  /\ view[c].known # Nobody => object[c] # Nobody /\ (object[c].created \/ view[c].populated)

(* While nothing but the call under way changes anything, the pointer its  *)
(* handler has is the one that is listed, and what the answer says of the  *)
(* proxy stays true.                                                       *)
QuietOK(c) ==
  LET k == call[c].slot  w == caller[k]  p == proxy[w.at] IN
  view[c].quiet =>
    /\ k # Nobody /\ call[c].op \notin {"none", "reset", "delete"}
    /\ w.pc \in {"change", "toggle"} => proxies[call[c].name] = w.at
    /\ w.pc = "answer" /\ w.at # Nobody =>
         /\ proxies[call[c].name] = w.at
         /\ reply[k].listen \in {Nobody, p.listen}
         /\ reply[k].enabled \in {Nobody, p.enabled}

(* As long as nothing has changed, the fields of an object that have not   *)
(* been edited are those of the proxy.                                     *)
FreshOK(c) ==
  LET p == view[c].known  o == object[c] IN
  view[c].fresh =>
    /\ o # Nobody /\ p \in Made /\ proxies[o.name] = p
    /\ "listen" \notin view[c].edited => o.listen = proxy[p].listen
    /\ "enabled" \notin view[c].edited => o.enabled = proxy[p].enabled
    /\ call[c].op = "save" => view[c].quiet

OneEach ==
  \A c, d \in Clients : call[c].slot = call[d].slot /\ call[c].slot # Nobody => c = d

CInv ==
  /\ IInv /\ ClientTypeOK /\ DownOK
  /\ \A k \in Callers : AnswerOK(k)
  /\ \A c \in Clients : CalledOK(c) /\ CallingOK(c) /\ QuietOK(c) /\ FreshOK(c)
  /\ OneEach
-----------------------------------------------------------------------------
(* What one step of a handler means for the call that waits for it.        *)

Proceeds(k) ==
  /\ \A j \in Callers \ {k} : caller'[j] = caller[j]
  /\ caller[k].pc \notin {"idle", "answer"} /\ caller'[k].pc # "idle"
  /\ caller'[k].pc # "answer" =>
       /\ caller'[k].op = caller[k].op
       /\ Len(caller[k].todo) = 1 => caller'[k].todo = caller[k].todo
  /\ caller'[k].pc \in {"change", "toggle"} =>
       /\ proxies' = proxies
       /\ \/ caller[k].pc = "change" /\ caller'[k].at = caller[k].at
          \/ caller'[k].at = Existing(k)
  /\ caller'[k].pc = "answer" =>
       /\ caller'[k].at \in Made' \cup {Nobody}
       /\ caller'[k].at # Nobody =>
            /\ caller[k].op \notin {"delete", "reset"}
            /\ \/ /\ caller[k].pc = "toggle" /\ proxies' = proxies
                  /\ caller'[k].at = caller[k].at
               \/ proxies'[Request(k).name] = caller'[k].at

LEMMA ReplyProceeds ==
  ASSUME IInv, NEW k \in Callers, NEW p \in Pointers \cup {Nobody}, NEW e \in Errors,
         Reply(k, p, e), caller[k].pc \notin {"idle", "answer"},
         p \in Made' \cup {Nobody},
         p # Nobody =>
           /\ caller[k].op \notin {"delete", "reset"}
           /\ \/ caller[k].pc = "toggle" /\ proxies' = proxies /\ p = caller[k].at
              \/ proxies'[Request(k).name] = p
  PROVE  Proceeds(k)
<1>1. TypeOK
  BY DEF IInv
<1>2. /\ \A j \in Callers \ {k} : caller'[j] = caller[j]
      /\ caller'[k] = [Idle EXCEPT !.pc = "answer", !.at = p, !.err = e]
      /\ caller'[k].pc = "answer"
  BY <1>1, Replied
<1>3. caller'[k].at = p
  BY <1>2 DEF Idle
<1> QED
  BY <1>2, <1>3 DEF Proceeds

LEMMA GotoProceeds ==
  ASSUME IInv, NEW k \in Callers, NEW place \in Places \ {"idle", "answer"},
         Goto(k, place), caller[k].pc \notin {"idle", "answer"},
         place \in {"change", "toggle"} => proxies' = proxies /\ caller[k].pc = "change"
  PROVE  Proceeds(k)
<1>1. TypeOK /\ caller[k] \in Call
  BY DEF IInv, TypeOK
<1>2. /\ \A j \in Callers \ {k} : caller'[j] = caller[j]
      /\ caller'[k] = [caller[k] EXCEPT !.pc = place]
  BY <1>1, Went
<1>3. /\ caller'[k].pc = place /\ caller'[k].op = caller[k].op
      /\ caller'[k].todo = caller[k].todo /\ caller'[k].at = caller[k].at
  BY <1>1, <1>2 DEF Call
<1> QED
  BY <1>2, <1>3 DEF Proceeds

(* The end of a call on the collection, or the next of Populate's list.    *)
LEMMA ProceedProceeds ==
  ASSUME IInv, NEW k \in Callers, NEW p \in Pointers, Proceed(k, p),
         caller[k].pc \in {"look", "make"}, caller[k].op \in Making,
         p \in Made', proxies'[Request(k).name] = p
  PROVE  Proceeds(k)
<1>1. caller \in [Callers -> Call] /\ caller[k] \in Call
  BY DEF IInv, TypeOK
<1>2. CASE Len(caller[k].todo) = 1
  <2>1. Reply(k, p, "none")
    BY <1>2 DEF Proceed, Unlock
  <2> QED
    BY <2>1, ReplyProceeds DEF Making, Errors
<1>3. CASE Len(caller[k].todo) # 1
  <2>1. caller' = [caller EXCEPT ![k].pc = "lock", ![k].at = Nobody, ![k].todo = Tail(@)]
    BY <1>3 DEF Proceed
  <2>2. /\ \A j \in Callers \ {k} : caller'[j] = caller[j]
        /\ caller'[k].pc = "lock" /\ caller'[k].op = caller[k].op
    BY <1>1, <2>1 DEF Call
  <2> QED
    BY <1>3, <2>2 DEF Proceeds
<1> QED
  BY <1>2, <1>3

LEMMA LockedProceeds ==
  ASSUME IInv, NEW k \in Callers,
         Lock(k) \/ Rejected(k) \/ Keep(k) \/ Find(k) \/ Stop(k) \/ Drop(k)
                 \/ Make(k) \/ MakeFails(k)
  PROVE  Proceeds(k)
<1>1. /\ TypeOK /\ CallOK(k) /\ caller \in [Callers -> Call] /\ caller[k] \in Call
      /\ Listed \subseteq Made /\ Made \subseteq Pointers
  BY MadeProxies DEF IInv, CallsOK, TypeOK
<1>2. CASE Lock(k)
  BY <1>2, GotoProceeds DEF Lock, Places
<1>3. CASE Rejected(k)
  <2>1. PICK e \in Errors : Reply(k, Nobody, e)
    BY <1>3 DEF Rejected, Unlock, Errors
  <2> QED
    BY <1>3, <2>1, ReplyProceeds DEF Rejected
<1>4. CASE Keep(k)
  <2>1. /\ caller[k].pc = "look" /\ caller[k].op \in Making /\ Existing(k) # Nobody
        /\ Proceed(k, Existing(k)) /\ UNCHANGED <<proxies, proxy>>
    BY <1>4 DEF Keep, Unchanged, Replaces, Making
  <2>2. Existing(k) \in Made /\ Made' = Made
    BY <1>1, <2>1, AtMade, Asked DEF Locked, Made
  <2> QED
    BY <1>1, <2>1, <2>2, ProceedProceeds DEF Existing
<1>5. CASE Find(k)
  <2> DEFINE place == IF caller[k].op = "create" \/ Existing(k) = Nobody
                      THEN "make" ELSE "stop"
  <2>1. /\ caller[k].pc = "look"
        /\ caller' = [caller EXCEPT ![k].at = Existing(k), ![k].pc = place]
    BY <1>5 DEF Find
  <2>2. place \in {"make", "stop"}
    OBVIOUS
  <2> HIDE DEF place
  <2>3. /\ \A j \in Callers \ {k} : caller'[j] = caller[j]
        /\ caller'[k].pc = place /\ caller'[k].op = caller[k].op
        /\ caller'[k].todo = caller[k].todo
    BY <1>1, <2>1 DEF Call
  <2> QED
    BY <2>1, <2>2, <2>3 DEF Proceeds
<1>6. CASE Stop(k)
  <2>1. PICK place \in {"drop", "make"} : Goto(k, place) /\ caller[k].pc = "stop"
    BY <1>6 DEF Stop
  <2> QED
    BY <2>1, GotoProceeds DEF Places
<1>7. CASE Drop(k)
  BY <1>7, ReplyProceeds DEF Drop, Unlock, Errors
<1>8. CASE MakeFails(k)
  BY <1>8, ReplyProceeds DEF MakeFails, Unlock, Errors
<1>9. CASE Make(k)
  <2>1. /\ caller[k].pc = "make" /\ Proceed(k, New) /\ caller[k].op \in Making
        /\ proxies' = [proxies EXCEPT ![Request(k).name] = New]
    BY <1>1, <1>9 DEF Make, CallOK
  <2>2. Request(k).name \in Names /\ proxies \in [Names -> Pointers \cup {Nobody}]
    BY <1>1, <2>1, AtMade, Asked DEF Locked, TypeOK
  <2>3. PICK q : proxy' = Append(proxy, q)
    BY <1>9 DEF Make
  <2>4. proxy \in Seq(ProxyRecord) /\ Len(proxy) \in Nat
    BY <1>1, MadeProxies DEF TypeOK, ProxyRecord
  <2>5. Len(proxy') = Len(proxy) + 1
    BY <2>3, <2>4
  <2>6. New \in Made'
    BY <2>4, <2>5 DEF New, Made
  <2>7. New \in Pointers
    <3>1. IInv'
      BY <1>9, MakeKeeps
    <3>2. Len(proxy') <= MaxProxies
      BY <3>1 DEF IInv, TypeOK
    <3> QED
      BY <2>4, <2>5, <3>2, RegistryAssumption DEF New, Pointers
  <2>8. proxies'[Request(k).name] = New
    BY <2>1, <2>2
  <2> QED
    BY <2>1, <2>6, <2>7, <2>8, ProceedProceeds
<1> QED
  BY <1>2, <1>3, <1>4, <1>5, <1>6, <1>7, <1>8, <1>9

LEMMA UnlockedProceeds ==
  ASSUME IInv, NEW k \in Callers,
         Get(k) \/ Change(k) \/ Toggle(k) \/ ListProxies(k) \/ ResetStarts(k)
  PROVE  Proceeds(k)
<1>1. /\ TypeOK /\ CallOK(k) /\ caller \in [Callers -> Call] /\ caller[k] \in Call
      /\ Listed \subseteq Made /\ Made \subseteq Pointers
  BY MadeProxies DEF IInv, CallsOK, TypeOK
<1>2. CASE Get(k)
  <2>1. caller[k].pc = "get" /\ Existing(k) \in Made \cup {Nobody} /\ Made' = Made
        /\ proxies' = proxies
    BY <1>2, AtMade, Asked DEF Get, Made
  <2>2. CASE Reply(k, Nobody, "not found")
    BY <2>1, <2>2, ReplyProceeds DEF Errors
  <2>3. CASE caller[k].op = "show" /\ Reply(k, Existing(k), "none")
    <3>1. Existing(k) \in Pointers \cup {Nobody}
      BY <1>1, <2>1
    <3> QED
      BY <2>1, <2>3, <3>1, ReplyProceeds DEF Errors, Existing
  <2>4. CASE caller' = [caller EXCEPT ![k].at = Existing(k), ![k].pc = "change"]
    <3>1. /\ \A j \in Callers \ {k} : caller'[j] = caller[j]
          /\ caller'[k].pc = "change" /\ caller'[k].op = caller[k].op
          /\ caller'[k].todo = caller[k].todo /\ caller'[k].at = Existing(k)
      BY <1>1, <2>4 DEF Call
    <3> QED
      BY <2>1, <3>1 DEF Proceeds
  <2> QED
    BY <1>2, <2>2, <2>3, <2>4 DEF Get
<1>3. CASE Change(k)
  <2>1. caller[k].pc = "change" /\ proxies' = proxies
    BY <1>3 DEF Change
  <2>2. CASE Reply(k, Nobody, "address")
    BY <2>1, <2>2, ReplyProceeds DEF Errors
  <2>3. CASE Goto(k, "toggle")
    BY <2>1, <2>3, GotoProceeds DEF Places
  <2> QED
    BY <1>3, <2>2, <2>3 DEF Change
<1>4. CASE Toggle(k)
  <2>1. /\ caller[k].pc = "toggle" /\ proxies' = proxies /\ caller[k].op = "update"
        /\ caller[k].at \in Made
    BY <1>1, <1>4, AtMade DEF Toggle, CallOK
  <2>2. Made' = Made
    <3>1. proxy \in Seq(ProxyRecord) /\ Len(proxy) \in Nat
      BY <1>1, MadeProxies DEF TypeOK, ProxyRecord
    <3>2. \/ proxy' = proxy
          \/ \E r : proxy' = [proxy EXCEPT ![caller[k].at] = r]
      BY <1>4, ZenonT(60) DEF Toggle, StartFound, StopFound
    <3>3. Len(proxy') = Len(proxy)
      BY <3>1, <3>2
    <3> QED
      BY <3>3 DEF Made
  <2>3. PICK r \in {caller[k].at, Nobody}, e \in Errors : Reply(k, r, e)
    BY <1>4 DEF Toggle, Errors
  <2>4. r \in Pointers \cup {Nobody} /\ r \in Made' \cup {Nobody}
    BY <1>1, <2>1, <2>2, <2>3
  <2> QED
    BY <2>1, <2>3, <2>4, ReplyProceeds
<1>5. CASE ListProxies(k)
  <2>1. caller[k].pc = "list" /\ proxies' = proxies
    BY <1>5 DEF ListProxies
  <2>2. CASE Reply(k, Nobody, "none")
    BY <2>1, <2>2, ReplyProceeds DEF Errors
  <2>3. CASE caller' = [caller EXCEPT ![k].pc = "start", ![k].left = Listed]
    <3>1. /\ \A j \in Callers \ {k} : caller'[j] = caller[j]
          /\ caller'[k].pc = "start" /\ caller'[k].op = caller[k].op
          /\ caller'[k].todo = caller[k].todo
      BY <1>1, <2>3 DEF Call
    <3> QED
      BY <2>1, <3>1 DEF Proceeds
  <2> QED
    BY <1>5, <2>2, <2>3 DEF ListProxies
<1>6. CASE ResetStarts(k)
  <2>1. caller[k].pc = "start"
    BY <1>6 DEF ResetStarts
  <2>2. CASE \E e \in Errors : Reply(k, Nobody, e)
    BY <2>1, <2>2, ReplyProceeds
  <2>3. CASE \E p : caller' = [caller EXCEPT ![k].left = @ \ {p}]
    <3>1. /\ \A j \in Callers \ {k} : caller'[j] = caller[j]
          /\ caller'[k].pc = "start" /\ caller'[k].op = caller[k].op
          /\ caller'[k].todo = caller[k].todo
      BY <1>1, <2>1, <2>3 DEF Call
    <3> QED
      BY <2>1, <3>1 DEF Proceeds
  <2> QED
    BY <1>6, <2>2, <2>3 DEF ResetStarts, NextProxy, Errors
<1> QED
  BY <1>2, <1>3, <1>4, <1>5, <1>6

LEMMA WorksProceeds ==
  ASSUME IInv, NEW k \in Callers, Works(k)
  PROVE  IInv' /\ Proceeds(k)
BY LockedProceeds, UnlockedProceeds, LockKeeps, RejectedKeeps, KeepKeeps, FindKeeps,
   StopKeeps, DropKeeps, MakeKeeps, MakeFailsKeeps, GetKeeps, ChangeKeeps, ToggleKeeps,
   ListProxiesKeeps, ResetStartsKeeps DEF Works, Waits

(* Nothing that was made is unmade.                                        *)
LEMMA StartStopMakes ==
  ASSUME IInv, NEW p, StartFound(p) \/ StopFound(p)
  PROVE  Len(proxy') = Len(proxy)
<1>1. proxy \in Seq(ProxyRecord) /\ Len(proxy) \in Nat
  BY MadeProxies DEF IInv, TypeOK, ProxyRecord
<1>2. CASE StartFound(p)
  <2>1. PICK a : proxy' = [proxy EXCEPT ![p].listen = a, ![p].enabled = TRUE]
    BY <1>2 DEF StartFound
  <2> QED
    BY <1>1, <2>1
<1>3. CASE StopFound(p)
  BY <1>1, <1>3 DEF StopFound
<1> QED
  BY <1>2, <1>3

LEMMA WorksMakes ==
  ASSUME IInv, NEW k \in Callers, Works(k)
  PROVE  Made \subseteq Made'
<1>1. proxy \in Seq(ProxyRecord) /\ Len(proxy) \in Nat
  BY MadeProxies DEF IInv, TypeOK, ProxyRecord
<1>2. CASE proxy' = proxy
  BY <1>2 DEF Made
<1>3. CASE \E p : StartFound(p) \/ StopFound(p)
  BY <1>3, StartStopMakes DEF Made
<1>4. CASE Change(k) \/ Make(k)
  <2>1. CASE Change(k)
    <3>1. \/ proxy' = proxy
          \/ proxy' = [proxy EXCEPT ![caller[k].at] = Stopped(Request(k))]
      BY <2>1 DEF Change
    <3>2. Len(proxy') = Len(proxy)
      BY <1>1, <3>1
    <3> QED
      BY <3>2 DEF Made
  <2>2. CASE Make(k)
    <3>1. PICK r : proxy' = Append(proxy, r)
      BY <2>2 DEF Make
    <3>2. Len(proxy') = Len(proxy) + 1
      BY <1>1, <3>1
    <3> QED
      BY <1>1, <3>2 DEF Made
  <2> QED
    BY <1>4, <2>1, <2>2
<1>5. CASE Stop(k) \/ Toggle(k) \/ ResetStarts(k)
  <2>1. proxy' = proxy \/ \E p : StartFound(p) \/ StopFound(p)
    BY <1>5 DEF Stop, Toggle, ResetStarts
  <2> QED
    BY <1>2, <1>3, <2>1
<1>6. CASE Lock(k) \/ Get(k) \/ ListProxies(k) \/ Rejected(k) \/ Keep(k) \/ Find(k)
           \/ Drop(k) \/ MakeFails(k)
  BY <1>2, <1>6 DEF Lock, Get, ListProxies, Rejected, Keep, Find, Drop, MakeFails
<1> QED
  BY <1>4, <1>5, <1>6 DEF Works, Waits
-----------------------------------------------------------------------------
(* Each step keeps the invariant.                                          *)

View == [known : Pointers \cup {Nobody}, fresh : BOOLEAN, quiet : BOOLEAN,
         edited : SUBSET Fields, populated : BOOLEAN]

(* A handler at work: the call that waits for it goes on, the others do    *)
(* not notice, and a change is the end of every fresh object.              *)
LEMMA HandleKeeps ==
  ASSUME CInv, NEW k \in Callers, Handle(k)
  PROVE  CInv'
<1>1. /\ IInv /\ ClientTypeOK /\ DownOK /\ OneEach
      /\ \A j \in Callers : AnswerOK(j)
      /\ \A c \in Clients : CalledOK(c) /\ CallingOK(c) /\ QuietOK(c) /\ FreshOK(c)
  BY DEF CInv
<1>2. Works(k) /\ UNCHANGED <<up, call, object, reply>>
  BY DEF Handle
<1>3. IInv' /\ Proceeds(k) /\ Made \subseteq Made'
  BY <1>1, <1>2, WorksProceeds, WorksMakes
<1>4. view \in [Clients -> View]
  BY <1>1 DEF ClientTypeOK, View
<1>5. /\ view' \in [Clients -> View]
      /\ \A c \in Clients :
           /\ view'[c].known = view[c].known /\ view'[c].populated = view[c].populated
           /\ view'[c].quiet => view[c].quiet
           /\ call[c].slot # k /\ view'[c].quiet => proxy' = proxy /\ proxies' = proxies
           /\ view'[c].fresh => view'[c] = view[c] /\ proxy' = proxy /\ proxies' = proxies
  <2>1. CASE proxy' = proxy /\ proxies' = proxies
    <3>1. view' = [c \in Clients |-> view[c]]
      BY <2>1 DEF Handle
    <3> QED
      BY <1>4, <2>1, <3>1
  <2>2. CASE ~(proxy' = proxy /\ proxies' = proxies)
    <3>1. view' = [c \in Clients |->
                    [view[c] EXCEPT !.fresh = FALSE, !.edited = {},
                                    !.quiet = @ /\ call[c].slot = k]]
      BY <2>2 DEF Handle
    <3>2. \A c \in Clients :
            /\ view[c] \in View
            /\ view'[c] = [view[c] EXCEPT !.fresh = FALSE, !.edited = {},
                                          !.quiet = @ /\ call[c].slot = k]
      BY <1>4, <3>1
    <3>3. ASSUME NEW c \in Clients
          PROVE  /\ view'[c] \in View
                 /\ view'[c].known = view[c].known /\ view'[c].populated = view[c].populated
                 /\ view'[c].quiet => view[c].quiet /\ call[c].slot = k
                 /\ ~view'[c].fresh
      <4> DEFINE q == view[c].quiet /\ call[c].slot = k
      <4>1. /\ view[c] \in View /\ q \in BOOLEAN
            /\ view'[c] = [view[c] EXCEPT !.fresh = FALSE, !.edited = {}, !.quiet = q]
        BY <3>2
      <4> HIDE DEF q
      <4>2. /\ view'[c] \in View /\ view'[c].quiet = q /\ view'[c].fresh = FALSE
            /\ view'[c].known = view[c].known /\ view'[c].populated = view[c].populated
        BY <4>1 DEF View
      <4> QED
        BY <4>2 DEF q
    <3>4. view' \in [Clients -> View]
      BY <3>1, <3>3
    <3> QED
      BY <3>3, <3>4
  <2> QED
    BY <2>1, <2>2
<1>6. ClientTypeOK'
  BY <1>1, <1>2, <1>3, <1>5 DEF ClientTypeOK, View, IInv
<1>7. DownOK'
  <2>1. up
    BY <1>1, <1>3 DEF DownOK, Init, Idle, Proceeds
  <2> QED
    BY <1>2, <2>1 DEF DownOK
<1>8. ASSUME NEW j \in Callers PROVE AnswerOK(j)'
  BY <1>1, <1>2, <1>3 DEF AnswerOK, Proceeds
<1>9. ASSUME NEW c \in Clients
      PROVE  CalledOK(c)' /\ CallingOK(c)' /\ QuietOK(c)' /\ FreshOK(c)'
  <2>1. CalledOK(c) /\ CallingOK(c) /\ QuietOK(c) /\ FreshOK(c)
    BY <1>1
  <2>2. call[c].slot \in Callers \cup {Nobody}
    BY <1>1 DEF ClientTypeOK
  <2>3. CallingOK(c)'
    BY <1>2, <1>5, <2>1 DEF CallingOK
  <2>4. FreshOK(c)'
    BY <1>2, <1>3, <1>5, <2>1 DEF FreshOK
  <2>5. CASE call[c].slot = k
    <3>1. k # Nobody
      BY RegistryAssumption
    <3>2. CalledOK(c)'
      BY <1>2, <1>3, <2>1, <2>5, <3>1 DEF CalledOK, Proceeds, Request, Serves
    <3>3. /\ caller[k].pc # "answer" /\ reply'[k] = NoReply
      BY <1>1, <1>2, <1>3 DEF AnswerOK, Proceeds
    <3>4. QuietOK(c)'
      BY <1>2, <1>3, <1>5, <2>1, <2>5, <3>1, <3>3
      DEF QuietOK, CalledOK, Proceeds, Existing, NoReply
    <3> QED
      BY <2>3, <2>4, <3>2, <3>4
  <2>6. CASE call[c].slot # k
    <3>1. call[c].slot # Nobody => caller'[call[c].slot] = caller[call[c].slot]
      BY <1>3, <2>2, <2>6 DEF Proceeds
    <3>2. CalledOK(c)'
      BY <1>2, <2>1, <3>1 DEF CalledOK, Request
    <3>3. QuietOK(c)'
      BY <1>2, <1>5, <2>1, <2>6, <3>1 DEF QuietOK
    <3> QED
      BY <2>3, <2>4, <3>2, <3>3
  <2> QED
    BY <2>5, <2>6
<1>10. OneEach'
  BY <1>1, <1>2 DEF OneEach
<1> QED
  BY <1>3, <1>6, <1>7, <1>8, <1>9, <1>10 DEF CInv

(* A client that a step is not about does not notice it.                   *)
LEMMA Undisturbed ==
  ASSUME CInv, NEW c \in Clients, UNCHANGED <<proxies, proxy>>,
         call'[c] = call[c], object'[c] = object[c], view'[c] = view[c],
         call[c].slot # Nobody =>
           /\ caller'[call[c].slot] = caller[call[c].slot]
           /\ reply'[call[c].slot] = reply[call[c].slot]
  PROVE  CalledOK(c)' /\ CallingOK(c)' /\ QuietOK(c)' /\ FreshOK(c)'
<1>1. CalledOK(c) /\ CallingOK(c) /\ QuietOK(c) /\ FreshOK(c)
  BY DEF CInv
<1>2. Made' = Made
  BY DEF Made
<1>3. CalledOK(c)'
  BY <1>1 DEF CalledOK, Request
<1>4. CallingOK(c)'
  BY <1>1 DEF CallingOK
<1>5. QuietOK(c)'
  BY <1>1 DEF QuietOK
<1>6. FreshOK(c)'
  BY <1>1, <1>2 DEF FreshOK
<1> QED
  BY <1>3, <1>4, <1>5, <1>6

(* A request arrives at a handler that was idle.                           *)
LEMMA ArrivalKeeps ==
  ASSUME CInv, up, UNCHANGED <<up, reply>>,
         NEW k \in Callers, NEW op, NEW todo, NEW place,
         Begin(k, op, todo, place), Fits(op, todo, place)
  PROVE  /\ IInv' /\ DownOK' /\ \A j \in Callers : AnswerOK(j)'
         /\ UNCHANGED <<proxies, proxy>>
         /\ caller'[k].pc = place /\ caller'[k].op = op /\ caller'[k].todo = todo
         /\ caller'[k].pc \in {"lock", "get", "list"}
         /\ \A j \in Callers \ {k} : caller'[j] = caller[j]
         /\ \A c \in Clients : call[c].slot # k
<1>1. IInv /\ k # Nobody /\ \A j \in Callers : AnswerOK(j)
  BY RegistryAssumption DEF CInv
<1>2. /\ IInv'
      /\ caller[k].pc = "idle"
      /\ caller'[k].pc = place /\ caller'[k].op = op /\ caller'[k].todo = todo
      /\ \A j \in Callers \ {k} : caller'[j] = caller[j]
  BY <1>1, BeganKeeps
<1>3. UNCHANGED <<proxies, proxy>> /\ Made' = Made
  BY DEF Begin, Made
<1>4. caller'[k].pc \in {"lock", "get", "list"}
  BY <1>2 DEF Fits
<1>5. \A j \in Callers : AnswerOK(j)'
  BY <1>1, <1>2, <1>3, <1>4 DEF AnswerOK
<1>6. \A c \in Clients : call[c].slot # k
  BY <1>1, <1>2 DEF CInv, CalledOK
<1> QED
  BY <1>2, <1>3, <1>4, <1>5, <1>6 DEF DownOK

LEMMA OtherKeeps ==
  ASSUME CInv, NEW k \in Callers, Other(k)
  PROVE  CInv'
<1>1. up /\ Ask(k) /\ UNCHANGED <<up, call, object, reply, view>>
  BY DEF Other
<1>2. PICK op, todo, place : Begin(k, op, todo, place) /\ Fits(op, todo, place)
  BY <1>1, AskBegins
<1>3. /\ IInv' /\ DownOK' /\ \A j \in Callers : AnswerOK(j)'
      /\ UNCHANGED <<proxies, proxy>>
      /\ \A j \in Callers \ {k} : caller'[j] = caller[j]
      /\ \A c \in Clients : call[c].slot # k
  BY <1>1, <1>2, ArrivalKeeps
<1>4. ClientTypeOK' /\ OneEach'
  BY <1>1, <1>3 DEF CInv, IInv, ClientTypeOK, OneEach
<1>5. \A c \in Clients : call[c].slot \in Callers \cup {Nobody}
  BY DEF CInv, ClientTypeOK
<1>6. ASSUME NEW c \in Clients
      PROVE  CalledOK(c)' /\ CallingOK(c)' /\ QuietOK(c)' /\ FreshOK(c)'
  BY <1>1, <1>3, <1>5, Undisturbed
<1> QED
  BY <1>3, <1>4, <1>6 DEF CInv

(* A client's request: what the client knows and has then is up to its     *)
(* call, the other clients do not notice.                                  *)
LEMMA CallKeeps ==
  ASSUME CInv, NEW c \in Clients, NEW k \in Callers, NEW n \in Names \cup {Nobody},
         NEW what \in {"save", "fetch", "toggle", "delete", "populate", "reset"},
         NEW op, NEW todo, NEW place,
         Begin(k, op, todo, place), Fits(op, todo, place), Send(c, what, n, k),
         call[c].op \in {"none", "flip"}, <<what, op>> \in Serves,
         what # "reset" => n \in Names /\ Len(todo) = 1 /\ Head(todo).name = n,
         object' \in [Clients -> Object \cup {Nobody}], view' \in [Clients -> View],
         \A d \in Clients \ {c} : object'[d] = object[d] /\ view'[d] = view[d],
         what = "save" =>
           LET o == object'[c] IN
           /\ n = o.name
           /\ Head(todo) = [name |-> o.name, listen |-> o.listen, start |-> o.enabled]
           /\ op = "create" => ~o.created,
         call'[c].op = what => CallingOK(c)',
         view'[c].quiet => what \notin {"reset", "delete"},
         call'[c].op = what /\ UNCHANGED <<proxies, proxy>> => FreshOK(c)'
  PROVE  CInv'
<1>1. up /\ UNCHANGED <<up, reply>>
  BY DEF Send
<1>2. /\ IInv' /\ DownOK' /\ \A j \in Callers : AnswerOK(j)'
      /\ UNCHANGED <<proxies, proxy>>
      /\ caller'[k].pc = place /\ caller'[k].op = op /\ caller'[k].todo = todo
      /\ caller'[k].pc \in {"lock", "get", "list"}
      /\ \A j \in Callers \ {k} : caller'[j] = caller[j]
      /\ \A d \in Clients : call[d].slot # k
  BY <1>1, ArrivalKeeps
<1>3. /\ k # Nobody
      /\ call \in [Clients ->
           [op : {"none", "save", "fetch", "toggle", "flip", "delete", "populate", "reset"},
            name : Names \cup {Nobody}, slot : Callers \cup {Nobody}]]
  BY RegistryAssumption DEF CInv, ClientTypeOK
<1>4. call' = [call EXCEPT ![c] = [op |-> what, name |-> n, slot |-> k]]
  BY DEF Send
<1>5. /\ call'[c].op = what /\ call'[c].name = n /\ call'[c].slot = k
      /\ \A d \in Clients \ {c} : call'[d] = call[d]
  BY <1>3, <1>4
<1>6. call' \in [Clients ->
           [op : {"none", "save", "fetch", "toggle", "flip", "delete", "populate", "reset"},
            name : Names \cup {Nobody}, slot : Callers \cup {Nobody}]]
  BY <1>3, <1>4
<1>7. ClientTypeOK'
  BY <1>1, <1>2, <1>6 DEF CInv, IInv, ClientTypeOK, View
<1>8. OneEach'
  BY <1>2, <1>5 DEF CInv, OneEach
<1>9. ASSUME NEW d \in Clients \ {c}
      PROVE  CalledOK(d)' /\ CallingOK(d)' /\ QuietOK(d)' /\ FreshOK(d)'
  BY <1>1, <1>2, <1>3, <1>5, Undisturbed
<1>10. CallingOK(c)' /\ FreshOK(c)'
  BY <1>2, <1>5
<1>11. CalledOK(c)'
  BY <1>2, <1>3, <1>5 DEF CalledOK, Request
<1>12. QuietOK(c)'
  BY <1>2, <1>3, <1>5 DEF QuietOK
<1> QED
  BY <1>2, <1>7, <1>8, <1>9, <1>10, <1>11, <1>12 DEF CInv

(* Save sends the object as it is; what it has edited in a fresh object is *)
(* what differs from the proxy.                                            *)
LEMMA PostKeeps ==
  ASSUME CInv, NEW c \in Clients, NEW o \in Object, Post(c, o),
         call[c].op \in {"none", "flip"}, object[c] \in Object,
         o.name = object[c].name, o.created = object[c].created
  PROVE  CInv'
<1> DEFINE e == [name |-> o.name, listen |-> o.listen, start |-> o.enabled]
<1>1. e \in Entry /\ e.name = o.name /\ o.name \in Names
  BY DEF Object, Entry
<1> HIDE DEF e
<1>2. PICK k \in Callers :
        /\ \/ o.created /\ Begin(k, "update", <<e>>, "get")
           \/ ~o.created /\ MayMake(1) /\ Begin(k, "create", <<e>>, "lock")
        /\ Send(c, "save", o.name, k)
  BY DEF Post, e
<1>3. /\ object \in [Clients -> Object \cup {Nobody}] /\ view \in [Clients -> View]
      /\ view[c] \in View /\ FreshOK(c) /\ CallingOK(c)
  BY DEF CInv, ClientTypeOK, View
<1>4. /\ object' \in [Clients -> Object \cup {Nobody}] /\ object'[c] = o
      /\ \A d \in Clients \ {c} : object'[d] = object[d]
  BY <1>3 DEF Post
<1>5. /\ view' \in [Clients -> View]
      /\ view'[c].known = view[c].known /\ view'[c].populated = view[c].populated
      /\ view'[c].fresh = view[c].fresh /\ view'[c].quiet
      /\ view[c].fresh =>
           view'[c].edited = view[c].edited \cup {f \in Fields : object[c][f] # o[f]}
      /\ \A d \in Clients \ {c} : view'[d] = view[d]
  <2> DEFINE s == IF view[c].fresh
                  THEN view[c].edited \cup {f \in Fields : object[c][f] # o[f]} ELSE {}
             v == [view[c] EXCEPT !.quiet = TRUE, !.edited = s]
  <2>1. s \in SUBSET Fields
    BY <1>3 DEF View
  <2>2. view' = [view EXCEPT ![c] = v]
    BY <1>3 DEF Post
  <2>3. view[c].fresh => s = view[c].edited \cup {f \in Fields : object[c][f] # o[f]}
    OBVIOUS
  <2> HIDE DEF s
  <2>4. /\ v \in View /\ v.known = view[c].known /\ v.populated = view[c].populated
        /\ v.fresh = view[c].fresh /\ v.quiet /\ v.edited = s
    BY <1>3, <2>1 DEF View
  <2> HIDE DEF v
  <2> QED
    BY <1>3, <2>2, <2>3, <2>4
<1>6. o # Nobody /\ object[c] # Nobody
  BY ClientAssumption
<1>7. CallingOK(c)' \/ call'[c].op # "save"
  BY <1>3, <1>4, <1>5, <1>6 DEF CallingOK
<1>8. /\ <<e>> \in Seq(Entry \cup [name : Names]) /\ <<e>> \in Seq(Entry)
      /\ <<e>> # <<>> /\ Len(<<e>>) = 1 /\ Head(<<e>>) = e
  BY <1>1, OneEntry
<1>9. ASSUME call'[c].op = "save", UNCHANGED <<proxies, proxy>>
      PROVE  FreshOK(c)'
  <2>1. Made' = Made
    BY <1>9 DEF Made
  <2>2. "listen" \notin view'[c].edited /\ view[c].fresh =>
          "listen" \notin view[c].edited /\ o.listen = object[c].listen
    BY <1>5 DEF Fields
  <2>3. "enabled" \notin view'[c].edited /\ view[c].fresh =>
          "enabled" \notin view[c].edited /\ o.enabled = object[c].enabled
    BY <1>5 DEF Fields
  <2> QED
    BY <1>3, <1>4, <1>5, <1>6, <1>9, <2>1, <2>2, <2>3 DEF FreshOK
<1>10. call'[c].op = "save" => CallingOK(c)'
  BY <1>7
<1>11. call'[c].op = "save" /\ UNCHANGED <<proxies, proxy>> => FreshOK(c)'
  BY <1>9
<1>12. CASE o.created /\ Begin(k, "update", <<e>>, "get")
  <2>1. Fits("update", <<e>>, "get") /\ <<"save", "update">> \in Serves
    BY <1>8 DEF Fits, Serves
  <2> QED
    BY <1>1, <1>2, <1>3, <1>4, <1>5, <1>8, <1>10, <1>11, <1>12, <2>1, CallKeeps DEF e
<1>13. CASE ~o.created /\ MayMake(1) /\ Begin(k, "create", <<e>>, "lock")
  <2>1. Fits("create", <<e>>, "lock") /\ <<"save", "create">> \in Serves
    BY <1>8, <1>13 DEF Fits, Serves, Making
  <2> QED
    BY <1>1, <1>2, <1>3, <1>4, <1>5, <1>8, <1>10, <1>11, <1>13, <2>1, CallKeeps DEF e
<1> QED
  BY <1>2, <1>12, <1>13

LEMMA SaveKeeps ==
  ASSUME CInv, NEW c \in Clients, Save(c) \/ Flip(c)
  PROVE  CInv'
<1>1. object[c] \in Object /\ call[c].op \in {"none", "flip"}
  BY DEF CInv, ClientTypeOK, CallingOK, Save, Flip
<1>2. PICK a \in Addresses, b \in BOOLEAN :
        Post(c, [object[c] EXCEPT !.listen = a, !.enabled = b])
  <2>1. CASE Save(c)
    <3>1. Edits \cup {object[c].listen} \subseteq Addresses
      BY <1>1, ClientAssumption DEF Object
    <3> QED
      BY <2>1, <3>1 DEF Save
  <2>2. CASE Flip(c)
    <3>1. object[c].listen \in Addresses /\ (~object[c].enabled) \in BOOLEAN
      BY <1>1 DEF Object
    <3>2. [object[c] EXCEPT !.enabled = ~@]
            = [object[c] EXCEPT !.listen = object[c].listen, !.enabled = ~object[c].enabled]
      BY <1>1 DEF Object
    <3> QED
      BY <2>2, <3>1, <3>2 DEF Flip
  <2> QED
    BY <2>1, <2>2
<1> DEFINE o == [object[c] EXCEPT !.listen = a, !.enabled = b]
<1>3. o \in Object /\ o.name = object[c].name /\ o.created = object[c].created
  BY <1>1 DEF Object
<1> HIDE DEF o
<1>4. Post(c, o)
  BY <1>2 DEF o
<1> QED
  BY <1>1, <1>3, <1>4, PostKeeps

(* A call that leaves the client's object for the answer to change.        *)
LEMMA AskingKeeps ==
  ASSUME CInv, NEW c \in Clients, NEW k \in Callers, NEW n \in Names \cup {Nobody},
         NEW what \in {"fetch", "toggle", "delete", "populate", "reset"},
         NEW op, NEW todo, NEW place,
         Begin(k, op, todo, place), Fits(op, todo, place), Send(c, what, n, k),
         call[c].op = "none", <<what, op>> \in Serves,
         what # "reset" => n \in Names /\ Len(todo) = 1 /\ Head(todo).name = n,
         object' = object,
         \/ view' = view
         \/ view' = [view EXCEPT ![c].quiet = TRUE] /\ what \notin {"delete", "reset"}
  PROVE  CInv'
<1>1. /\ object \in [Clients -> Object \cup {Nobody}] /\ view \in [Clients -> View]
      /\ view[c] \in View /\ FreshOK(c) /\ CallingOK(c) /\ QuietOK(c)
  BY DEF CInv, ClientTypeOK, View
<1>2. /\ view' \in [Clients -> View]
      /\ view'[c].known = view[c].known /\ view'[c].populated = view[c].populated
      /\ view'[c].fresh = view[c].fresh /\ view'[c].edited = view[c].edited
      /\ view'[c].quiet => view[c].quiet \/ what \notin {"reset", "delete"}
      /\ \A d \in Clients \ {c} : view'[d] = view[d]
  <2>1. CASE view' = view
    BY <1>1, <2>1
  <2>2. CASE view' = [view EXCEPT ![c].quiet = TRUE] /\ what \notin {"delete", "reset"}
    <3> DEFINE v == [view[c] EXCEPT !.quiet = TRUE]
    <3>1. view' = [view EXCEPT ![c] = v]
      BY <1>1, <2>2
    <3>2. /\ v \in View /\ v.known = view[c].known /\ v.populated = view[c].populated
          /\ v.fresh = view[c].fresh /\ v.edited = view[c].edited
      BY <1>1 DEF View
    <3> HIDE DEF v
    <3> QED
      BY <1>1, <2>2, <3>1, <3>2
  <2> QED
    BY <2>1, <2>2
<1>3. view'[c].quiet => what \notin {"reset", "delete"}
  BY <1>1, <1>2 DEF QuietOK
<1>4. call'[c].op = what => CallingOK(c)'
  BY <1>1, <1>2 DEF CallingOK
<1>5. call'[c].op = what /\ UNCHANGED <<proxies, proxy>> => FreshOK(c)'
  BY <1>1, <1>2 DEF FreshOK, Made
<1> QED
  BY <1>1, <1>2, <1>3, <1>4, <1>5, CallKeeps

LEMMA FetchKeeps ==
  ASSUME CInv, NEW c \in Clients, Fetch(c)
  PROVE  CInv'
<1>1. PICK k \in Callers, n \in Names, what \in {"fetch", "toggle"} :
        Begin(k, "show", <<[name |-> n]>>, "get") /\ Send(c, what, n, k)
  BY DEF Fetch
<1> DEFINE e == [name |-> n]
<1>2. e \in [name : Names] /\ e.name = n
  OBVIOUS
<1> HIDE DEF e
<1>3. /\ Fits("show", <<e>>, "get") /\ Len(<<e>>) = 1 /\ Head(<<e>>) = e
      /\ <<what, "show">> \in Serves
  BY <1>2, OneEntry DEF Fits, Serves
<1>4. Begin(k, "show", <<e>>, "get")
  BY <1>1 DEF e
<1>5. call[c].op = "none" /\ object' = object /\ view' = [view EXCEPT ![c].quiet = TRUE]
  BY DEF Fetch
<1> QED
  BY <1>1, <1>2, <1>3, <1>4, <1>5, AskingKeeps

LEMMA ClientPopulateKeeps ==
  ASSUME CInv, NEW c \in Clients, ClientPopulate(c)
  PROVE  CInv'
<1>1. PICK k \in Callers, e \in Bodies :
        /\ MayMake(1) /\ Begin(k, "populate", <<e>>, "lock")
        /\ Send(c, "populate", e.name, k)
  BY DEF ClientPopulate
<1>2. e \in Entry /\ e.name \in Names
  BY RegistryAssumption DEF Entry
<1>3. /\ Fits("populate", <<e>>, "lock") /\ Len(<<e>>) = 1 /\ Head(<<e>>) = e
      /\ <<"populate", "populate">> \in Serves
  BY <1>1, <1>2, OneEntry DEF Fits, Serves, Making
<1>4. call[c].op = "none" /\ object' = object /\ view' = [view EXCEPT ![c].quiet = TRUE]
  BY DEF ClientPopulate
<1> QED
  BY <1>1, <1>2, <1>3, <1>4, AskingKeeps

LEMMA DeleteKeeps ==
  ASSUME CInv, NEW c \in Clients, Delete(c)
  PROVE  CInv'
<1> DEFINE e == [name |-> object[c].name]
           n == object[c].name
<1>1. object[c] \in Object
  BY DEF CInv, ClientTypeOK, Delete
<1>2. e \in [name : Names] /\ e.name = n /\ n \in Names
  BY <1>1 DEF Object
<1>3. PICK k \in Callers : Begin(k, "delete", <<e>>, "lock") /\ Send(c, "delete", n, k)
  BY DEF Delete
<1> HIDE DEF e, n
<1>4. /\ Fits("delete", <<e>>, "lock") /\ Len(<<e>>) = 1 /\ Head(<<e>>) = e
      /\ <<"delete", "delete">> \in Serves
  BY <1>2, OneEntry DEF Fits, Serves
<1>5. call[c].op = "none" /\ object' = object /\ view' = view
  BY DEF Delete
<1> QED
  BY <1>2, <1>3, <1>4, <1>5, AskingKeeps

LEMMA ClientResetKeeps ==
  ASSUME CInv, NEW c \in Clients, ClientReset(c)
  PROVE  CInv'
<1>1. PICK k \in Callers : Begin(k, "reset", <<>>, "list") /\ Send(c, "reset", Nobody, k)
  BY DEF ClientReset, ResetState
<1>2. Fits("reset", <<>>, "list") /\ <<"reset", "reset">> \in Serves
  BY EmptySeq DEF Fits, Serves
<1>3. call[c].op = "none" /\ object' = object /\ view' = view
  BY DEF ClientReset
<1> QED
  BY <1>1, <1>2, <1>3, AskingKeeps

LEMMA SameRegistry ==
  ASSUME CInv, UNCHANGED <<registry, up>>
  PROVE  /\ IInv' /\ Made' = Made /\ (Init => Init')
         /\ UNCHANGED <<proxies, proxy, caller>>
<1>1. UNCHANGED vars
  BY DEF registry, vars
<1>2. IInv'
  BY <1>1, NextIInv DEF CInv
<1> QED
  BY <1>1, <1>2 DEF vars, Made, Init

(* The client goes on without an answer.                                   *)
LEMMA GiveUpKeeps ==
  ASSUME CInv, NEW c \in Clients, GiveUp(c)
  PROVE  CInv'
<1>1. /\ UNCHANGED <<registry, up, object, reply>> /\ Ended(c)
      /\ view' = [view EXCEPT ![c].quiet = FALSE]
  BY DEF GiveUp
<1>2. /\ IInv' /\ Made' = Made /\ (Init => Init')
      /\ UNCHANGED <<proxies, proxy, caller>>
  BY <1>1, SameRegistry
<1>3. /\ view \in [Clients -> View] /\ CallingOK(c) /\ FreshOK(c)
      /\ call \in [Clients ->
           [op : {"none", "save", "fetch", "toggle", "flip", "delete", "populate", "reset"},
            name : Names \cup {Nobody}, slot : Callers \cup {Nobody}]]
  BY DEF CInv, ClientTypeOK, View
<1>4. /\ call'[c] = NoCall
      /\ \A d \in Clients \ {c} : call'[d] = call[d]
      /\ call' \in [Clients ->
           [op : {"none", "save", "fetch", "toggle", "flip", "delete", "populate", "reset"},
            name : Names \cup {Nobody}, slot : Callers \cup {Nobody}]]
  BY <1>1, <1>3 DEF Ended, NoCall
<1>5. /\ view' \in [Clients -> View]
      /\ view'[c].known = view[c].known /\ view'[c].populated = view[c].populated
      /\ view'[c].fresh = view[c].fresh /\ view'[c].edited = view[c].edited
      /\ ~view'[c].quiet
      /\ \A d \in Clients \ {c} : view'[d] = view[d]
  <2> DEFINE v == [view[c] EXCEPT !.quiet = FALSE]
  <2>1. view' = [view EXCEPT ![c] = v]
    BY <1>1, <1>3
  <2>2. /\ v \in View /\ v.known = view[c].known /\ v.populated = view[c].populated
        /\ v.fresh = view[c].fresh /\ v.edited = view[c].edited /\ ~v.quiet
    BY <1>3 DEF View
  <2> HIDE DEF v
  <2> QED
    BY <1>3, <2>1, <2>2
<1>6. ClientTypeOK'
  BY <1>1, <1>2, <1>4, <1>5 DEF CInv, IInv, ClientTypeOK, View
<1>7. DownOK'
  BY <1>1, <1>2, <1>4, <1>5 DEF CInv, DownOK, NoCall
<1>8. ASSUME NEW k \in Callers PROVE AnswerOK(k)'
  BY <1>1, <1>2 DEF CInv, AnswerOK
<1>9. ASSUME NEW d \in Clients
      PROVE  CalledOK(d)' /\ CallingOK(d)' /\ QuietOK(d)' /\ FreshOK(d)'
  <2>1. CASE d = c
    <3>1. CalledOK(c)' /\ CallingOK(c)' /\ QuietOK(c)'
      BY <1>1, <1>3, <1>4, <1>5 DEF CalledOK, CallingOK, QuietOK, NoCall
    <3>2. FreshOK(c)'
      BY <1>1, <1>2, <1>3, <1>4, <1>5 DEF FreshOK, NoCall
    <3> QED
      BY <2>1, <3>1, <3>2
  <2>2. CASE d # c
    BY <1>1, <1>2, <1>4, <1>5, <2>2, Undisturbed
  <2> QED
    BY <2>1, <2>2
<1>10. OneEach'
  BY <1>4 DEF CInv, OneEach, NoCall
<1> QED
  BY <1>2, <1>6, <1>7, <1>8, <1>9, <1>10 DEF CInv

LEMMA NewProxyKeeps ==
  ASSUME CInv, NEW c \in Clients, NewProxy(c)
  PROVE  CInv'
<1>1. UNCHANGED <<registry, up, call, reply>> /\ call[c].op = "none"
  BY DEF NewProxy
<1>2. /\ IInv' /\ Made' = Made /\ (Init => Init')
      /\ UNCHANGED <<proxies, proxy, caller>>
  BY <1>1, SameRegistry
<1>3. /\ object \in [Clients -> Object \cup {Nobody}] /\ view \in [Clients -> View]
      /\ CallingOK(c) /\ CalledOK(c)
  BY DEF CInv, ClientTypeOK, View
<1>4. /\ object' \in [Clients -> Object \cup {Nobody}]
      /\ \A d \in Clients \ {c} : object'[d] = object[d]
  <2>1. PICK e \in Bodies :
          object' = [object EXCEPT ![c] =
            [name |-> e.name, listen |-> e.listen, enabled |-> e.start, created |-> FALSE]]
    BY DEF NewProxy
  <2>2. [name |-> e.name, listen |-> e.listen, enabled |-> e.start, created |-> FALSE]
          \in Object
    BY RegistryAssumption DEF Entry, Object
  <2> QED
    BY <1>3, <2>1, <2>2
<1>5. /\ view' \in [Clients -> View] /\ view'[c] = NoView
      /\ \A d \in Clients \ {c} : view'[d] = view[d]
  <2>1. view' = [view EXCEPT ![c] = NoView]
    BY DEF NewProxy
  <2>2. NoView \in View
    BY DEF NoView, View
  <2> QED
    BY <1>3, <2>1, <2>2
<1>6. ClientTypeOK'
  BY <1>1, <1>2, <1>4, <1>5 DEF CInv, IInv, ClientTypeOK, View
<1>7. DownOK'
  BY <1>1, <1>2, <1>5 DEF CInv, DownOK, NoView
<1>8. ASSUME NEW k \in Callers PROVE AnswerOK(k)'
  BY <1>1, <1>2 DEF CInv, AnswerOK
<1>9. ASSUME NEW d \in Clients
      PROVE  CalledOK(d)' /\ CallingOK(d)' /\ QuietOK(d)' /\ FreshOK(d)'
  <2>1. CASE d = c
    <3>1. CalledOK(c)' /\ CallingOK(c)' /\ QuietOK(c)' /\ FreshOK(c)'
      BY <1>1, <1>3, <1>5 DEF CalledOK, CallingOK, QuietOK, FreshOK, NoView
    <3> QED
      BY <2>1, <3>1
  <2>2. CASE d # c
    BY <1>1, <1>2, <1>4, <1>5, <2>2, Undisturbed
  <2> QED
    BY <2>1, <2>2
<1>10. OneEach'
  BY <1>1 DEF CInv, OneEach
<1> QED
  BY <1>2, <1>6, <1>7, <1>8, <1>9, <1>10 DEF CInv

(* One more field of an answer is read.                                    *)
LEMMA MarshalKeeps ==
  ASSUME CInv, NEW k \in Callers, Marshal(k)
  PROVE  CInv'
<1> DEFINE p == proxy[caller[k].at]
           r == IF reply[k].listen = Nobody THEN [reply[k] EXCEPT !.listen = p.listen]
                ELSE [reply[k] EXCEPT !.enabled = p.enabled]
<1>1. /\ UNCHANGED <<registry, up, call, object, view>> /\ caller[k].pc = "answer"
      /\ caller[k].at # Nobody /\ reply[k].enabled = Nobody
  BY DEF Marshal, HasBody
<1>2. /\ IInv' /\ Made' = Made /\ (Init => Init')
      /\ UNCHANGED <<proxies, proxy, caller>>
  BY <1>1, SameRegistry
<1>3. reply \in [Callers -> [listen : Addresses \cup {Nobody}, enabled : BOOLEAN \cup {Nobody}]]
  BY DEF CInv, ClientTypeOK
<1>4. reply' = [reply EXCEPT ![k] = r]
  BY <1>3 DEF Marshal
<1>5. p \in ProxyRecord
  BY <1>1, MadeProxies DEF CInv, AnswerOK, IInv, ProxyRecord
<1>6. /\ r \in [listen : Addresses \cup {Nobody}, enabled : BOOLEAN \cup {Nobody}]
      /\ r.listen = IF reply[k].listen = Nobody THEN p.listen ELSE reply[k].listen
      /\ r.enabled = IF reply[k].listen = Nobody THEN Nobody ELSE p.enabled
  BY <1>1, <1>3, <1>5 DEF ProxyRecord
<1> HIDE DEF r
<1>7. /\ reply' \in [Callers -> [listen : Addresses \cup {Nobody},
                                 enabled : BOOLEAN \cup {Nobody}]]
      /\ reply'[k] = r
      /\ \A j \in Callers \ {k} : reply'[j] = reply[j]
  BY <1>3, <1>4, <1>6
<1>8. ClientTypeOK' /\ DownOK' /\ OneEach'
  BY <1>1, <1>2, <1>7 DEF CInv, IInv, ClientTypeOK, DownOK, OneEach
<1>9. ASSUME NEW j \in Callers PROVE AnswerOK(j)'
  <2>1. CASE j = k
    BY <1>1, <1>2, <1>5, <1>6, <1>7, <2>1, RegistryAssumption DEF CInv, AnswerOK, ProxyRecord
  <2>2. CASE j # k
    BY <1>2, <1>7, <2>2 DEF CInv, AnswerOK
  <2> QED
    BY <2>1, <2>2
<1>10. ASSUME NEW d \in Clients
       PROVE  CalledOK(d)' /\ CallingOK(d)' /\ QuietOK(d)' /\ FreshOK(d)'
  <2>1. call[d].slot \in Callers \cup {Nobody}
    BY DEF CInv, ClientTypeOK
  <2>2. CASE call[d].slot = k
    <3>1. CalledOK(d) /\ CallingOK(d) /\ QuietOK(d) /\ FreshOK(d)
      BY DEF CInv
    <3>2. CalledOK(d)' /\ CallingOK(d)' /\ FreshOK(d)'
      BY <1>1, <1>2, <3>1 DEF CalledOK, CallingOK, FreshOK, Request
    <3>3. QuietOK(d)'
      BY <1>1, <1>2, <1>6, <1>7, <2>2, <3>1 DEF QuietOK
    <3> QED
      BY <3>2, <3>3
  <2>3. CASE call[d].slot # k
    BY <1>1, <1>2, <1>7, <2>1, <2>3, Undisturbed
  <2> QED
    BY <2>2, <2>3
<1> QED
  BY <1>2, <1>8, <1>9, <1>10 DEF CInv

(* A handler is done with its answer.                                      *)
LEMMA DoneKeeps ==
  ASSUME CInv, NEW k \in Callers, caller[k].pc = "answer", Done(k),
         UNCHANGED <<proxies, writer, mutex, proxy, revived, up>>
  PROVE  /\ IInv' /\ Made' = Made /\ up
         /\ reply' \in [Callers -> [listen : Addresses \cup {Nobody},
                                    enabled : BOOLEAN \cup {Nobody}]]
         /\ \A j \in Callers : AnswerOK(j)'
         /\ \A j \in Callers \ {k} : caller'[j] = caller[j] /\ reply'[j] = reply[j]
<1>1. Answer(k)
  BY DEF Answer, Done
<1>2. IInv' /\ Made' = Made
  BY <1>1, AnswerKeeps DEF CInv, Made
<1>3. /\ caller \in [Callers -> Call]
      /\ reply \in [Callers -> [listen : Addresses \cup {Nobody},
                                enabled : BOOLEAN \cup {Nobody}]]
  BY DEF CInv, IInv, TypeOK, ClientTypeOK
<1>4. /\ caller'[k] = Idle /\ reply'[k] = NoReply
      /\ reply' \in [Callers -> [listen : Addresses \cup {Nobody},
                                 enabled : BOOLEAN \cup {Nobody}]]
      /\ \A j \in Callers \ {k} : caller'[j] = caller[j] /\ reply'[j] = reply[j]
  BY <1>3 DEF Done, Return, NoReply
<1>5. \A j \in Callers : AnswerOK(j)'
  BY <1>2, <1>4 DEF CInv, AnswerOK, Idle, NoReply
<1>6. up
  BY DEF CInv, DownOK, Init, Idle
<1> QED
  BY <1>2, <1>4, <1>5, <1>6

LEMMA DroppedKeeps ==
  ASSUME CInv, NEW k \in Callers, Dropped(k)
  PROVE  CInv'
<1>1. /\ caller[k].pc = "answer" /\ ~Waited(k) /\ Done(k)
      /\ UNCHANGED <<proxies, writer, mutex, proxy, revived, up, call, object, view>>
  BY DEF Dropped
<1>2. /\ IInv' /\ Made' = Made /\ up
      /\ reply' \in [Callers -> [listen : Addresses \cup {Nobody},
                                 enabled : BOOLEAN \cup {Nobody}]]
      /\ \A j \in Callers : AnswerOK(j)'
      /\ \A j \in Callers \ {k} : caller'[j] = caller[j] /\ reply'[j] = reply[j]
  BY <1>1, DoneKeeps
<1>3. \A d \in Clients : call[d].slot # k /\ call[d].slot \in Callers \cup {Nobody}
  BY <1>1 DEF Waited, CInv, ClientTypeOK
<1>4. \A d \in Clients : CalledOK(d)' /\ CallingOK(d)' /\ QuietOK(d)' /\ FreshOK(d)'
  BY <1>1, <1>2, <1>3, Undisturbed
<1>5. ClientTypeOK' /\ DownOK' /\ OneEach'
  BY <1>1, <1>2 DEF CInv, IInv, ClientTypeOK, DownOK, OneEach
<1> QED
  BY <1>2, <1>4, <1>5 DEF CInv

(* A client takes the answer to its call: what it has then is up to the    *)
(* answer, and the other clients do not notice.                            *)
LEMMA TakenKeeps ==
  ASSUME CInv, NEW c \in Clients, NEW k \in Callers, k = call[c].slot,
         caller[k].pc = "answer", Done(k),
         UNCHANGED <<proxies, writer, mutex, proxy, revived, up>>,
         Ended(c) \/ call' = [call EXCEPT ![c].op = "flip", ![c].slot = Nobody],
         object' \in [Clients -> Object \cup {Nobody}], view' \in [Clients -> View],
         \A d \in Clients \ {c} : object'[d] = object[d] /\ view'[d] = view[d],
         call'[c].op = "flip" => object'[c] # Nobody,
         view'[c].known # Nobody =>
           object'[c] # Nobody /\ (object'[c].created \/ view'[c].populated),
         ~view'[c].quiet,
         Made' = Made => FreshOK(c)'
  PROVE  CInv'
<1>1. /\ IInv' /\ Made' = Made /\ up
      /\ reply' \in [Callers -> [listen : Addresses \cup {Nobody},
                                 enabled : BOOLEAN \cup {Nobody}]]
      /\ \A j \in Callers : AnswerOK(j)'
      /\ \A j \in Callers \ {k} : caller'[j] = caller[j] /\ reply'[j] = reply[j]
  BY DoneKeeps
<1>2. /\ k # Nobody
      /\ call \in [Clients ->
           [op : {"none", "save", "fetch", "toggle", "flip", "delete", "populate", "reset"},
            name : Names \cup {Nobody}, slot : Callers \cup {Nobody}]]
  BY RegistryAssumption DEF CInv, ClientTypeOK
<1>3. /\ call'[c].op \in {"none", "flip"} /\ call'[c].slot = Nobody
      /\ \A d \in Clients \ {c} : call'[d] = call[d]
      /\ call' \in [Clients ->
           [op : {"none", "save", "fetch", "toggle", "flip", "delete", "populate", "reset"},
            name : Names \cup {Nobody}, slot : Callers \cup {Nobody}]]
  <2>1. CASE Ended(c)
    BY <1>2, <2>1 DEF Ended, NoCall
  <2>2. CASE call' = [call EXCEPT ![c].op = "flip", ![c].slot = Nobody]
    BY <1>2, <2>2
  <2> QED
    BY <2>1, <2>2
<1>4. \A d \in Clients \ {c} : call[d].slot # k /\ call[d].slot \in Callers \cup {Nobody}
  BY <1>2 DEF CInv, OneEach
<1>5. ASSUME NEW d \in Clients \ {c}
      PROVE  CalledOK(d)' /\ CallingOK(d)' /\ QuietOK(d)' /\ FreshOK(d)'
  BY <1>1, <1>3, <1>4, Undisturbed
<1>6. CalledOK(c)' /\ CallingOK(c)' /\ QuietOK(c)' /\ FreshOK(c)'
  BY <1>1, <1>3 DEF CalledOK, CallingOK, QuietOK
<1>7. ClientTypeOK' /\ DownOK'
  BY <1>1, <1>3 DEF CInv, IInv, ClientTypeOK, View, DownOK
<1>8. OneEach'
  BY <1>3 DEF CInv, OneEach
<1> QED
  BY <1>1, <1>5, <1>6, <1>7, <1>8 DEF CInv

LEMMA ReceiveNoneKeeps ==
  ASSUME CInv, NEW c \in Clients, ReceiveNone(c)
  PROVE  CInv'
<1> DEFINE k == call[c].slot
           v == [view[c] EXCEPT !.quiet = FALSE]
<1>1. /\ k # Nobody /\ caller[k].pc = "answer" /\ Ended(c) /\ Done(k)
      /\ view' = [view EXCEPT ![c].quiet = FALSE]
      /\ UNCHANGED <<proxies, writer, mutex, proxy, revived, up, object>>
  BY DEF ReceiveNone
<1>2. /\ object \in [Clients -> Object \cup {Nobody}] /\ view \in [Clients -> View]
      /\ call \in [Clients ->
           [op : {"none", "save", "fetch", "toggle", "flip", "delete", "populate", "reset"},
            name : Names \cup {Nobody}, slot : Callers \cup {Nobody}]]
      /\ CallingOK(c) /\ FreshOK(c)
  BY DEF CInv, ClientTypeOK, View
<1>3. k \in Callers
  BY <1>1, <1>2
<1>4. view' = [view EXCEPT ![c] = v]
  BY <1>1, <1>2
<1>5. /\ v \in View /\ v.known = view[c].known /\ v.populated = view[c].populated
      /\ v.fresh = view[c].fresh /\ v.edited = view[c].edited /\ ~v.quiet
  BY <1>2 DEF View
<1>a. k = call[c].slot
  OBVIOUS
<1> HIDE DEF v, k
<1>6. /\ view' \in [Clients -> View] /\ view'[c] = v
      /\ \A d \in Clients \ {c} : view'[d] = view[d]
  BY <1>2, <1>4, <1>5
<1>7. call'[c] = NoCall /\ call'[c].op # "flip"
  BY <1>1, <1>2 DEF Ended, NoCall
<1>8. Made' = Made => FreshOK(c)'
  BY <1>1, <1>2, <1>5, <1>6, <1>7 DEF FreshOK, NoCall
<1>9. view'[c].known # Nobody =>
        object'[c] # Nobody /\ (object'[c].created \/ view'[c].populated)
  BY <1>1, <1>2, <1>5, <1>6 DEF CallingOK
<1> QED
  BY <1>1, <1>2, <1>3, <1>a, <1>5, <1>6, <1>7, <1>8, <1>9, TakenKeeps

(* The answer becomes the object; it is current if nothing but the call    *)
(* itself has changed anything.                                            *)
LEMMA ReceiveKeeps ==
  ASSUME CInv, NEW c \in Clients, Receive(c)
  PROVE  CInv'
<1> DEFINE k == call[c].slot
           o == Updated(c)
           v == [known |-> caller[k].at, fresh |-> view[c].quiet, quiet |-> FALSE,
                 edited |-> {}, populated |-> call[c].op = "populate"]
<1>1. /\ k # Nobody /\ caller[k].pc = "answer" /\ caller[k].at # Nobody
      /\ reply[k].enabled # Nobody /\ Done(k)
      /\ UNCHANGED <<proxies, writer, mutex, proxy, revived, up>>
      /\ object' = [object EXCEPT ![c] = o]
      /\ Ended(c) \/ call' = [call EXCEPT ![c].op = "flip", ![c].slot = Nobody]
  BY DEF Receive, HasBody
<1>2. /\ object \in [Clients -> Object \cup {Nobody}] /\ view \in [Clients -> View]
      /\ call \in [Clients ->
           [op : {"none", "save", "fetch", "toggle", "flip", "delete", "populate", "reset"},
            name : Names \cup {Nobody}, slot : Callers \cup {Nobody}]]
      /\ reply \in [Callers -> [listen : Addresses \cup {Nobody},
                                enabled : BOOLEAN \cup {Nobody}]]
      /\ CalledOK(c) /\ QuietOK(c)
  BY DEF CInv, ClientTypeOK, View
<1>3. k \in Callers /\ view[c] \in View
  BY <1>1, <1>2
<1>4. /\ caller[k].at \in Made /\ caller[k].at \in Pointers
      /\ reply[k].listen # Nobody
      /\ reply[k].listen \in Addresses /\ reply[k].enabled \in BOOLEAN
  BY <1>1, <1>2, <1>3, MadeProxies DEF CInv, AnswerOK, IInv
<1>5. call[c].op \notin {"none", "delete", "reset"} /\ call[c].name \in Names
  BY <1>1, <1>2 DEF CalledOK
<1>6. /\ o \in Object /\ o # Nobody /\ o.name = call[c].name
      /\ o.listen = reply[k].listen /\ o.enabled = reply[k].enabled
      /\ o.created \/ call[c].op = "populate"
  <2> DEFINE b == call[c].op # "populate"
  <2>1. b \in BOOLEAN /\ (b \/ call[c].op = "populate")
    OBVIOUS
  <2>2. o = [name |-> call[c].name, listen |-> reply[k].listen,
             enabled |-> reply[k].enabled, created |-> b]
    BY DEF Updated, Said
  <2> HIDE DEF b, o
  <2> QED
    BY <1>4, <1>5, <2>1, <2>2, ClientAssumption DEF Object
<1>7. view' = [view EXCEPT ![c] = v]
  BY <1>2 DEF Receive
<1>8. /\ v \in View /\ v.known = caller[k].at /\ v.fresh = view[c].quiet /\ ~v.quiet
      /\ v.edited = {} /\ (call[c].op = "populate" => v.populated)
  <2> DEFINE b == call[c].op = "populate"
  <2>1. b \in BOOLEAN /\ (call[c].op = "populate" => b)
    OBVIOUS
  <2>2. v = [known |-> caller[k].at, fresh |-> view[c].quiet, quiet |-> FALSE,
             edited |-> {}, populated |-> b]
    OBVIOUS
  <2> HIDE DEF b, v
  <2> QED
    BY <1>3, <1>4, <2>1, <2>2 DEF View
<1> HIDE DEF v, o
<1>9. /\ view' \in [Clients -> View] /\ view'[c] = v
      /\ \A d \in Clients \ {c} : view'[d] = view[d]
      /\ object' \in [Clients -> Object \cup {Nobody}] /\ object'[c] = o
      /\ \A d \in Clients \ {c} : object'[d] = object[d]
  BY <1>1, <1>2, <1>6, <1>7, <1>8
<1>10. ASSUME Made' = Made PROVE FreshOK(c)'
  <2>1. view[c].quiet =>
          /\ proxies[call[c].name] = caller[k].at
          /\ reply[k].listen = proxy[caller[k].at].listen
          /\ reply[k].enabled = proxy[caller[k].at].enabled
    BY <1>1, <1>2, <1>4 DEF QuietOK
  <2>2. call'[c].op # "save"
    BY <1>1, <1>2 DEF Ended, NoCall
  <2> QED
    BY <1>1, <1>4, <1>6, <1>8, <1>9, <1>10, <2>1, <2>2 DEF FreshOK
<1>11. view'[c].known # Nobody =>
         object'[c] # Nobody /\ (object'[c].created \/ view'[c].populated)
  BY <1>6, <1>8, <1>9
<1> QED
  BY <1>1, <1>3, <1>6, <1>8, <1>9, <1>10, <1>11, TakenKeeps
-----------------------------------------------------------------------------
(* The lives of the server.                                                *)

LEMMA InitPrimed == (Init => IInv)'
BY InitIInv, PTL

LEMMA ExitKeeps ==
  ASSUME CInv, Exit
  PROVE  CInv'
<1>1. Init'
  BY DEF Exit, Init
<1>2. IInv' /\ up' = FALSE
  BY <1>1, InitPrimed DEF Exit
<1>3. \A k \in Callers : caller'[k] = Idle /\ reply'[k] = NoReply
  BY DEF Exit
<1>4. /\ object \in [Clients -> Object \cup {Nobody}] /\ view \in [Clients -> View]
      /\ call \in [Clients ->
           [op : {"none", "save", "fetch", "toggle", "flip", "delete", "populate", "reset"},
            name : Names \cup {Nobody}, slot : Callers \cup {Nobody}]]
      /\ object' = object
  BY DEF CInv, ClientTypeOK, View, Exit
<1>5. /\ call' \in [Clients ->
           [op : {"none", "save", "fetch", "toggle", "flip", "delete", "populate", "reset"},
            name : Names \cup {Nobody}, slot : Callers \cup {Nobody}]]
      /\ \A c \in Clients :
           /\ call'[c].slot = Nobody
           /\ call'[c].op = call[c].op \/ call'[c].op = "none"
  BY <1>4 DEF Exit, NoCall
<1>6. /\ view' \in [Clients -> View]
      /\ \A c \in Clients : view'[c].known = Nobody /\ ~view'[c].fresh /\ ~view'[c].quiet
  <2>1. \A c \in Clients :
          view'[c] = [view[c] EXCEPT !.known = Nobody, !.fresh = FALSE, !.quiet = FALSE,
                                     !.edited = {}]
    BY DEF Exit
  <2>2. ASSUME NEW c \in Clients
        PROVE  /\ view'[c] \in View
               /\ view'[c].known = Nobody /\ ~view'[c].fresh /\ ~view'[c].quiet
    <3> DEFINE v == [view[c] EXCEPT !.known = Nobody, !.fresh = FALSE, !.quiet = FALSE,
                                    !.edited = {}]
    <3>1. view[c] \in View
      BY <1>4
    <3>2. v \in View /\ v.known = Nobody /\ ~v.fresh /\ ~v.quiet
      BY <3>1 DEF View
    <3> QED
      BY <2>1, <3>2
  <2>3. view' = [c \in Clients |-> view'[c]]
    BY DEF Exit
  <2> QED
    BY <2>2, <2>3
<1>7. ClientTypeOK'
  <2>1. reply' \in [Callers -> [listen : Addresses \cup {Nobody},
                                enabled : BOOLEAN \cup {Nobody}]]
    BY DEF Exit, NoReply
  <2> QED
    BY <1>2, <1>4, <1>5, <1>6, <2>1 DEF ClientTypeOK, IInv, View
<1>8. DownOK' /\ OneEach'
  BY <1>1, <1>5, <1>6 DEF DownOK, OneEach
<1>9. \A k \in Callers : AnswerOK(k)'
  BY <1>3 DEF AnswerOK, Idle, NoReply
<1>10. ASSUME NEW c \in Clients
       PROVE  CalledOK(c)' /\ CallingOK(c)' /\ QuietOK(c)' /\ FreshOK(c)'
  <2>1. CalledOK(c)'
    BY <1>4, <1>5, <1>6 DEF CInv, CalledOK
  <2>2. CallingOK(c)'
    BY <1>4, <1>5, <1>6 DEF CInv, CallingOK
  <2>3. QuietOK(c)'
    BY <1>4, <1>5, <1>6 DEF CInv, QuietOK
  <2>4. FreshOK(c)'
    BY <1>4, <1>5, <1>6 DEF CInv, FreshOK
  <2> QED
    BY <2>1, <2>2, <2>3, <2>4
<1> QED
  BY <1>2, <1>7, <1>8, <1>9, <1>10 DEF CInv

(* What PopulateConfig makes is listed by its name, which no other entry   *)
(* of the configuration has, and listens where its address stands for.     *)
LEMMA BootKeeps ==
  ASSUME CInv, Boot
  PROVE  CInv'
<1>1. /\ ~up /\ up' = TRUE
      /\ UNCHANGED <<writer, mutex, caller, revived, call, object, reply, view>>
  BY DEF Boot
<1>0. PICK n \in 0 .. Len(Config) :
       /\ proxy' \in [1 .. n -> [listen : Addresses, given : Addresses, enabled : BOOLEAN]]
       /\ \A i \in 1 .. n :
            /\ proxy'[i].given = Config[i].listen /\ proxy'[i].enabled = Config[i].start
            /\ IF Config[i].start THEN proxy'[i].listen \in Binds[Config[i].listen]
               ELSE proxy'[i].listen = Config[i].listen
            /\ \A j \in 1 .. i - 1 :
                 Config[i].start /\ Config[j].start => proxy'[j].listen # proxy'[i].listen
       /\ proxies' = [m \in Names |->
            IF \E i \in 1 .. n : Config[i].name = m
            THEN CHOOSE i \in 1 .. n : Config[i].name = m ELSE Nobody]
       /\ n < Len(Config) => Config[n + 1].start
  BY Zenon DEF Boot
<1>2. /\ proxy' \in [1 .. n -> ProxyRecord]
      /\ \A i \in 1 .. n :
           /\ proxy'[i].given = Config[i].listen /\ proxy'[i].enabled = Config[i].start
           /\ IF Config[i].start THEN proxy'[i].listen \in Binds[Config[i].listen]
              ELSE proxy'[i].listen = Config[i].listen
      /\ proxies' = [m \in Names |->
           IF \E i \in 1 .. n : Config[i].name = m
           THEN CHOOSE i \in 1 .. n : Config[i].name = m ELSE Nobody]
  BY <1>0, Zenon DEF ProxyRecord
<1>3. Init /\ \A c \in Clients : call[c].slot = Nobody /\ ~view[c].fresh
  BY <1>1 DEF CInv, DownOK
<1>4. /\ n \in Nat /\ n <= Len(Config) /\ n <= MaxProxies /\ 1 .. n \subseteq DOMAIN Config
      /\ \A i \in 1 .. n : Config[i] \in Entry
  <2>1. Config \in Seq(Entry) /\ Len(Config) \in Nat /\ Len(Config) <= MaxProxies
    BY ClientAssumption
  <2>2. n \in Nat /\ n <= Len(Config) /\ n <= MaxProxies /\ DOMAIN Config = 1 .. Len(Config)
    BY <1>2, <2>1, RegistryAssumption
  <2>3. 1 .. n \subseteq DOMAIN Config
    BY <2>2
  <2> QED
    BY <2>1, <2>2, <2>3, ElementOfSeq
<1>5. proxy' \in Seq(ProxyRecord) /\ Len(proxy') = n /\ Made' = 1 .. n
  <2>1. proxy' \in Seq(ProxyRecord)
    BY <1>2, <1>4, IsASeq
  <2>2. Len(proxy') = n
    BY <1>2, <1>4, <2>1
  <2> QED
    BY <2>1, <2>2 DEF Made
<1>6. /\ proxies' \in [Names -> (1 .. n) \cup {Nobody}]
      /\ \A i \in 1 .. n : proxies'[Config[i].name] = i
  <2>1. ASSUME NEW m \in Names
        PROVE  proxies'[m] \in (1 .. n) \cup {Nobody}
    BY <1>2
  <2>2. ASSUME NEW i \in 1 .. n
        PROVE  proxies'[Config[i].name] = i
    <3>1. Config[i].name \in Names
      BY <1>4 DEF Entry
    <3>2. \A j \in 1 .. n : Config[j].name = Config[i].name => j = i
      BY <1>4, ClientAssumption
    <3>3. proxies'[Config[i].name] = CHOOSE j \in 1 .. n : Config[j].name = Config[i].name
      BY <1>2, <3>1
    <3> QED
      BY <3>2, <3>3
  <2> QED
    BY <1>2, <2>1, <2>2
<1>7. TypeOK'
  <2>1. 1 .. n \subseteq Pointers
    BY <1>4, RegistryAssumption DEF Pointers
  <2>2. TypeOK
    BY DEF CInv, IInv
  <2> QED
    BY <1>1, <1>4, <1>5, <1>6, <2>1, <2>2 DEF TypeOK, ProxyRecord
<1>8. (Listed \subseteq Made)'
  BY <1>5, <1>6 DEF Listed
<1>9. \A k \in Callers : caller'[k] = Idle
  BY <1>1, <1>3 DEF Init
<1>10. CallsOK'
  <2>1. \A k \in Callers : writer' # k
    BY <1>1, <1>3, RegistryAssumption DEF Init
  <2>2. ASSUME NEW k \in Callers PROVE CallOK(k)'
    <3>1. /\ caller'[k] = Idle /\ caller'[k].pc = "idle" /\ caller'[k].op = "none"
          /\ caller'[k].left = {}
      BY <1>9 DEF Idle
    <3> QED
      BY <2>1, <3>1 DEF CallOK, Locked, Making
  <2> QED
    BY <2>2 DEF CallsOK
<1>11. RoomLeft'
  <2>1. Pending' = {}
    BY <1>9 DEF Pending, Idle
  <2>2. Cardinality(Pending') = 0
    BY <2>1, FS_EmptySet
  <2> QED
    BY <1>4, <1>5, <2>2 DEF RoomLeft
<1>12. AddressesOK'
  BY <1>2, <1>5 DEF AddressesOK, Enabled
<1>13. ListeningListed'
  <2>1. ASSUME NEW i \in 1 .. n PROVE i \in Listed'
    <3>1. Config[i].name \in Names /\ proxies'[Config[i].name] = i /\ i # Nobody
      BY <1>4, <1>6, RegistryAssumption DEF Entry, Pointers
    <3> QED
      BY <3>1 DEF Listed
  <2> QED
    BY <1>5, <2>1 DEF ListeningListed
<1>14. ListeningLetGo'
  BY <1>9 DEF ListeningLetGo, Idle
<1>15. IInv'
  BY <1>7, <1>8, <1>10, <1>11, <1>12, <1>13, <1>14 DEF IInv
<1>16. ClientTypeOK' /\ DownOK' /\ OneEach'
  BY <1>1, <1>7 DEF CInv, ClientTypeOK, DownOK, OneEach
<1>17. \A k \in Callers : AnswerOK(k)'
  BY <1>1, <1>9 DEF CInv, AnswerOK, Idle
<1>18. ASSUME NEW c \in Clients
       PROVE  CalledOK(c)' /\ CallingOK(c)' /\ QuietOK(c)' /\ FreshOK(c)'
  <2>1. CalledOK(c)'
    BY <1>1, <1>3 DEF CInv, CalledOK
  <2>2. CallingOK(c)'
    BY <1>1, <1>3 DEF CInv, CallingOK
  <2>3. QuietOK(c)'
    BY <1>1, <1>3 DEF CInv, QuietOK
  <2>4. FreshOK(c)'
    BY <1>1, <1>3 DEF CInv, FreshOK
  <2> QED
    BY <2>1, <2>2, <2>3, <2>4
<1> QED
  BY <1>15, <1>16, <1>17, <1>18 DEF CInv

LEMMA InitCInv == ClientInit => CInv
<1> SUFFICES ASSUME ClientInit PROVE CInv
  OBVIOUS
<1>1. /\ Init /\ up = FALSE
      /\ \A c \in Clients : call[c] = NoCall /\ object[c] = Nobody /\ view[c] = NoView
      /\ \A k \in Callers : caller[k] = Idle /\ reply[k] = NoReply
  BY DEF ClientInit, Init
<1>2. IInv
  BY <1>1, InitIInv
<1>3. ClientTypeOK
  BY <1>2 DEF ClientInit, IInv, ClientTypeOK, NoCall, NoView, NoReply
<1>4. DownOK /\ OneEach
  BY <1>1 DEF DownOK, OneEach, NoCall, NoView
<1>5. \A k \in Callers : AnswerOK(k)
  BY <1>1 DEF AnswerOK, Idle, NoReply
<1>6. ASSUME NEW c \in Clients
      PROVE  CalledOK(c) /\ CallingOK(c) /\ QuietOK(c) /\ FreshOK(c)
  <2>1. /\ call[c].slot = Nobody /\ call[c].op = "none" /\ object[c] = Nobody
        /\ view[c].known = Nobody /\ ~view[c].fresh /\ ~view[c].quiet
    BY <1>1 DEF NoCall, NoView
  <2>2. CalledOK(c) /\ QuietOK(c)
    BY <2>1 DEF CalledOK, QuietOK
  <2>3. CallingOK(c)
    BY <2>1 DEF CallingOK
  <2>4. FreshOK(c)
    BY <2>1 DEF FreshOK
  <2> QED
    BY <2>2, <2>3, <2>4
<1> QED
  BY <1>2, <1>3, <1>4, <1>5, <1>6 DEF CInv

LEMMA NextCInv == CInv /\ [ClientNext]_clientVars => CInv'
<1> SUFFICES ASSUME CInv, [ClientNext]_clientVars PROVE CInv'
  OBVIOUS
<1>1. CASE UNCHANGED clientVars
  <2>1. UNCHANGED <<registry, up, call, object, reply, view>>
    BY <1>1 DEF clientVars
  <2>2. /\ IInv' /\ Made' = Made /\ (Init => Init')
        /\ UNCHANGED <<proxies, proxy, caller>>
    BY <2>1, SameRegistry
  <2>3. \A c \in Clients : CalledOK(c)' /\ CallingOK(c)' /\ QuietOK(c)' /\ FreshOK(c)'
    BY <2>1, <2>2, Undisturbed
  <2>4. ClientTypeOK' /\ DownOK' /\ OneEach' /\ \A k \in Callers : AnswerOK(k)'
    BY <2>1, <2>2 DEF CInv, IInv, ClientTypeOK, DownOK, OneEach, AnswerOK
  <2> QED
    BY <2>2, <2>3, <2>4 DEF CInv
<1>2. ASSUME NEW c \in Clients,
             \/ NewProxy(c) \/ Save(c) \/ Flip(c) \/ Fetch(c) \/ ClientPopulate(c)
             \/ Delete(c) \/ ClientReset(c)
             \/ Receive(c) \/ ReceiveNone(c) \/ GiveUp(c)
      PROVE  CInv'
  BY <1>2, NewProxyKeeps, SaveKeeps, FetchKeeps, ClientPopulateKeeps, DeleteKeeps,
     ClientResetKeeps, ReceiveKeeps, ReceiveNoneKeeps, GiveUpKeeps
<1>3. ASSUME NEW k \in Callers, Other(k) \/ Handle(k) \/ Marshal(k) \/ Dropped(k)
      PROVE  CInv'
  BY <1>3, OtherKeeps, HandleKeeps, MarshalKeeps, DroppedKeeps
<1> QED
  BY <1>1, <1>2, <1>3, BootKeeps, ExitKeeps DEF ClientNext

LEMMA SpecCInv == ClientSpec => []CInv
BY InitCInv, NextCInv, PTL DEF ClientSpec
-----------------------------------------------------------------------------
(* The theorems.                                                           *)

(* The registry, the calls, the objects, the answers and what is known of  *)
(* the objects have their types, whatever the clients and others ask for   *)
(* and whenever the server is stopped and started (client/client.go,       *)
(* client/proxy.go, api.go, cmd/server/server.go).                         *)
THEOREM ClientTypeCorrect == ClientSpec => []ClientTypeOK
<1>1. CInv => ClientTypeOK
  BY DEF CInv
<1> QED
  BY <1>1, SpecCInv, PTL

(* In every life of a server, the first moments after PopulateConfig       *)
(* included, no proxy listens that the collection does not list, but for   *)
(* those an update or a reset starts from a pointer it took before.        *)
THEOREM EveryLifeListed == ClientSpec => []NoneLeftListening
<1>1. CInv => NoneLeftListening
  BY DEF CInv, IInv, NoneLeftListening, ListeningListed
<1> QED
  BY <1>1, SpecCInv, PTL

(* An object that Save, Proxy, Enable or Populate has unmarshalled an      *)
(* answer into agrees with the listed proxy of its name as long as nobody  *)
(* has changed anything since the call was made, although the answer is    *)
(* read field by field after the locks are given back.                     *)
THEOREM CoherentCorrect == ClientSpec => []Coherent
<1>1. CInv => Coherent
  <2> SUFFICES ASSUME CInv, NEW c \in Clients, view[c].fresh, view[c].edited = {}
               PROVE  LET p == view[c].known IN
                      /\ p \in Listed /\ proxies[object[c].name] = p
                      /\ object[c].listen = proxy[p].listen
                      /\ object[c].enabled = proxy[p].enabled
    BY DEF Coherent
  <2>1. /\ object[c] # Nobody /\ view[c].known \in Made
        /\ proxies[object[c].name] = view[c].known
        /\ object[c].listen = proxy[view[c].known].listen
        /\ object[c].enabled = proxy[view[c].known].enabled
    BY DEF CInv, FreshOK
  <2>2. object[c].name \in Names
    BY <2>1 DEF CInv, ClientTypeOK, Object
  <2>3. view[c].known \in Listed
    BY <2>1, <2>2, MadeProxies DEF Listed, CInv, IInv
  <2> QED
    BY <2>1, <2>3
<1> QED
  BY <1>1, SpecCInv, PTL

(* Save creates only from an object without the mark that its proxy exists *)
(* and every answer but Populate's sets the mark, so that an object is not *)
(* refused because of the proxy it stands for (client/proxy.go:24, 40-71). *)
THEOREM NotItsOwnConflictCorrect == ClientSpec => []NotItsOwnConflict
<1>1. CInv => NotItsOwnConflict
  <2> SUFFICES ASSUME CInv, NEW c \in Clients, call[c].slot # Nobody, call[c].op = "save",
                      caller[call[c].slot].pc = "look", CannotAdd(call[c].slot)
               PROVE  view[c].populated \/ Existing(call[c].slot) # view[c].known
    BY DEF NotItsOwnConflict
  <2>1. ~object[c].created /\ Existing(call[c].slot) # Nobody
    BY DEF CInv, CalledOK, CannotAdd
  <2> QED
    BY <2>1 DEF CInv, CallingOK
<1> QED
  BY <1>1, SpecCInv, PTL

(* Only the handler itself goes on to toggle what it has changed.          *)
LEMMA OnlyChangeToggles ==
  ASSUME CInv, ClientNext, NEW k \in Callers,
         caller[k].pc = "change", caller'[k].pc = "toggle"
  PROVE  Change(k)
<1>1. caller \in [Callers -> Call] /\ IInv
  BY DEF CInv, IInv, TypeOK
<1>2. ASSUME NEW j \in Callers, Handle(j) PROVE Change(k)
  <2>1. Works(j) /\ Proceeds(j)
    BY <1>1, <1>2, WorksProceeds DEF Handle
  <2>2. j = k
    BY <2>1 DEF Proceeds
  <2> QED
    BY <2>1, <2>2 DEF Works, Waits, Lock, Stop, Get, ListProxies, ResetStarts, Rejected,
       Keep, Find, Drop, Make, MakeFails, Toggle
<1>3. ASSUME NEW j \in Callers, NEW op, NEW todo, NEW place, Begin(j, op, todo, place)
      PROVE  FALSE
  BY <1>1, <1>3 DEF Begin
<1>4. ASSUME NEW j, Return(j) PROVE FALSE
  BY <1>1, <1>4 DEF Return, Idle
<1>5. ~UNCHANGED caller
  OBVIOUS
<1>6. ~Boot /\ ~Exit
  <2>1. Boot => UNCHANGED caller
    BY DEF Boot
  <2>2. Exit => caller'[k] = Idle
    BY DEF Exit
  <2> QED
    BY <1>5, <2>1, <2>2 DEF Idle
<1>7. ASSUME NEW c \in Clients PROVE ~NewProxy(c) /\ ~GiveUp(c)
  BY <1>5 DEF NewProxy, GiveUp, registry
<1>8. ASSUME NEW c \in Clients PROVE ~Receive(c) /\ ~ReceiveNone(c)
  BY <1>4 DEF Receive, ReceiveNone, Done
<1>9. ASSUME NEW c \in Clients
      PROVE  ~Save(c) /\ ~Flip(c) /\ ~Fetch(c) /\ ~ClientPopulate(c) /\ ~Delete(c)
             /\ ~ClientReset(c)
  BY <1>3 DEF Save, Flip, Post, Fetch, ClientPopulate, Delete, ClientReset, ResetState
<1>10. ASSUME NEW j \in Callers PROVE ~Other(j) /\ ~Marshal(j) /\ ~Dropped(j)
  <2>1. ~Other(j)
    BY <1>3, AskBegins DEF Other
  <2>2. ~Marshal(j) /\ ~Dropped(j)
    BY <1>4, <1>5 DEF Marshal, registry, Dropped, Done
  <2> QED
    BY <2>1, <2>2
<1> QED
  BY <1>2, <1>6, <1>7, <1>8, <1>9, <1>10 DEF ClientNext

(* Saving a fresh object whose address has not been edited does not stop   *)
(* the proxy: the address it sends is one a listener is bound to, which    *)
(* resolves to itself, or that of a stopped proxy as it was given          *)
(* (Save of client/proxy.go; Differs and Update of proxy.go).              *)
THEOREM SaveKeepsListenerCorrect == ClientSpec => SaveKeepsListener
<1> DEFINE A == \A c \in Clients :
                  LET k == call[c].slot IN
                  (/\ call[c].op = "save" /\ k # Nobody /\ caller[k].pc = "change"
                   /\ view[c].fresh /\ "listen" \notin view[c].edited)
                    => (caller'[k].pc = "toggle" => proxy' = proxy)
<1>1. CInv /\ [ClientNext]_clientVars => [A]_clientVars
  <2> SUFFICES ASSUME CInv, ClientNext, NEW c \in Clients, NEW k, k = call[c].slot,
                      call[c].op = "save", k # Nobody, caller[k].pc = "change",
                      view[c].fresh, "listen" \notin view[c].edited,
                      caller'[k].pc = "toggle"
               PROVE  proxy' = proxy
    OBVIOUS
  <2> DEFINE p == caller[k].at
             e == Request(k)
  <2>1. /\ k \in Callers /\ IInv /\ AddressesOK /\ TypeOK /\ caller \in [Callers -> Call]
    BY DEF CInv, ClientTypeOK, IInv, TypeOK
  <2>2. Change(k)
    BY <2>1, OnlyChangeToggles
  <2>3. p = view[c].known /\ p \in Made /\ e.listen = proxy[p].listen
    <3>1. /\ proxies[object[c].name] = view[c].known /\ view[c].known \in Made
          /\ object[c].listen = proxy[view[c].known].listen /\ view[c].quiet
      BY DEF CInv, FreshOK
    <3>2. proxies[call[c].name] = p
      BY <3>1 DEF CInv, QuietOK
    <3>3. call[c].name = object[c].name /\ e.listen = object[c].listen
      <4>1. CalledOK(c) /\ caller[call[c].slot].pc # "answer"
        BY DEF CInv
      <4>2. e = [name |-> object[c].name, listen |-> object[c].listen,
                 start |-> object[c].enabled]
        BY <4>1 DEF CalledOK
      <4> QED
        BY <4>1, <4>2 DEF CalledOK
    <3> QED
      BY <3>1, <3>2, <3>3
  <2>4. proxy[p] \in ProxyRecord /\ proxy \in Seq(ProxyRecord)
    BY <2>1, <2>3, MadeProxies DEF ProxyRecord, TypeOK
  <2>5. CASE ~Differs(p, e)
    <3>1. ~Reply(k, Nobody, "address")
      BY <2>1, Replied DEF Errors
    <3> QED
      BY <2>2, <2>5, <3>1 DEF Change
  <2>6. CASE Differs(p, e)
    <3>1. Resolve[proxy[p].listen] # proxy[p].listen
      BY <2>3, <2>6 DEF Differs
    <3>2. proxy[p].listen \in Addresses /\ proxy[p].given \in Addresses
      BY <2>4 DEF ProxyRecord
    <3>3. proxy[p].listen \notin Binds[proxy[p].given]
      BY <3>1, <3>2, RegistryAssumption
    <3>4. proxy[p].given = proxy[p].listen /\ ~proxy[p].enabled
      BY <2>1, <2>3, <3>3 DEF AddressesOK, Enabled
    <3>5. proxy[p] = Stopped(e)
      BY <2>3, <2>4, <3>4 DEF ProxyRecord, Stopped
    <3>6. ~Reply(k, Nobody, "address")
      BY <2>1, Replied DEF Errors
    <3>7. proxy' = [proxy EXCEPT ![p] = Stopped(e)]
      BY <2>2, <2>6, <3>6 DEF Change
    <3> QED
      BY <2>4, <3>5, <3>7
  <2> QED
    BY <2>5, <2>6
<1> QED
  BY <1>1, SpecCInv, PTL DEF ClientSpec, SaveKeepsListener
=============================================================================
