------------------------------- MODULE Client -------------------------------
(***************************************************************************)
(* The Go client library (client/client.go, client/proxy.go) and the       *)
(* commands built from it (cmd/cli/cli.go) at work on the registry of a    *)
(* server that is stopped and started (cmd/server/server.go).              *)
(*                                                                         *)
(* A client has one object that stands for a proxy.  Its calls send the    *)
(* whole object and replace it with the answer, or leave it edited when    *)
(* the call fails.  A call takes a handler of the server (module           *)
(* Registry); when it times out the client goes on and so does the         *)
(* handler.  The fields of an answer are read one by one after the call    *)
(* has given back its locks.                                               *)
(***************************************************************************)
EXTENDS Registry

CONSTANTS
  Clients,
  Edits,    \* the addresses a client may change Listen to
  Config    \* the proxies of the server's configuration file

Object == [name : Names, listen : Addresses, enabled : BOOLEAN, created : BOOLEAN]

ASSUME ClientAssumption ==
  /\ Nobody \notin Clients \cup Object
  /\ Edits \subseteq Addresses /\ Config \in Seq(Entry) /\ Len(Config) <= MaxProxies
  /\ \A i, j \in DOMAIN Config : i # j => Config[i].name # Config[j].name

VARIABLES
  up,       \* whether the server runs and its API listens
  call,     \* the call each client waits for, and its handler
  object,   \* the client's Proxy, if it has one
  reply,    \* what each handler has read for its answer
  view      \* history: what is known of each client's object

registry == <<proxies, writer, mutex, proxy, caller, revived>>
clientVars == <<registry, up, call, object, reply, view>>

Fields == {"listen", "enabled"}

NoCall == [op |-> "none", name |-> Nobody, slot |-> Nobody]
NoReply == [listen |-> Nobody, enabled |-> Nobody]

(* known: the proxy the object was last an answer about.  fresh: nothing   *)
(* has changed since the call that gave the answer was made, this client's *)
(* own later calls included.  quiet: nothing but the call under way has    *)
(* changed anything since it was made.  edited: what the client has set in *)
(* a fresh object since.  populated: the object is an answer to Populate. *)
NoView == [known |-> Nobody, fresh |-> FALSE, quiet |-> FALSE, edited |-> {},
           populated |-> FALSE]

ClientTypeOK ==
  /\ TypeOK
  /\ up \in BOOLEAN
  /\ call \in [Clients ->
       [op : {"none", "save", "fetch", "toggle", "flip", "delete", "populate", "reset"},
        name : Names \cup {Nobody}, slot : Callers \cup {Nobody}]]
  /\ object \in [Clients -> Object \cup {Nobody}]
  /\ reply \in [Callers -> [listen : Addresses \cup {Nobody}, enabled : BOOLEAN \cup {Nobody}]]
  /\ view \in [Clients ->
       [known : Pointers \cup {Nobody}, fresh : BOOLEAN, quiet : BOOLEAN,
        edited : SUBSET Fields, populated : BOOLEAN]]

ClientInit ==
  /\ Init
  /\ up = FALSE
  /\ call = [c \in Clients |-> NoCall] /\ object = [c \in Clients |-> Nobody]
  /\ reply = [k \in Callers |-> NoReply]
  /\ view = [c \in Clients |-> NoView]
-----------------------------------------------------------------------------
(* The server.  PopulateConfig comes before Listen: nobody else is there,  *)
(* and it ends at the first proxy that does not start.                     *)
Boot ==
  /\ ~up /\ up' = TRUE
  /\ \E n \in 0 .. Len(Config) :
       /\ proxy' \in [1 .. n -> [listen : Addresses, given : Addresses, enabled : BOOLEAN]]
       /\ \A i \in 1 .. n :
            /\ proxy'[i].given = Config[i].listen /\ proxy'[i].enabled = Config[i].start
            /\ IF Config[i].start THEN proxy'[i].listen \in Binds[Config[i].listen]
               ELSE proxy'[i].listen = Config[i].listen
            /\ \A j \in 1 .. i - 1 :
                 Config[i].start /\ Config[j].start => proxy'[j].listen # proxy'[i].listen
       /\ proxies' = [m \in Names |->
            IF \E i \in 1 .. n : Config[i].name = m
            THEN CHOOSE i \in 1 .. n : Config[i].name = m ELSE Nobody]
       /\ n < Len(Config) => Config[n + 1].start
  /\ UNCHANGED <<writer, mutex, caller, revived, call, object, reply, view>>

(* SIGINT or SIGTERM: Shutdown closes the listener of the API and waits    *)
(* for the handlers at work, thirty seconds at most; then the process ends *)
(* with its proxies and the handlers that are left.                        *)
Exit ==
  /\ up /\ up' = FALSE
  /\ proxies' = [n \in Names |-> Nobody]
  /\ writer' = Nobody /\ mutex' = [p \in Pointers |-> Nobody]
  /\ proxy' = <<>> /\ revived' = {}
  /\ caller' = [k \in Callers |-> Idle]
  /\ reply' = [k \in Callers |-> NoReply]
  /\ call' = [c \in Clients |-> IF call[c].slot = Nobody THEN call[c] ELSE NoCall]
  /\ view' = [c \in Clients |->
       [view[c] EXCEPT !.known = Nobody, !.fresh = FALSE, !.quiet = FALSE, !.edited = {}]]
  /\ UNCHANGED object
-----------------------------------------------------------------------------
(* What a client's call sends.                                             *)
Send(c, op, n, k) ==
  /\ up
  /\ call' = [call EXCEPT ![c] = [op |-> op, name |-> n, slot |-> k]]
  /\ UNCHANGED <<up, reply>>

Post(c, o) ==
  LET e == [name |-> o.name, listen |-> o.listen, start |-> o.enabled] IN
  /\ \E k \in Callers :
       /\ \/ o.created /\ Begin(k, "update", <<e>>, "get")
          \/ ~o.created /\ MayMake(1) /\ Begin(k, "create", <<e>>, "lock")
       /\ Send(c, "save", o.name, k)
  /\ object' = [object EXCEPT ![c] = o]
  /\ view' = [view EXCEPT
       ![c].quiet = TRUE,
       ![c].edited = IF view[c].fresh
                     THEN @ \cup {f \in Fields : object[c][f] # o[f]} ELSE {}]

(* NewProxy and the fields it needs, as in CreateProxy.                    *)
NewProxy(c) ==
  /\ call[c].op = "none"
  /\ \E e \in Bodies :
       object' = [object EXCEPT ![c] =
         [name |-> e.name, listen |-> e.listen, enabled |-> e.start, created |-> FALSE]]
  /\ view' = [view EXCEPT ![c] = NoView]
  /\ UNCHANGED <<registry, up, call, reply>>

(* Fields set and saved; Enable and Disable set one.                       *)
Save(c) ==
  /\ call[c].op = "none" /\ object[c] # Nobody
  /\ \E a \in Edits \cup {object[c].listen}, b \in BOOLEAN :
       Post(c, [object[c] EXCEPT !.listen = a, !.enabled = b])

Flip(c) ==
  /\ call[c].op = "flip"
  /\ Post(c, [object[c] EXCEPT !.enabled = ~@])

(* Client.Proxy; toggleProxy goes on with what it gets.                    *)
Fetch(c) ==
  /\ call[c].op = "none"
  /\ \E k \in Callers, n \in Names, op \in {"fetch", "toggle"} :
       Begin(k, "show", <<[name |-> n]>>, "get") /\ Send(c, op, n, k)
  /\ view' = [view EXCEPT ![c].quiet = TRUE]
  /\ UNCHANGED object

ClientPopulate(c) ==
  /\ call[c].op = "none"
  /\ \E k \in Callers, e \in Bodies :
       /\ MayMake(1) /\ Begin(k, "populate", <<e>>, "lock")
       /\ Send(c, "populate", e.name, k)
  /\ view' = [view EXCEPT ![c].quiet = TRUE]
  /\ UNCHANGED object

Delete(c) ==
  /\ call[c].op = "none" /\ object[c] # Nobody
  /\ \E k \in Callers :
       /\ Begin(k, "delete", <<[name |-> object[c].name]>>, "lock")
       /\ Send(c, "delete", object[c].name, k)
  /\ UNCHANGED <<object, view>>

ClientReset(c) ==
  /\ call[c].op = "none"
  /\ \E k \in Callers : ResetState(k) /\ Send(c, "reset", Nobody, k)
  /\ UNCHANGED <<object, view>>
-----------------------------------------------------------------------------
(* The handlers at work; and what a change means for the objects.          *)
Handle(k) ==
  /\ Works(k)
  /\ view' = [c \in Clients |->
       IF proxy' = proxy /\ proxies' = proxies THEN view[c]
       ELSE [view[c] EXCEPT !.fresh = FALSE, !.edited = {},
                             !.quiet = @ /\ call[c].slot = k]]
  /\ UNCHANGED <<up, call, object, reply>>

(* Requests of others, who use the API without the library.                *)
Other(k) ==
  /\ up
  /\ Ask(k)
  /\ UNCHANGED <<up, call, object, reply, view>>

Waited(k) == \E c \in Clients : call[c].slot = k

(* json.Marshal of a proxy reads one field after the other.                *)
HasBody(k) == caller[k].at # Nobody
Marshal(k) ==
  /\ caller[k].pc = "answer" /\ Waited(k) /\ HasBody(k)
  /\ LET p == proxy[caller[k].at] IN
     reply' = [reply EXCEPT ![k] =
       IF @.listen = Nobody THEN [@ EXCEPT !.listen = p.listen]
       ELSE [@ EXCEPT !.enabled = p.enabled]]
  /\ reply[k].enabled = Nobody
  /\ UNCHANGED <<registry, up, call, object, view>>

Ended(c) == call' = [call EXCEPT ![c] = NoCall]
Done(k) == Return(k) /\ reply' = [reply EXCEPT ![k] = NoReply]

(* What the client makes of an answer with a proxy in it: Unmarshal over   *)
(* the object, or into a new one, and the mark that the proxy exists,      *)
(* which Populate does not set.                                            *)
Said(c) == reply[call[c].slot]
UpdatedUnmarked(c) ==
  [name |-> call[c].name, listen |-> Said(c).listen, enabled |-> Said(c).enabled,
   created |-> call[c].op \in {"fetch", "toggle"}]
UpdatedAsSent(c) ==
  [name |-> call[c].name, enabled |-> Said(c).enabled, created |-> call[c].op # "populate",
   listen |-> IF call[c].op = "save" THEN object[c].listen ELSE Said(c).listen]
Updated(c) ==
  [name |-> call[c].name, listen |-> Said(c).listen, enabled |-> Said(c).enabled,
   created |-> call[c].op # "populate"]

Receive(c) ==
  LET k == call[c].slot IN
  /\ k # Nobody /\ caller[k].pc = "answer"
  /\ HasBody(k) /\ reply[k].enabled # Nobody
  /\ object' = [object EXCEPT ![c] = Updated(c)]
  /\ view' = [view EXCEPT ![c] =
       [known |-> caller[k].at, fresh |-> @.quiet, quiet |-> FALSE, edited |-> {},
        populated |-> call[c].op = "populate"]]
  /\ IF call[c].op = "toggle" THEN call' = [call EXCEPT ![c].op = "flip", ![c].slot = Nobody]
     ELSE Ended(c)
  /\ Done(k)
  /\ UNCHANGED <<proxies, writer, mutex, proxy, revived, up>>

(* An answer without one: an error, or the end of a delete or a reset.     *)
ReceiveNone(c) ==
  LET k == call[c].slot IN
  /\ k # Nobody /\ caller[k].pc = "answer" /\ ~HasBody(k)
  /\ Ended(c) /\ Done(k)
  /\ view' = [view EXCEPT ![c].quiet = FALSE]
  /\ UNCHANGED <<proxies, writer, mutex, proxy, revived, up, object>>

(* The client's timeout of 30 seconds, TimeoutHandler's of 25, or no       *)
(* server to connect to: an error, while the handler goes on.              *)
GiveUp(c) ==
  /\ call[c].op # "none"
  /\ Ended(c)
  /\ view' = [view EXCEPT ![c].quiet = FALSE]
  /\ UNCHANGED <<registry, up, object, reply>>

Dropped(k) ==
  /\ caller[k].pc = "answer" /\ ~Waited(k)
  /\ Done(k)
  /\ UNCHANGED <<proxies, writer, mutex, proxy, revived, up, call, object, view>>
-----------------------------------------------------------------------------
ClientNext ==
  \/ Boot \/ Exit
  \/ \E c \in Clients :
       \/ NewProxy(c) \/ Save(c) \/ Flip(c) \/ Fetch(c) \/ ClientPopulate(c)
       \/ Delete(c) \/ ClientReset(c)
       \/ Receive(c) \/ ReceiveNone(c) \/ GiveUp(c)
  \/ \E k \in Callers : Other(k) \/ Handle(k) \/ Marshal(k) \/ Dropped(k)

ClientSpec == ClientInit /\ [][ClientNext]_clientVars
-----------------------------------------------------------------------------
(* Properties.                                                             *)

(* An object says what the proxy is like, the address it listens on        *)
(* included, as long as nobody has changed anything since the call that    *)
(* answered it was made (Save and Proxy unmarshal the answer; listen()     *)
(* stores the address of the listener before it).                          *)
Coherent ==
  \A c \in Clients :
    view[c].fresh /\ view[c].edited = {} =>
      LET p == view[c].known IN
      /\ p \in Listed /\ proxies[object[c].name] = p
      /\ object[c].listen = proxy[p].listen /\ object[c].enabled = proxy[p].enabled

(* Save sends every field.  From an object that is up to date, and whose   *)
(* address has not been edited, it leaves the listener alone: it does not  *)
(* stop the proxy, however the address was first written (Differs).        *)
SaveKeepsListener ==
  [][\A c \in Clients :
       LET k == call[c].slot IN
       (/\ call[c].op = "save" /\ k # Nobody /\ caller[k].pc = "change"
        /\ view[c].fresh /\ "listen" \notin view[c].edited)
         => (caller'[k].pc = "toggle" => proxy' = proxy)]_clientVars

(* An object that stands for a proxy of the server, since an answer told   *)
(* of it, is not created a second time and refused because of itself       *)
(* ("True if this proxy exists on the server", client/proxy.go:24), unless *)
(* the answer was that of Populate, which leaves the mark unset.           *)
NotItsOwnConflict ==
  \A c \in Clients :
    LET k == call[c].slot IN
    k # Nobody /\ call[c].op = "save" /\ caller[k].pc = "look" /\ CannotAdd(k)
      => view[c].populated \/ Existing(k) # view[c].known
=============================================================================
