----------------------------- MODULE Collection -----------------------------
(***************************************************************************)
(* The ToxicCollection of a proxy (toxic_collection.go) under the toxic    *)
(* handlers of api.go: one mutex over the chains of both directions and    *)
(* the links, held while the body of a request is read and while the links *)
(* are changed, one goroutine per link.                                    *)
(*                                                                         *)
(* The noop every chain starts with is left out, so that the Index of a    *)
(* toxic is its place in its chain here.  A link is the list of toxics its *)
(* stubs run, with the settings each was last started with, which is all   *)
(* that is sure of them: a toxic that reads a field anew, as latency,      *)
(* bandwidth, slicer and limit_data do, sees what a decoder has written in *)
(* it meanwhile.  Module ToxicLink has what happens on a link.             *)
(***************************************************************************)
EXTENDS Integers, Sequences, FiniteSets, SequencesExt

CONSTANTS
  Callers,    \* the HTTP handlers at work
  Nobody,     \* the holder of the mutex when it is free
  Names,      \* names of toxics
  Values,     \* what the attributes of a toxic may be
  Links,      \* the links connections will start
  DirOf,      \* the direction of each
  Unused,     \* a ToxicWrapper not in use
  MaxToxics   \* bound on the toxics there are at a time

Dirs == {"upstream", "downstream"}
Ids == 1 .. MaxToxics

Wrapper == [name : Names, dir : Dirs, index : Ids, value : Values]

ASSUME CollectionAssumption ==
  /\ Nobody \notin Callers
  /\ Unused \notin Wrapper
  /\ DirOf \in [Links -> Dirs]
  /\ MaxToxics \in Nat

VARIABLES
  mutex,     \* who holds the collection's mutex across steps
  wrapper,   \* the ToxicWrappers
  chain,     \* the toxics of each direction
  links,     \* collection.links
  link,      \* how far each link has come; cut if its stream was cut short
  runs,      \* the toxics each link runs, and their settings
  caller,    \* what each handler does
  answer,    \* the names in the answer a handler is about to write
  torn       \* history: toxics a rejected update has changed since

shared == <<wrapper, chain, torn>>
flows  == <<links, link, runs>>
vars   == <<mutex, shared, flows, caller, answer>>

Idle == [pc |-> "idle", op |-> "none", at |-> 0, left |-> {}]

Call == [pc : {"idle", "lock", "body", "links", "answer"},
         op : {"none", "add", "update", "remove", "reset", "list", "show"},
         at : Ids \cup {0}, left : SUBSET Links]

Toxic(w) == [toxic |-> w, value |-> wrapper[w].value]

TypeOK ==
  /\ mutex \in Callers \cup {Nobody}
  /\ wrapper \in [Ids -> Wrapper \cup {Unused}]
  /\ chain \in [Dirs -> Seq(Ids)]
  /\ links \subseteq Links
  /\ link \in [Links -> {"none", "runs", "ends", "cut"}]
  /\ runs \in [Links -> Seq([toxic : Ids, value : Values])]
  /\ caller \in [Callers -> Call]
  /\ answer \in [Callers -> Seq(Names)]
  /\ torn \subseteq Ids

Init ==
  /\ mutex = Nobody
  /\ wrapper = [w \in Ids |-> Unused] /\ chain = [d \in Dirs |-> <<>>] /\ torn = {}
  /\ links = {} /\ link = [l \in Links |-> "none"]
  /\ runs = [l \in Links |-> <<>>]
  /\ caller = [k \in Callers |-> Idle]
  /\ answer = [k \in Callers |-> <<>>]
-----------------------------------------------------------------------------
(* A handler waits for the mutex.  What it is to do, and with which toxic, *)
(* makes no difference until then, and its body is not read before.        *)

Begin(k) ==
  /\ caller[k].pc = "idle"
  /\ caller' = [caller EXCEPT ![k].pc = "lock"]
  /\ UNCHANGED <<mutex, shared, flows, answer>>

Calls == {"add", "update", "remove", "reset", "list", "show"}

Lock(k) ==
  /\ caller[k].pc = "lock" /\ mutex = Nobody
  /\ mutex' = k
  /\ \E op \in Calls : caller' = [caller EXCEPT ![k].pc = "body", ![k].op = op]
  /\ UNCHANGED <<shared, flows, answer>>

Unlock(k) == mutex' = Nobody /\ caller' = [caller EXCEPT ![k] = Idle]

(* The handler holds the mutex and is asked for op.                        *)
AtWork(k, op) == caller[k].pc = "body" /\ caller[k].op = op

(* The links a call is to change are those registered when it has changed  *)
(* the chain.                                                              *)
Registered(d) == {l \in links : DirOf[l] = d}
CallLinks(k, w) ==
  caller' = [caller EXCEPT ![k].pc = "links", ![k].at = w,
                           ![k].left = Registered(wrapper'[w].dir)]
-----------------------------------------------------------------------------
(* AddToxicJson, chainAddToxic.                                            *)

Found == Range(chain["upstream"]) \cup Range(chain["downstream"])
Used == {wrapper[w].name : w \in Found}

(* A wrapper to make: one not in use, they being all alike.                *)
New == {w \in Ids : wrapper[w] = Unused /\ \A v \in 1 .. w - 1 : wrapper[v] # Unused}

FreeInItsChain(n, d) == \A w \in Range(chain[d]) : wrapper[w].name # n
Free(n, d) == n \notin Used

ChainAdd(k) ==
  /\ AtWork(k, "add")
  /\ \E n \in Names, d \in Dirs, v \in Values, w \in New :
       /\ Free(n, d)
       /\ wrapper' = [wrapper EXCEPT ![w] = [name |-> n, dir |-> d, value |-> v,
                                             index |-> Len(chain[d]) + 1]]
       /\ chain' = [chain EXCEPT ![d] = Append(@, w)]
       /\ CallLinks(k, w)
  /\ UNCHANGED <<mutex, torn, flows, answer>>

(* The body is not read in time or malformed, its type or its stream is    *)
(* unknown, or its name is taken.                                          *)
AddFails(k) ==
  /\ AtWork(k, "add")
  /\ Unlock(k)
  /\ UNCHANGED <<shared, flows, answer>>
-----------------------------------------------------------------------------
(* UpdateToxicJson, chainUpdateToxic; a toxic is found by its name.        *)

ChainUpdate(k) ==
  /\ AtWork(k, "update")
  /\ \E w \in Found, v \in Values :
       /\ wrapper' = [wrapper EXCEPT ![w].value = v]
       /\ torn' = torn \ {w}
       /\ chain' = [chain EXCEPT ![wrapper[w].dir][wrapper[w].index] = w]
       /\ CallLinks(k, w)
  /\ UNCHANGED <<mutex, flows, answer>>

(* The decoder stops at an error with some attributes written, and starts  *)
(* no stub again.                                                          *)
UpdateFails(k) ==
  /\ AtWork(k, "update")
  /\ \/ \E w \in Found, v \in Values : /\ wrapper' = [wrapper EXCEPT ![w].value = v]
                                       /\ torn' = torn \cup {w}
     \/ UNCHANGED <<wrapper, torn>>   \* not found, or nothing decoded
  /\ Unlock(k)
  /\ UNCHANGED <<chain, flows, answer>>
-----------------------------------------------------------------------------
(* RemoveToxic, ResetToxics, chainRemoveToxic: the toxics behind the one   *)
(* removed move up.                                                        *)

RenumberedNot(w, d) == wrapper
RenumberedAll(w, d) ==
  [v \in Ids |-> IF v \in Range(chain[d]) \ {w} THEN [wrapper[v] EXCEPT !.index = @ - 1]
                 ELSE wrapper[v]]
Renumbered(w, d) ==
  [v \in Ids |->
     IF v \in Range(chain[d]) /\ wrapper[v].index > wrapper[w].index
     THEN [wrapper[v] EXCEPT !.index = @ - 1] ELSE wrapper[v]]

ChainRemove(k, w) ==
  LET d == wrapper[w].dir IN
  /\ chain' = [chain EXCEPT ![d] = RemoveAt(@, wrapper[w].index)]
  /\ wrapper' = Renumbered(w, d)
  /\ CallLinks(k, w)
  /\ UNCHANGED <<mutex, torn, flows, answer>>

RemoveToxic(k) == AtWork(k, "remove") /\ \E w \in Found : ChainRemove(k, w)

RemoveFails(k) ==
  /\ AtWork(k, "remove")
  /\ Unlock(k)
  /\ UNCHANGED <<shared, flows, answer>>

ResetNext(k) ==
  /\ AtWork(k, "reset")
  /\ IF chain["upstream"] # <<>> THEN ChainRemove(k, chain["upstream"][1])
     ELSE /\ chain["downstream"] # <<>>
          /\ ChainRemove(k, chain["downstream"][1])

ResetDone(k) ==
  /\ AtWork(k, "reset") /\ Found = {}
  /\ Unlock(k)
  /\ UNCHANGED <<shared, flows, answer>>
-----------------------------------------------------------------------------
(* What is done to each link, all of them in parallel: AddToxic,           *)
(* UpdateToxic, RemoveToxic.  Each starts the stubs it has stopped with    *)
(* the settings of the moment.                                             *)

Restarted(seq, i) == IF i = 0 THEN seq ELSE [seq EXCEPT ![i] = Toxic(@.toxic)]

AppliedTo(seq, op, w) ==
  LET i == wrapper[w].index IN
  CASE op = "add"    -> Restarted(seq, Len(seq)) \o <<Toxic(w)>>
    [] op = "update" -> [seq EXCEPT ![i] = Toxic(w)]
    [] op \in {"remove", "reset"} -> Restarted(RemoveAt(seq, i), i - 1)

Apply(k, l) ==
  /\ caller[k].pc = "links" /\ l \in caller[k].left
  /\ runs' = IF link[l] = "runs"
             THEN [runs EXCEPT ![l] = AppliedTo(@, caller[k].op, caller[k].at)]
             ELSE runs
  /\ caller' = [caller EXCEPT ![k].left = @ \ {l}]
  /\ UNCHANGED <<mutex, shared, links, link, answer>>

(* wg.Wait() returns.  A reset goes on with the next toxic.                *)
Removing(k) == caller[k].op \in {"remove", "reset"}
Continue(k) ==
  UNCHANGED mutex /\ caller' = [caller EXCEPT ![k].pc = "body", ![k].at = 0]

LinksDoneAgain(k) ==
  /\ caller[k].pc = "links" /\ caller[k].left = {}
  /\ wrapper' = IF Removing(k) THEN [wrapper EXCEPT ![caller[k].at] = Unused] ELSE wrapper
  /\ torn' = IF Removing(k) THEN torn \ {caller[k].at} ELSE torn
  /\ IF caller[k].op # "add" THEN Continue(k) ELSE Unlock(k)
  /\ UNCHANGED <<chain, flows, answer>>
LinksDone(k) ==
  /\ caller[k].pc = "links" /\ caller[k].left = {}
  /\ wrapper' = IF Removing(k) THEN [wrapper EXCEPT ![caller[k].at] = Unused] ELSE wrapper
  /\ torn' = IF Removing(k) THEN torn \ {caller[k].at} ELSE torn
  /\ IF caller[k].op = "reset" THEN Continue(k) ELSE Unlock(k)
  /\ UNCHANGED <<chain, flows, answer>>
-----------------------------------------------------------------------------
(* GetToxicArray and GetToxic; the handler writes its answer afterwards.   *)

NamesOf(d) == [i \in 1 .. Len(chain[d]) |-> wrapper[chain[d][i]].name]

Tell(k, names) ==
  /\ answer' = [answer EXCEPT ![k] = names]
  /\ caller' = [caller EXCEPT ![k] = [Idle EXCEPT !.pc = "answer"]]

GetToxicArrayUnlocked(k) ==
  /\ caller[k].pc = "lock"
  /\ Tell(k, NamesOf("upstream") \o NamesOf("downstream"))
  /\ UNCHANGED <<mutex, shared, flows>>
GetToxicArray(k) ==
  /\ AtWork(k, "list")
  /\ Tell(k, NamesOf("upstream") \o NamesOf("downstream"))
  /\ mutex' = Nobody
  /\ UNCHANGED <<shared, flows>>

GetToxic(k) ==
  /\ AtWork(k, "show")
  /\ \E n \in Names : Tell(k, IF n \in Used THEN <<n>> ELSE <<>>)
  /\ mutex' = Nobody
  /\ UNCHANGED <<shared, flows>>

Answer(k) ==
  /\ caller[k].pc = "answer"
  /\ answer' = [answer EXCEPT ![k] = <<>>]
  /\ caller' = [caller EXCEPT ![k] = Idle]
  /\ UNCHANGED <<mutex, shared, flows>>
-----------------------------------------------------------------------------
(* Links come and go, new ones under the names of those that have gone.    *)
(* StartLink and RemoveLink hold the mutex without waiting for anything.   *)

StartLinkUnlisted(l) ==
  /\ link[l] = "none" /\ mutex = Nobody
  /\ runs' = [runs EXCEPT ![l] = [i \in 1 .. Len(chain[DirOf[l]]) |-> Toxic(chain[DirOf[l]][i])]]
  /\ link' = [link EXCEPT ![l] = "runs"]
  /\ UNCHANGED <<mutex, shared, links, caller, answer>>
StartLink(l) ==
  /\ link[l] = "none" /\ mutex = Nobody
  /\ runs' = [runs EXCEPT ![l] = [i \in 1 .. Len(chain[DirOf[l]]) |-> Toxic(chain[DirOf[l]][i])]]
  /\ link' = [link EXCEPT ![l] = "runs"]
  /\ links' = links \cup {l}
  /\ UNCHANGED <<mutex, shared, caller, answer>>

(* A stub of the link has closed, or its destination has failed; what it   *)
(* runs is not followed any further.                                       *)
LinkCloses(l) ==
  /\ link[l] = "runs"
  /\ \E how \in {"ends", "cut"} : link' = [link EXCEPT ![l] = how]
  /\ runs' = [runs EXCEPT ![l] = <<>>]
  /\ UNCHANGED <<mutex, shared, links, caller, answer>>

RemoveLink(l) ==
  /\ link[l] \in {"ends", "cut"} /\ mutex = Nobody
  /\ link' = [link EXCEPT ![l] = "none"]
  /\ links' = links \ {l}
  /\ UNCHANGED <<mutex, shared, runs, caller, answer>>
-----------------------------------------------------------------------------
Serve(k) ==
  \/ ChainAdd(k) \/ AddFails(k) \/ ChainUpdate(k) \/ UpdateFails(k)
  \/ RemoveToxic(k) \/ RemoveFails(k) \/ ResetNext(k) \/ ResetDone(k)
  \/ GetToxicArray(k) \/ GetToxic(k) \/ Answer(k)
  \/ LinksDone(k)

Work(k) == Serve(k) \/ \E l \in Links : Apply(k, l)

Next ==
  \/ \E k \in Callers : Begin(k) \/ Lock(k) \/ Work(k)
  \/ \E l \in Links : StartLink(l) \/ LinkCloses(l) \/ RemoveLink(l)

Spec == Init /\ [][Next]_vars

(* A handler that has the mutex goes on: its body arrives or the server's  *)
(* read timeout ends it, and its calls on links return, but for one on a   *)
(* link whose stream was cut short (CallsReturnUncut of ToxicLink).        *)
Fairness ==
  WF_vars(\E k \in Callers :
            mutex = k /\ (Serve(k) \/ \E l \in Links : link[l] # "cut" /\ Apply(k, l)))

FairSpec == Spec /\ Fairness
-----------------------------------------------------------------------------
(* Properties.                                                             *)

(* Every toxic knows its place in its chain, by which updates and removals *)
(* find it on the links, whenever a call may begin                         *)
(* (toxic_collection.go:274-276).                                          *)
IndicesMatch ==
  mutex = Nobody =>
    /\ \A d \in Dirs : \A i \in 1 .. Len(chain[d]) :
         LET w == wrapper[chain[d][i]] IN w.dir = d /\ w.index = i
    /\ \A w \in Ids : w \in Found <=> wrapper[w] # Unused

(* No two toxics of a proxy have one name, in whichever directions they    *)
(* are: findToxicByName finds the only one.                                *)
NamesUnique ==
  \A v, w \in Found : wrapper[v].name = wrapper[w].name => v = w

(* Whenever the mutex is free, every link that is open runs the toxics of  *)
(* its direction in their order, with the settings the API shows, but for  *)
(* a toxic that a rejected update has changed without restarting it.       *)
LinksRunChain ==
  mutex = Nobody => \A l \in Links : link[l] = "runs" =>
    /\ Len(runs[l]) = Len(chain[DirOf[l]])
    /\ \A i \in 1 .. Len(runs[l]) :
         LET w == chain[DirOf[l]][i] IN
         /\ runs[l][i].toxic = w
         /\ w \in torn \/ runs[l][i].value = wrapper[w].value

(* Nothing but a link whose stream was cut short makes a call keep the     *)
(* mutex for ever, which connections wait for too: not a reset that goes   *)
(* from toxic to toxic, nor a call that fails, nor one whose links come and*)
(* go meanwhile.                                                           *)
CallHangs ==
  \E k \in Callers : mutex = k /\ \E l \in caller[k].left : link[l] = "cut"

MutexFreed == mutex # Nobody ~> (mutex = Nobody \/ CallHangs)

(* Callers see a set of toxics that changes at once: no listing shows half *)
(* of a reset.                                                             *)
Resetting == \E k \in Callers : mutex = k /\ caller[k].op = "reset"

Shown(d) == IF Resetting THEN <<>> ELSE NamesOf(d)

Set == INSTANCE ToxicSet WITH
  upstream   <- Shown("upstream"),
  downstream <- Shown("downstream")

ImplementsToxicSet == Set!Spec
=============================================================================
