-------------------------- MODULE CollectionProofs --------------------------
(***************************************************************************)
(* Theorems about Collection, for any number of handlers, links, names,    *)
(* values and toxics.                                                      *)
(***************************************************************************)
EXTENDS Collection, SequenceLemmas, FiniteSetTheorems

(* The chains: a toxic in one knows where it is.  The wrappers in use are  *)
(* those found in a chain, and one whose removal has not come to its end.  *)
Places(d) == 1 .. Len(chain[d])

ChainsOK ==
  \A d \in Dirs : \A i \in Places(d) :
    LET w == wrapper[chain[d][i]] IN w \in Wrapper /\ w.dir = d /\ w.index = i

Leaving(w) ==
  \E k \in Callers : caller[k].pc = "links" /\ Removing(k) /\ caller[k].at = w

InUse == \A w \in Ids : wrapper[w] # Unused <=> w \in Found \/ Leaving(w)

(* The handlers: only the one that has the mutex is at work, and while it  *)
(* waits for links its toxic is where it has put it, or no longer there.   *)
CallOK(k) ==
  LET c == caller[k] IN
  /\ c.pc \in {"body", "links"} <=> mutex = k
  /\ c.pc \in {"body", "links"} => c.op # "none"
  /\ c.pc = "links" =>
       /\ c.op \in {"add", "update", "remove", "reset"}
       /\ c.at \in Ids /\ wrapper[c.at] \in Wrapper
       /\ c.left \subseteq Registered(wrapper[c.at].dir)
       /\ c.op \in {"add", "update"} => c.at \in Range(chain[wrapper[c.at].dir])
       /\ c.op = "add" => wrapper[c.at].index = Len(chain[wrapper[c.at].dir])
       /\ Removing(k) => c.at \notin Found

CallsOK == \A k \in Callers : CallOK(k)

(* The links: one runs its chain, or the chain before the change that is   *)
(* still to be applied to it.                                              *)
Agrees(e, w) == e.toxic = w /\ (w \in torn \/ e.value = wrapper[w].value)

RunsAll(seq, toxics) ==
  Len(seq) = Len(toxics) /\ \A i \in 1 .. Len(toxics) : Agrees(seq[i], toxics[i])

RunsBefore(seq, toxics, op, i) ==
  /\ op = "add" =>
       /\ Len(toxics) = Len(seq) + 1
       /\ \A j \in 1 .. Len(seq) : Agrees(seq[j], toxics[j])
  /\ op = "update" =>
       /\ Len(seq) = Len(toxics)
       /\ \A j \in 1 .. Len(toxics) : j # i => Agrees(seq[j], toxics[j])
       /\ seq[i].toxic = toxics[i]
  /\ op \in {"remove", "reset"} =>
       /\ Len(seq) = Len(toxics) + 1 /\ i \in 1 .. Len(seq)
       /\ \A j \in 1 .. Len(toxics) : j < i => Agrees(seq[j], toxics[j])
       /\ \A j \in 1 .. Len(toxics) : j >= i => Agrees(seq[j + 1], toxics[j])

Behind(k, l) == caller[k].pc = "links" /\ l \in caller[k].left

LinkOK(l) ==
  /\ link[l] # "none" => l \in links
  /\ link[l] = "runs" =>
       /\ (\A k \in Callers : ~Behind(k, l)) => RunsAll(runs[l], chain[DirOf[l]])
       /\ \A k \in Callers : Behind(k, l) =>
            RunsBefore(runs[l], chain[DirOf[l]], caller[k].op, wrapper[caller[k].at].index)

LinksOK == \A l \in Links : LinkOK(l)

CInv == TypeOK /\ ChainsOK /\ InUse /\ CallsOK /\ NamesUnique
IInv == CInv /\ LinksOK
-----------------------------------------------------------------------------
(* What the invariant says of the chains and of the mutex.                 *)

LEMMA ChainFacts ==
  ASSUME CInv, NEW d \in Dirs
  PROVE  /\ chain[d] \in Seq(Ids) /\ Len(chain[d]) \in Nat
         /\ Range(chain[d]) = {chain[d][i] : i \in Places(d)}
         /\ \A i \in Places(d) :
              /\ chain[d][i] \in Ids /\ chain[d][i] \in Found
              /\ wrapper[chain[d][i]] \in Wrapper
              /\ wrapper[chain[d][i]].dir = d /\ wrapper[chain[d][i]].index = i
<1>1. chain[d] \in Seq(Ids)
  BY DEF CInv, TypeOK
<1>2. Len(chain[d]) \in Nat /\ DOMAIN chain[d] = Places(d)
  BY <1>1 DEF Places
<1>3. Range(chain[d]) = {chain[d][i] : i \in Places(d)}
  BY <1>2 DEF Range
<1>4. Range(chain[d]) \subseteq Found
  BY DEF Found, Dirs
<1>5. \A i \in Places(d) : chain[d][i] \in Ids
  BY <1>1, ElementOfSeq DEF Places
<1> QED
  BY <1>1, <1>2, <1>3, <1>4, <1>5 DEF CInv, ChainsOK

LEMMA FoundFacts ==
  ASSUME CInv, NEW w \in Found
  PROVE  /\ w \in Ids /\ wrapper[w] \in Wrapper /\ wrapper[w].dir \in Dirs
         /\ wrapper[w].index \in Places(wrapper[w].dir)
         /\ chain[wrapper[w].dir][wrapper[w].index] = w
         /\ \A d \in Dirs : w \in Range(chain[d]) <=> d = wrapper[w].dir
<1>1. PICK d \in Dirs : w \in Range(chain[d])
  BY DEF Found, Dirs
<1>2. PICK i \in Places(d) : w = chain[d][i]
  BY <1>1, ChainFacts
<1>3. w \in Ids /\ wrapper[w] \in Wrapper /\ wrapper[w].dir = d /\ wrapper[w].index = i
  BY <1>2, ChainFacts
<1>4. \A e \in Dirs : w \in Range(chain[e]) => e = d
  <2> SUFFICES ASSUME NEW e \in Dirs, w \in Range(chain[e]) PROVE e = d
    OBVIOUS
  <2>0. Range(chain[e]) = {chain[e][j] : j \in Places(e)}
    BY ChainFacts
  <2>1. PICK j \in Places(e) : w = chain[e][j]
    BY <2>0
  <2> QED
    BY <1>3, <2>1, ChainFacts
<1> QED
  BY <1>1, <1>2, <1>3, <1>4

(* A toxic is in a chain at one place only.                                *)
LEMMA OnePlace ==
  ASSUME CInv, NEW d \in Dirs, NEW i \in Places(d), NEW e \in Dirs, NEW j \in Places(e),
         chain[d][i] = chain[e][j]
  PROVE  d = e /\ i = j
<1>1. /\ wrapper[chain[d][i]].dir = d /\ wrapper[chain[d][i]].index = i
      /\ wrapper[chain[e][j]].dir = e /\ wrapper[chain[e][j]].index = j
  BY ChainFacts
<1> QED
  BY <1>1

(* One wrapper to spare leaves a place to spare in every chain.            *)
LEMMA PlaceLeft ==
  ASSUME CInv, NEW w \in Ids, wrapper[w] = Unused, NEW d \in Dirs
  PROVE  Len(chain[d]) + 1 \in Ids
<1> DEFINE n == Len(chain[d])
           T == Ids \ {w}
<1>1. n \in Nat /\ MaxToxics \in Nat /\ chain[d] \in Seq(Ids)
  BY ChainFacts, CollectionAssumption
<1>2. \A i \in Places(d) : chain[d][i] \in T
  <2>1. \A i \in Places(d) : chain[d][i] \in Ids /\ wrapper[chain[d][i]] \in Wrapper
    BY ChainFacts
  <2> QED
    BY <2>1, CollectionAssumption
<1>3. chain[d] \in [1 .. n -> T]
  BY <1>1, <1>2 DEF Places
<1>4. \A i, j \in 1 .. n : chain[d][i] = chain[d][j] => i = j
  BY OnePlace DEF Places
<1>5. IsFiniteSet(Ids) /\ Cardinality(Ids) = MaxToxics
  <2>1. /\ IsFiniteSet(1 .. MaxToxics)
        /\ Cardinality(1 .. MaxToxics) = IF 1 > MaxToxics THEN 0 ELSE MaxToxics - 1 + 1
    <3>1. 1 \in Int /\ MaxToxics \in Int
      BY <1>1
    <3> QED
      BY <3>1, FS_Interval, Zenon
  <2> QED
    BY <1>1, <2>1 DEF Ids
<1>6. IsFiniteSet(T) /\ Cardinality(T) = MaxToxics - 1
  BY <1>5, FS_RemoveElement
<1>7. /\ IsFiniteSet(1 .. n) /\ Cardinality(1 .. n) = n
  <2>1. /\ IsFiniteSet(1 .. n)
        /\ Cardinality(1 .. n) = IF 1 > n THEN 0 ELSE n - 1 + 1
    <3>1. 1 \in Int /\ n \in Int
      BY <1>1
    <3> QED
      BY <3>1, FS_Interval, Zenon
  <2> QED
    BY <1>1, <2>1
<1> HIDE DEF n, T
<1>8. n <= MaxToxics - 1
  <2> SUFFICES ASSUME ~(n <= MaxToxics - 1) PROVE FALSE
    OBVIOUS
  <2>1. Cardinality(T) < Cardinality(1 .. n)
    BY <1>1, <1>6, <1>7
  <2>2. \E i, j \in 1 .. n : i # j /\ chain[d][i] = chain[d][j]
    BY <1>3, <1>6, <1>7, <2>1, FS_PigeonHole
  <2> QED
    BY <1>4, <2>2
<1> QED
  BY <1>1, <1>8 DEF n, Ids

(* The handler that has the mutex is the only one at work.                 *)
LEMMA OthersOut ==
  ASSUME CallsOK, NEW k \in Callers, mutex = k \/ mutex = Nobody
  PROVE  \A j \in Callers \ {k} : caller[j].pc \notin {"body", "links"}
BY CollectionAssumption DEF CallsOK, CallOK

LEMMA NoneLeaving ==
  ASSUME CallsOK, \/ mutex = Nobody
                  \/ \E k \in Callers : mutex = k /\ caller[k].pc = "body"
  PROVE  /\ \A w : ~Leaving(w)
         /\ \A k \in Callers : \A l : ~Behind(k, l)
<1>1. \A k \in Callers : caller[k].pc # "links"
  BY CollectionAssumption DEF CallsOK, CallOK
<1> QED
  BY <1>1 DEF Leaving, Behind
-----------------------------------------------------------------------------
(* Steps of one handler, as the others see them.                           *)

LEMMA IdleType == Idle \in Call
BY DEF Idle, Call

LEMMA Moved ==
  ASSUME TypeOK, NEW k \in Callers, NEW c \in Call, caller' = [caller EXCEPT ![k] = c]
  PROVE  /\ caller' \in [Callers -> Call] /\ caller'[k] = c
         /\ \A j \in Callers \ {k} : caller'[j] = caller[j]
BY DEF TypeOK

LEMMA Unlocked ==
  ASSUME TypeOK, NEW k \in Callers, Unlock(k)
  PROVE  /\ caller' \in [Callers -> Call] /\ caller'[k] = Idle /\ mutex' = Nobody
         /\ \A j \in Callers \ {k} : caller'[j] = caller[j]
BY IdleType, Moved DEF Unlock

(* What the others are at does not depend on the toxics, since they are    *)
(* not at work while this one has, takes or frees the mutex.               *)
LEMMA OthersKeep ==
  ASSUME CallsOK, NEW k \in Callers, mutex = k \/ mutex = Nobody,
         mutex' = k \/ mutex' = Nobody,
         \A j \in Callers \ {k} : caller'[j] = caller[j],
         CallOK(k)'
  PROVE  CallsOK'
<1> SUFFICES ASSUME NEW j \in Callers PROVE CallOK(j)'
  BY DEF CallsOK
<1>1. CASE j = k
  BY <1>1
<1>2. CASE j # k
  <2>1. caller'[j] = caller[j] /\ caller[j].pc \notin {"body", "links"} /\ mutex' # j
    BY <1>2, OthersOut, CollectionAssumption
  <2> QED
    BY <2>1 DEF CallOK
<1> QED
  BY <1>1, <1>2

(* A link that a step leaves alone.                                        *)
LEMMA LinkSame ==
  ASSUME NEW l \in Links, LinkOK(l), UNCHANGED <<wrapper, chain, torn>>,
         link'[l] = link[l], runs'[l] = runs[l], l \in links => l \in links',
         \A j \in Callers : Behind(j, l)' <=> Behind(j, l),
         \A j \in Callers : Behind(j, l) => /\ caller'[j].op = caller[j].op
                                            /\ caller'[j].at = caller[j].at
  PROVE  LinkOK(l)'
<1>1. RunsAll(runs[l], chain[DirOf[l]])' <=> RunsAll(runs[l], chain[DirOf[l]])
  BY DEF RunsAll, Agrees
<1>2. ASSUME NEW j \in Callers, Behind(j, l)
      PROVE  RunsBefore(runs[l], chain[DirOf[l]], caller[j].op, wrapper[caller[j].at].index)' <=>
             RunsBefore(runs[l], chain[DirOf[l]], caller[j].op, wrapper[caller[j].at].index)
  <2>1. caller'[j].op = caller[j].op /\ caller'[j].at = caller[j].at
    BY <1>2
  <2> QED
    BY <2>1 DEF RunsBefore, Agrees
<1> HIDE DEF RunsAll, RunsBefore, Behind
<1> QED
  BY <1>1, <1>2 DEF LinkOK

(* A step that changes no toxic and no link.                               *)
LEMMA SameToxics ==
  ASSUME IInv, UNCHANGED <<shared, flows>>,
         NEW k \in Callers, \A j \in Callers \ {k} : caller'[j] = caller[j],
         caller[k].pc # "links", caller'[k].pc # "links"
  PROVE  ChainsOK' /\ InUse' /\ NamesUnique' /\ LinksOK'
<1>1. /\ \A w : Leaving(w)' <=> Leaving(w)
      /\ \A j \in Callers : \A l : Behind(j, l)' <=> Behind(j, l)
      /\ \A j \in Callers : \A l : Behind(j, l) => caller'[j] = caller[j]
  BY DEF Leaving, Behind, Removing
<1>2. UNCHANGED <<wrapper, chain, torn, links, link, runs>>
  BY DEF shared, flows
<1>3. ChainsOK' /\ InUse' /\ NamesUnique'
  BY <1>1, <1>2 DEF IInv, CInv, ChainsOK, Places, InUse, Found, NamesUnique
<1>4. LinksOK'
  <2> SUFFICES ASSUME NEW l \in Links PROVE LinkOK(l)'
    BY DEF LinksOK
  <2>1. LinkOK(l)
    BY DEF IInv, LinksOK
  <2> QED
    BY <1>1, <1>2, <2>1, LinkSame
<1> QED
  BY <1>3, <1>4

LEMMA QuietKeeps ==
  ASSUME IInv, NEW k \in Callers,
         \A j \in Callers \ {k} : caller'[j] = caller[j],
         mutex' \in Callers \cup {Nobody},
         caller' \in [Callers -> Call], answer' \in [Callers -> Seq(Names)],
         caller[k].pc # "links", caller'[k].pc # "links", CallsOK',
         UNCHANGED <<shared, flows>>
  PROVE  IInv'
<1>1. TypeOK'
  BY DEF IInv, CInv, TypeOK, shared, flows
<1> QED
  BY <1>1, SameToxics DEF IInv, CInv

LEMMA BeginKeeps ==
  ASSUME IInv, NEW k \in Callers, Begin(k)
  PROVE  IInv'
<1> DEFINE c == [caller[k] EXCEPT !.pc = "lock"]
<1>1. TypeOK /\ CallsOK /\ UNCHANGED <<mutex, answer, wrapper, chain, links>>
      /\ UNCHANGED <<shared, flows>>
  BY DEF IInv, CInv, Begin, shared, flows
<1>2. c \in Call /\ c.pc = "lock" /\ caller[k].pc = "idle" /\ caller' = [caller EXCEPT ![k] = c]
  BY <1>1 DEF TypeOK, Call, Begin
<1> HIDE DEF c
<1>3. /\ caller' \in [Callers -> Call] /\ caller'[k] = c
      /\ \A j \in Callers \ {k} : caller'[j] = caller[j]
  BY <1>1, <1>2, Moved
<1>4. CallsOK'
  <2> SUFFICES ASSUME NEW j \in Callers PROVE CallOK(j)'
    BY DEF CallsOK
  <2>1. CallOK(j)
    BY <1>1 DEF CallsOK
  <2>2. CASE j = k
    BY <1>1, <1>2, <1>3, <2>1, <2>2 DEF CallOK
  <2>3. CASE j # k
    <3>1. caller'[j] = caller[j]
      BY <1>3, <2>3
    <3> QED
      BY <1>1, <2>1, <3>1 DEF CallOK, Registered, Found, Removing
  <2> QED
    BY <2>2, <2>3
<1> QED
  BY <1>1, <1>2, <1>3, <1>4, QuietKeeps DEF TypeOK

LEMMA AnswerKeeps ==
  ASSUME IInv, NEW k \in Callers, Answer(k)
  PROVE  IInv'
<1>1. TypeOK /\ CallsOK /\ UNCHANGED <<mutex, wrapper, chain, links>>
      /\ UNCHANGED <<shared, flows>>
  BY DEF IInv, CInv, Answer, shared, flows
<1>2. caller[k].pc = "answer" /\ caller' = [caller EXCEPT ![k] = Idle]
      /\ answer' = [answer EXCEPT ![k] = <<>>]
  BY DEF Answer
<1>3. /\ caller' \in [Callers -> Call] /\ caller'[k] = Idle
      /\ \A j \in Callers \ {k} : caller'[j] = caller[j]
  BY <1>1, <1>2, Moved, IdleType
<1>4. CallsOK'
  <2> SUFFICES ASSUME NEW j \in Callers PROVE CallOK(j)'
    BY DEF CallsOK
  <2>1. CallOK(j)
    BY <1>1 DEF CallsOK
  <2>2. CASE j = k
    BY <1>1, <1>2, <1>3, <2>1, <2>2 DEF CallOK, Idle
  <2>3. CASE j # k
    <3>1. caller'[j] = caller[j]
      BY <1>3, <2>3
    <3> QED
      BY <1>1, <2>1, <3>1 DEF CallOK, Registered, Found, Removing
  <2> QED
    BY <2>2, <2>3
<1>5. answer' \in [Callers -> Seq(Names)] /\ Idle.pc = "idle"
  BY <1>1, <1>2 DEF TypeOK, Idle
<1> QED
  BY <1>1, <1>2, <1>3, <1>4, <1>5, QuietKeeps DEF TypeOK

(* A step after which k waits for no link, and none has the mutex or k.    *)
LEMMA LeavesWork ==
  ASSUME IInv, NEW k \in Callers, mutex = k \/ mutex = Nobody,
         NEW c \in Call, caller' = [caller EXCEPT ![k] = c],
         answer' \in [Callers -> Seq(Names)], caller[k].pc # "links",
         \/ mutex' = k /\ c.pc = "body" /\ c.op # "none"
         \/ mutex' = Nobody /\ c.pc \in {"idle", "answer"},
         UNCHANGED <<shared, flows>>
  PROVE  IInv'
<1>1. TypeOK /\ CallsOK /\ Nobody \notin Callers
  BY CollectionAssumption DEF IInv, CInv
<1>2. /\ caller' \in [Callers -> Call] /\ caller'[k] = c
      /\ \A j \in Callers \ {k} : caller'[j] = caller[j]
  BY <1>1, Moved
<1>3. CallOK(k)'
  BY <1>1, <1>2 DEF CallOK
<1>4. CallsOK'
  BY <1>1, <1>2, <1>3, OthersKeep
<1> QED
  BY <1>1, <1>2, <1>4, QuietKeeps

LEMMA LockKeeps ==
  ASSUME IInv, NEW k \in Callers, Lock(k)
  PROVE  IInv'
<1>1. PICK op \in Calls : caller' = [caller EXCEPT ![k].pc = "body", ![k].op = op]
  BY DEF Lock
<1> DEFINE c == [caller[k] EXCEPT !.pc = "body", !.op = op]
<1>2. TypeOK /\ caller[k] \in Call /\ caller[k].pc = "lock"
  BY DEF IInv, CInv, TypeOK, Lock
<1>3. c \in Call /\ c.pc = "body" /\ c.op # "none" /\ caller' = [caller EXCEPT ![k] = c]
  BY <1>1, <1>2 DEF Call, Calls, TypeOK
<1> HIDE DEF c
<1>4. mutex = Nobody /\ mutex' = k /\ UNCHANGED <<shared, flows>> /\ answer' = answer
  BY DEF Lock
<1> QED
  BY <1>2, <1>3, <1>4, LeavesWork DEF TypeOK

(* A call that ends in the section it has begun in, changing nothing.      *)
LEMMA HoldsMutex ==
  ASSUME IInv, NEW k \in Callers, caller[k].pc \in {"body", "links"}
  PROVE  mutex = k /\ TypeOK /\ CallsOK /\ caller[k] \in Call
BY DEF IInv, CInv, CallsOK, CallOK, TypeOK

LEMMA FailsKeeps ==
  ASSUME IInv, NEW k \in Callers, AddFails(k) \/ RemoveFails(k) \/ ResetDone(k)
  PROVE  IInv'
<1>1. caller[k].pc = "body" /\ Unlock(k) /\ UNCHANGED <<shared, flows>> /\ answer' = answer
  BY DEF AddFails, RemoveFails, ResetDone, AtWork
<1>2. Idle \in Call /\ Idle.pc = "idle"
  BY IdleType DEF Idle
<1>3. mutex' = Nobody /\ caller' = [caller EXCEPT ![k] = Idle]
  BY <1>1 DEF Unlock
<1>4. mutex = k /\ answer \in [Callers -> Seq(Names)]
  BY <1>1, HoldsMutex DEF TypeOK
<1> QED
  BY <1>1, <1>2, <1>3, <1>4, LeavesWork

(* The names of a chain.                                                   *)
LEMMA NamesOfType ==
  ASSUME CInv, NEW d \in Dirs
  PROVE  /\ NamesOf(d) \in Seq(Names) /\ Len(NamesOf(d)) = Len(chain[d])
         /\ \A i \in Places(d) : NamesOf(d)[i] = wrapper[chain[d][i]].name
<1>1. Len(chain[d]) \in Nat /\ \A i \in Places(d) : wrapper[chain[d][i]].name \in Names
  <2>1. \A i \in Places(d) : wrapper[chain[d][i]] \in Wrapper
    BY ChainFacts
  <2> QED
    BY <2>1, ChainFacts DEF Wrapper
<1> QED
  BY <1>1, SeqDef DEF NamesOf, Places

LEMMA AskKeeps ==
  ASSUME IInv, NEW k \in Callers, GetToxicArray(k) \/ GetToxic(k)
  PROVE  IInv'
<1>1. /\ caller[k].pc = "body" /\ mutex' = Nobody /\ UNCHANGED <<shared, flows>>
      /\ \E names \in Seq(Names) : Tell(k, names)
  <2>1. CASE GetToxicArray(k)
    <3>1. NamesOf("upstream") \o NamesOf("downstream") \in Seq(Names)
      BY NamesOfType, ConcatProperties DEF IInv, Dirs
    <3> QED
      BY <2>1, <3>1 DEF GetToxicArray, AtWork
  <2>2. CASE GetToxic(k)
    <3>1. PICK n \in Names : Tell(k, IF n \in Used THEN <<n>> ELSE <<>>)
      BY <2>2 DEF GetToxic
    <3>2. (IF n \in Used THEN <<n>> ELSE <<>>) \in Seq(Names)
      OBVIOUS
    <3> QED
      BY <2>2, <3>1, <3>2 DEF GetToxic, AtWork
  <2> QED
    BY <2>1, <2>2
<1>2. PICK names \in Seq(Names) : Tell(k, names)
  BY <1>1
<1> DEFINE c == [Idle EXCEPT !.pc = "answer"]
<1>3. c \in Call /\ c.pc = "answer"
  BY DEF Idle, Call
<1>4. caller' = [caller EXCEPT ![k] = c] /\ answer' = [answer EXCEPT ![k] = names]
  BY <1>2 DEF Tell
<1> HIDE DEF c
<1>5. mutex = k /\ answer \in [Callers -> Seq(Names)]
  BY <1>1, HoldsMutex DEF TypeOK
<1>6. answer' \in [Callers -> Seq(Names)]
  BY <1>4, <1>5
<1> QED
  BY <1>1, <1>3, <1>4, <1>5, <1>6, LeavesWork
-----------------------------------------------------------------------------
(* Steps of the handler that has the mutex on the toxics.                  *)

(* All links run their chains when a call is about to change one.          *)
LEMMA AllRun ==
  ASSUME IInv, \/ mutex = Nobody
               \/ \E k \in Callers : mutex = k /\ caller[k].pc = "body",
         NEW l \in Links, link[l] = "runs"
  PROVE  l \in links /\ RunsAll(runs[l], chain[DirOf[l]]) /\ DirOf[l] \in Dirs
<1>1. \A k \in Callers : ~Behind(k, l)
  BY NoneLeaving DEF IInv, CInv
<1> QED
  BY <1>1, CollectionAssumption DEF IInv, LinksOK, LinkOK

(* New settings for a toxic that is in a chain.                            *)
LEMMA EditFacts ==
  ASSUME CInv, NEW w \in Found, NEW v \in Values,
         wrapper' = [wrapper EXCEPT ![w].value = v]
  PROVE  /\ wrapper' \in [Ids -> Wrapper \cup {Unused}]
         /\ w \in Ids /\ wrapper'[w] \in Wrapper /\ wrapper'[w].value = v
         /\ wrapper'[w].name = wrapper[w].name /\ wrapper'[w].dir = wrapper[w].dir
         /\ wrapper'[w].index = wrapper[w].index
         /\ \A x \in Ids \ {w} : wrapper'[x] = wrapper[x]
<1>1. w \in Ids /\ wrapper[w] \in Wrapper
  BY FoundFacts
<1>2. wrapper \in [Ids -> Wrapper \cup {Unused}]
  BY DEF CInv, TypeOK
<1>3. /\ wrapper'[w] = [wrapper[w] EXCEPT !.value = v]
      /\ \A x \in Ids \ {w} : wrapper'[x] = wrapper[x]
  BY <1>1, <1>2
<1>4. [wrapper[w] EXCEPT !.value = v] \in Wrapper
  BY <1>1 DEF Wrapper
<1> QED
  BY <1>1, <1>2, <1>3, <1>4 DEF Wrapper

LEMMA EditKeeps ==
  ASSUME CInv, NEW w \in Found, NEW v \in Values,
         wrapper' = [wrapper EXCEPT ![w].value = v], UNCHANGED chain,
         \A x : Leaving(x)' <=> Leaving(x)
  PROVE  ChainsOK' /\ InUse' /\ NamesUnique'
<1>1. Found \subseteq Ids /\ Found' = Found
  BY FoundFacts DEF Found
<1>2. /\ wrapper'[w] \in Wrapper
      /\ \A x \in Ids \ {w} : wrapper'[x] = wrapper[x]
      /\ \A x \in Ids : /\ wrapper'[x].name = wrapper[x].name
                        /\ wrapper'[x].dir = wrapper[x].dir
                        /\ wrapper'[x].index = wrapper[x].index
  BY EditFacts
<1>3. ChainsOK'
  <2> SUFFICES ASSUME NEW d \in Dirs, NEW i \in Places(d)
               PROVE  /\ wrapper'[chain[d][i]] \in Wrapper /\ wrapper'[chain[d][i]].dir = d
                      /\ wrapper'[chain[d][i]].index = i
    BY DEF ChainsOK, Places
  <2> QED
    BY <1>2, ChainFacts
<1>4. InUse'
  <2>1. \A x \in Ids : wrapper'[x] # Unused <=> wrapper[x] # Unused
    BY <1>2, FoundFacts, CollectionAssumption
  <2> QED
    BY <1>1, <2>1 DEF CInv, InUse
<1>5. NamesUnique'
  BY <1>1, <1>2 DEF CInv, NamesUnique
<1> QED
  BY <1>3, <1>4, <1>5

LEMMA UpdateFailsKeeps ==
  ASSUME IInv, NEW k \in Callers, UpdateFails(k)
  PROVE  IInv'
<1>1. /\ caller[k].pc = "body" /\ Unlock(k)
      /\ UNCHANGED <<chain, flows, answer>> /\ UNCHANGED <<links, link, runs>>
  BY DEF UpdateFails, AtWork, flows
<1>2. mutex = k /\ TypeOK /\ CallsOK /\ CInv
  BY <1>1, HoldsMutex DEF IInv
<1>3. CASE UNCHANGED <<wrapper, torn>>
  <2>1. UNCHANGED <<shared, flows>> /\ answer' \in [Callers -> Seq(Names)]
    BY <1>1, <1>2, <1>3 DEF shared, TypeOK
  <2>2. Idle \in Call /\ Idle.pc = "idle" /\ mutex' = Nobody /\ caller' = [caller EXCEPT ![k] = Idle]
    BY <1>1, IdleType DEF Idle, Unlock
  <2> QED
    BY <1>1, <1>2, <2>1, <2>2, LeavesWork
<1>4. CASE \E w \in Found, v \in Values : /\ wrapper' = [wrapper EXCEPT ![w].value = v]
                                          /\ torn' = torn \cup {w}
  <2>1. PICK w \in Found, v \in Values : /\ wrapper' = [wrapper EXCEPT ![w].value = v]
                                         /\ torn' = torn \cup {w}
    BY <1>4
  <2>2. /\ caller' \in [Callers -> Call] /\ caller'[k] = Idle /\ mutex' = Nobody
        /\ \A j \in Callers \ {k} : caller'[j] = caller[j]
    BY <1>1, <1>2, Unlocked
  <2>3. CallsOK'
    <3>1. CallOK(k)'
      BY <2>2, CollectionAssumption DEF CallOK, Idle
    <3> QED
      BY <1>2, <2>2, <3>1, OthersKeep
  <2>4. /\ \A x : ~Leaving(x) /\ ~Leaving(x)'
        /\ \A j \in Callers : \A l : ~Behind(j, l)'
    <3>1. \A j \in Callers : caller'[j].pc # "links"
      BY <2>2, <2>3, CollectionAssumption DEF CallsOK, CallOK
    <3> QED
      BY <1>1, <1>2, <3>1, NoneLeaving DEF Leaving, Behind
  <2>5. TypeOK'
    <3>1. w \in Ids /\ wrapper' \in [Ids -> Wrapper \cup {Unused}]
      BY <1>2, <2>1, EditFacts
    <3> QED
      BY <1>1, <1>2, <2>1, <2>2, <3>1 DEF TypeOK
  <2>6. ChainsOK' /\ InUse' /\ NamesUnique'
    BY <1>1, <1>2, <2>1, <2>4, EditKeeps
  <2>7. LinksOK'
    <3> SUFFICES ASSUME NEW l \in Links PROVE LinkOK(l)'
      BY DEF LinksOK
    <3>1. link[l] # "none" => l \in links
      BY DEF IInv, LinksOK, LinkOK
    <3>2. ASSUME link[l] = "runs" PROVE RunsAll(runs[l], chain[DirOf[l]])'
      <4>1. RunsAll(runs[l], chain[DirOf[l]]) /\ DirOf[l] \in Dirs
        BY <1>1, <1>2, <3>2, AllRun
      <4>2. \A j \in Places(DirOf[l]) : chain[DirOf[l]][j] \in Ids
        BY <1>2, <4>1, ChainFacts
      <4>3. \A x \in Ids : (x \in torn => x \in torn') /\ (x \in torn' \/ wrapper'[x] = wrapper[x])
        BY <1>2, <2>1, EditFacts
      <4> QED
        BY <1>1, <4>1, <4>2, <4>3 DEF RunsAll, Agrees, Places
    <3> QED
      BY <1>1, <2>4, <3>1, <3>2 DEF LinkOK
  <2> QED
    BY <2>3, <2>5, <2>6, <2>7 DEF IInv, CInv
<1> QED
  BY <1>3, <1>4 DEF UpdateFails
(* The handler has changed a chain and turns to the links.                 *)
LEMMA CallLinksFacts ==
  ASSUME IInv, NEW k \in Callers, caller[k].pc = "body",
         caller[k].op \in {"add", "update", "remove", "reset"}, NEW w \in Ids,
         wrapper'[w] \in Wrapper, CallLinks(k, w), UNCHANGED <<mutex, links>>,
         caller[k].op \in {"add", "update"} => w \in Range(chain'[wrapper'[w].dir]),
         caller[k].op = "add" => wrapper'[w].index = Len(chain'[wrapper'[w].dir]),
         caller[k].op \in {"remove", "reset"} => w \notin Found'
  PROVE  /\ caller' \in [Callers -> Call] /\ CallsOK'
         /\ caller'[k].pc = "links" /\ caller'[k].op = caller[k].op /\ caller'[k].at = w
         /\ \A j \in Callers \ {k} : \A l : ~Behind(j, l)'
         /\ \A l \in Links : Behind(k, l)' <=> l \in links /\ DirOf[l] = wrapper'[w].dir
         /\ \A x : Leaving(x)' <=> x = w /\ caller[k].op \in {"remove", "reset"}
<1> DEFINE c == [caller[k] EXCEPT !.pc = "links", !.at = w, !.left = Registered(wrapper'[w].dir)]
<1>1. mutex = k /\ TypeOK /\ CallsOK /\ caller[k] \in Call
  BY HoldsMutex
<1>2. Registered(wrapper'[w].dir) \subseteq links /\ links \subseteq Links
  BY <1>1 DEF Registered, TypeOK
<1>3. /\ c \in Call /\ c.pc = "links" /\ c.op = caller[k].op /\ c.at = w
      /\ c.left = Registered(wrapper'[w].dir) /\ caller' = [caller EXCEPT ![k] = c]
  BY <1>1, <1>2 DEF Call, CallLinks, TypeOK
<1> HIDE DEF c
<1>4. /\ caller' \in [Callers -> Call] /\ caller'[k] = c
      /\ \A j \in Callers \ {k} : caller'[j] = caller[j]
  BY <1>1, <1>3, Moved
<1>5. CallOK(k)'
  <2>1. Registered(wrapper[caller[k].at].dir)' = Registered(wrapper'[w].dir)
    BY <1>3, <1>4 DEF Registered
  <2> QED
    BY <1>1, <1>3, <1>4, <2>1 DEF CallOK, Removing
<1>6. CallsOK'
  BY <1>1, <1>4, <1>5, OthersKeep
<1>7. \A j \in Callers \ {k} : caller'[j].pc # "links"
  BY <1>1, <1>4, OthersOut
<1> QED
  BY <1>2, <1>3, <1>4, <1>6, <1>7 DEF Behind, Leaving, Removing, Registered

(* chainUpdateToxic puts a toxic where it is.                              *)
LEMMA SamePlace ==
  ASSUME CInv, NEW w \in Found, chain' = [chain EXCEPT ![wrapper[w].dir][wrapper[w].index] = w]
  PROVE  chain' = chain
<1> DEFINE d == wrapper[w].dir
           i == wrapper[w].index
<1>1. d \in Dirs /\ i \in Places(d) /\ chain[d][i] = w /\ chain \in [Dirs -> Seq(Ids)]
  BY FoundFacts DEF CInv, TypeOK
<1>2. [chain[d] EXCEPT ![i] = w] = chain[d]
  BY <1>1
<1>3. chain' = [chain EXCEPT ![d] = [chain[d] EXCEPT ![i] = w]]
  OBVIOUS
<1> HIDE DEF d, i
<1> QED
  BY <1>1, <1>2, <1>3

LEMMA ChainUpdateKeeps ==
  ASSUME IInv, NEW k \in Callers, ChainUpdate(k)
  PROVE  IInv'
<1>1. PICK w \in Found, v \in Values :
        /\ wrapper' = [wrapper EXCEPT ![w].value = v]
        /\ torn' = torn \ {w}
        /\ chain' = [chain EXCEPT ![wrapper[w].dir][wrapper[w].index] = w]
        /\ CallLinks(k, w)
  BY DEF ChainUpdate
<1>2. /\ caller[k].pc = "body" /\ caller[k].op = "update"
      /\ UNCHANGED <<mutex, links, link, runs, answer>>
  BY DEF ChainUpdate, AtWork, flows
<1>3. mutex = k /\ TypeOK /\ CallsOK /\ CInv
  BY <1>2, HoldsMutex DEF IInv
<1> DEFINE d == wrapper[w].dir
           i == wrapper[w].index
<1>4. /\ w \in Ids /\ d \in Dirs /\ i \in Places(d) /\ chain[d][i] = w
      /\ w \in Range(chain[d])
  BY <1>3, FoundFacts
<1>5. chain' = chain
  BY <1>1, <1>3, SamePlace
<1>6. /\ wrapper' \in [Ids -> Wrapper \cup {Unused}] /\ wrapper'[w] \in Wrapper
      /\ wrapper'[w].value = v /\ wrapper'[w].dir = d /\ wrapper'[w].index = i
      /\ \A x \in Ids \ {w} : wrapper'[x] = wrapper[x]
  BY <1>1, <1>3, EditFacts
<1> HIDE DEF d, i
<1>7. /\ caller' \in [Callers -> Call] /\ CallsOK'
      /\ caller'[k].op = "update" /\ caller'[k].at = w
      /\ \A j \in Callers \ {k} : \A l : ~Behind(j, l)'
      /\ \A l \in Links : Behind(k, l)' <=> l \in links /\ DirOf[l] = d
      /\ \A x : ~Leaving(x)'
  BY <1>1, <1>2, <1>4, <1>5, <1>6, CallLinksFacts
<1>8. ChainsOK' /\ InUse' /\ NamesUnique'
  <2>1. \A x : ~Leaving(x)
    BY <1>2, <1>3, NoneLeaving
  <2> QED
    BY <1>1, <1>3, <1>5, <1>7, <2>1, EditKeeps
<1>9. TypeOK'
  BY <1>1, <1>2, <1>3, <1>5, <1>6, <1>7 DEF TypeOK
<1>10. LinksOK'
  <2> SUFFICES ASSUME NEW l \in Links PROVE LinkOK(l)'
    BY DEF LinksOK
  <2> DEFINE e == DirOf[l]
  <2>1. link[l] # "none" => l \in links
    BY DEF IInv, LinksOK, LinkOK
  <2>2. ASSUME link[l] = "runs"
        PROVE  /\ l \in links /\ e \in Dirs /\ Len(runs[l]) = Len(chain[e])
               /\ Len(chain[e]) \in Nat
               /\ \A j \in Places(e) : Agrees(runs[l][j], chain[e][j])
               /\ \A j \in Places(e) : chain[e][j] \in Ids
               /\ \A j \in Places(e) : chain[e][j] # w => Agrees(runs[l][j], chain[e][j])'
    <3>1. l \in links /\ RunsAll(runs[l], chain[e]) /\ e \in Dirs
      BY <1>2, <1>3, <2>2, AllRun
    <3>2. Len(chain[e]) \in Nat /\ \A j \in Places(e) : chain[e][j] \in Ids
      BY <1>3, <3>1, ChainFacts
    <3>3. Len(runs[l]) = Len(chain[e]) /\ \A j \in Places(e) : Agrees(runs[l][j], chain[e][j])
      BY <3>1 DEF RunsAll, Places
    <3>4. \A j \in Places(e) : chain[e][j] # w => Agrees(runs[l][j], chain[e][j])'
      BY <1>1, <1>2, <1>5, <1>6, <3>2, <3>3 DEF Agrees
    <3> QED
      BY <3>1, <3>2, <3>3, <3>4
  <2>3. ASSUME link[l] = "runs", DirOf[l] # d PROVE RunsAll(runs[l], chain[DirOf[l]])'
    <3>1. \A j \in Places(e) : chain[e][j] # w
      BY <1>3, <1>4, <2>2, <2>3, OnePlace
    <3>2. \A j \in Places(e) : Agrees(runs[l][j], chain[e][j])'
      BY <2>2, <2>3, <3>1
    <3> QED
      BY <1>2, <1>5, <2>2, <2>3, <3>2 DEF RunsAll, Places
  <2>4. ASSUME link[l] = "runs", DirOf[l] = d
        PROVE  RunsBefore(runs[l], chain[DirOf[l]], caller[k].op, wrapper[caller[k].at].index)'
    <3>1. \A j \in Places(e) : j # i => chain[e][j] # w
      BY <1>3, <1>4, <2>4, <2>2, OnePlace
    <3>2. \A j \in Places(e) : j # i => Agrees(runs[l][j], chain[e][j])'
      BY <2>2, <2>4, <3>1
    <3>3. runs[l][i].toxic = chain[e][i]
      BY <1>4, <2>2, <2>4 DEF Agrees
    <3> QED
      BY <1>2, <1>5, <1>6, <1>7, <2>2, <2>4, <3>2, <3>3 DEF RunsBefore, Places
  <2> HIDE DEF e
  <2>5. ASSUME link[l] = "runs"
        PROVE  (\A j \in Callers : ~Behind(j, l)') => RunsAll(runs[l], chain[DirOf[l]])'
    BY <1>7, <2>2, <2>3, <2>5
  <2>6. ASSUME link[l] = "runs", NEW j \in Callers, Behind(j, l)'
        PROVE  RunsBefore(runs[l], chain[DirOf[l]], caller[j].op, wrapper[caller[j].at].index)'
    <3>1. j = k
      BY <1>7, <2>6
    <3>2. DirOf[l] = d
      BY <1>7, <2>6, <3>1
    <3> QED
      BY <2>4, <2>6, <3>1, <3>2
  <2> QED
    BY <1>2, <2>1, <2>5, <2>6 DEF LinkOK
<1> QED
  BY <1>7, <1>8, <1>9, <1>10 DEF IInv, CInv
(* A chain with a toxic more at its end, and one with a toxic less.        *)
LEMMA LongerChain ==
  ASSUME CInv, NEW d \in Dirs, NEW w \in Ids, chain' = [chain EXCEPT ![d] = Append(@, w)]
  PROVE  /\ chain' \in [Dirs -> Seq(Ids)]
         /\ Len(chain'[d]) = Len(chain[d]) + 1 /\ chain'[d][Len(chain[d]) + 1] = w
         /\ \A i \in Places(d) : chain'[d][i] = chain[d][i]
         /\ \A e \in Dirs \ {d} : chain'[e] = chain[e]
<1> DEFINE m == Len(chain[d]) + 1
<1>1. /\ chain[d] \in Seq(Ids) /\ chain \in [Dirs -> Seq(Ids)]
      /\ chain'[d] = Append(chain[d], w) /\ \A e \in Dirs \ {d} : chain'[e] = chain[e]
  BY DEF CInv, TypeOK
<1>2. /\ Append(chain[d], w) \in Seq(Ids) /\ Len(Append(chain[d], w)) = m
      /\ Append(chain[d], w)[m] = w
      /\ \A i \in 1 .. Len(chain[d]) : Append(chain[d], w)[i] = chain[d][i]
  BY <1>1, AppendProperties
<1>3. chain' \in [Dirs -> Seq(Ids)]
  BY <1>1, <1>2
<1> QED
  BY <1>1, <1>2, <1>3 DEF Places

LEMMA ShorterChain ==
  ASSUME CInv, NEW d \in Dirs, NEW i \in Places(d), chain' = [chain EXCEPT ![d] = RemoveAt(@, i)]
  PROVE  /\ chain' \in [Dirs -> Seq(Ids)] /\ Len(chain'[d]) = Len(chain[d]) - 1
         /\ \A j \in 1 .. Len(chain[d]) - 1 : j < i => chain'[d][j] = chain[d][j]
         /\ \A j \in 1 .. Len(chain[d]) - 1 : j >= i => chain'[d][j] = chain[d][j + 1]
         /\ \A e \in Dirs \ {d} : chain'[e] = chain[e]
<1>0. i \in Nat \ {0} /\ Len(chain[d]) \in Nat /\ Places(d) = 1 .. Len(chain[d])
  BY ChainFacts DEF Places
<1>1. /\ chain[d] \in Seq(Ids) /\ chain \in [Dirs -> Seq(Ids)]
      /\ chain'[d] = RemoveAt(chain[d], i) /\ \A e \in Dirs \ {d} : chain'[e] = chain[e]
  BY DEF CInv, TypeOK
<1>2. /\ RemoveAt(chain[d], i) \in Seq(Ids) /\ Len(RemoveAt(chain[d], i)) = Len(chain[d]) - 1
      /\ \A j \in 1 .. Len(chain[d]) - 1 :
           RemoveAt(chain[d], i)[j] = IF j < i THEN chain[d][j] ELSE chain[d][j + 1]
  <2>1. i \in 1 .. Len(chain[d]) /\ chain[d] \in Seq(Ids)
    BY <1>0, <1>1
  <2> QED
    BY <2>1, RemoveAtFacts, Zenon
<1>3. chain' \in [Dirs -> Seq(Ids)]
  BY <1>1, <1>2
<1>4. \A j \in 1 .. Len(chain[d]) - 1 : chain'[d][j] = IF j < i THEN chain[d][j] ELSE chain[d][j + 1]
  BY <1>1, <1>2
<1>5. ASSUME NEW j \in 1 .. Len(chain[d]) - 1, j >= i PROVE chain'[d][j] = chain[d][j + 1]
  <2>1. ~(j < i)
    BY <1>0, <1>5
  <2> QED
    BY <1>4, <2>1
<1> QED
  BY <1>1, <1>2, <1>3, <1>4, <1>5

LEMMA ChainAddKeeps ==
  ASSUME IInv, NEW k \in Callers, ChainAdd(k)
  PROVE  IInv'
<1>1. PICK n \in Names, d \in Dirs, v \in Values, w \in New :
        /\ Free(n, d)
        /\ wrapper' = [wrapper EXCEPT ![w] = [name |-> n, dir |-> d, value |-> v,
                                              index |-> Len(chain[d]) + 1]]
        /\ chain' = [chain EXCEPT ![d] = Append(@, w)]
        /\ CallLinks(k, w)
  BY DEF ChainAdd
<1>2. /\ caller[k].pc = "body" /\ caller[k].op = "add"
      /\ UNCHANGED <<mutex, torn, links, link, runs, answer>>
  BY DEF ChainAdd, AtWork, flows
<1>3. mutex = k /\ TypeOK /\ CallsOK /\ CInv
  BY <1>2, HoldsMutex DEF IInv
<1> DEFINE m == Len(chain[d]) + 1
           new == [name |-> n, dir |-> d, value |-> v, index |-> m]
<1>4. \A x : ~Leaving(x)
  BY <1>2, <1>3, NoneLeaving
<1>5. w \in Ids /\ wrapper[w] = Unused /\ w \notin Found
  BY <1>3, <1>4 DEF New, CInv, InUse
<1>6. m \in Ids /\ m \in Nat \ {0} /\ Len(chain[d]) \in Nat /\ new \in Wrapper
  <2>1. Len(chain[d]) \in Nat
    BY <1>3, ChainFacts
  <2>2. m \in Ids
    BY <1>3, <1>5, PlaceLeft
  <2> QED
    BY <2>1, <2>2 DEF Wrapper
<1>7. /\ chain' \in [Dirs -> Seq(Ids)] /\ Len(chain'[d]) = m /\ chain'[d][m] = w
      /\ \A i \in Places(d) : chain'[d][i] = chain[d][i]
      /\ \A e \in Dirs \ {d} : chain'[e] = chain[e]
  <2>1. chain' = [chain EXCEPT ![d] = Append(@, w)]
    BY <1>1
  <2> QED
    BY <1>3, <1>5, <2>1, LongerChain
<1>8. /\ wrapper' \in [Ids -> Wrapper \cup {Unused}] /\ wrapper'[w] = new
      /\ \A x \in Ids \ {w} : wrapper'[x] = wrapper[x]
  BY <1>1, <1>3, <1>5, <1>6 DEF TypeOK
<1>9. new.name = n /\ new.dir = d /\ new.index = m
  OBVIOUS
<1> HIDE DEF m, new
<1>10. /\ Places(d)' = Places(d) \cup {m} /\ m \notin Places(d)
       /\ \A e \in Dirs \ {d} : Places(e)' = Places(e)
  BY <1>6, <1>7 DEF Places, m
<1>11. Found' = Found \cup {w} /\ w \in Range(chain'[d])
  <2>1. \A e \in Dirs : chain'[e] \in Seq(Ids)
    BY <1>7
  <2>2. \A e \in Dirs : DOMAIN chain'[e] = Places(e)'
    BY <2>1 DEF Places
  <2>3. \A e \in Dirs : Range(chain'[e]) = {chain'[e][i] : i \in Places(e)'}
    BY <2>2 DEF Range
  <2>4. Range(chain'[d]) = Range(chain[d]) \cup {w}
    <3>1. Range(chain[d]) = {chain[d][i] : i \in Places(d)}
      BY <1>3, ChainFacts
    <3> QED
      BY <1>7, <1>10, <2>3, <3>1
  <2>5. \A e \in Dirs \ {d} : Range(chain'[e]) = Range(chain[e])
    BY <1>7
  <2> QED
    BY <2>4, <2>5 DEF Found, Dirs
<1>12. /\ caller' \in [Callers -> Call] /\ CallsOK'
       /\ caller'[k].op = "add" /\ caller'[k].at = w
       /\ \A j \in Callers \ {k} : \A l : ~Behind(j, l)'
       /\ \A l \in Links : Behind(k, l)' <=> l \in links /\ DirOf[l] = d
       /\ \A x : ~Leaving(x)'
  BY <1>1, <1>2, <1>5, <1>6, <1>7, <1>8, <1>9, <1>11, CallLinksFacts
<1>13. ChainsOK'
  <2> SUFFICES ASSUME NEW e \in Dirs, NEW i \in Places(e)'
               PROVE  /\ wrapper'[chain'[e][i]] \in Wrapper /\ wrapper'[chain'[e][i]].dir = e
                      /\ wrapper'[chain'[e][i]].index = i
    BY DEF ChainsOK
  <2>1. CASE e = d /\ i = m
    BY <1>6, <1>7, <1>8, <1>9, <2>1
  <2>2. CASE ~(e = d /\ i = m)
    <3>1. i \in Places(e) /\ chain'[e][i] = chain[e][i]
      BY <1>7, <1>10, <2>2
    <3>2. chain[e][i] \in Found /\ chain[e][i] \in Ids \ {w}
      BY <1>3, <1>5, <3>1, ChainFacts
    <3> QED
      BY <1>3, <1>8, <3>1, <3>2, ChainFacts
  <2> QED
    BY <2>1, <2>2
<1>14. InUse'
  <2> SUFFICES ASSUME NEW x \in Ids PROVE wrapper'[x] # Unused <=> x \in Found'
    BY <1>12 DEF InUse
  <2>1. CASE x = w
    BY <1>6, <1>8, <1>11, <2>1, CollectionAssumption
  <2>2. CASE x # w
    BY <1>3, <1>4, <1>8, <1>11, <2>2 DEF CInv, InUse
  <2> QED
    BY <2>1, <2>2
<1>15. NamesUnique'
  <2>1. \A x \in Found : wrapper[x].name # n /\ x \in Ids \ {w} /\ wrapper'[x] = wrapper[x]
    BY <1>1, <1>3, <1>5, <1>8, FoundFacts DEF Free, Used
  <2> QED
    BY <1>3, <1>8, <1>9, <1>11, <2>1 DEF CInv, NamesUnique
<1>16. TypeOK'
  BY <1>2, <1>3, <1>7, <1>8, <1>12 DEF TypeOK
<1>17. LinksOK'
  <2> SUFFICES ASSUME NEW l \in Links PROVE LinkOK(l)'
    BY DEF LinksOK
  <2> DEFINE e == DirOf[l]
  <2>1. link[l] # "none" => l \in links
    BY DEF IInv, LinksOK, LinkOK
  <2>2. ASSUME link[l] = "runs"
        PROVE  /\ l \in links /\ e \in Dirs /\ Len(runs[l]) = Len(chain[e])
               /\ Len(chain[e]) \in Nat
               /\ \A j \in Places(e) : Agrees(runs[l][j], chain[e][j])'
    <3>1. l \in links /\ RunsAll(runs[l], chain[e]) /\ e \in Dirs
      BY <1>2, <1>3, <2>2, AllRun
    <3>2. Len(chain[e]) \in Nat /\ \A j \in Places(e) : chain[e][j] \in Ids \ {w}
      BY <1>3, <1>5, <3>1, ChainFacts
    <3>3. Len(runs[l]) = Len(chain[e]) /\ \A j \in Places(e) : Agrees(runs[l][j], chain[e][j])
      BY <3>1 DEF RunsAll, Places
    <3>4. \A j \in Places(e) : chain'[e][j] = chain[e][j]
      BY <1>7, <3>1
    <3>5. \A j \in Places(e) : Agrees(runs[l][j], chain[e][j])'
      BY <1>2, <1>8, <3>2, <3>3, <3>4 DEF Agrees
    <3> QED
      BY <3>1, <3>2, <3>3, <3>5
  <2>3. ASSUME link[l] = "runs", DirOf[l] # d PROVE RunsAll(runs[l], chain[DirOf[l]])'
    BY <1>2, <1>7, <2>2, <2>3 DEF RunsAll, Places
  <2>4. ASSUME link[l] = "runs", DirOf[l] = d
        PROVE  RunsBefore(runs[l], chain[DirOf[l]], caller[k].op, wrapper[caller[k].at].index)'
    <3>1. Len(chain'[e]) = Len(runs[l]) + 1
      BY <1>7, <2>2, <2>4 DEF m
    <3> QED
      BY <1>2, <1>12, <2>2, <2>4, <3>1 DEF RunsBefore, Places
  <2> HIDE DEF e
  <2>5. ASSUME link[l] = "runs"
        PROVE  (\A j \in Callers : ~Behind(j, l)') => RunsAll(runs[l], chain[DirOf[l]])'
    BY <1>12, <2>2, <2>3, <2>5
  <2>6. ASSUME link[l] = "runs", NEW j \in Callers, Behind(j, l)'
        PROVE  RunsBefore(runs[l], chain[DirOf[l]], caller[j].op, wrapper[caller[j].at].index)'
    <3>1. j = k
      BY <1>12, <2>6
    <3>2. DirOf[l] = d
      BY <1>12, <2>6, <3>1
    <3> QED
      BY <2>4, <2>6, <3>1, <3>2
  <2> QED
    BY <1>2, <2>1, <2>5, <2>6 DEF LinkOK
<1> QED
  BY <1>12, <1>13, <1>14, <1>15, <1>16, <1>17 DEF IInv, CInv
(* The toxics behind the one removed know their new places.                *)
LEMMA RenumberedFacts ==
  ASSUME CInv, NEW w \in Found, wrapper' = Renumbered(w, wrapper[w].dir)
  PROVE  /\ wrapper' \in [Ids -> Wrapper \cup {Unused}] /\ wrapper'[w] = wrapper[w]
         /\ \A x \in Ids : wrapper'[x] # Unused <=> wrapper[x] # Unused
         /\ \A x \in Found : /\ wrapper'[x] \in Wrapper /\ wrapper'[x].name = wrapper[x].name
                             /\ wrapper'[x].dir = wrapper[x].dir
                             /\ wrapper'[x].value = wrapper[x].value
                             /\ wrapper[x].index \in Nat
                             /\ wrapper[x].dir = wrapper[w].dir /\ wrapper[x].index > wrapper[w].index
                                  => wrapper'[x].index = wrapper[x].index - 1
                             /\ ~(wrapper[x].dir = wrapper[w].dir /\ wrapper[x].index > wrapper[w].index)
                                  => wrapper'[x].index = wrapper[x].index
<1> DEFINE d == wrapper[w].dir
           i == wrapper[w].index
           Moves(x) == x \in Range(chain[d]) /\ wrapper[x].index > i
<1>1. wrapper \in [Ids -> Wrapper \cup {Unused}]
  BY DEF CInv, TypeOK
<1>2. d \in Dirs /\ i \in Ids /\ w \in Ids /\ wrapper[w] \in Wrapper
  BY FoundFacts DEF Wrapper
<1>3. Range(chain[d]) \subseteq Found /\ Found \subseteq Ids
  BY <1>2, FoundFacts DEF Found, Dirs
<1>4. \A x \in Ids : wrapper'[x] = IF Moves(x) THEN [wrapper[x] EXCEPT !.index = @ - 1] ELSE wrapper[x]
  BY DEF Renumbered
<1>5. \A x \in Found : wrapper[x] \in Wrapper /\ wrapper[x].index \in Ids /\ wrapper[x].index \in Nat
                       /\ (x \in Range(chain[d]) <=> wrapper[x].dir = d)
  <2> SUFFICES ASSUME NEW x \in Found
               PROVE  wrapper[x] \in Wrapper /\ wrapper[x].index \in Ids /\ wrapper[x].index \in Nat
                      /\ (x \in Range(chain[d]) <=> wrapper[x].dir = d)
    OBVIOUS
  <2>1. wrapper[x] \in Wrapper /\ (x \in Range(chain[d]) <=> d = wrapper[x].dir)
    BY <1>2, FoundFacts
  <2> QED
    BY <2>1 DEF Wrapper, Ids
<1> HIDE DEF d
<1>6. ASSUME NEW x \in Ids, Moves(x)
      PROVE  /\ wrapper'[x] = [wrapper[x] EXCEPT !.index = @ - 1] /\ wrapper'[x] \in Wrapper
             /\ wrapper[x] \in Wrapper
  <2>1. wrapper[x] \in Wrapper /\ wrapper[x].index \in Ids
    BY <1>3, <1>5, <1>6
  <2>2. wrapper[x].index - 1 \in Ids
    BY <1>2, <1>6, <2>1, CollectionAssumption DEF Ids
  <2> QED
    BY <1>4, <1>6, <2>1, <2>2 DEF Wrapper
<1>7. \A x \in Ids : ~Moves(x) => wrapper'[x] = wrapper[x]
  BY <1>4
<1>8. wrapper'[w] = wrapper[w]
  BY <1>2, <1>7 DEF Ids
<1>9. wrapper' \in [Ids -> Wrapper \cup {Unused}]
  <2>1. wrapper' = [x \in Ids |-> wrapper'[x]]
    BY DEF Renumbered
  <2>2. \A x \in Ids : wrapper'[x] \in Wrapper \cup {Unused}
    BY <1>1, <1>6, <1>7
  <2> QED
    BY <2>1, <2>2
<1>10. \A x \in Ids : wrapper'[x] # Unused <=> wrapper[x] # Unused
  BY <1>6, <1>7, CollectionAssumption
<1>11. ASSUME NEW x \in Found
       PROVE  /\ wrapper'[x] \in Wrapper /\ wrapper'[x].name = wrapper[x].name
              /\ wrapper'[x].dir = wrapper[x].dir
              /\ wrapper'[x].value = wrapper[x].value
              /\ wrapper[x].index \in Nat
              /\ wrapper[x].dir = d /\ wrapper[x].index > i
                   => wrapper'[x].index = wrapper[x].index - 1
              /\ ~(wrapper[x].dir = d /\ wrapper[x].index > i)
                   => wrapper'[x].index = wrapper[x].index
  <2>1. x \in Ids /\ wrapper[x] \in Wrapper /\ wrapper[x].index \in Nat
    BY <1>3, <1>5
  <2>2. CASE Moves(x)
    BY <1>5, <1>6, <2>1, <2>2, ZenonT(40) DEF Wrapper
  <2>3. CASE ~Moves(x)
    BY <1>5, <1>7, <2>1, <2>3
  <2> QED
    BY <2>2, <2>3
<1> QED
  BY <1>8, <1>9, <1>10, <1>11 DEF d
LEMMA ChainRemoveKeeps ==
  ASSUME IInv, NEW k \in Callers, NEW w \in Found, ChainRemove(k, w),
         caller[k].pc = "body", caller[k].op \in {"remove", "reset"},
         NEW d, d = wrapper[w].dir, NEW i, i = wrapper[w].index
  PROVE  IInv'
<1>1. /\ wrapper' = Renumbered(w, d) /\ CallLinks(k, w)
      /\ UNCHANGED <<mutex, torn, links, link, runs, answer>>
      /\ chain' = [chain EXCEPT ![d] = RemoveAt(@, i)]
  BY DEF ChainRemove, flows
<1>2. mutex = k /\ TypeOK /\ CallsOK /\ CInv
  BY HoldsMutex DEF IInv
<1>3. /\ w \in Ids /\ d \in Dirs /\ i \in Places(d) /\ chain[d][i] = w
      /\ i \in Nat \ {0} /\ Len(chain[d]) \in Nat /\ Places(d) = 1 .. Len(chain[d])
  BY <1>2, FoundFacts, ChainFacts DEF Places
<1>4. /\ wrapper' \in [Ids -> Wrapper \cup {Unused}] /\ wrapper'[w] = wrapper[w]
      /\ \A x \in Ids : wrapper'[x] # Unused <=> wrapper[x] # Unused
      /\ \A x \in Found : /\ wrapper'[x] \in Wrapper /\ wrapper'[x].name = wrapper[x].name
                          /\ wrapper'[x].dir = wrapper[x].dir
                          /\ wrapper'[x].value = wrapper[x].value
                          /\ wrapper[x].dir = d /\ wrapper[x].index > i
                               => wrapper'[x].index = wrapper[x].index - 1
                          /\ ~(wrapper[x].dir = d /\ wrapper[x].index > i)
                               => wrapper'[x].index = wrapper[x].index
  BY <1>1, <1>2, RenumberedFacts
<1>5. wrapper'[w] \in Wrapper /\ wrapper'[w].dir = d /\ wrapper'[w].index = i
  BY <1>4
<1>6. /\ chain' \in [Dirs -> Seq(Ids)] /\ Len(chain'[d]) = Len(chain[d]) - 1
      /\ \A j \in 1 .. Len(chain[d]) - 1 : j < i => chain'[d][j] = chain[d][j]
      /\ \A j \in 1 .. Len(chain[d]) - 1 : j >= i => chain'[d][j] = chain[d][j + 1]
      /\ \A e \in Dirs \ {d} : chain'[e] = chain[e]
  <2>1. chain' = [chain EXCEPT ![d] = RemoveAt(@, i)]
    BY <1>1
  <2> QED
    BY <1>2, <1>3, <2>1, ShorterChain, ZenonT(40)
<1>7. Places(d)' = 1 .. Len(chain[d]) - 1 /\ \A e \in Dirs \ {d} : Places(e)' = Places(e)
  BY <1>6 DEF Places
<1>8. \A j \in Places(d)' :
        \E h \in Places(d) : /\ h # i /\ chain'[d][j] = chain[d][h]
                             /\ j < i => h = j
                             /\ j >= i => h = j + 1
  <2> SUFFICES ASSUME NEW j \in Places(d)'
               PROVE  \E h \in Places(d) : /\ h # i /\ chain'[d][j] = chain[d][h]
                                           /\ j < i => h = j
                                           /\ j >= i => h = j + 1
    OBVIOUS
  <2>0. j \in 1 .. Len(chain[d]) - 1
    BY <1>7
  <2>1. CASE j < i
    <3>1. j \in Places(d) /\ j # i /\ chain'[d][j] = chain[d][j] /\ ~(j >= i)
      BY <1>3, <1>6, <2>0, <2>1
    <3> QED
      BY <2>1, <3>1
  <2>2. CASE j >= i
    <3>1. j + 1 \in Places(d) /\ j + 1 # i /\ chain'[d][j] = chain[d][j + 1] /\ ~(j < i)
      BY <1>3, <1>6, <2>0, <2>2
    <3> QED
      BY <2>2, <3>1
  <2> QED
    BY <1>3, <2>0, <2>1, <2>2
<1>9. Found' = Found \ {w}
  <2>1. \A e \in Dirs : DOMAIN chain'[e] = Places(e)'
    <3>1. \A e \in Dirs : chain'[e] \in Seq(Ids)
      BY <1>6
    <3> QED
      BY <3>1 DEF Places
  <2>2. Range(chain'[d]) = {chain'[d][j] : j \in Places(d)'}
    BY <1>3, <2>1 DEF Range
  <2>3. \A e \in Dirs \ {d} : Range(chain'[e]) = Range(chain[e])
    BY <1>6
  <2>4. Range(chain[d]) = {chain[d][j] : j \in Places(d)}
    BY <1>2, <1>3, ChainFacts
  <2>5. Range(chain'[d]) = Range(chain[d]) \ {w}
    <3>1. ASSUME NEW x \in Range(chain'[d]) PROVE x \in Range(chain[d]) /\ x # w
      <4>1. PICK j \in Places(d)' : x = chain'[d][j]
        BY <2>2
      <4>2. PICK h \in Places(d) : h # i /\ x = chain[d][h]
        BY <1>8, <4>1
      <4>3. x # w
        BY <1>2, <1>3, <4>2, OnePlace
      <4> QED
        BY <2>4, <4>2, <4>3
    <3>2. ASSUME NEW x \in Range(chain[d]), x # w PROVE x \in Range(chain'[d])
      <4>1. PICK h \in Places(d) : x = chain[d][h] /\ h # i
        BY <1>3, <2>4, <3>2
      <4>2. CASE h < i
        <5>1. h \in Places(d)' /\ chain'[d][h] = x
          BY <1>3, <1>6, <1>7, <4>1, <4>2
        <5> QED
          BY <2>2, <5>1
      <4>3. CASE h > i
        <5>1. h - 1 \in Places(d)' /\ h - 1 >= i /\ h - 1 + 1 = h
          BY <1>3, <1>7, <4>1, <4>3
        <5>2. chain'[d][h - 1] = x
          BY <1>6, <1>7, <4>1, <5>1
        <5> QED
          BY <2>2, <5>1, <5>2
      <4> QED
        BY <1>3, <4>1, <4>2, <4>3
    <3> QED
      BY <3>1, <3>2
  <2>6. \A e \in Dirs \ {d} : w \notin Range(chain[e])
    BY <1>2, FoundFacts
  <2> QED
    BY <1>3, <2>3, <2>5, <2>6 DEF Found, Dirs
<1>10. /\ caller' \in [Callers -> Call] /\ CallsOK'
       /\ caller'[k].op = caller[k].op /\ caller'[k].at = w /\ caller'[k].pc = "links"
       /\ \A j \in Callers \ {k} : \A l : ~Behind(j, l)'
       /\ \A l \in Links : Behind(k, l)' <=> l \in links /\ DirOf[l] = d
       /\ \A x : Leaving(x)' <=> x = w
  BY <1>1, <1>3, <1>5, <1>9, CallLinksFacts
<1>11. ChainsOK'
  <2> SUFFICES ASSUME NEW e \in Dirs, NEW j \in Places(e)'
               PROVE  /\ wrapper'[chain'[e][j]] \in Wrapper /\ wrapper'[chain'[e][j]].dir = e
                      /\ wrapper'[chain'[e][j]].index = j
    BY DEF ChainsOK
  <2>1. CASE e = d
    <3>1. PICK h \in Places(d) : /\ h # i /\ chain'[d][j] = chain[d][h]
                                 /\ j < i => h = j
                                 /\ j >= i => h = j + 1
      BY <1>8, <2>1
    <3>2. /\ chain[d][h] \in Found /\ wrapper[chain[d][h]].dir = d
          /\ wrapper[chain[d][h]].index = h
      BY <1>2, <1>3, ChainFacts
    <3>3. j \in Nat /\ h \in Nat
      BY <1>3, <1>7, <2>1
    <3>4. CASE j < i
      BY <1>3, <1>4, <2>1, <3>1, <3>2, <3>3, <3>4
    <3>5. CASE j >= i
      <4>1. h > i /\ h - 1 = j
        BY <1>3, <3>1, <3>3, <3>5
      <4> QED
        BY <1>4, <2>1, <3>1, <3>2, <4>1
    <3> QED
      BY <1>3, <3>3, <3>4, <3>5
  <2>2. CASE e # d
    <3>1. j \in Places(e) /\ chain'[e][j] = chain[e][j]
      BY <1>6, <1>7, <2>2
    <3>2. /\ chain[e][j] \in Found /\ wrapper[chain[e][j]].dir = e
          /\ wrapper[chain[e][j]].index = j
      BY <1>2, <3>1, ChainFacts
    <3> QED
      BY <1>4, <2>2, <3>1, <3>2
  <2> QED
    BY <2>1, <2>2
<1>12. InUse'
  <2>1. \A x : ~Leaving(x)
    BY <1>2, NoneLeaving
  <2> QED
    BY <1>2, <1>3, <1>4, <1>9, <1>10, <2>1 DEF CInv, InUse
<1>13. NamesUnique'
  BY <1>2, <1>4, <1>9 DEF CInv, NamesUnique
<1>14. TypeOK'
  BY <1>1, <1>2, <1>4, <1>6, <1>10 DEF TypeOK
<1>15. LinksOK'
  <2> SUFFICES ASSUME NEW l \in Links PROVE LinkOK(l)'
    BY DEF LinksOK
  <2> DEFINE e == DirOf[l]
             Fits(q, x) == q.toxic = x /\ (x \in torn' \/ q.value = wrapper'[x].value)
  <2>1. link[l] # "none" => l \in links
    BY DEF IInv, LinksOK, LinkOK
  <2>2. ASSUME link[l] = "runs"
        PROVE  /\ l \in links /\ e \in Dirs /\ Len(runs[l]) = Len(chain[e])
               /\ Len(chain[e]) \in Nat
               /\ \A j \in Places(e) : Fits(runs[l][j], chain[e][j])
    <3>1. l \in links /\ RunsAll(runs[l], chain[e]) /\ e \in Dirs
      BY <1>2, <2>2, AllRun
    <3>2. Len(chain[e]) \in Nat /\ \A j \in Places(e) : chain[e][j] \in Found
      BY <1>2, <3>1, ChainFacts
    <3>3. Len(runs[l]) = Len(chain[e]) /\ \A j \in Places(e) : Agrees(runs[l][j], chain[e][j])
      BY <3>1 DEF RunsAll, Places
    <3>4. \A x \in Found : wrapper'[x].value = wrapper[x].value /\ torn' = torn
      BY <1>1, <1>4
    <3>5. \A j \in Places(e) : Fits(runs[l][j], chain[e][j])
      BY <3>2, <3>3, <3>4 DEF Agrees
    <3> QED
      BY <3>1, <3>2, <3>3, <3>5
  <2>3. \A q, x : Fits(q, x) => Agrees(q, x)'
    BY DEF Agrees
  <2> HIDE DEF Fits
  <2>4. ASSUME link[l] = "runs", DirOf[l] # d PROVE RunsAll(runs[l], chain[DirOf[l]])'
    <3>1. chain'[e] = chain[e] /\ runs' = runs
      BY <1>1, <1>6, <2>2, <2>4
    <3>2. \A j \in Places(e) : Agrees(runs[l][j], chain[e][j])'
      BY <2>2, <2>3, <2>4, <3>1
    <3> QED
      BY <2>2, <2>4, <3>1, <3>2 DEF RunsAll, Places
  <2>5. ASSUME link[l] = "runs", DirOf[l] = d
        PROVE  RunsBefore(runs[l], chain[DirOf[l]], caller[k].op, wrapper[caller[k].at].index)'
    <3>1. /\ runs' = runs /\ Len(runs[l]) = Len(chain'[d]) + 1 /\ i \in 1 .. Len(runs[l])
          /\ Len(chain'[d]) = Len(chain[d]) - 1
      BY <1>1, <1>3, <1>6, <2>2, <2>5
    <3>2. ASSUME NEW j \in 1 .. Len(chain'[d]), j < i PROVE Agrees(runs[l][j], chain[d][j])'
      <4>1. j \in Places(d) /\ chain'[d][j] = chain[d][j]
        BY <1>3, <1>6, <3>1, <3>2
      <4>2. Fits(runs[l][j], chain[d][j])
        BY <2>2, <2>5, <4>1
      <4> QED
        BY <2>3, <3>1, <4>1, <4>2
    <3>3. ASSUME NEW j \in 1 .. Len(chain'[d]), j >= i PROVE Agrees(runs[l][j + 1], chain[d][j])'
      <4>1. j + 1 \in Places(d) /\ chain'[d][j] = chain[d][j + 1]
        BY <1>3, <1>6, <3>1, <3>3
      <4>2. Fits(runs[l][j + 1], chain[d][j + 1])
        BY <2>2, <2>5, <4>1
      <4> QED
        BY <2>3, <3>1, <4>1, <4>2
    <3> QED
      BY <1>5, <1>10, <2>5, <3>1, <3>2, <3>3 DEF RunsBefore
  <2> HIDE DEF e
  <2>6. ASSUME link[l] = "runs"
        PROVE  (\A j \in Callers : ~Behind(j, l)') => RunsAll(runs[l], chain[DirOf[l]])'
    BY <1>10, <2>2, <2>4, <2>6
  <2>7. ASSUME link[l] = "runs", NEW j \in Callers, Behind(j, l)'
        PROVE  RunsBefore(runs[l], chain[DirOf[l]], caller[j].op, wrapper[caller[j].at].index)'
    <3>1. j = k
      BY <1>10, <2>7
    <3>2. DirOf[l] = d
      BY <1>10, <2>7, <3>1
    <3> QED
      BY <2>5, <2>7, <3>1, <3>2
  <2> QED
    BY <1>1, <2>1, <2>6, <2>7 DEF LinkOK
<1> QED
  BY <1>10, <1>11, <1>12, <1>13, <1>14, <1>15 DEF IInv, CInv
LEMMA RemoveKeeps ==
  ASSUME IInv, NEW k \in Callers, RemoveToxic(k) \/ ResetNext(k)
  PROVE  IInv'
<1>1. /\ caller[k].pc = "body" /\ caller[k].op \in {"remove", "reset"}
      /\ \E w \in Found : ChainRemove(k, w)
  <2>1. CASE RemoveToxic(k)
    BY <2>1 DEF RemoveToxic, AtWork
  <2>2. CASE ResetNext(k)
    <3>1. \A d \in Dirs : chain[d] # <<>> => chain[d][1] \in Found
      <4> SUFFICES ASSUME NEW d \in Dirs, chain[d] # <<>> PROVE chain[d][1] \in Found
        OBVIOUS
      <4>1. chain[d] \in Seq(Ids) /\ Len(chain[d]) \in Nat
        BY ChainFacts DEF IInv
      <4>2. 1 \in Places(d)
        BY <4>1, EmptySeq DEF Places
      <4> QED
        BY <4>2, ChainFacts DEF IInv
    <3> QED
      BY <2>2, <3>1 DEF ResetNext, AtWork, Dirs
  <2> QED
    BY <2>1, <2>2
<1>2. PICK w \in Found : ChainRemove(k, w)
  BY <1>1
<1>3. \E d, i : d = wrapper[w].dir /\ i = wrapper[w].index
  OBVIOUS
<1> QED
  BY <1>1, <1>2, <1>3, ChainRemoveKeeps
-----------------------------------------------------------------------------
(* What is done to a link.                                                 *)

Stub == [toxic : Ids, value : Values]

LEMMA ToxicType ==
  ASSUME NEW x \in Ids, wrapper[x] \in Wrapper
  PROVE  Toxic(x) \in Stub /\ Toxic(x).toxic = x /\ Agrees(Toxic(x), x)
BY DEF Toxic, Stub, Wrapper, Agrees

(* A restarted stub runs the same toxic.                                   *)
LEMMA RestartedFacts ==
  ASSUME NEW seq \in Seq(Stub), NEW n \in 0 .. Len(seq),
         n # 0 => wrapper[seq[n].toxic] \in Wrapper
  PROVE  /\ Restarted(seq, n) \in Seq(Stub) /\ Len(Restarted(seq, n)) = Len(seq)
         /\ \A j \in 1 .. Len(seq) : \A x :
              Agrees(seq[j], x) => Agrees(Restarted(seq, n)[j], x)
<1>1. CASE n = 0
  BY <1>1 DEF Restarted
<1>2. CASE n # 0
  <2>1. n \in 1 .. Len(seq) /\ seq[n] \in Stub
    BY <1>2
  <2> DEFINE t == Toxic(seq[n].toxic)
  <2>2. t \in Stub /\ \A x : Agrees(seq[n], x) => Agrees(t, x)
    <3>1. seq[n].toxic \in Ids
      BY <2>1 DEF Stub
    <3>2. t \in Stub /\ Agrees(t, seq[n].toxic)
      BY <1>2, <3>1, ToxicType
    <3>3. \A x : Agrees(seq[n], x) => x = seq[n].toxic
      BY DEF Agrees
    <3> QED
      BY <3>2, <3>3
  <2>3. Restarted(seq, n) = [seq EXCEPT ![n] = t]
    BY <1>2 DEF Restarted
  <2> HIDE DEF t
  <2>4. /\ [seq EXCEPT ![n] = t] \in Seq(Stub) /\ Len([seq EXCEPT ![n] = t]) = Len(seq)
        /\ \A j \in 1 .. Len(seq) : j # n => [seq EXCEPT ![n] = t][j] = seq[j]
        /\ [seq EXCEPT ![n] = t][n] = t
    BY <2>1, <2>2
  <2>5. ASSUME NEW j \in 1 .. Len(seq), NEW x, Agrees(seq[j], x)
        PROVE  Agrees(Restarted(seq, n)[j], x)
    <3>1. CASE j = n
      BY <2>2, <2>3, <2>4, <2>5, <3>1
    <3>2. CASE j # n
      BY <2>3, <2>4, <2>5, <3>2
    <3> QED
      BY <3>1, <3>2
  <2> QED
    BY <2>3, <2>4, <2>5
<1> QED
  BY <1>1, <1>2

(* A change applied to a link that ran its chain as it was before.         *)
LEMMA AppliedFacts ==
  ASSUME NEW seq \in Seq(Stub), NEW toxics \in Seq(Ids), NEW w \in Ids, NEW op,
         op \in {"add", "update", "remove", "reset"},
         wrapper[w] \in Wrapper, wrapper[w].index \in Nat \ {0},
         \A j \in 1 .. Len(toxics) : toxics[j] \in Ids /\ wrapper[toxics[j]] \in Wrapper,
         RunsBefore(seq, toxics, op, wrapper[w].index),
         op = "add" => wrapper[w].index = Len(toxics),
         op \in {"add", "update"} => /\ wrapper[w].index \in 1 .. Len(toxics)
                                     /\ toxics[wrapper[w].index] = w
  PROVE  AppliedTo(seq, op, w) \in Seq(Stub) /\ RunsAll(AppliedTo(seq, op, w), toxics)
<1> DEFINE i == wrapper[w].index
<1>1. Toxic(w) \in Stub /\ Agrees(Toxic(w), w)
  BY ToxicType
<1>2. Len(seq) \in Nat /\ Len(toxics) \in Nat /\ i \in Nat \ {0}
  OBVIOUS
<1>3. CASE op = "add"
  <2>1. /\ Len(toxics) = Len(seq) + 1 /\ i = Len(toxics) /\ toxics[i] = w
        /\ \A j \in 1 .. Len(seq) : Agrees(seq[j], toxics[j])
    BY <1>3 DEF RunsBefore
  <2> DEFINE a == Restarted(seq, Len(seq))
  <2>2. AppliedTo(seq, op, w) = a \o <<Toxic(w)>>
    BY <1>3 DEF AppliedTo
  <2>3. Len(seq) # 0 => wrapper[seq[Len(seq)].toxic] \in Wrapper
    BY <1>2, <2>1 DEF Agrees
  <2>4. /\ a \in Seq(Stub) /\ Len(a) = Len(seq)
        /\ \A j \in 1 .. Len(seq) : \A x : Agrees(seq[j], x) => Agrees(a[j], x)
    <3>1. Len(seq) \in 0 .. Len(seq)
      BY <1>2
    <3> QED
      BY <2>3, <3>1, RestartedFacts
  <2> HIDE DEF a, i
  <2> DEFINE t == Toxic(w)
  <2>5. t \in Stub /\ Agrees(t, w)
    BY <1>1
  <2> HIDE DEF t
  <2>6. /\ a \o <<t>> \in Seq(Stub) /\ Len(a \o <<t>>) = Len(seq) + 1
        /\ \A j \in 1 .. Len(seq) : (a \o <<t>>)[j] = a[j]
        /\ (a \o <<t>>)[Len(seq) + 1] = t
    BY <1>2, <2>4, <2>5
  <2>7. RunsAll(a \o <<t>>, toxics)
    <3>1. \A j \in 1 .. Len(seq) : Agrees((a \o <<t>>)[j], toxics[j])
      BY <2>1, <2>4, <2>6
    <3>2. Agrees((a \o <<t>>)[Len(toxics)], toxics[Len(toxics)])
      BY <2>1, <2>5, <2>6
    <3>3. \A j \in 1 .. Len(toxics) : j \in 1 .. Len(seq) \/ j = Len(toxics)
      BY <1>2, <2>1
    <3> QED
      BY <2>1, <2>6, <3>1, <3>2, <3>3 DEF RunsAll
  <2> QED
    BY <2>2, <2>6, <2>7 DEF t
<1>4. CASE op = "update"
  <2>1. /\ Len(seq) = Len(toxics) /\ i \in 1 .. Len(toxics) /\ toxics[i] = w
        /\ \A j \in 1 .. Len(toxics) : j # i => Agrees(seq[j], toxics[j])
    BY <1>4 DEF RunsBefore
  <2>2. AppliedTo(seq, op, w) = [seq EXCEPT ![i] = Toxic(w)]
    BY <1>4 DEF AppliedTo
  <2> DEFINE t == Toxic(w)
  <2>3. t \in Stub /\ Agrees(t, w)
    BY <1>1
  <2> HIDE DEF t, i
  <2>4. /\ [seq EXCEPT ![i] = t] \in Seq(Stub) /\ Len([seq EXCEPT ![i] = t]) = Len(seq)
        /\ \A j \in 1 .. Len(seq) : j # i => [seq EXCEPT ![i] = t][j] = seq[j]
        /\ [seq EXCEPT ![i] = t][i] = t
    BY <2>1, <2>3
  <2>5. RunsAll([seq EXCEPT ![i] = t], toxics)
    BY <2>1, <2>3, <2>4 DEF RunsAll
  <2> QED
    BY <2>2, <2>4, <2>5 DEF t
<1>5. CASE op \in {"remove", "reset"}
  <2>1. /\ Len(seq) = Len(toxics) + 1 /\ i \in 1 .. Len(seq)
        /\ \A j \in 1 .. Len(toxics) : j < i => Agrees(seq[j], toxics[j])
        /\ \A j \in 1 .. Len(toxics) : j >= i => Agrees(seq[j + 1], toxics[j])
    BY <1>5 DEF RunsBefore
  <2> DEFINE a == RemoveAt(seq, i)
  <2>2. AppliedTo(seq, op, w) = Restarted(a, i - 1)
    BY <1>5 DEF AppliedTo
  <2>3. /\ a \in Seq(Stub) /\ Len(a) = Len(toxics)
        /\ \A j \in 1 .. Len(toxics) : Agrees(a[j], toxics[j])
    <3>1. /\ a \in Seq(Stub) /\ Len(a) = Len(seq) - 1
          /\ \A j \in 1 .. Len(seq) - 1 : a[j] = IF j < i THEN seq[j] ELSE seq[j + 1]
      BY <2>1, RemoveAtFacts, Zenon
    <3> HIDE DEF a, i
    <3>2. ASSUME NEW j \in 1 .. Len(toxics) PROVE Agrees(a[j], toxics[j])
      <4>1. j \in 1 .. Len(seq) - 1
        BY <1>2, <2>1
      <4>2. CASE j < i
        BY <2>1, <3>1, <4>1, <4>2
      <4>3. CASE ~(j < i)
        <5>1. j >= i
          BY <1>2, <4>3
        <5> QED
          BY <2>1, <3>1, <4>1, <4>3, <5>1
      <4> QED
        BY <4>2, <4>3
    <3> QED
      BY <1>2, <2>1, <3>1, <3>2
  <2> HIDE DEF a, i
  <2>4. i - 1 \in 0 .. Len(a)
    BY <1>2, <2>1, <2>3
  <2>5. i - 1 # 0 => wrapper[a[i - 1].toxic] \in Wrapper
    BY <1>2, <2>3, <2>4 DEF Agrees
  <2>6. /\ Restarted(a, i - 1) \in Seq(Stub) /\ Len(Restarted(a, i - 1)) = Len(a)
        /\ \A j \in 1 .. Len(a) : \A x : Agrees(a[j], x) => Agrees(Restarted(a, i - 1)[j], x)
    BY <2>3, <2>4, <2>5, RestartedFacts
  <2>7. RunsAll(Restarted(a, i - 1), toxics)
    BY <2>3, <2>6 DEF RunsAll
  <2> QED
    BY <2>2, <2>6, <2>7
<1> QED
  BY <1>3, <1>4, <1>5
LEMMA ApplyKeeps ==
  ASSUME IInv, NEW k \in Callers, NEW l \in Links, Apply(k, l)
  PROVE  IInv'
<1> DEFINE w == caller[k].at
           c == [caller[k] EXCEPT !.left = @ \ {l}]
<1>1. /\ caller[k].pc = "links" /\ l \in caller[k].left
      /\ caller' = [caller EXCEPT ![k].left = @ \ {l}]
      /\ UNCHANGED <<mutex, wrapper, chain, torn, links, link, answer>>
      /\ link[l] = "runs" => runs' = [runs EXCEPT ![l] = AppliedTo(@, caller[k].op, w)]
      /\ link[l] # "runs" => runs' = runs
  BY DEF Apply, shared
<1>2. mutex = k /\ TypeOK /\ CallsOK /\ CInv /\ caller[k] \in Call
  BY <1>1, HoldsMutex DEF IInv
<1>3. /\ caller[k].op \in {"add", "update", "remove", "reset"}
      /\ w \in Ids /\ wrapper[w] \in Wrapper
      /\ DirOf[l] = wrapper[w].dir /\ l \in links
      /\ caller[k].op \in {"add", "update"} => w \in Range(chain[wrapper[w].dir])
      /\ caller[k].op = "add" => wrapper[w].index = Len(chain[wrapper[w].dir])
  BY <1>1, <1>2 DEF CallsOK, CallOK, Registered
<1>4. /\ c \in Call /\ c.pc = "links" /\ c.op = caller[k].op /\ c.at = w
      /\ c.left = caller[k].left \ {l} /\ caller' = [caller EXCEPT ![k] = c]
  BY <1>1, <1>2 DEF Call, TypeOK
<1> HIDE DEF c
<1>5. /\ caller' \in [Callers -> Call] /\ caller'[k] = c
      /\ \A j \in Callers \ {k} : caller'[j] = caller[j]
  BY <1>2, <1>4, Moved
<1>6. CallsOK'
  <2>1. CallOK(k)'
    BY <1>1, <1>2, <1>4, <1>5 DEF CallsOK, CallOK, Registered, Removing, Found
  <2> QED
    BY <1>1, <1>2, <1>5, <2>1, OthersKeep
<1>7. /\ \A j \in Callers \ {k} : caller[j].pc # "links" /\ caller'[j].pc # "links"
      /\ \A x : Leaving(x)' <=> Leaving(x)
      /\ \A j \in Callers, m \in Links \ {l} : Behind(j, m)' <=> Behind(j, m)
      /\ \A j \in Callers : ~Behind(j, l)'
  <2>1. \A j \in Callers \ {k} : caller[j].pc # "links" /\ caller'[j].pc # "links"
    BY <1>2, <1>5, OthersOut
  <2> QED
    BY <1>1, <1>4, <1>5, <2>1 DEF Leaving, Behind, Removing
<1>8. ChainsOK' /\ InUse' /\ NamesUnique'
  BY <1>1, <1>2, <1>7 DEF CInv, ChainsOK, Places, InUse, Found, NamesUnique
<1>9. ASSUME link[l] = "runs"
      PROVE  /\ runs'[l] \in Seq(Stub) /\ RunsAll(runs[l], chain[DirOf[l]])'
             /\ runs' \in [Links -> Seq(Stub)]
             /\ \A m \in Links \ {l} : runs'[m] = runs[m]
  <2>1. runs \in [Links -> Seq(Stub)] /\ DirOf[l] \in Dirs
    BY <1>2, CollectionAssumption DEF TypeOK, Stub
  <2> DEFINE t == chain[DirOf[l]]
             op == caller[k].op
             a == runs[l]
             q == AppliedTo(a, op, w)
  <2>2. t \in Seq(Ids) /\ \A j \in 1 .. Len(t) : t[j] \in Ids /\ wrapper[t[j]] \in Wrapper
    BY <1>2, <2>1, ChainFacts DEF Places
  <2>3. RunsBefore(a, t, op, wrapper[w].index)
    BY <1>1, <1>9 DEF IInv, LinksOK, LinkOK, Behind
  <2>4. wrapper[w].index \in Nat \ {0}
    BY <1>3 DEF Wrapper, Ids
  <2>5. op \in {"add", "update"} => wrapper[w].index \in 1 .. Len(t) /\ t[wrapper[w].index] = w
    <3>1. w \in Range(chain[wrapper[w].dir]) => w \in Found
      BY <1>3, <2>1 DEF Found, Dirs
    <3> QED
      BY <1>2, <1>3, <3>1, FoundFacts DEF Places
  <2>6. op = "add" => wrapper[w].index = Len(t)
    BY <1>3
  <2>7. a \in Seq(Stub) /\ op \in {"add", "update", "remove", "reset"}
    BY <1>3, <2>1
  <2>8. runs' = [runs EXCEPT ![l] = q]
    BY <1>1, <1>9
  <2> HIDE DEF w
  <2>9. q \in Seq(Stub) /\ RunsAll(q, t)
    <3> HIDE DEF t, op, a
    <3>1. w \in Ids /\ wrapper[w] \in Wrapper
      BY <1>3
    <3> QED
      BY <2>2, <2>3, <2>4, <2>5, <2>6, <2>7, <3>1, AppliedFacts
  <2> HIDE DEF q
  <2>10. runs'[l] = q /\ runs' \in [Links -> Seq(Stub)] /\ \A m \in Links \ {l} : runs'[m] = runs[m]
    BY <2>1, <2>8, <2>9
  <2>11. RunsAll(runs[l], chain[DirOf[l]])'
    BY <1>1, <2>9, <2>10 DEF RunsAll, Agrees
  <2> QED
    BY <2>9, <2>10, <2>11
<1>10. TypeOK'
  <2>1. runs \in [Links -> Seq(Stub)]
    BY <1>2 DEF TypeOK, Stub
  <2>2. runs' \in [Links -> Seq(Stub)]
    BY <1>1, <1>9, <2>1
  <2> QED
    BY <1>1, <1>2, <1>5, <2>2 DEF TypeOK, Stub
<1>11. LinksOK'
  <2> SUFFICES ASSUME NEW m \in Links PROVE LinkOK(m)'
    BY DEF LinksOK
  <2>1. LinkOK(m)
    BY DEF IInv, LinksOK
  <2>2. CASE m = l
    <3>1. link'[l] = "runs" => RunsAll(runs[l], chain[DirOf[l]])'
      BY <1>1, <1>9
    <3>2. \A j \in Callers : ~Behind(j, l)'
      BY <1>7
    <3> QED
      BY <1>1, <2>1, <2>2, <3>1, <3>2 DEF LinkOK
  <2>3. CASE m # l
    <3>1. runs'[m] = runs[m] /\ link'[m] = link[m]
      BY <1>1, <1>9, <2>3
    <3>2. \A j \in Callers : Behind(j, m)' <=> Behind(j, m)
      BY <1>7, <2>3
    <3>3. \A j \in Callers : caller'[j].op = caller[j].op /\ caller'[j].at = caller[j].at
      BY <1>4, <1>5
    <3> QED
      BY <1>1, <2>1, <3>1, <3>2, <3>3, LinkSame
  <2> QED
    BY <2>2, <2>3
<1> QED
  BY <1>6, <1>8, <1>10, <1>11 DEF IInv, CInv

LEMMA LinksDoneKeeps ==
  ASSUME IInv, NEW k \in Callers, LinksDone(k)
  PROVE  IInv'
<1> DEFINE w == caller[k].at
<1>1. /\ caller[k].pc = "links" /\ caller[k].left = {}
      /\ UNCHANGED <<chain, links, link, runs, answer>>
      /\ Removing(k) => /\ wrapper' = [wrapper EXCEPT ![w] = Unused]
                        /\ torn' = torn \ {w}
      /\ ~Removing(k) => wrapper' = wrapper /\ torn' = torn
      /\ caller[k].op = "reset" => Continue(k)
      /\ caller[k].op # "reset" => Unlock(k)
  BY DEF LinksDone, flows
<1>2. mutex = k /\ TypeOK /\ CallsOK /\ CInv /\ caller[k] \in Call
  BY <1>1, HoldsMutex DEF IInv
<1>3. w \in Ids /\ (Removing(k) => w \notin Found)
  BY <1>1, <1>2 DEF CallsOK, CallOK
<1>4. /\ caller' \in [Callers -> Call] /\ CallOK(k)' /\ caller'[k].pc # "links"
      /\ \A j \in Callers \ {k} : caller'[j] = caller[j]
      /\ mutex' = k \/ mutex' = Nobody
  <2>1. CASE caller[k].op = "reset"
    <3> DEFINE c == [caller[k] EXCEPT !.pc = "body", !.at = 0]
    <3>1. /\ c \in Call /\ c.pc = "body" /\ c.op = "reset" /\ caller' = [caller EXCEPT ![k] = c]
          /\ mutex' = k
      BY <1>1, <1>2, <2>1 DEF Call, Continue, TypeOK
    <3> HIDE DEF c
    <3>2. /\ caller' \in [Callers -> Call] /\ caller'[k] = c
          /\ \A j \in Callers \ {k} : caller'[j] = caller[j]
      BY <1>2, <3>1, Moved
    <3> QED
      BY <3>1, <3>2 DEF CallOK
  <2>2. CASE caller[k].op # "reset"
    <3>1. /\ caller' \in [Callers -> Call] /\ caller'[k] = Idle /\ mutex' = Nobody
          /\ \A j \in Callers \ {k} : caller'[j] = caller[j]
      BY <1>1, <1>2, <2>2, Unlocked
    <3> QED
      BY <3>1, CollectionAssumption DEF CallOK, Idle
  <2> QED
    BY <2>1, <2>2
<1>5. CallsOK'
  BY <1>2, <1>4, OthersKeep
<1>6. /\ \A j \in Callers \ {k} : caller[j].pc # "links"
      /\ \A j \in Callers : caller'[j].pc # "links"
  BY <1>2, <1>4, OthersOut
<1>7. /\ \A x : ~Leaving(x)' /\ (Leaving(x) <=> x = w /\ Removing(k))
      /\ \A j \in Callers : \A l : ~Behind(j, l) /\ ~Behind(j, l)'
  BY <1>1, <1>6 DEF Leaving, Behind
<1> HIDE DEF w
<1>8. /\ wrapper' \in [Ids -> Wrapper \cup {Unused}]
      /\ \A x \in Found : wrapper'[x] = wrapper[x] /\ (x \in torn' <=> x \in torn)
      /\ Found \subseteq Ids
      /\ Removing(k) => wrapper'[w] = Unused
      /\ \A x \in Ids : (x = w /\ Removing(k)) \/ wrapper'[x] = wrapper[x]
  <2>1. Found \subseteq Ids /\ wrapper \in [Ids -> Wrapper \cup {Unused}]
    BY <1>2, FoundFacts DEF TypeOK
  <2>2. CASE Removing(k)
    <3>1. wrapper' = [wrapper EXCEPT ![w] = Unused] /\ torn' = torn \ {w} /\ w \in Ids
      BY <1>1, <1>3, <2>2
    <3>2. \A x \in Found : x \in Ids /\ x # w
      BY <1>3, <2>1, <2>2
    <3>3. /\ wrapper' \in [Ids -> Wrapper \cup {Unused}] /\ wrapper'[w] = Unused
          /\ \A x \in Ids : x # w => wrapper'[x] = wrapper[x]
      BY <2>1, <3>1
    <3> QED
      BY <2>1, <2>2, <3>1, <3>2, <3>3
  <2>3. CASE ~Removing(k)
    BY <1>1, <2>1, <2>3
  <2> QED
    BY <2>2, <2>3
<1>9. Found' = Found
  BY <1>1 DEF Found
<1>10. TypeOK'
  <2>1. torn' \subseteq Ids
    BY <1>1, <1>2 DEF TypeOK
  <2>2. mutex' \in Callers \cup {Nobody}
    BY <1>4
  <2> QED
    BY <1>1, <1>2, <1>4, <1>8, <2>1, <2>2 DEF TypeOK
<1>11. ChainsOK'
  <2> SUFFICES ASSUME NEW d \in Dirs, NEW i \in Places(d)
               PROVE  /\ wrapper'[chain[d][i]] \in Wrapper /\ wrapper'[chain[d][i]].dir = d
                      /\ wrapper'[chain[d][i]].index = i
    BY <1>1 DEF ChainsOK, Places
  <2>1. /\ chain[d][i] \in Found /\ wrapper[chain[d][i]] \in Wrapper
        /\ wrapper[chain[d][i]].dir = d /\ wrapper[chain[d][i]].index = i
    BY <1>2, ChainFacts
  <2> QED
    BY <1>8, <2>1
<1>12. InUse'
  <2> SUFFICES ASSUME NEW x \in Ids PROVE wrapper'[x] # Unused <=> x \in Found
    BY <1>7, <1>9 DEF InUse
  <2>1. wrapper[x] # Unused <=> x \in Found \/ (x = w /\ Removing(k))
    BY <1>2, <1>7 DEF CInv, InUse
  <2>2. CASE x = w /\ Removing(k)
    BY <1>3, <1>8, <2>2 DEF w
  <2>3. CASE ~(x = w /\ Removing(k))
    BY <1>8, <2>1, <2>3
  <2> QED
    BY <2>2, <2>3
<1>13. NamesUnique'
  BY <1>2, <1>8, <1>9 DEF CInv, NamesUnique
<1>14. LinksOK'
  <2> SUFFICES ASSUME NEW l \in Links PROVE LinkOK(l)'
    BY DEF LinksOK
  <2>1. LinkOK(l)
    BY DEF IInv, LinksOK
  <2>2. ASSUME link[l] = "runs" PROVE RunsAll(runs[l], chain[DirOf[l]])'
    <3>1. RunsAll(runs[l], chain[DirOf[l]]) /\ DirOf[l] \in Dirs
      BY <1>7, <2>1, <2>2, CollectionAssumption DEF LinkOK
    <3>2. \A j \in Places(DirOf[l]) : chain[DirOf[l]][j] \in Found
      BY <1>2, <3>1, ChainFacts
    <3> QED
      BY <1>1, <1>8, <3>1, <3>2 DEF RunsAll, Agrees, Places
  <2> QED
    BY <1>1, <1>7, <2>1, <2>2 DEF LinkOK
<1> QED
  BY <1>5, <1>10, <1>11, <1>12, <1>13, <1>14 DEF IInv, CInv
-----------------------------------------------------------------------------
(* Links come and go.                                                      *)

LEMMA LinkStepKeeps ==
  ASSUME IInv, UNCHANGED <<mutex, wrapper, chain, torn, caller, answer>>,
         NEW l \in Links, NEW t \in {"none", "runs", "ends", "cut"}, NEW seq \in Seq(Stub),
         link' = [link EXCEPT ![l] = t], runs' = [runs EXCEPT ![l] = seq],
         \/ links' = links \/ links' = links \cup {l}
         \/ mutex = Nobody /\ links' = links \ {l},
         LinkOK(l)'
  PROVE  IInv'
<1>1. TypeOK /\ CallsOK /\ runs \in [Links -> Seq(Stub)]
  BY DEF IInv, CInv, TypeOK, Stub
<1>2. TypeOK'
  <2>1. runs' \in [Links -> Seq(Stub)]
    BY <1>1
  <2> QED
    BY <1>1, <2>1 DEF TypeOK, Stub
<1>3. ChainsOK' /\ InUse' /\ NamesUnique'
  BY DEF IInv, CInv, ChainsOK, Places, InUse, Leaving, Removing, Found, NamesUnique
<1>4. CallsOK'
  <2> SUFFICES ASSUME NEW k \in Callers PROVE CallOK(k)'
    BY DEF CallsOK
  <2>1. CallOK(k)
    BY <1>1 DEF CallsOK
  <2>2. CASE caller[k].pc = "links"
    <3>1. mutex # Nobody
      BY <2>1, <2>2, CollectionAssumption DEF CallOK
    <3>2. links \subseteq links'
      BY <3>1
    <3>3. Registered(wrapper[caller[k].at].dir) \subseteq Registered(wrapper[caller[k].at].dir)'
      BY <3>2 DEF Registered
    <3> QED
      BY <2>1, <2>2, <3>3 DEF CallOK, Removing, Found
  <2>3. CASE caller[k].pc # "links"
    BY <2>1, <2>3 DEF CallOK
  <2> QED
    BY <2>2, <2>3
<1>5. LinksOK'
  <2> SUFFICES ASSUME NEW m \in Links, m # l PROVE LinkOK(m)'
    BY DEF LinksOK
  <2>1. LinkOK(m)
    BY DEF IInv, LinksOK
  <2>2. link'[m] = link[m] /\ runs'[m] = runs[m] /\ (m \in links => m \in links')
    BY <1>1 DEF TypeOK
  <2>3. \A j \in Callers : Behind(j, m)' <=> Behind(j, m)
    BY DEF Behind
  <2>4. \A j \in Callers : caller'[j].op = caller[j].op /\ caller'[j].at = caller[j].at
    OBVIOUS
  <2> QED
    BY <2>1, <2>2, <2>3, <2>4, LinkSame
<1> QED
  BY <1>2, <1>3, <1>4, <1>5 DEF IInv, CInv

(* A new link runs the chain of its direction as it is.                    *)
LEMMA StartLinkKeeps ==
  ASSUME IInv, NEW l \in Links, StartLink(l)
  PROVE  IInv'
<1> DEFINE t == chain[DirOf[l]]
           seq == [i \in 1 .. Len(t) |-> Toxic(t[i])]
<1>1. /\ UNCHANGED <<mutex, wrapper, chain, torn, caller, answer>> /\ mutex = Nobody
      /\ runs' = [runs EXCEPT ![l] = seq] /\ link' = [link EXCEPT ![l] = "runs"]
      /\ links' = links \cup {l}
  BY DEF StartLink, shared
<1>2. CInv /\ TypeOK /\ CallsOK /\ DirOf[l] \in Dirs /\ runs \in [Links -> Seq(Stub)]
  BY CollectionAssumption DEF IInv, CInv, TypeOK, Stub
<1>3. Len(t) \in Nat /\ \A i \in 1 .. Len(t) : Toxic(t[i]) \in Stub /\ Agrees(Toxic(t[i]), t[i])
  <2>1. Len(t) \in Nat /\ \A i \in 1 .. Len(t) : t[i] \in Ids /\ wrapper[t[i]] \in Wrapper
    BY <1>2, ChainFacts DEF Places
  <2> QED
    BY <2>1, ToxicType
<1>4. seq \in Seq(Stub) /\ Len(seq) = Len(t) /\ \A i \in 1 .. Len(t) : seq[i] = Toxic(t[i])
  BY <1>3, SeqDef
<1>5. \A i \in 1 .. Len(t) : Agrees(seq[i], t[i])
  BY <1>3, <1>4
<1> HIDE DEF seq
<1>6. /\ runs'[l] = seq /\ l \in links' /\ link'[l] = "runs"
  BY <1>1, <1>2 DEF TypeOK
<1>7. RunsAll(runs[l], chain[DirOf[l]])'
  BY <1>1, <1>4, <1>5, <1>6 DEF RunsAll, Agrees
<1>8. \A j \in Callers : ~Behind(j, l)'
  BY <1>1, <1>2, NoneLeaving DEF Behind
<1>9. LinkOK(l)'
  BY <1>6, <1>7, <1>8 DEF LinkOK
<1> QED
  BY <1>1, <1>4, <1>9, LinkStepKeeps

LEMMA LinkClosesKeeps ==
  ASSUME IInv, NEW l \in Links, LinkCloses(l)
  PROVE  IInv'
<1>0. PICK how \in {"ends", "cut"} : link' = [link EXCEPT ![l] = how]
  BY DEF LinkCloses
<1>1. /\ UNCHANGED <<mutex, wrapper, chain, torn, caller, answer>> /\ links' = links
      /\ link[l] = "runs" /\ link' = [link EXCEPT ![l] = how]
      /\ runs' = [runs EXCEPT ![l] = <<>>]
  BY <1>0 DEF LinkCloses, shared
<1>2. link'[l] \in {"ends", "cut"} /\ l \in links
  BY <1>1 DEF IInv, CInv, TypeOK, LinksOK, LinkOK
<1>3. LinkOK(l)'
  BY <1>1, <1>2 DEF LinkOK
<1>4. <<>> \in Seq(Stub)
  OBVIOUS
<1> QED
  BY <1>1, <1>3, <1>4, LinkStepKeeps

LEMMA RemoveLinkKeeps ==
  ASSUME IInv, NEW l \in Links, RemoveLink(l)
  PROVE  IInv'
<1> DEFINE seq == runs[l]
<1>1. /\ UNCHANGED <<mutex, wrapper, chain, torn, caller, answer>> /\ mutex = Nobody
      /\ links' = links \ {l} /\ link' = [link EXCEPT ![l] = "none"] /\ runs' = runs
  BY DEF RemoveLink, shared
<1>2. link'[l] = "none" /\ runs \in [Links -> Seq(Stub)]
  BY <1>1 DEF IInv, CInv, TypeOK, Stub
<1>3. seq \in Seq(Stub) /\ runs' = [runs EXCEPT ![l] = seq]
  BY <1>1, <1>2
<1>4. LinkOK(l)'
  BY <1>2 DEF LinkOK
<1> HIDE DEF seq
<1> QED
  BY <1>1, <1>3, <1>4, LinkStepKeeps
-----------------------------------------------------------------------------
(* The invariant, and the theorems it gives.                               *)

LEMMA InitOK == Init => IInv
<1> SUFFICES ASSUME Init PROVE IInv
  OBVIOUS
<1>1. TypeOK
  BY IdleType DEF Init, TypeOK
<1>2. \A d \in Dirs : Places(d) = {} /\ chain[d] = <<>>
  BY DEF Init, Places
<1>3. Found = {}
  BY <1>2 DEF Found, Range, Dirs
<1>4. ChainsOK /\ InUse /\ NamesUnique
  BY <1>2, <1>3 DEF Init, ChainsOK, InUse, Leaving, NamesUnique, Idle
<1>5. CallsOK
  BY CollectionAssumption DEF Init, CallsOK, CallOK, Idle
<1>6. LinksOK
  BY DEF Init, LinksOK, LinkOK
<1> QED
  BY <1>1, <1>4, <1>5, <1>6 DEF IInv, CInv

LEMMA NextKeeps ==
  ASSUME IInv, [Next]_vars
  PROVE  IInv'
<1>1. CASE UNCHANGED vars
  <2>1. UNCHANGED <<mutex, wrapper, chain, torn, links, link, runs, caller, answer>>
    BY <1>1 DEF vars, shared, flows
  <2>2. LinksOK'
    <3> SUFFICES ASSUME NEW l \in Links PROVE LinkOK(l)'
      BY DEF LinksOK
    <3>1. LinkOK(l) /\ \A j \in Callers : Behind(j, l)' <=> Behind(j, l)
      BY <2>1 DEF IInv, LinksOK, Behind
    <3> QED
      BY <2>1, <3>1, LinkSame
  <2>3. TypeOK' /\ ChainsOK' /\ InUse' /\ NamesUnique'
    <3>1. TypeOK'
      BY <2>1 DEF IInv, CInv, TypeOK
    <3>2. ChainsOK'
      BY <2>1 DEF IInv, CInv, ChainsOK, Places
    <3>3. InUse' /\ NamesUnique'
      BY <2>1 DEF IInv, CInv, InUse, Leaving, Removing, Found, NamesUnique
    <3> QED
      BY <3>1, <3>2, <3>3
  <2>4. CallsOK'
    BY <2>1 DEF IInv, CInv, CallsOK, CallOK, Registered, Removing, Found
  <2> QED
    BY <2>2, <2>3, <2>4 DEF IInv, CInv
<1>2. CASE \E k \in Callers : Begin(k) \/ Lock(k) \/ Work(k)
  <2>1. PICK k \in Callers : Begin(k) \/ Lock(k) \/ Work(k)
    BY <1>2
  <2>2. CASE Work(k)
    <3>1. CASE \E l \in Links : Apply(k, l)
      BY <3>1, ApplyKeeps
    <3>2. CASE ~\E l \in Links : Apply(k, l)
      BY <2>2, <3>2, ChainAddKeeps, FailsKeeps, ChainUpdateKeeps, UpdateFailsKeeps, RemoveKeeps,
         AskKeeps, AnswerKeeps, LinksDoneKeeps DEF Work, Serve
    <3> QED
      BY <3>1, <3>2
  <2> QED
    BY <2>1, <2>2, BeginKeeps, LockKeeps
<1>3. CASE \E l \in Links : StartLink(l) \/ LinkCloses(l) \/ RemoveLink(l)
  BY <1>3, StartLinkKeeps, LinkClosesKeeps, RemoveLinkKeeps
<1> QED
  BY <1>1, <1>2, <1>3 DEF Next

LEMMA InvariantHolds == Spec => []IInv
<1>1. IInv /\ [Next]_vars => IInv'
  BY NextKeeps
<1> QED
  BY <1>1, InitOK, PTL DEF Spec

(* The chains, the handlers and the links keep their types: an Index never *)
(* leaves the range a chain can have (toxic_collection.go:274-276).        *)
THEOREM CollectionTypeCorrect == Spec => []TypeOK
<1>1. IInv => TypeOK
  BY DEF IInv, CInv
<1> QED
  BY <1>1, InvariantHolds, PTL

(* When a call may begin, every toxic is where its Index says, and the     *)
(* toxics there are are those found in the chains.                         *)
THEOREM IndicesMatchCorrect == Spec => []IndicesMatch
<1>1. IInv => IndicesMatch
  <2> SUFFICES ASSUME IInv, mutex = Nobody
               PROVE  /\ \A d \in Dirs : \A i \in 1 .. Len(chain[d]) :
                           wrapper[chain[d][i]].dir = d /\ wrapper[chain[d][i]].index = i
                      /\ \A w \in Ids : w \in Found <=> wrapper[w] # Unused
    BY DEF IndicesMatch
  <2>1. \A w : ~Leaving(w)
    BY NoneLeaving DEF IInv, CInv
  <2> QED
    BY <2>1 DEF IInv, CInv, InUse, ChainsOK, Places
<1> QED
  BY <1>1, InvariantHolds, PTL

(* No two toxics of a proxy have one name, in either direction, whatever   *)
(* the handlers do and in whichever order they come to the mutex.          *)
THEOREM NamesUniqueCorrect == Spec => []NamesUnique
<1>1. IInv => NamesUnique
  BY DEF IInv, CInv
<1> QED
  BY <1>1, InvariantHolds, PTL

(* Between calls every open link runs the chain of its direction, also the *)
(* links that have come while another call was at work.                    *)
THEOREM LinksRunChainCorrect == Spec => []LinksRunChain
<1>1. IInv => LinksRunChain
  <2> SUFFICES ASSUME IInv, mutex = Nobody, NEW l \in Links, link[l] = "runs"
               PROVE  /\ Len(runs[l]) = Len(chain[DirOf[l]])
                      /\ \A i \in 1 .. Len(runs[l]) :
                           /\ runs[l][i].toxic = chain[DirOf[l]][i]
                           /\ \/ chain[DirOf[l]][i] \in torn
                              \/ runs[l][i].value = wrapper[chain[DirOf[l]][i]].value
    BY DEF LinksRunChain
  <2>1. RunsAll(runs[l], chain[DirOf[l]])
    BY AllRun
  <2> QED
    BY <2>1 DEF RunsAll, Agrees
<1> QED
  BY <1>1, InvariantHolds, PTL
-----------------------------------------------------------------------------
(* What callers see of the toxics is a ToxicSet.                           *)

NamesOK(d) ==
  /\ NamesOf(d) \in Seq(Names) /\ Len(NamesOf(d)) = Len(chain[d])
  /\ \A i \in Places(d) : NamesOf(d)[i] = wrapper[chain[d][i]].name

LEMMA NamesOKAfter == CInv' => \A d \in Dirs : NamesOK(d)'
<1>1. CInv => \A d \in Dirs : NamesOK(d)
  BY NamesOfType DEF NamesOK
<1>2. CInv' => (\A d \in Dirs : NamesOK(d))'
  BY <1>1, PTL
<1> QED
  BY <1>2

LEMMA WhoResets ==
  ASSUME CInv
  PROVE  /\ mutex = Nobody => ~Resetting
         /\ \A k \in Callers : mutex = k => (Resetting <=> caller[k].op = "reset")
BY CollectionAssumption DEF Resetting

LEMMA SameNames ==
  ASSUME CInv, UNCHANGED chain, \A x \in Found : wrapper'[x].name = wrapper[x].name,
         NEW d \in Dirs
  PROVE  NamesOf(d)' = NamesOf(d)
<1>1. \A i \in 1 .. Len(chain[d]) : wrapper'[chain[d][i]].name = wrapper[chain[d][i]].name
  BY ChainFacts DEF Places
<1> QED
  BY <1>1 DEF NamesOf

LEMMA StutterMaps ==
  ASSUME \A d \in Dirs : NamesOf(d)' = NamesOf(d), Resetting' <=> Resetting, answer' = answer
  PROVE  UNCHANGED Set!vars
<1>1. \A d \in Dirs : Shown(d)' = Shown(d)
  BY DEF Shown
<1> QED
  BY <1>1 DEF Set!vars, Dirs

(* A name in a chain is a name in use.                                     *)
LEMMA SetUsed ==
  ASSUME CInv, ~Resetting
  PROVE  Set!Used = Used
<1>1. \A d \in Dirs : Set!Range(Shown(d)) = {wrapper[x].name : x \in Range(chain[d])}
  <2> SUFFICES ASSUME NEW d \in Dirs
               PROVE  Set!Range(NamesOf(d)) = {wrapper[x].name : x \in Range(chain[d])}
    BY DEF Shown
  <2>1. Range(chain[d]) = {chain[d][i] : i \in Places(d)}
    BY ChainFacts
  <2>2. DOMAIN NamesOf(d) = Places(d) /\ \A i \in Places(d) : NamesOf(d)[i] = wrapper[chain[d][i]].name
    BY DEF NamesOf, Places
  <2>3. Set!Range(NamesOf(d)) = {NamesOf(d)[i] : i \in Places(d)}
    BY <2>2 DEF Set!Range
  <2> QED
    BY <2>1, <2>2, <2>3
<1> QED
  BY <1>1 DEF Set!Used, Used, Found, Dirs

LEMMA AddMaps ==
  ASSUME IInv, IInv', NEW k \in Callers, ChainAdd(k)
  PROVE  Set!Next
<1>1. PICK n \in Names, d \in Dirs, v \in Values, w \in New :
        /\ Free(n, d)
        /\ wrapper' = [wrapper EXCEPT ![w] = [name |-> n, dir |-> d, value |-> v,
                                              index |-> Len(chain[d]) + 1]]
        /\ chain' = [chain EXCEPT ![d] = Append(@, w)]
        /\ CallLinks(k, w)
  BY DEF ChainAdd
<1>2. caller[k].pc = "body" /\ caller[k].op = "add" /\ mutex' = mutex /\ answer' = answer
  BY DEF ChainAdd, AtWork
<1>3. CInv /\ CInv' /\ TypeOK /\ mutex = k /\ CallsOK /\ caller[k] \in Call
  BY <1>2, HoldsMutex DEF IInv
<1>4. ~Resetting /\ ~Resetting'
  <2>1. caller'[k].op = "add"
    BY <1>1, <1>2, <1>3 DEF CallLinks, TypeOK, Call
  <2> QED
    BY <1>2, <1>3, <2>1 DEF Resetting
<1>5. w \in Ids /\ w \notin Found
  <2>1. \A x : ~Leaving(x)
    BY <1>2, <1>3, NoneLeaving
  <2> QED
    BY <1>3, <2>1 DEF New, CInv, InUse
<1> DEFINE m == Len(chain[d]) + 1
<1>6. /\ Len(chain'[d]) = m /\ chain'[d][m] = w /\ Len(chain[d]) \in Nat
      /\ \A i \in Places(d) : chain'[d][i] = chain[d][i]
      /\ \A e \in Dirs \ {d} : chain'[e] = chain[e]
  BY <1>1, <1>3, <1>5, LongerChain, ChainFacts
<1>7. wrapper'[w].name = n /\ \A x \in Ids \ {w} : wrapper'[x] = wrapper[x]
  BY <1>1, <1>3, <1>5 DEF TypeOK
<1>8. \A e \in Dirs : \A i \in Places(e) :
        wrapper'[chain[e][i]].name = wrapper[chain[e][i]].name
  BY <1>3, <1>5, <1>7, ChainFacts
<1>9. \A e \in Dirs \ {d} : NamesOf(e)' = NamesOf(e)
  BY <1>6, <1>8 DEF NamesOf, Places
<1>10. NamesOf(d)' = Append(NamesOf(d), n)
  <2> DEFINE s == NamesOf(d)
             t == Append(s, n)
  <2>1. s \in Seq(Names) /\ Len(s) = Len(chain[d]) /\ \A i \in Places(d) : s[i] = wrapper[chain[d][i]].name
    BY <1>3, NamesOfType
  <2>2. /\ NamesOf(d)' \in Seq(Names) /\ Len(NamesOf(d)') = m
        /\ \A i \in 1 .. m : (NamesOf(d)')[i] = wrapper'[chain'[d][i]].name
    BY <1>3, <1>6, NamesOKAfter DEF NamesOK, Places
  <2> HIDE DEF s
  <2>3. /\ t \in Seq(Names) /\ Len(t) = Len(s) + 1 /\ t[Len(s) + 1] = n
        /\ \A i \in 1 .. Len(s) : t[i] = s[i]
    BY <2>1, AppendProperties
  <2> HIDE DEF t
  <2>4. ASSUME NEW i \in 1 .. m PROVE (NamesOf(d)')[i] = t[i]
    <3>1. CASE i = m
      BY <1>6, <1>7, <2>1, <2>2, <2>3, <3>1
    <3>2. CASE i # m
      <4>1. i \in Places(d) /\ i \in 1 .. Len(s)
        BY <1>6, <2>1, <3>2 DEF Places
      <4> QED
        BY <1>6, <1>8, <2>1, <2>2, <2>3, <4>1, SMTT(30)
    <3> QED
      BY <3>1, <3>2
  <2>5. NamesOf(d)' = t
    <3> DEFINE a == NamesOf(d)'
    <3>1. a \in Seq(Names) /\ Len(a) = Len(t) /\ \A i \in 1 .. Len(a) : a[i] = t[i]
      BY <2>1, <2>2, <2>3, <2>4
    <3> HIDE DEF a
    <3>2. a = t
      BY <2>3, <3>1, SeqEqual
    <3> QED
      BY <3>2 DEF a
  <2> QED
    BY <2>5 DEF s, t
<1>11. n \notin Set!Used
  BY <1>1, <1>3, <1>4, SetUsed DEF Free
<1>12. Shown(d) = NamesOf(d) /\ Shown(d)' = Append(Shown(d), n)
       /\ \A e \in Dirs \ {d} : Shown(e)' = Shown(e)
  BY <1>4, <1>9, <1>10 DEF Shown
<1>13. Set!Insert(n)
  <2>1. CASE d = "upstream"
    BY <1>2, <1>11, <1>12, <2>1 DEF Set!Insert, Dirs
  <2>2. CASE d = "downstream"
    BY <1>2, <1>11, <1>12, <2>2 DEF Set!Insert, Dirs
  <2> QED
    BY <2>1, <2>2 DEF Dirs
<1> QED
  BY <1>13 DEF Set!Next
(* Removals outside a reset take out one name.                             *)
LEMMA RemoveMaps ==
  ASSUME IInv, IInv', NEW k \in Callers, RemoveToxic(k)
  PROVE  Set!Next
<1>1. caller[k].pc = "body" /\ caller[k].op = "remove"
  BY DEF RemoveToxic, AtWork
<1>2. PICK w \in Found : ChainRemove(k, w)
  BY DEF RemoveToxic
<1>3. PICK d, i : d = wrapper[w].dir /\ i = wrapper[w].index
  OBVIOUS
<1>4. /\ chain' = [chain EXCEPT ![d] = RemoveAt(@, i)] /\ wrapper' = Renumbered(w, wrapper[w].dir)
      /\ CallLinks(k, w) /\ mutex' = mutex /\ answer' = answer
  BY <1>2, <1>3 DEF ChainRemove
<1>5. CInv /\ CInv' /\ TypeOK /\ mutex = k /\ caller[k] \in Call
  BY <1>1, HoldsMutex DEF IInv
<1>6. ~Resetting /\ ~Resetting'
  <2>1. caller'[k].op = "remove"
    BY <1>1, <1>4, <1>5 DEF CallLinks, TypeOK, Call
  <2> QED
    BY <1>1, <1>4, <1>5, <2>1 DEF Resetting
<1>7. /\ d \in Dirs /\ i \in Places(d) /\ Len(chain[d]) \in Nat /\ Places(d) = 1 .. Len(chain[d])
      /\ i \in Nat \ {0}
  BY <1>3, <1>5, FoundFacts, ChainFacts DEF Places
<1>8. /\ Len(chain'[d]) = Len(chain[d]) - 1
      /\ \A j \in 1 .. Len(chain[d]) - 1 : j < i => chain'[d][j] = chain[d][j]
      /\ \A j \in 1 .. Len(chain[d]) - 1 : j >= i => chain'[d][j] = chain[d][j + 1]
      /\ \A e \in Dirs \ {d} : chain'[e] = chain[e]
  BY <1>4, <1>5, <1>7, ShorterChain
<1>9. \A e \in Dirs : \A j \in Places(e) : wrapper'[chain[e][j]].name = wrapper[chain[e][j]].name
  <2>1. \A x \in Found : wrapper'[x].name = wrapper[x].name
    BY <1>4, <1>5, RenumberedFacts
  <2> QED
    BY <1>5, <2>1, ChainFacts
<1>10. \A e \in Dirs \ {d} : NamesOf(e)' = NamesOf(e)
  BY <1>8, <1>9 DEF NamesOf, Places
<1> DEFINE s == NamesOf(d)
           t == RemoveAt(s, i)
<1>11. s \in Seq(Names) /\ Len(s) = Len(chain[d]) /\ \A j \in Places(d) : s[j] = wrapper[chain[d][j]].name
  BY <1>5, <1>7, NamesOfType
<1>12. NamesOf(d)' = t
  <2> DEFINE a == NamesOf(d)'
  <2>1. /\ a \in Seq(Names) /\ Len(a) = Len(chain[d]) - 1
        /\ \A j \in 1 .. Len(chain[d]) - 1 : a[j] = wrapper'[chain'[d][j]].name
    BY <1>5, <1>7, <1>8, NamesOKAfter DEF NamesOK, Places
  <2> HIDE DEF s, a
  <2>2. /\ t \in Seq(Names) /\ Len(t) = Len(s) - 1
        /\ \A j \in 1 .. Len(s) - 1 : t[j] = IF j < i THEN s[j] ELSE s[j + 1]
    <3>1. i \in 1 .. Len(s)
      BY <1>7, <1>11
    <3> QED
      BY <1>11, <3>1, RemoveAtFacts, Zenon
  <2> HIDE DEF t
  <2>3. ASSUME NEW j \in 1 .. Len(chain[d]) - 1 PROVE a[j] = t[j]
    <3>1. j \in Nat /\ j \in 1 .. Len(s) - 1 /\ j \in Places(d) /\ j + 1 \in Places(d)
      BY <1>7, <1>11
    <3>2. CASE j < i
      <4>1. chain'[d][j] = chain[d][j] /\ t[j] = s[j]
        BY <1>8, <2>2, <3>1, <3>2
      <4> QED
        BY <1>7, <1>9, <1>11, <2>1, <3>1, <4>1
    <3>3. CASE ~(j < i)
      <4>1. j >= i
        BY <1>7, <3>1, <3>3
      <4>2. chain'[d][j] = chain[d][j + 1]
        BY <1>8, <4>1
      <4>3. t[j] = s[j + 1]
        BY <2>2, <3>1, <3>3
      <4> QED
        BY <1>7, <1>9, <1>11, <2>1, <3>1, <4>2, <4>3
    <3> QED
      BY <3>2, <3>3
  <2>4. a = t
    <3>1. Len(a) = Len(t) /\ \A j \in 1 .. Len(a) : a[j] = t[j]
      BY <1>11, <2>1, <2>2, <2>3
    <3> QED
      BY <2>1, <2>2, <3>1, SeqEqual
  <2> QED
    BY <2>4 DEF a
<1>13. /\ i \in 1 .. Len(Shown(d)) /\ Shown(d)' = Set!RemoveAt(Shown(d), i)
       /\ \A e \in Dirs \ {d} : Shown(e)' = Shown(e)
  <2>1. Set!RemoveAt(s, i) = t
    BY DEF Set!RemoveAt, RemoveAt
  <2>2. Shown(d) = s /\ Shown(d)' = NamesOf(d)' /\ \A e \in Dirs \ {d} : Shown(e)' = NamesOf(e)' /\ Shown(e) = NamesOf(e)
    BY <1>6 DEF Shown
  <2> HIDE DEF s, t
  <2> QED
    BY <1>7, <1>10, <1>11, <1>12, <2>1, <2>2
<1> HIDE DEF s, t
<1>14. Set!Delete
  <2>1. CASE d = "upstream"
    BY <1>4, <1>13, <2>1 DEF Set!Delete, Dirs
  <2>2. CASE d = "downstream"
    BY <1>4, <1>13, <2>2 DEF Set!Delete, Dirs
  <2> QED
    BY <1>7, <2>1, <2>2 DEF Dirs
<1> QED
  BY <1>14 DEF Set!Next

(* Listings and single toxics are answered from one moment.                *)
LEMMA AskMaps ==
  ASSUME IInv, NEW k \in Callers, GetToxicArray(k) \/ GetToxic(k)
  PROVE  Set!Next
<1>1. /\ caller[k].pc = "body" /\ caller[k].op # "reset" /\ mutex' = Nobody
      /\ UNCHANGED <<wrapper, chain>>
  BY DEF GetToxicArray, GetToxic, AtWork, shared
<1>2. CInv /\ mutex = k
  BY <1>1, HoldsMutex DEF IInv
<1>3. ~Resetting /\ ~Resetting'
  BY <1>1, <1>2, WhoResets, CollectionAssumption DEF Resetting
<1>4. \A d \in Dirs : Shown(d) = NamesOf(d) /\ Shown(d)' = Shown(d)
  <2>1. \A d \in Dirs : NamesOf(d)' = NamesOf(d)
    BY <1>1 DEF NamesOf
  <2> QED
    BY <1>3, <2>1 DEF Shown
<1>5. CASE GetToxicArray(k)
  BY <1>4, <1>5 DEF GetToxicArray, Tell, Set!Next, Set!List, Dirs
<1>6. CASE GetToxic(k)
  <2>1. PICK n \in Names : answer' = [answer EXCEPT ![k] = IF n \in Used THEN <<n>> ELSE <<>>]
    BY <1>6 DEF GetToxic, Tell
  <2>2. Set!Show(k, n)
    BY <1>2, <1>3, <1>4, <2>1, SetUsed DEF Set!Show, Dirs
  <2> QED
    BY <2>2 DEF Set!Next
<1> QED
  BY <1>5, <1>6

(* A reset empties the set when it gets the mutex; the chains are empty    *)
(* when it gives it back.                                                  *)
LEMMA ResetBegins ==
  ASSUME IInv, NEW k \in Callers, Lock(k)
  PROVE  [Set!Next]_(Set!vars)
<1>1. /\ mutex = Nobody /\ mutex' = k /\ UNCHANGED <<wrapper, chain, answer>>
      /\ caller'[k].op \in Calls /\ CInv
  BY ZenonT(40) DEF Lock, shared, IInv, CInv, TypeOK, Call
<1>2. ~Resetting /\ (Resetting' <=> caller'[k].op = "reset")
  BY <1>1, WhoResets DEF Resetting
<1>3. \A d \in Dirs : NamesOf(d)' = NamesOf(d)
  BY <1>1 DEF NamesOf
<1>4. CASE caller'[k].op = "reset"
  <2>1. \A d \in Dirs : Shown(d)' = <<>>
    BY <1>2, <1>4 DEF Shown
  <2> QED
    BY <1>1, <2>1 DEF Set!Next, Set!Reset, Dirs
<1>5. CASE caller'[k].op # "reset"
  BY <1>1, <1>2, <1>3, <1>5, StutterMaps
<1> QED
  BY <1>4, <1>5

LEMMA ResetEnds ==
  ASSUME IInv, NEW k \in Callers, ResetDone(k)
  PROVE  UNCHANGED Set!vars
<1>1. /\ caller[k].pc = "body" /\ caller[k].op = "reset" /\ mutex' = Nobody
      /\ UNCHANGED <<wrapper, chain, answer>> /\ Found = {}
  BY DEF ResetDone, AtWork, Unlock, shared
<1>2. CInv /\ mutex = k
  BY <1>1, HoldsMutex DEF IInv
<1>3. Resetting /\ ~Resetting'
  BY <1>1, <1>2, WhoResets, CollectionAssumption DEF Resetting
<1>4. ASSUME NEW d \in Dirs PROVE NamesOf(d)' = <<>>
  <2>1. Len(chain[d]) \in Nat /\ Places(d) = {}
    BY <1>1, <1>2, ChainFacts
  <2>2. Len(chain[d]) = 0
    BY <2>1 DEF Places
  <2> QED
    BY <1>1, <2>2 DEF NamesOf
<1> QED
  BY <1>1, <1>3, <1>4 DEF Set!vars, Shown, Dirs
(* The other steps change no name, and who resets stays the same.          *)
LEMMA CallerStutters ==
  ASSUME CInv, NEW k \in Callers, mutex = k, answer' = answer,
         \A d \in Dirs : NamesOf(d)' = NamesOf(d),
         \/ mutex' = k /\ caller'[k].op = caller[k].op
         \/ mutex' = Nobody /\ caller[k].op # "reset"
  PROVE  UNCHANGED Set!vars
<1>1. Resetting <=> caller[k].op = "reset"
  BY WhoResets
<1>2. Resetting' <=> caller[k].op = "reset"
  BY CollectionAssumption DEF Resetting
<1> QED
  BY <1>1, <1>2, StutterMaps

LEMMA WorkMaps ==
  ASSUME IInv, IInv', NEW k \in Callers, Work(k), ~Answer(k)
  PROVE  [Set!Next]_(Set!vars)
<1>1. CInv /\ TypeOK
  BY DEF IInv, CInv
<1>2. CASE ChainAdd(k) \/ RemoveToxic(k) \/ GetToxicArray(k) \/ GetToxic(k)
  BY <1>2, AddMaps, RemoveMaps, AskMaps
<1>3. CASE ResetDone(k)
  BY <1>3, ResetEnds
<1>4. CASE AddFails(k) \/ RemoveFails(k)
  <2>1. /\ caller[k].pc = "body" /\ caller[k].op # "reset" /\ mutex' = Nobody
        /\ UNCHANGED <<wrapper, chain, answer>>
    BY <1>4 DEF AddFails, RemoveFails, AtWork, Unlock, shared
  <2>2. \A d \in Dirs : NamesOf(d)' = NamesOf(d)
    BY <2>1 DEF NamesOf
  <2> QED
    BY <1>1, <2>1, <2>2, HoldsMutex, CallerStutters
<1>5. CASE UpdateFails(k)
  <2>1. /\ caller[k].pc = "body" /\ caller[k].op = "update" /\ mutex' = Nobody
        /\ UNCHANGED <<chain, answer>>
        /\ \/ UNCHANGED wrapper
           \/ \E w \in Found, v \in Values : wrapper' = [wrapper EXCEPT ![w].value = v]
    BY <1>5 DEF UpdateFails, AtWork, Unlock
  <2>2. \A x \in Found : wrapper'[x].name = wrapper[x].name
    BY <1>1, <2>1, EditFacts, FoundFacts
  <2>3. \A d \in Dirs : NamesOf(d)' = NamesOf(d)
    BY <1>1, <2>1, <2>2, SameNames
  <2> QED
    BY <1>1, <2>1, <2>3, HoldsMutex, CallerStutters
<1>6. CASE ChainUpdate(k)
  <2>1. PICK w \in Found, v \in Values :
          /\ wrapper' = [wrapper EXCEPT ![w].value = v]
          /\ chain' = [chain EXCEPT ![wrapper[w].dir][wrapper[w].index] = w]
          /\ CallLinks(k, w)
    BY <1>6 DEF ChainUpdate
  <2>2. /\ caller[k].pc = "body" /\ caller[k].op = "update" /\ mutex' = mutex /\ answer' = answer
    BY <1>6 DEF ChainUpdate, AtWork
  <2>3. mutex = k /\ caller[k] \in Call
    BY <2>2, HoldsMutex
  <2>4. caller'[k].op = caller[k].op
    BY <1>1, <2>1, <2>3 DEF CallLinks, TypeOK, Call
  <2>5. chain' = chain
    BY <1>1, <2>1, SamePlace
  <2>6. \A x \in Found : wrapper'[x].name = wrapper[x].name
    BY <1>1, <2>1, EditFacts, FoundFacts
  <2>7. \A d \in Dirs : NamesOf(d)' = NamesOf(d)
    BY <1>1, <2>5, <2>6, SameNames
  <2> QED
    BY <1>1, <2>2, <2>3, <2>4, <2>7, CallerStutters
<1>7. CASE ResetNext(k)
  <2>1. /\ caller[k].pc = "body" /\ caller[k].op = "reset"
        /\ \E w : ChainRemove(k, w)
    BY <1>7 DEF ResetNext, AtWork
  <2>2. PICK w : ChainRemove(k, w)
    BY <2>1
  <2>3. mutex = k /\ caller[k] \in Call /\ mutex' = mutex /\ answer' = answer
    BY <2>1, <2>2, HoldsMutex DEF ChainRemove
  <2>4. caller'[k].op = "reset"
    BY <1>1, <2>1, <2>2, <2>3 DEF ChainRemove, CallLinks, TypeOK, Call
  <2>5. Resetting /\ Resetting'
    BY <2>1, <2>3, <2>4 DEF Resetting
  <2>6. \A d \in Dirs : Shown(d) = <<>> /\ Shown(d)' = <<>>
    BY <2>5 DEF Shown
  <2> QED
    BY <2>3, <2>6 DEF Set!vars, Dirs
<1>8. CASE LinksDone(k)
  <2>1. /\ caller[k].pc = "links" /\ UNCHANGED <<chain, answer>>
        /\ Removing(k) => wrapper' = [wrapper EXCEPT ![caller[k].at] = Unused]
        /\ ~Removing(k) => wrapper' = wrapper
        /\ caller[k].op = "reset" => Continue(k)
        /\ caller[k].op # "reset" => Unlock(k)
    BY <1>8 DEF LinksDone
  <2>2. mutex = k /\ CallsOK /\ caller[k] \in Call
    BY <2>1, HoldsMutex
  <2>3. Removing(k) => caller[k].at \notin Found
    BY <2>1, <2>2 DEF CallsOK, CallOK
  <2>4. \A x \in Found : wrapper'[x].name = wrapper[x].name
    BY <1>1, <2>1, <2>3, FoundFacts DEF TypeOK
  <2>5. \A d \in Dirs : NamesOf(d)' = NamesOf(d)
    BY <1>1, <2>1, <2>4, SameNames
  <2>6. \/ mutex' = k /\ caller'[k].op = caller[k].op
        \/ mutex' = Nobody /\ caller[k].op # "reset"
    BY <1>1, <2>1, <2>2 DEF Continue, Unlock, TypeOK, Call
  <2> QED
    BY <1>1, <2>1, <2>2, <2>5, <2>6, CallerStutters
<1>9. CASE \E l \in Links : Apply(k, l)
  <2>1. PICK l \in Links : Apply(k, l)
    BY <1>9
  <2>2. /\ caller[k].pc = "links" /\ mutex' = mutex /\ UNCHANGED <<wrapper, chain, answer>>
        /\ caller' = [caller EXCEPT ![k].left = @ \ {l}]
    BY <2>1 DEF Apply, shared
  <2>3. mutex = k /\ caller[k] \in Call
    BY <2>2, HoldsMutex
  <2>4. caller'[k].op = caller[k].op
    BY <1>1, <2>2, <2>3 DEF TypeOK, Call
  <2>5. \A d \in Dirs : NamesOf(d)' = NamesOf(d)
    BY <2>2 DEF NamesOf
  <2> QED
    BY <1>1, <2>2, <2>3, <2>4, <2>5, CallerStutters
<1> QED
  BY <1>2, <1>3, <1>4, <1>5, <1>6, <1>7, <1>8, <1>9 DEF Work, Serve

(* Who is not at work: the handler that has the mutex stays as it is.      *)
LEMMA WaitingMaps ==
  ASSUME IInv, NEW k \in Callers, Begin(k) \/ Answer(k)
  PROVE  [Set!Next]_(Set!vars)
<1>1. CInv /\ TypeOK /\ CallsOK
  BY DEF IInv, CInv
<1>2. /\ caller[k].pc \in {"idle", "answer"} /\ mutex' = mutex /\ UNCHANGED <<wrapper, chain>>
      /\ \E c : caller' = [caller EXCEPT ![k] = c]
  BY DEF Begin, Answer, shared
<1>3. mutex # k
  BY <1>1, <1>2 DEF CallsOK, CallOK
<1>4. \A j \in Callers \ {k} : caller'[j] = caller[j]
  BY <1>1, <1>2 DEF TypeOK
<1>5. Resetting' <=> Resetting
  BY <1>2, <1>3, <1>4 DEF Resetting
<1>6. \A d \in Dirs : NamesOf(d)' = NamesOf(d)
  BY <1>2 DEF NamesOf
<1>7. CASE Begin(k)
  BY <1>5, <1>6, <1>7, StutterMaps DEF Begin
<1>8. CASE Answer(k)
  <2>1. \A d \in Dirs : Shown(d)' = Shown(d)
    BY <1>5, <1>6 DEF Shown
  <2> QED
    BY <1>8, <2>1 DEF Answer, Set!Next, Set!Told, Dirs
<1> QED
  BY <1>7, <1>8

LEMMA NextMaps ==
  ASSUME IInv, IInv', [Next]_vars
  PROVE  [Set!Next]_(Set!vars)
<1>1. ASSUME UNCHANGED <<mutex, wrapper, chain, caller, answer>>
      PROVE  UNCHANGED Set!vars
  <2>1. \A d \in Dirs : NamesOf(d)' = NamesOf(d)
    BY <1>1 DEF NamesOf
  <2>2. Resetting' <=> Resetting
    BY <1>1 DEF Resetting
  <2> QED
    BY <1>1, <2>1, <2>2, StutterMaps
<1>2. CASE UNCHANGED vars
  BY <1>1, <1>2 DEF vars, shared
<1>3. CASE \E k \in Callers : Begin(k) \/ Lock(k) \/ Work(k)
  <2>1. PICK k \in Callers : Begin(k) \/ Lock(k) \/ Work(k)
    BY <1>3
  <2> QED
    BY <2>1, WaitingMaps, ResetBegins, WorkMaps
<1>4. CASE \E l \in Links : StartLink(l) \/ LinkCloses(l) \/ RemoveLink(l)
  BY <1>1, <1>4 DEF StartLink, LinkCloses, RemoveLink, shared
<1> QED
  BY <1>2, <1>3, <1>4 DEF Next

LEMMA InitMaps == Init => Set!Init
<1> SUFFICES ASSUME Init PROVE Set!Init
  OBVIOUS
<1>1. ~Resetting
  BY CollectionAssumption DEF Init, Resetting
<1>2. \A d \in Dirs : NamesOf(d) = <<>>
  BY DEF Init, NamesOf
<1> QED
  BY <1>1, <1>2 DEF Init, Set!Init, Shown, Dirs

(* Callers see the toxics of a proxy change at once, also by a reset that  *)
(* goes from toxic to toxic and by calls that wait for links meanwhile.    *)
THEOREM ImplementsToxicSetCorrect == Spec => ImplementsToxicSet
<1>1. IInv /\ IInv' /\ [Next]_vars => [Set!Next]_(Set!vars)
  BY NextMaps
<1> QED
  BY <1>1, InitMaps, InvariantHolds, PTL DEF Spec, ImplementsToxicSet, Set!Spec
=============================================================================
