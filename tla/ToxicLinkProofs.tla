--------------------------- MODULE ToxicLinkProofs ---------------------------
(***************************************************************************)
(* Theorems about ToxicLink, for every set of toxics of every kind, every  *)
(* bound and every interleaving.                                           *)
(***************************************************************************)
EXTENDS ToxicLink, SequenceLemmas

USE DEF Sink, Entry

-----------------------------------------------------------------------------
(* The local steps of a stub keep its type.                                *)

(* The parts a chunk is cut into are chunks, and a slice may be made       *)
(* longer up to the end of its array (the slices of p.Data in bandwidth.go,*)
(* slicer.go and limit_data.go).                                           *)
LEMMA CutChunk ==
  ASSUME NEW c \in Chunk
  PROVE  /\ Size(c) \in Nat /\ Room(c) \in Nat /\ Size(c) <= Room(c)
         /\ \A n \in 0 .. Room(c) : First(c, n) \in Chunk
         /\ \A n \in 0 .. Size(c) : Rest(c, n) \in Chunk
BY DEF Chunk, First, Rest, Size, Room

LEMMA EmptyChunk == Empty \in Chunk
BY DEF Chunk, Empty

(* A stub may be stopped, closed, made to wait and given a chunk.          *)
LEMMA PlaceType ==
  ASSUME NEW l \in Local, NEW c \in Chunk, NEW p \in Places \ {"piece"}
  PROVE  /\ Exit(l) \in Local /\ Close(l) \in Local /\ Await(l) \in Local
         /\ Hold(l, p, c) \in Local /\ Pump(l) \in Local
<1>1. Exit(l) \in Local /\ Close(l) \in Local
  BY EmptyChunk DEF Local, Exit, Close, Places
<1>2. Await(l) \in Local /\ Pump(l) \in Local
  BY EmptyChunk DEF Local, Await, Pump, Places
<1>3. Hold(l, p, c) \in Local
  BY DEF Local, Hold, Places
<1> QED
  BY <1>1, <1>2, <1>3

(* Running a toxic on a stub, whatever it ran before.                      *)
LEMMA RunType ==
  ASSUME NEW l \in Local, NEW t \in Wrappers, NEW p \in Pipes(t), NEW b \in Int
  PROVE  /\ Run(l, t, p, b) \in Local
         /\ Run(WithState(l, t), t, p, b) \in Local
<1>1. p \in Kinds
  BY ToxicAssumption DEF Pipes, Kinds, Wrappers
<1>2. WithState(l, t) \in Local
  BY DEF Local, WithState
<1>3. ASSUME NEW k \in Local PROVE Run(k, t, p, b) \in Local
  <2>1. CASE p = "limit_data" /\ ~k.stateful
    BY <1>1, <2>1 DEF Run, Local, Places
  <2>2. CASE ~(p = "limit_data" /\ ~k.stateful)
    <3> DEFINE q == IF p = "limit_data" THEN b - k.sent ELSE 0
    <3>1. q \in Int
      BY DEF Local
    <3>2. Run(k, t, p, b) = [k EXCEPT !.pc = "select", !.toxic = t, !.pipe = p,
                                      !.chunk = Empty, !.quota = q]
      BY <2>2 DEF Run
    <3> HIDE DEF q
    <3> QED
      BY <1>1, <3>1, <3>2, EmptyChunk DEF Local, Places
  <2> QED
    BY <2>1, <2>2
<1> QED
  BY <1>2, <1>3

(* The end of limit_data's loop body.                                      *)
LEMMA AccountType ==
  ASSUME NEW l \in Local, NEW n \in Nat, NEW b \in Int
  PROVE  Account(l, n, b) \in Local
<1> DEFINE s == l.sent + n
           q == b - s
           a == [l EXCEPT !.sent = s, !.quota = q]
<1>1. s \in Nat /\ q \in Int
  BY DEF Local
<1> HIDE DEF s, q
<1>2. Close(a) \in Local /\ Await(a) \in Local
  BY <1>1, EmptyChunk DEF Local, Places, Close, Await
<1>3. Account(l, n, b) = Close(a) \/ Account(l, n, b) = Await(a)
  BY DEF Account, s, q
<1> QED
  BY <1>2, <1>3

(* What limit_data lets through is part of the chunk.                      *)
LEMMA AllowedPart ==
  ASSUME NEW l \in Local, NEW c \in Chunk
  PROVE  Allowed(l, c) \in 0 .. Size(c)
BY DEF Allowed, Local, Chunk, Size, Least

(* A chunk comes out of Input.                                             *)
LEMMA OnChunkType ==
  ASSUME NEW l \in Local, NEW c \in Chunk, NEW b \in Int
  PROVE  OnChunk(l, c, b) \in Local
<1>1. l.pipe \in Kinds \cup {"pump"}
  BY DEF Local
<1>2. First(c, Allowed(l, c)) \in Chunk
  BY AllowedPart, CutChunk
<1>a. Hold(l, IF b > 0 THEN "delay" ELSE "test", c) \in Local
  BY PlaceType DEF Places
<1>3. Account(l, 0, b) \in Local
  BY AccountType
<1>4. Hold(l, "send", c) \in Local /\ Hold(l, "timed", c) \in Local
  BY PlaceType DEF Places
<1>5. Hold(l, "reset", Empty) \in Local
  BY PlaceType, EmptyChunk DEF Places
<1>6. Hold(l, "send", First(c, Allowed(l, c))) \in Local
  BY <1>2, PlaceType DEF Places
<1> QED
  BY <1>1, <1>a, <1>3, <1>4, <1>5, <1>6 DEF OnChunk, Kinds

(* Input is closed.                                                        *)
LEMMA OnNilType ==
  ASSUME NEW l \in Local
  PROVE  OnNil(l) \in Local
<1>1. Hold(l, "timed", Empty) \in Local /\ Hold(l, "reset", Empty) \in Local
  BY PlaceType, EmptyChunk DEF Places
<1>2. Close(l) \in Local
  BY PlaceType, EmptyChunk DEF Places
<1> QED
  BY <1>1, <1>2 DEF OnNil

(* The timer of a select fires.                                            *)
LEMMA OnTimerType ==
  ASSUME NEW l \in Local, NEW b \in Int
  PROVE  OnTimer(l, b) \in Local
<1>1. [l EXCEPT !.pc = "send"] \in Local
  BY DEF Local, Places
<1>2. Close(l) \in Local /\ Await(l) \in Local
  BY PlaceType, EmptyChunk DEF Places
<1>3. Size(l.chunk) > 0 \/ Size(l.chunk) <= 0
  BY DEF Local, Chunk, Size
<1>4. /\ Panic(l) \in Local /\ [l EXCEPT !.pc = "test"] \in Local
      /\ [l EXCEPT !.pc = IF Size(l.chunk) > b THEN "pace" ELSE "timed"] \in Local
  BY DEF Local, Places, Panic
<1>5. b \in 0 .. Room(l.chunk) => [l EXCEPT !.pc = "piece", !.quota = b] \in Local
  BY DEF Local, Places
<1>6. Paced(l, b) \in Local
  BY <1>1, <1>4, <1>5 DEF Paced
<1> QED
  BY <1>1, <1>2, <1>3, <1>6 DEF OnTimer

(* The select takes the interrupt.                                         *)
LEMMA OnInterruptType ==
  ASSUME NEW l \in Local
  PROVE  OnInterrupt(l) \in Local
<1>1. [l EXCEPT !.pc = "flush"] \in Local
  BY DEF Local, Places
<1>2. Exit(l) \in Local
  BY PlaceType, EmptyChunk DEF Places
<1> QED
  BY <1>1, <1>2 DEF OnInterrupt

(* Every write is of a first part of what the stub holds, but for a piece  *)
(* of bandwidth's, which is one of what the array has.                     *)
LEMMA PieceSizesType ==
  ASSUME NEW l \in Local
  PROVE  /\ PieceSizes(l) \subseteq 0 .. Room(l.chunk)
         /\ l.pc # "piece" => PieceSizes(l) \subseteq 0 .. Size(l.chunk)
<1>1. l.chunk \in Chunk
  BY DEF Local
<1>2. Size(l.chunk) \in Nat /\ Room(l.chunk) \in Nat /\ Size(l.chunk) <= Room(l.chunk)
  BY <1>1, CutChunk
<1>3. l.pc = "piece" => l.quota \in 0 .. Room(l.chunk)
  BY DEF Local
<1> QED
  BY <1>2, <1>3 DEF PieceSizes

(* A write to Output has completed.                                        *)
LEMMA AfterSendType ==
  ASSUME NEW l \in Local, Sending(l), NEW n \in Int, NEW b \in Int,
         l.pc # "piece" => n \in 0 .. Size(l.chunk)
  PROVE  AfterSend(l, n, b) \in Local
<1>1. l.chunk \in Chunk /\ Size(l.chunk) \in Nat
  BY CutChunk DEF Local
<1>2. l.pc # "piece" => Hold(l, "timed", Rest(l.chunk, n)) \in Local
  BY <1>1, CutChunk, PlaceType DEF Places
<1>3. Exit(l) \in Local /\ Await(l) \in Local /\ Panic(l) \in Local
  BY PlaceType, EmptyChunk DEF Places, Local, Panic
<1>4. l.pc # "piece" => Account(l, n, b) \in Local
  BY <1>1, AccountType
<1>5. AfterPiece(l, b) \in Local
  <2>1. CASE b \in 0 .. Size(l.chunk)
    <3>1. Hold(l, "test", Rest(l.chunk, b)) \in Local
      BY <1>1, <2>1, CutChunk, PlaceType DEF Places
    <3>2. [Hold(l, "test", Rest(l.chunk, b)) EXCEPT !.quota = 0] \in Local
      <4> DEFINE h == Hold(l, "test", Rest(l.chunk, b))
      <4>1. h \in Local /\ h.pc = "test"
        BY <3>1 DEF Local, Hold
      <4> HIDE DEF h
      <4>2. [h EXCEPT !.quota = 0] \in Local
        BY <4>1 DEF Local
      <4> QED
        BY <4>2 DEF h
    <3> QED
      BY <2>1, <3>2 DEF AfterPiece
  <2>2. CASE b \notin 0 .. Size(l.chunk)
    BY <1>3, <2>2 DEF AfterPiece
  <2> QED
    BY <2>1, <2>2
<1> QED
  BY <1>2, <1>3, <1>4, <1>5 DEF AfterSend, Sending
-----------------------------------------------------------------------------
(* What the inductive invariant says of the values the actions use.        *)

IInv == TypeOK /\ IndicesInRange /\ MovedStubsStopped

(* The attribute of a toxic, 0 for a toxic that has none.                  *)
LEMMA AttrType ==
  ASSUME TypeOK, NEW t \in Wrappers
  PROVE  AttrOf(t) \in Int
<1>1. t \in Tuned => attr[t] \in Attrs
  BY DEF TypeOK
<1>2. \A a \in Attrs : a \in Int
  BY LinkAssumption
<1> QED
  BY <1>1, <1>2 DEF AttrOf

(* What a stub sends, and what it becomes by sending or receiving it.      *)
LEMMA SendType ==
  ASSUME TypeOK, NEW s \in Stub, Sending(st[s]), NEW n \in PieceSizes(st[s])
  PROVE  /\ First(st[s].chunk, n) \in Chunk
         /\ Sent(s, n) \in Local
<1>1. st[s] \in Local /\ st[s].chunk \in Chunk /\ st[s].toxic \in Wrappers
  BY DEF TypeOK, Local
<1>2. /\ n \in 0 .. Room(st[s].chunk) /\ n \in Int
      /\ st[s].pc # "piece" => n \in 0 .. Size(st[s].chunk)
  <2>1. Size(st[s].chunk) \in Nat /\ Room(st[s].chunk) \in Nat
    BY <1>1, CutChunk
  <2>2. /\ n \in 0 .. Room(st[s].chunk)
        /\ st[s].pc # "piece" => n \in 0 .. Size(st[s].chunk)
    BY <1>1, PieceSizesType
  <2> QED
    BY <2>1, <2>2
<1>3. First(st[s].chunk, n) \in Chunk
  BY <1>1, <1>2, CutChunk
<1>4. AttrOf(st[s].toxic) \in Int
  BY <1>1, AttrType
<1>5. AfterSend(st[s], n, AttrOf(st[s].toxic)) \in Local
  BY <1>1, <1>2, <1>4, AfterSendType
<1> QED
  BY <1>3, <1>5 DEF Sent

LEMMA TakeType ==
  ASSUME TypeOK, NEW s \in Stub, NEW c \in Chunk
  PROVE  Taken(s, c) \in Local
<1>1. st[s] \in Local /\ st[s].toxic \in Wrappers
  BY DEF TypeOK, Local
<1> QED
  BY <1>1, OnChunkType, AttrType DEF Taken

(* A call under way works on stubs the link has.                           *)
LEMMA CallStubs ==
  ASSUME TypeOK, IndicesInRange, Alive
  PROVE  /\ op.phase # "none" => op.idx \in 1 .. Len(stubs) /\ Target \in Stub
         /\ op.phase = "pump" => op.idx - 1 \in 1 .. Len(stubs) /\ Previous \in Stub
         /\ op.phase = "pump" => Neighbour \in Wrappers
         /\ op.call = "add" => Len(stubs) > 1 /\ Last(stubs) = stubs[Len(stubs)]
                                /\ Last(stubs) \in Stub
<1>1. op.call \in {"idle", "add", "update", "remove"}
  BY DEF TypeOK, Alive
<1>2. op.call = "idle" => op.phase = "none"
  BY DEF IndicesInRange, Idle
<1>3. op.phase # "none" => op.idx \in 1 .. Len(stubs)
  BY <1>1, <1>2 DEF IndicesInRange, TypeOK
<1>4. op.phase = "pump" => op.idx - 1 \in 1 .. Len(stubs) /\ op.idx - 1 \in 1 .. Len(chain)
  <2>1. stubs \in Seq(Stub) /\ chain \in Seq(Wrappers) /\ op.idx \in Nat
    BY DEF TypeOK
  <2>2. op.phase = "pump" => op.idx \in 2 .. Len(stubs) /\ op.idx - 1 <= Len(chain)
    BY DEF IndicesInRange
  <2> QED
    BY <2>1, <2>2
<1>5. op.call = "add" => Len(stubs) \in 1 .. Len(stubs) /\ Len(stubs) > 1
  BY DEF IndicesInRange, TypeOK
<1>a. \A i \in 1 .. Len(stubs) : stubs[i] \in Stub
  <2>1. stubs \in Seq(Stub)
    BY DEF TypeOK
  <2> QED
    BY <2>1
<1>6. op.phase # "none" => Target \in Stub
  BY <1>3, <1>a DEF Target
<1>7. op.phase = "pump" => op.idx - 1 \in 1 .. Len(stubs) /\ Previous \in Stub
  BY <1>4, <1>a DEF Previous
<1>8. op.phase = "pump" => Neighbour \in Wrappers
  BY <1>4 DEF TypeOK, Neighbour
<1>9. op.call = "add" => /\ Len(stubs) > 1 /\ Last(stubs) = stubs[Len(stubs)]
                         /\ Last(stubs) \in Stub
  BY <1>5, <1>a DEF Last
<1> QED
  BY <1>3, <1>6, <1>7, <1>8, <1>9
-----------------------------------------------------------------------------
(* Type correctness.                                                       *)

LEMMA TypeInit == Init => TypeOK
<1> SUFFICES ASSUME Init PROVE TypeOK
  OBVIOUS
<1>1. chain \in Seq(Wrappers) /\ Len(chain) \in 1 .. MaxStubs
  <2>1. PICK n \in 1 .. InitToxics + 1 : chain \in [1 .. n -> Wrappers]
    BY DEF Init, Chains
  <2> QED
    BY <2>1, LinkAssumption
<1>2. st \in [Stub -> Local]
  <2>1. Fresh \in Local
    BY EmptyChunk DEF Fresh, Local, Places, Kinds, Wrappers
  <2>2. PICK pipe \in [1 .. Len(chain) -> Kinds] :
          /\ \A s \in 1 .. Len(chain) : pipe[s] \in Pipes(chain[s])
          /\ st = [s \in Stub |->
                     IF s <= Len(chain)
                       THEN Run(WithState(Fresh, chain[s]), chain[s], pipe[s],
                                AttrOf(chain[s]))
                       ELSE Fresh]
    BY DEF Init
  <2>3. ASSUME NEW s \in 1 .. Len(chain)
        PROVE  Run(WithState(Fresh, chain[s]), chain[s], pipe[s], AttrOf(chain[s]))
                 \in Local
    <3>1. chain[s] \in Wrappers /\ pipe[s] \in Pipes(chain[s])
      BY <1>1, <2>2
    <3>2. AttrOf(chain[s]) \in Int
      <4>1. \A t \in Tuned : attr[t] \in Attrs
        BY DEF Init
      <4>2. \A a \in Attrs : a \in Int
        BY LinkAssumption
      <4> QED
        BY <4>1, <4>2 DEF AttrOf
    <3> QED
      BY <2>1, <3>1, <3>2, RunType
  <2>4. \A s \in Stub : s <= Len(chain) => s \in 1 .. Len(chain)
    BY <1>1 DEF Stub
  <2> QED
    BY <2>1, <2>2, <2>3, <2>4
<1>3. stubs \in Seq(Stub) /\ fresh \in 1 .. MaxStubs + 1
  <2>1. \A i \in 1 .. Len(chain) : i \in Stub
    BY <1>1, LinkAssumption DEF Stub
  <2>2. stubs \in [1 .. Len(chain) -> Stub] /\ fresh = Len(chain) + 1
    BY <2>1 DEF Init
  <2>3. Len(chain) \in Nat /\ MaxStubs \in Nat /\ Len(chain) <= MaxStubs
    BY <1>1, LinkAssumption
  <2>4. stubs \in Seq(Stub)
    BY <2>2, <2>3
  <2> QED
    BY <2>2, <2>3, <2>4
<1>4. out \in [Stub -> Stub \cup {Sink}] /\ buffered \subseteq Stub
  BY <1>1, LinkAssumption DEF Init, Stub
<1> QED
  BY <1>1, <1>2, <1>3, <1>4, EmptyChunk DEF Init, TypeOK, Idle, Wrappers

(* The two ends.                                                           *)
LEMMA TypeEnds == TypeOK /\ Ends => TypeOK'
<1> SUFFICES ASSUME TypeOK, Ends PROVE TypeOK'
  OBVIOUS
<1>1. CASE ReadSource
  <2>1. PICK n \in 1 .. MaxChunk :
          reader' = [pc |-> "offer", taken |-> reader.taken + n,
                     chunk |-> [lo |-> reader.taken, hi |-> reader.taken + n,
                                cap |-> reader.taken + n]]
    BY <1>1 DEF ReadSource
  <2>2. [lo |-> reader.taken, hi |-> reader.taken + n, cap |-> reader.taken + n] \in Chunk
    BY LinkAssumption DEF TypeOK, Chunk
  <2>3. reader.taken + n \in Nat
    BY LinkAssumption DEF TypeOK
  <2> QED
    BY <1>1, <2>1, <2>2, <2>3
    DEF ReadSource, TypeOK, config, wiring, api
<1>2. CASE SourceEof
  BY <1>2 DEF SourceEof, TypeOK, config, wiring, api
<1>3. CASE WriteDest
  <2>1. writer.chunk.lo \in Nat /\ Size(writer.chunk) \in Nat
    BY DEF TypeOK, Chunk, Size
  <2>2. [i \in 1 .. Size(writer.chunk) |-> writer.chunk.lo + i] \in Seq(Nat)
    BY <2>1
  <2>3. dest' \in Seq(Nat)
    BY <1>3, <2>2 DEF WriteDest, TypeOK
  <2>4. /\ writer' = [pc |-> "read", chunk |-> Empty]
        /\ UNCHANGED <<config, wiring, queue, st, reader, api, lost>>
    BY <1>3 DEF WriteDest
  <2> QED
    BY <2>3, <2>4, EmptyChunk DEF TypeOK, config, wiring, api
<1>4. CASE WriteFail
  BY <1>4, EmptyChunk DEF WriteFail, TypeOK, Reasons, config, wiring, api
<1>5. CASE WriterEof
  BY <1>5 DEF WriterEof, TypeOK, config, wiring, api
<1>6. CASE CloseDest
  BY <1>6 DEF CloseDest, TypeOK, config, wiring, api
<1>7. CASE RemoveLink
  BY <1>7 DEF RemoveLink, TypeOK, config, wiring, api
<1> QED
  BY <1>1, <1>2, <1>3, <1>4, <1>5, <1>6, <1>7 DEF Ends

(* Chunks move down the chain.                                             *)
LEMMA TypeFlow == TypeOK /\ Flow => TypeOK'
<1> SUFFICES ASSUME TypeOK, Flow PROVE TypeOK'
  OBVIOUS
<1>a. \A s \in Stub, c \in Chunk : LostAt(s, c) \cup Miscut(s) \subseteq Reasons
  BY DEF LostAt, Miscut, Because, Reasons
<1>c. lost \subseteq Reasons
  BY DEF TypeOK
<1>b. \A s \in Stub : /\ st[s] \in Local
                      /\ st[s].chunk \in Chunk
  BY DEF TypeOK, Local
<1>1. CASE ReaderToStub
  <2>1. Entry \in Stub /\ reader.chunk \in Chunk
    BY LinkAssumption DEF TypeOK, Stub
  <2>2. Taken(Entry, reader.chunk) \in Local
    BY <2>1, TakeType
  <2>3. st' \in [Stub -> Local]
    BY <1>1, <2>2 DEF ReaderToStub, TypeOK
  <2>4. lost' \subseteq Reasons
    BY <1>1, <1>a, <1>c, <2>1 DEF ReaderToStub
  <2> QED
    BY <1>1, <2>3, <2>4, EmptyChunk
    DEF ReaderToStub, TypeOK, config, wiring, api
<1>2. ASSUME NEW s \in Stub, StubToStub(s) PROVE TypeOK'
  <2>1. PICK n \in PieceSizes(st[s]) :
          /\ st' = [st EXCEPT ![s] = Sent(s, n),
                              ![out[s]] = Taken(out[s], First(st[s].chunk, n))]
          /\ lost' = lost \cup Miscut(s) \cup LostAt(out[s], First(st[s].chunk, n))
    BY <1>2 DEF StubToStub
  <2>a. Sending(st[s])
    BY <1>2 DEF StubToStub
  <2>2. First(st[s].chunk, n) \in Chunk /\ Sent(s, n) \in Local
    BY <2>a, SendType
  <2>3. out[s] \in Stub
    BY <1>2 DEF StubToStub, TypeOK
  <2>4. Taken(out[s], First(st[s].chunk, n)) \in Local
    BY <2>2, <2>3, TakeType
  <2>5. st' \in [Stub -> Local]
    BY <2>1, <2>2, <2>4 DEF TypeOK
  <2>6. lost' \subseteq Reasons
    BY <1>a, <1>c, <2>1, <2>2, <2>3
  <2> QED
    BY <1>2, <2>5, <2>6, ZenonT(40) DEF StubToStub, TypeOK, config, wiring, api, ends
<1>3. ASSUME NEW s \in Stub, StubToBuffer(s) PROVE TypeOK'
  <2>1. PICK n \in PieceSizes(st[s]) :
          /\ queue' = [queue EXCEPT ![out[s]] = Append(@, First(st[s].chunk, n))]
          /\ st' = [st EXCEPT ![s] = Sent(s, n)]
    BY <1>3 DEF StubToBuffer
  <2>a. Sending(st[s])
    BY <1>3 DEF StubToBuffer
  <2>2. First(st[s].chunk, n) \in Chunk /\ Sent(s, n) \in Local
    BY <2>a, SendType
  <2>5. lost' \subseteq Reasons
    BY <1>3, <1>a, <1>c, <2>2 DEF StubToBuffer
  <2>3. out[s] \in Stub
    BY <1>3 DEF StubToBuffer, TypeOK
  <2>4. queue' \in [Stub -> Seq(Chunk)] /\ st' \in [Stub -> Local]
    BY <2>1, <2>2, <2>3 DEF TypeOK
  <2> QED
    BY <1>3, <2>4, <2>5 DEF StubToBuffer, TypeOK, config, wiring, api, ends
<1>4. ASSUME NEW s \in Stub, BufferToStub(s) PROVE TypeOK'
  <2>1. queue[s] \in Seq(Chunk) /\ queue[s] # <<>>
    BY <1>4 DEF BufferToStub, TypeOK
  <2>2. queue[s][1] \in Chunk /\ Tail(queue[s]) \in Seq(Chunk)
    BY <2>1
  <2>3. Taken(s, queue[s][1]) \in Local
    BY <2>2, TakeType
  <2>4. queue' \in [Stub -> Seq(Chunk)] /\ st' \in [Stub -> Local]
    BY <1>4, <2>2, <2>3 DEF BufferToStub, TypeOK
  <2>5. lost' \subseteq Reasons
    BY <1>4, <1>a, <1>c, <2>2 DEF BufferToStub
  <2> QED
    BY <1>4, <2>4, <2>5 DEF BufferToStub, TypeOK, config, wiring, api, ends
<1>5. ASSUME NEW s \in Stub, StubToWriter(s) PROVE TypeOK'
  <2>1. PICK n \in PieceSizes(st[s]) :
          /\ writer' = IF n = 0 THEN writer
                       ELSE [pc |-> "write", chunk |-> First(st[s].chunk, n)]
          /\ st' = [st EXCEPT ![s] = Sent(s, n)]
    BY <1>5 DEF StubToWriter
  <2>a. Sending(st[s])
    BY <1>5 DEF StubToWriter
  <2>2. First(st[s].chunk, n) \in Chunk /\ Sent(s, n) \in Local
    BY <2>a, SendType
  <2>4. lost' \subseteq Reasons
    BY <1>5, <1>a, <1>c, <2>2 DEF StubToWriter
  <2>3. st' \in [Stub -> Local]
    BY <2>1, <2>2 DEF TypeOK
  <2> QED
    BY <1>5, <2>1, <2>2, <2>3, <2>4 DEF StubToWriter, TypeOK, config, wiring, api, ends
<1>6. ASSUME NEW s \in Stub, StubEof(s) PROVE TypeOK'
  <2>1. OnNil(st[s]) \in Local
    BY <1>b, OnNilType
  <2>2. st' \in [Stub -> Local]
    BY <1>6, <2>1 DEF StubEof, TypeOK
  <2> QED
    BY <1>6, <2>2 DEF StubEof, TypeOK, config, wiring, api, ends
<1>7. ASSUME NEW s \in Stub, StubTimer(s) PROVE TypeOK'
  <2>1. OnTimer(st[s], AttrOf(st[s].toxic)) \in Local
    BY <1>b, OnTimerType, AttrType DEF Local
  <2>2. st' \in [Stub -> Local]
    BY <1>7, <2>1 DEF StubTimer, TypeOK
  <2> QED
    BY <1>7, <2>2 DEF StubTimer, TypeOK, config, wiring, api, ends
<1>8. ASSUME NEW s \in Stub, StubDeadline(s) PROVE TypeOK'
  <2>1. Size(st[s].chunk) \in 0 .. Size(st[s].chunk) /\ st[s].toxic \in Wrappers
    BY <1>b DEF Chunk, Size, Local
  <2>a. Sending(st[s])
    BY <1>8 DEF StubDeadline, HasDeadline, Sending
  <2>2. Sent(s, Size(st[s].chunk)) \in Local
    BY <1>b, <2>1, <2>a, AfterSendType, AttrType DEF Sent
  <2>3. st' \in [Stub -> Local]
    BY <1>8, <2>2 DEF StubDeadline, TypeOK
  <2>4. lost' \subseteq Reasons
    BY <1>8, <1>c DEF StubDeadline, Because, Reasons
  <2> QED
    BY <1>8, <2>3, <2>4 DEF StubDeadline, TypeOK, config, wiring, api, ends
<1> QED
  BY <1>1, <1>2, <1>3, <1>4, <1>5, <1>6, <1>7, <1>8 DEF Flow

(* Calls begin.                                                            *)
LEMMA TypeBegin == TypeOK /\ IndicesInRange /\ Begin => TypeOK'
<1> SUFFICES ASSUME TypeOK, IndicesInRange, NEW t \in Toxics,
                    \/ AddToxicBegin(t) \/ UpdateToxicBegin(t)
                    \/ RemoveToxicBegin(t) \/ UpdateToxicRejected(t)
             PROVE  TypeOK'
  BY DEF Begin
<1>1. t \in Wrappers /\ chain \in Seq(Wrappers) /\ stubs \in Seq(Stub)
  BY DEF TypeOK, Wrappers
<1>2. CASE AddToxicBegin(t)
  <2>1. stubs # <<>> /\ Last(stubs) \in Stub
    <3>1. Len(stubs) >= 1
      BY <1>1, <1>2 DEF AddToxicBegin, IndicesInRange, Idle
    <3> QED
      BY <1>1, <3>1 DEF Last
  <2>2. out' \in [Stub -> Stub \cup {Sink}] /\ stubs' \in Seq(Stub)
    <3>1. out[Last(stubs)] \in Stub \cup {Sink}
      BY <2>1 DEF TypeOK
    <3>2. out' = [out EXCEPT ![fresh] = out[Last(stubs)]]
      BY <1>2 DEF AddToxicBegin
    <3>3. out' \in [Stub -> Stub \cup {Sink}]
      BY <3>1, <3>2 DEF TypeOK
    <3> QED
      BY <1>1, <1>2, <3>3 DEF AddToxicBegin
  <2>3. fresh' \in 1 .. MaxStubs + 1 /\ buffered' \subseteq Stub
    BY <1>2, LinkAssumption DEF AddToxicBegin, TypeOK, Stub
  <2>4. op'.idx \in Nat /\ op' = [call |-> "add", phase |-> "interrupt", toxic |-> t,
                                 idx |-> op'.idx]
    BY <1>1, <1>2 DEF AddToxicBegin, Call
  <2>5. attr' \in [Tuned -> Attrs]
    <3>1. CASE t \in Tuned
      <4>1. PICK b \in Attrs : attr' = [attr EXCEPT ![t] = b]
        BY <1>2, <3>1 DEF AddToxicBegin
      <4> QED
        BY <4>1 DEF TypeOK
    <3>2. CASE t \notin Tuned
      BY <1>2, <3>2 DEF AddToxicBegin, TypeOK
    <3> QED
      BY <3>1, <3>2
  <2> QED
    BY <1>1, <1>2, <2>2, <2>3, <2>4, <2>5 DEF AddToxicBegin, TypeOK, ends
<1>3. CASE UpdateToxicBegin(t)
  <2>1. PICK i \in 1 .. Len(chain) : op' = Call("update", t, i)
    BY <1>3 DEF UpdateToxicBegin
  <2>2. i \in Nat
    BY <1>1
  <2>3. attr' \in [Tuned -> Attrs]
    BY <1>3 DEF UpdateToxicBegin, TypeOK
  <2> QED
    BY <1>1, <1>3, <2>1, <2>2, <2>3 DEF UpdateToxicBegin, TypeOK, Call, ends, wiring
<1>4. CASE RemoveToxicBegin(t)
  <2>1. PICK i \in 1 .. Len(chain) :
          chain' = RemoveAt(chain, i) /\ op' = Call("remove", t, i)
    BY <1>4 DEF RemoveToxicBegin
  <2>2. i \in Nat /\ chain' \in Seq(Wrappers)
    BY <1>1, <2>1 DEF RemoveAt
  <2> QED
    BY <1>1, <1>4, <2>1, <2>2 DEF RemoveToxicBegin, TypeOK, Call, ends, wiring
<1>5. CASE UpdateToxicRejected(t)
  <2>1. attr' \in [Tuned -> Attrs]
    BY <1>5 DEF UpdateToxicRejected, TypeOK
  <2> QED
    BY <1>5, <2>1 DEF UpdateToxicRejected, TypeOK, ends, wiring, api
<1> QED
  BY <1>2, <1>3, <1>4, <1>5

(* Calls go on and return.                                                 *)
LEMMA TypeFinish == TypeOK /\ IndicesInRange /\ Finish => TypeOK'
<1> SUFFICES ASSUME TypeOK, IndicesInRange, Finish PROVE TypeOK'
  OBVIOUS
<1> USE DEF ends, config, wiring
<1>a. Alive
  BY DEF Finish, Interrupt, InterruptClosed, AddDone, UpdateDone, RemoveCleanup,
         RemovePump, HelperInterrupt, HelperReturns, RemoveSplice, RemoveClosed
<1>b. op.phase # "none" => Target \in Stub /\ st[Target] \in Local
  BY <1>a, CallStubs DEF TypeOK
<1>c. op.phase = "pump" => /\ Previous \in Stub /\ st[Previous] \in Local
                           /\ Neighbour \in Wrappers
  BY <1>a, CallStubs DEF TypeOK
<1>d. op.call = "add" => Last(stubs) \in Stub /\ st[Last(stubs)] \in Local
  BY <1>a, CallStubs DEF TypeOK
<1>e. Noop \in Wrappers /\ op.toxic \in Wrappers /\ AttrOf(op.toxic) \in Int
  BY AttrType DEF TypeOK, Wrappers
<1>f. Idle \in [call : {"idle", "add", "update", "remove", "panic"},
                phase : {"none", "interrupt", "wait", "pump"},
                toxic : Wrappers, idx : Nat]
  BY <1>e DEF Idle
<1>g. \A s, t : lost \cup Misplaced(s, t) \subseteq Reasons
  BY DEF TypeOK, Misplaced, Because, Reasons
<1>1. CASE Interrupt
  <2>1. OnInterrupt(st[Target]) \in Local
    BY <1>1, <1>b, OnInterruptType DEF Interrupt
  <2>2. st' \in [Stub -> Local]
    BY <1>1, <2>1 DEF Interrupt, TypeOK
  <2> QED
    BY <1>1, <2>2 DEF Interrupt, TypeOK
<1>2. CASE InterruptClosed
  <2>1. CASE op.call = "add"
    <3>1. Close(st[Last(stubs)]) \in Local
      BY <1>d, <2>1, PlaceType, EmptyChunk DEF Places
    <3>2. st' \in [Stub -> Local] /\ out' \in [Stub -> Stub \cup {Sink}]
      BY <1>2, <1>d, <2>1, <3>1, ZenonT(40) DEF InterruptClosed, TypeOK
    <3> QED
      BY <1>2, <1>f, <3>2 DEF InterruptClosed, TypeOK
  <2>2. CASE op.call # "add"
    BY <1>2, <1>f, <2>2 DEF InterruptClosed, TypeOK
  <2> QED
    BY <2>1, <2>2
<1>3. CASE AddDone
  <2>1. out' \in [Stub -> Stub \cup {Sink}]
    BY <1>3, <1>d DEF AddDone, TypeOK
  <2>2. CASE op.idx > Len(chain)
    BY <1>3, <2>1, <2>2 DEF AddDone, TypeOK
  <2>3. CASE ~(op.idx > Len(chain))
    <3>1. PICK p \in Pipes(op.toxic), r \in Pipes(chain[op.idx]) :
            st' = [st EXCEPT
              ![Last(stubs)] = Run(WithState(@, op.toxic), op.toxic, p, AttrOf(op.toxic)),
              ![Target] = Run(@, chain[op.idx], r, AttrOf(chain[op.idx]))]
      BY <1>3, <2>3 DEF AddDone
    <3>2. chain[op.idx] \in Wrappers
      <4>1. op.idx \in 1 .. Len(chain)
        BY <1>3, <2>3 DEF AddDone, IndicesInRange, TypeOK
      <4>2. chain \in Seq(Wrappers)
        BY DEF TypeOK
      <4> QED
        BY <4>1, <4>2
    <3>4. Run(WithState(st[Last(stubs)], op.toxic), op.toxic, p, AttrOf(op.toxic)) \in Local
      BY <1>3, <1>d, <1>e, RunType DEF AddDone
    <3>5. \A l \in Local : Run(l, chain[op.idx], r, AttrOf(chain[op.idx])) \in Local
      BY <3>2, AttrType, RunType
    <3>6. st' \in [Stub -> Local]
      BY <1>3, <1>b, <1>d, <3>1, <3>4, <3>5 DEF TypeOK, AddDone, Stopped
    <3>7. lost' \subseteq Reasons
      BY <1>3, <1>g, <2>3 DEF AddDone
    <3> QED
      BY <1>3, <1>f, <2>1, <2>3, <3>6, <3>7 DEF AddDone, TypeOK
  <2> QED
    BY <2>2, <2>3
<1>4. CASE UpdateDone
  <2>1. PICK p \in Pipes(op.toxic) :
          st' = [st EXCEPT ![Target] = Run(@, op.toxic, p, AttrOf(op.toxic))]
    BY <1>4 DEF UpdateDone, Restart
  <2>2. Run(st[Target], op.toxic, p, AttrOf(op.toxic)) \in Local
    BY <1>4, <1>b, <1>e, RunType DEF UpdateDone, Stopped
  <2>3. st' \in [Stub -> Local]
    BY <2>1, <2>2 DEF TypeOK
  <2>4. lost' \subseteq Reasons
    BY <1>4, <1>g DEF UpdateDone
  <2> QED
    BY <1>4, <1>f, <2>3, <2>4 DEF UpdateDone, TypeOK
<1>5. CASE RemoveCleanup
  <2>1. Close(st[Target]) \in Local
    BY <1>5, <1>b, PlaceType, EmptyChunk DEF RemoveCleanup, Stopped, Places
  <2>2. st' \in [Stub -> Local]
    BY <1>5, <2>1 DEF RemoveCleanup, TypeOK
  <2>3. lost' \subseteq Reasons
    BY <1>5, <1>g DEF RemoveCleanup
  <2> QED
    BY <1>5, <1>f, <2>2, <2>3 DEF RemoveCleanup, TypeOK
<1>6. CASE RemovePump
  <2>1. Pump(st[Target]) \in Local
    BY <1>6, <1>b, PlaceType, EmptyChunk DEF RemovePump, Stopped, Places
  <2>2. st' \in [Stub -> Local]
    BY <1>6, <2>1 DEF RemovePump, TypeOK
  <2> QED
    BY <1>6, <2>2 DEF RemovePump, TypeOK
<1>7. CASE HelperInterrupt
  <2>1. OnInterrupt(st[Previous]) \in Local
    BY <1>7, <1>c, OnInterruptType DEF HelperInterrupt, IndicesInRange
  <2>2. st' \in [Stub -> Local]
    BY <1>7, <2>1 DEF HelperInterrupt, TypeOK
  <2> QED
    BY <1>7, <2>2 DEF HelperInterrupt, TypeOK
<1>8. CASE HelperReturns
  BY <1>8 DEF HelperReturns, TypeOK
<1>9. CASE RemoveSplice
  <2>1. PICK p \in Pipes(Neighbour) :
          st' = [st EXCEPT ![Target] = Exit(@),
                           ![Previous] = Run(@, Neighbour, p, AttrOf(Neighbour))]
    BY <1>9 DEF RemoveSplice
  <2>2. op.phase = "pump" /\ out[Target] \in Stub \cup {Sink}
    BY <1>9, <1>b DEF RemoveSplice, TypeOK
  <2>3. Exit(st[Target]) \in Local
    BY <1>b, <2>2, PlaceType, EmptyChunk DEF Places
  <2>4. \A l \in Local : Run(l, Neighbour, p, AttrOf(Neighbour)) \in Local
    BY <1>c, <2>2, AttrType, RunType
  <2>5. st' \in [Stub -> Local]
    BY <1>b, <1>c, <2>1, <2>2, <2>3, <2>4 DEF TypeOK
  <2>6. stubs' \in Seq(Stub)
    <3>1. op.idx \in 1 .. Len(stubs) /\ stubs \in Seq(Stub)
      BY <1>a, <2>2, CallStubs DEF TypeOK
    <3> QED
      BY <1>9, <3>1 DEF RemoveSplice, RemoveAt
  <2>7. out' \in [Stub -> Stub \cup {Sink}]
    BY <1>9, <2>2 DEF RemoveSplice, TypeOK
  <2>8. lost' \subseteq Reasons
    BY <1>9, <1>g DEF RemoveSplice
  <2> QED
    BY <1>9, <1>f, <2>5, <2>6, <2>7, <2>8 DEF RemoveSplice, TypeOK
<1>10. CASE RemoveClosed
  BY <1>10, <1>f DEF RemoveClosed, TypeOK
<1> QED
  BY <1>1, <1>2, <1>3, <1>4, <1>5, <1>6, <1>7, <1>8, <1>9, <1>10 DEF Finish
-----------------------------------------------------------------------------
(* The positions a call uses.                                              *)

LEMMA IndicesInit == Init => IndicesInRange
<1> SUFFICES ASSUME Init PROVE IndicesInRange
  OBVIOUS
<1>1. PICK n \in 1 .. InitToxics + 1 : chain \in [1 .. n -> Wrappers]
  BY DEF Init, Chains
<1>2. Len(chain) = n /\ n >= 1 /\ chain[1] = Noop /\ chain # <<>>
  BY <1>1, LinkAssumption DEF Init, Chains
<1>3. Len(stubs) = n
  BY <1>2, LinkAssumption DEF Init
<1> QED
  BY <1>2, <1>3, LinkAssumption DEF Init, IndicesInRange, Idle

LEMMA IndicesStep == TypeOK /\ IndicesInRange /\ Next => IndicesInRange'
<1> SUFFICES ASSUME TypeOK, IndicesInRange, Next PROVE IndicesInRange'
  OBVIOUS
<1>a. chain \in Seq(Wrappers) /\ stubs \in Seq(Stub) /\ Len(chain) \in Nat
      /\ Len(stubs) \in Nat /\ op.idx \in Nat
  BY DEF TypeOK
<1>1. CASE Ends \/ Flow \/ (\E t \in Toxics : UpdateToxicRejected(t))
  <2>1. UNCHANGED <<chain, stubs, op, helper>>
    BY <1>1 DEF UpdateToxicRejected, Ends, Flow, ReadSource, SourceEof, WriteDest, WriteFail, WriterEof,
           CloseDest, RemoveLink, ReaderToStub, StubToStub, StubToBuffer, BufferToStub,
           StubToWriter, StubEof, StubTimer, StubDeadline, config, wiring, api
  <2> QED
    BY <2>1 DEF IndicesInRange
<1>2. ASSUME NEW t \in Toxics, AddToxicBegin(t) PROVE IndicesInRange'
  <2>1. /\ chain' = Append(chain, t) /\ stubs' = Append(stubs, fresh)
        /\ op' = Call("add", t, Len(stubs)) /\ helper' = helper /\ op = Idle
    BY <1>2 DEF AddToxicBegin
  <2>2. Len(chain) >= 1 /\ Len(stubs) >= 1 /\ chain'[1] = Noop /\ chain' # <<>>
    BY <1>a, <2>1 DEF IndicesInRange, Idle
  <2>3. Len(chain') = Len(chain) + 1 /\ Len(stubs') = Len(stubs) + 1
    BY <1>a, <2>1
  <2> QED
    BY <1>a, <2>1, <2>2, <2>3 DEF IndicesInRange, Idle, Call
<1>3. ASSUME NEW t \in Toxics, UpdateToxicBegin(t) PROVE IndicesInRange'
  <2>1. PICK i \in 1 .. Len(chain) : op' = Call("update", t, i)
    BY <1>3 DEF UpdateToxicBegin
  <2>2. UNCHANGED <<chain, stubs, helper>> /\ op = Idle
    BY <1>3 DEF UpdateToxicBegin, wiring
  <2> QED
    BY <1>a, <2>1, <2>2 DEF IndicesInRange, Idle, Call
<1>4. ASSUME NEW t \in Toxics, RemoveToxicBegin(t) PROVE IndicesInRange'
  <2>1. PICK i \in 1 .. Len(chain) :
          chain[i] = t /\ chain' = RemoveAt(chain, i) /\ op' = Call("remove", t, i)
    BY <1>4 DEF RemoveToxicBegin
  <2>2. UNCHANGED <<stubs, helper>> /\ op = Idle
    BY <1>4 DEF RemoveToxicBegin, wiring
  <2>3. i > 1
    BY <1>a, <2>1, ToxicAssumption DEF IndicesInRange
  <2>4. Len(chain') = Len(chain) - 1 /\ chain'[1] = Noop
    <3>1. 1 \in 1 .. Len(chain) - 1 /\ chain[1] = Noop
      BY <1>a, <2>1, <2>3 DEF IndicesInRange
    <3>2. Len(chain') = Len(chain) - 1
      BY <1>a, <2>1, RemoveAtFacts
    <3>3. chain'[1] = IF 1 < i THEN chain[1] ELSE chain[2]
      BY <1>a, <2>1, <3>1, RemoveAtFacts
    <3> QED
      BY <2>3, <3>1, <3>2, <3>3
  <2>5. chain' # <<>>
    BY <1>a, <2>1, <2>3, <2>4, RemoveAtFacts
  <2> QED
    BY <1>a, <2>1, <2>2, <2>3, <2>4, <2>5 DEF IndicesInRange, Idle, Call
<1>5. CASE Finish
  <2>1. CASE Interrupt
    <3>1. UNCHANGED <<chain, stubs, helper>> /\ op.phase = "interrupt"
          /\ op' = [op EXCEPT !.phase = "wait"]
      BY <2>1 DEF Interrupt, config, wiring
    <3>2. op.call # "idle" /\ helper = "none"
      BY <3>1 DEF IndicesInRange, Idle
    <3> QED
      BY <3>1, <3>2 DEF IndicesInRange, TypeOK
  <2>6. CASE HelperInterrupt \/ HelperReturns
    <3>1. UNCHANGED <<chain, stubs, op>> /\ helper # "none"
      BY <2>6 DEF HelperInterrupt, HelperReturns, config, wiring
    <3> QED
      BY <3>1 DEF IndicesInRange
  <2>2. CASE RemovePump
    BY <2>2 DEF RemovePump, Stopped, IndicesInRange, TypeOK, config, wiring
  <2>3. CASE RemoveSplice
    <3>1. /\ op.call = "remove" /\ op.idx \in 2 .. Len(stubs)
          /\ op.idx - 1 <= Len(chain) /\ Len(chain) < Len(stubs)
      BY <2>3 DEF RemoveSplice, IndicesInRange
    <3>2. /\ stubs' = RemoveAt(stubs, op.idx) /\ op' = Idle /\ helper' = "none"
          /\ chain' = chain
      BY <2>3 DEF RemoveSplice, config
    <3>3. Len(stubs') = Len(stubs) - 1
      BY <1>a, <3>1, <3>2, RemoveAtFacts
    <3> QED
      BY <1>a, <3>1, <3>2, <3>3 DEF IndicesInRange, Idle
  <2>4. CASE RemoveClosed \/ RemoveCleanup
    <3>1. op.call = "remove" /\ Len(chain) < Len(stubs)
      BY <2>4 DEF RemoveClosed, RemoveCleanup, IndicesInRange
    <3>2. op' = Idle /\ UNCHANGED <<chain, stubs>> /\ helper' = "none"
      BY <2>4 DEF RemoveClosed, RemoveCleanup, Stopped, IndicesInRange, config, wiring
    <3> QED
      BY <1>a, <3>1, <3>2 DEF IndicesInRange, Idle
  <2>5. CASE InterruptClosed \/ UpdateDone \/ AddDone
    <3>1. Len(chain) <= Len(stubs) /\ helper = "none"
      BY <1>a, <2>5 DEF InterruptClosed, UpdateDone, AddDone, Stopped, IndicesInRange
    <3>2. UNCHANGED <<chain, stubs, helper>>
      BY <2>5 DEF InterruptClosed, UpdateDone, AddDone, config, wiring
    <3>3. op' = Idle \/ (op.phase = "wait" /\ op' = [op EXCEPT !.call = "panic"])
      BY <2>5 DEF InterruptClosed, UpdateDone, AddDone, Stopped
    <3>4. CASE op' = Idle
      BY <1>a, <3>1, <3>2, <3>4 DEF IndicesInRange, Idle
    <3>5. CASE op.phase = "wait" /\ op' = [op EXCEPT !.call = "panic"]
      <4>1. op'.call = "panic" /\ op'.phase = "wait"
        BY <3>5 DEF TypeOK
      <4> QED
        BY <3>1, <3>2, <4>1 DEF IndicesInRange
    <3> QED
      BY <3>3, <3>4, <3>5
  <2> QED
    BY <1>5, <2>1, <2>2, <2>3, <2>4, <2>5, <2>6 DEF Finish
<1> QED
  BY <1>1, <1>2, <1>3, <1>4, <1>5 DEF Next, Begin

-----------------------------------------------------------------------------
(* A stub is stopped while its Output is moved.                            *)

(* The steps that move data, and an interrupt, start no stub.              *)
LEMMA FlowStartsNone ==
  ASSUME TypeOK, Entry \notin buffered, Ends \/ Flow,
         NEW s \in Stub, st[s].pc = "off"
  PROVE  st'[s].pc = "off"
<1>1. CASE Ends
  BY <1>1 DEF Ends, ReadSource, SourceEof, WriteDest, WriteFail, WriterEof, CloseDest,
         RemoveLink
<1>2. CASE ReaderToStub
  <2>1. st[Entry].pc = "select"
    BY <1>2 DEF ReaderToStub, Ready
  <2> QED
    BY <1>2, <2>1 DEF ReaderToStub, TypeOK
<1>3. ASSUME NEW d \in Stub,
             \/ StubToStub(d) \/ StubToBuffer(d) \/ BufferToStub(d) \/ StubToWriter(d)
             \/ StubEof(d) \/ StubTimer(d) \/ StubDeadline(d)
      PROVE  st'[s].pc = "off"
  <2>1. st[d].pc # "off"
    BY <1>3 DEF StubToStub, StubToBuffer, BufferToStub, StubToWriter, StubEof,
           StubTimer, StubDeadline, Sending, TimerArmed, HasDeadline
  <2>2. CASE StubToStub(d)
    <3>1. st[out[d]].pc = "select"
      BY <2>2 DEF StubToStub, Ready
    <3> QED
      BY <2>1, <2>2, <3>1 DEF StubToStub, TypeOK
  <2>3. CASE StubToBuffer(d) \/ StubToWriter(d)
    BY <2>1, <2>3 DEF StubToBuffer, StubToWriter, TypeOK
  <2>4. CASE BufferToStub(d) \/ StubEof(d)
    BY <2>1, <2>4 DEF BufferToStub, StubEof, TypeOK
  <2>5. CASE StubTimer(d) \/ StubDeadline(d)
    BY <2>1, <2>5 DEF StubTimer, StubDeadline, TypeOK
  <2> QED
    BY <1>3, <2>2, <2>3, <2>4, <2>5
<1> QED
  BY <1>1, <1>2, <1>3 DEF Flow

LEMMA MovedInit == Init => MovedStubsStopped
<1> SUFFICES ASSUME Init PROVE MovedStubsStopped
  OBVIOUS
<1>1. PICK n \in 1 .. InitToxics + 1 : chain \in [1 .. n -> Wrappers]
  BY DEF Init, Chains
<1>2. Len(chain) = n /\ n \in Nat /\ n >= 1 /\ chain[1] = Noop
  BY <1>1, LinkAssumption DEF Init, Chains
<1>3. Len(stubs) = n /\ fresh = n + 1 /\ \A i \in 1 .. n : stubs[i] = i
  BY <1>2 DEF Init
<1>4. \A s \in Stub : s >= fresh => st[s].pc = "off"
  BY <1>2, <1>3 DEF Init, Stub, Fresh
<1>5. Entry \notin buffered
  BY <1>2, ToxicAssumption DEF Init
<1> QED
  BY <1>2, <1>3, <1>4, <1>5 DEF Init, MovedStubsStopped, Idle

LEMMA MovedStep == IInv /\ Next => MovedStubsStopped'
<1> SUFFICES ASSUME TypeOK, IndicesInRange, MovedStubsStopped, Next
             PROVE  MovedStubsStopped'
  BY DEF IInv
<1>a. stubs \in Seq(Stub) /\ Len(stubs) \in Nat /\ fresh \in Nat /\ op.idx \in Nat
      /\ (\A i \in 1 .. Len(stubs) : stubs[i] \in Stub) /\ Stub \subseteq Nat
  <2>1. stubs \in Seq(Stub) /\ fresh \in Nat /\ op.idx \in Nat
    BY DEF TypeOK
  <2>2. \A i \in 1 .. Len(stubs) : stubs[i] \in Stub
    BY <2>1
  <2>3. Stub \subseteq Nat
    BY DEF Stub
  <2> QED
    BY <2>1, <2>2, <2>3
<1>b. \A i \in 1 .. Len(stubs) : stubs[i] < fresh
  BY DEF MovedStubsStopped
<1>c. ASSUME UNCHANGED <<stubs, fresh, buffered>>,
             \A s \in Stub : s >= fresh => st'[s].pc = "off",
             op'.call = "add" => st'[stubs[Len(stubs)]].pc = "off",
             helper' = "yes" => st'[Previous'].pc = "off"
      PROVE  MovedStubsStopped'
  BY <1>c DEF MovedStubsStopped
<1>1. CASE Ends \/ Flow
  <2>1. UNCHANGED <<stubs, fresh, buffered, op, helper>>
    BY <1>1 DEF Ends, Flow, ReadSource, SourceEof, WriteDest, WriteFail, WriterEof,
           CloseDest, RemoveLink, ReaderToStub, StubToStub, StubToBuffer, BufferToStub,
           StubToWriter, StubEof, StubTimer, StubDeadline, config, wiring, api
  <2>2. \A s \in Stub : st[s].pc = "off" => st'[s].pc = "off"
    BY <1>1, FlowStartsNone DEF MovedStubsStopped
  <2>3. op.call = "add" => stubs[Len(stubs)] \in Stub
    BY <1>a DEF IndicesInRange
  <2>4. helper = "yes" => Previous \in Stub /\ Previous' = Previous
    BY <1>a, <2>1 DEF IndicesInRange, Previous
  <2> QED
    BY <1>c, <2>1, <2>2, <2>3, <2>4 DEF MovedStubsStopped
<1>2. ASSUME NEW t \in Toxics, AddToxicBegin(t) PROVE MovedStubsStopped'
  <2>1. /\ stubs' = Append(stubs, fresh) /\ fresh' = fresh + 1 /\ fresh \in Stub
        /\ buffered' \subseteq buffered \cup {fresh}
        /\ UNCHANGED <<st, helper>> /\ op = Idle
    BY <1>2 DEF AddToxicBegin
  <2>2. helper = "none" /\ Len(stubs) >= 1
    BY <1>a, <2>1 DEF IndicesInRange, Idle
  <2>3. fresh # Entry
    BY <1>a, <1>b, <2>2 DEF Stub
  <2>4. /\ Len(stubs') = Len(stubs) + 1 /\ stubs'[Len(stubs) + 1] = fresh
        /\ \A i \in 1 .. Len(stubs) : stubs'[i] = stubs[i]
    BY <1>a, <2>1
  <2>5. ASSUME NEW i \in 1 .. Len(stubs') PROVE stubs'[i] < fresh'
    <3>1. CASE i = Len(stubs) + 1
      BY <1>a, <2>1, <2>4, <3>1
    <3>2. CASE i # Len(stubs) + 1
      <4>1. i \in 1 .. Len(stubs)
        BY <1>a, <2>4, <3>2
      <4>2. stubs'[i] \in Nat /\ stubs'[i] < fresh
        BY <1>a, <1>b, <2>4, <4>1
      <4> QED
        BY <1>a, <2>1, <4>2
    <3> QED
      BY <3>1, <3>2
  <2>6. ASSUME NEW i \in 1 .. Len(stubs'), NEW j \in 1 .. Len(stubs'),
               stubs'[i] = stubs'[j]
        PROVE  i = j
    BY <1>a, <1>b, <2>4, <2>6 DEF MovedStubsStopped
  <2>7. \A s \in Stub : s >= fresh => st'[s].pc = "off"
    BY <2>1 DEF MovedStubsStopped
  <2>8. \A s \in Stub : s >= fresh' => s >= fresh
    BY <1>a, <2>1
  <2>9. st'[stubs'[Len(stubs')]].pc = "off"
    BY <1>a, <2>1, <2>4, <2>7
  <2>10. Entry \notin buffered'
    BY <2>1, <2>3 DEF MovedStubsStopped
  <2> QED
    BY <2>1, <2>2, <2>5, <2>6, <2>7, <2>8, <2>9, <2>10 DEF MovedStubsStopped
<1>5. ASSUME NEW t \in Toxics, UpdateToxicRejected(t) PROVE MovedStubsStopped'
  <2>1. UNCHANGED <<stubs, fresh, buffered, st, op, helper>>
    BY <1>5 DEF UpdateToxicRejected, wiring, api
  <2> QED
    BY <2>1 DEF MovedStubsStopped, Previous
<1>3. ASSUME NEW t \in Toxics, UpdateToxicBegin(t) \/ RemoveToxicBegin(t)
      PROVE  MovedStubsStopped'
  <2>1. UNCHANGED <<stubs, fresh, buffered, st, helper>> /\ op = Idle
    BY <1>3 DEF UpdateToxicBegin, RemoveToxicBegin, wiring
  <2>2. op'.call # "add" /\ helper' # "yes"
    BY <1>3, <2>1 DEF UpdateToxicBegin, RemoveToxicBegin, Call, IndicesInRange, Idle
  <2> QED
    BY <1>c, <2>1, <2>2 DEF MovedStubsStopped
<1>4. CASE Finish
  <2> USE DEF config, wiring, ends
  <2>a. Alive
    BY <1>4 DEF Finish, Interrupt, InterruptClosed, AddDone, UpdateDone, RemoveCleanup,
           RemovePump, HelperInterrupt, HelperReturns, RemoveSplice, RemoveClosed
  <2>b. op.phase # "none" => /\ Target \in Stub /\ Target < fresh
                             /\ op.idx \in 1 .. Len(stubs)
    BY <1>b, <2>a, CallStubs DEF Target
  <2>c. op.phase = "pump" => /\ Previous \in Stub /\ Previous < fresh
                             /\ op.idx - 1 \in 1 .. Len(stubs)
    BY <1>b, <2>a, CallStubs DEF Previous
  <2>d. op.call = "add" => /\ Last(stubs) \in Stub /\ Last(stubs) < fresh
                           /\ Last(stubs) = stubs[Len(stubs)]
    BY <1>a, <1>b, <2>a, CallStubs
  <2>e. \A s \in Stub : s >= fresh => st[s].pc = "off"
    BY DEF MovedStubsStopped
  <2>f. op.phase # "pump" => helper = "none"
    BY DEF IndicesInRange
  <2>1. CASE Interrupt
    <3>1. /\ op.phase = "interrupt" /\ Target \in Stub /\ st[Target].pc # "off"
          /\ st' = [st EXCEPT ![Target] = OnInterrupt(@)]
          /\ op' = [op EXCEPT !.phase = "wait"]
          /\ UNCHANGED <<stubs, fresh, buffered, helper>>
      BY <2>1, <2>b DEF Interrupt, Interruptible
    <3>2. \A s \in Stub : st[s].pc = "off" => st'[s].pc = "off"
      BY <3>1 DEF TypeOK
    <3>3. op'.call = op.call
      BY <3>1 DEF TypeOK
    <3>4. op.call = "add" => st'[stubs[Len(stubs)]].pc = "off"
      BY <2>d, <3>2 DEF MovedStubsStopped
    <3> QED
      BY <1>c, <2>e, <2>f, <3>1, <3>2, <3>3, <3>4
  <2>2. CASE InterruptClosed
    <3>1. \A s \in Stub : st[s].pc = "off" => st'[s].pc = "off"
      <4>1. CASE op.call = "add"
        <5>1. st' = [st EXCEPT ![Last(stubs)] = Close(@)] /\ Last(stubs) \in Stub
          BY <2>2, <2>d, <4>1 DEF InterruptClosed
        <5>2. Close(st[Last(stubs)]).pc = "off"
          BY <5>1 DEF Close, TypeOK, Local
        <5> QED
          BY <5>1, <5>2 DEF TypeOK
      <4>2. CASE op.call # "add"
        BY <2>2, <4>2 DEF InterruptClosed
      <4> QED
        BY <4>1, <4>2
    <3>2. op' = Idle /\ op.phase = "interrupt" /\ UNCHANGED <<stubs, fresh, buffered, helper>>
      BY <2>2 DEF InterruptClosed
    <3> QED
      BY <1>c, <2>e, <2>f, <3>1, <3>2 DEF Idle
  <2>3. CASE AddDone
    <3>1. op.phase = "wait" /\ op.call = "add" /\ UNCHANGED <<stubs, fresh, buffered, helper>>
      BY <2>3 DEF AddDone, Stopped
    <3>2. op'.call # "add"
      BY <2>3 DEF AddDone, Idle, TypeOK
    <3>3. \A s \in Stub : s # Target /\ s # Last(stubs) => st'[s] = st[s]
      BY <2>3 DEF AddDone, TypeOK
    <3>4. \A s \in Stub : s >= fresh => s # Target /\ s # Last(stubs)
      BY <1>a, <2>b, <2>d, <3>1
    <3> QED
      BY <1>c, <2>e, <2>f, <3>1, <3>2, <3>3, <3>4
  <2>4. CASE UpdateDone \/ RemoveCleanup \/ RemovePump
    <3>1. op.phase = "wait" /\ UNCHANGED <<stubs, fresh, buffered>>
      BY <2>4 DEF UpdateDone, RemoveCleanup, RemovePump, Stopped
    <3>2. op'.call # "add" /\ helper' # "yes"
      <4>1. op'.call # "add"
        <5>1. CASE UpdateDone \/ RemoveCleanup
          BY <5>1 DEF UpdateDone, RemoveCleanup, Idle
        <5>2. CASE RemovePump
          <6>1. op.call = "remove" /\ op' = [op EXCEPT !.phase = "pump"]
            BY <5>2 DEF RemovePump
          <6>2. op'.call = op.call
            BY <6>1 DEF TypeOK
          <6> QED
            BY <6>1, <6>2
        <5> QED
          BY <2>4, <5>1, <5>2
      <4>2. helper' # "yes"
        BY <2>4, <2>f, <3>1 DEF UpdateDone, RemoveCleanup, RemovePump
      <4> QED
        BY <4>1, <4>2
    <3>3. \A s \in Stub : s # Target => st'[s] = st[s]
      BY <2>4 DEF UpdateDone, Restart, RemoveCleanup, RemovePump, TypeOK
    <3>4. \A s \in Stub : s >= fresh => s # Target
      BY <1>a, <2>b, <3>1
    <3> QED
      BY <1>c, <2>e, <3>1, <3>2, <3>3, <3>4
  <2>5. CASE HelperInterrupt \/ HelperReturns
    <3>1. op.phase = "pump" /\ op.call = "remove" /\ UNCHANGED <<stubs, fresh, buffered, op>>
      BY <2>5 DEF HelperInterrupt, HelperReturns, IndicesInRange
    <3>2. \A s \in Stub : s # Previous => st'[s] = st[s]
      BY <2>5 DEF HelperInterrupt, HelperReturns, TypeOK
    <3>3. \A s \in Stub : s >= fresh => s # Previous
      BY <1>a, <2>c, <3>1
    <3>4. helper' = "yes" => st'[Previous'].pc = "off"
      BY <2>5, <3>1 DEF HelperInterrupt, HelperReturns, Previous
    <3> QED
      BY <1>c, <2>e, <3>1, <3>2, <3>3, <3>4
  <2>6. CASE RemoveSplice
    <3>1. /\ op.phase = "pump" /\ stubs' = RemoveAt(stubs, op.idx) /\ op' = Idle
          /\ helper' = "none" /\ UNCHANGED <<fresh, buffered>>
      BY <2>6 DEF RemoveSplice
    <3>2. \A s \in Stub : s # Target /\ s # Previous => st'[s] = st[s]
      BY <2>6 DEF RemoveSplice, TypeOK
    <3>3. \A s \in Stub : s >= fresh => s # Target /\ s # Previous
      BY <1>a, <2>b, <2>c, <3>1
    <3>4. \A s \in Stub : s >= fresh' => st'[s].pc = "off"
      BY <2>e, <3>1, <3>2, <3>3
    <3>5. stubs \in Seq(Stub) /\ op.idx \in 1 .. Len(stubs)
      BY <1>a, <2>b, <3>1
    <3>6. /\ Len(stubs') = Len(stubs) - 1
          /\ \A j \in 1 .. Len(stubs) - 1 :
               stubs'[j] = IF j < op.idx THEN stubs[j] ELSE stubs[j + 1]
      BY <3>1, <3>5, RemoveAtFacts
    <3>7. ASSUME NEW j \in 1 .. Len(stubs') PROVE stubs'[j] < fresh'
      <4>1. j \in 1 .. Len(stubs) /\ j + 1 \in 1 .. Len(stubs) /\ j \in 1 .. Len(stubs) - 1
        BY <1>a, <3>6
      <4> QED
        BY <1>b, <3>1, <3>6, <4>1
    <3>8. ASSUME NEW i \in 1 .. Len(stubs'), NEW j \in 1 .. Len(stubs'),
                 stubs'[i] = stubs'[j]
          PROVE  i = j
      <4> DEFINE from(k) == IF k < op.idx THEN k ELSE k + 1
      <4>1. /\ from(i) \in 1 .. Len(stubs) /\ from(j) \in 1 .. Len(stubs)
            /\ stubs'[i] = stubs[from(i)] /\ stubs'[j] = stubs[from(j)]
        BY <1>a, <3>6
      <4>2. from(i) = from(j)
        BY <3>8, <4>1 DEF MovedStubsStopped
      <4> QED
        BY <1>a, <4>2
    <3> QED
      BY <3>1, <3>4, <3>7, <3>8 DEF MovedStubsStopped, Idle
  <2>7. CASE RemoveClosed
    BY <1>c, <2>7, <2>e DEF RemoveClosed, Idle
  <2> QED
    BY <1>4, <2>1, <2>2, <2>3, <2>4, <2>5, <2>6, <2>7 DEF Finish
<1> QED
  BY <1>1, <1>2, <1>3, <1>4, <1>5 DEF Next, Begin
-----------------------------------------------------------------------------
(* The theorems.                                                           *)

LEMMA InductiveInvariant == Spec => []IInv
<1>1. Init => IInv
  BY TypeInit, IndicesInit, MovedInit DEF IInv
<1>2. IInv /\ [Next]_vars => IInv'
  <2>1. IInv /\ Next => TypeOK'
    BY TypeEnds, TypeFlow, TypeBegin, TypeFinish DEF IInv, Next
  <2>2. IInv /\ Next => IInv'
    BY <2>1, IndicesStep, MovedStep DEF IInv
  <2>3. IInv /\ UNCHANGED vars => IInv'
    BY DEF IInv, TypeOK, IndicesInRange, MovedStubsStopped, Previous, vars, config,
           wiring, ends, api
  <2> QED
    BY <2>2, <2>3
<1> QED
  BY <1>1, <1>2, PTL DEF Spec

(* Every value of a link stays in its type: each chunk a slice within its  *)
(* array, bandwidth's piece too whatever rate an update writes meanwhile,  *)
(* or else the process has panicked; limit_data's count of bytes never     *)
(* negative; and every channel that of a stub of the link or the writer's. *)
THEOREM TypeCorrect == Spec => []TypeOK
BY InductiveInvariant, PTL DEF IInv

(* UpdateToxic and RemoveToxic never index link.stubs or the chain out of  *)
(* range, even on a link that RemoveToxic has returned from early.         *)
THEOREM IndicesCorrect == Spec => []IndicesInRange
BY InductiveInvariant, PTL DEF IInv

(* No stub's Output is changed while its goroutine runs.                   *)
THEOREM RewireCorrect == Spec => RewireOnlyWhenStopped
<1> DEFINE Rewired == \A s \in Stub : out'[s] # out[s] => st[s].pc = "off"
<1>1. IInv /\ [Next]_vars => [Rewired]_vars
  <2> SUFFICES ASSUME TypeOK, IndicesInRange, MovedStubsStopped, Next,
                      NEW s \in Stub, out'[s] # out[s]
               PROVE  st[s].pc = "off"
    BY DEF IInv
  <2>1. CASE Ends \/ Flow
    BY <2>1 DEF Ends, Flow, ReadSource, SourceEof, WriteDest, WriteFail, WriterEof,
           CloseDest, RemoveLink, ReaderToStub, StubToStub, StubToBuffer, BufferToStub,
           StubToWriter, StubEof, StubTimer, StubDeadline, wiring
  <2>2. ASSUME NEW t \in Toxics, AddToxicBegin(t) PROVE st[s].pc = "off"
    <3>1. s = fresh
      BY <2>2 DEF AddToxicBegin, TypeOK
    <3> QED
      BY <3>1 DEF MovedStubsStopped, TypeOK
  <2>3. ASSUME NEW t \in Toxics,
               UpdateToxicBegin(t) \/ RemoveToxicBegin(t) \/ UpdateToxicRejected(t)
        PROVE  st[s].pc = "off"
    BY <2>3 DEF UpdateToxicBegin, RemoveToxicBegin, UpdateToxicRejected, wiring
  <2>4. CASE InterruptClosed
    <3>1. op.call = "add" /\ s = Last(stubs)
      BY <2>4 DEF InterruptClosed, TypeOK
    <3>2. Alive
      BY <2>4 DEF InterruptClosed
    <3> QED
      BY <3>1, <3>2, CallStubs DEF MovedStubsStopped
  <2>5. CASE AddDone
    <3>1. s = Target /\ st[Target].pc = "off"
      BY <2>5 DEF AddDone, Stopped, TypeOK
    <3> QED
      BY <3>1
  <2>6. CASE RemoveSplice
    <3>1. s = Previous /\ helper = "yes"
      BY <2>6 DEF RemoveSplice, TypeOK
    <3> QED
      BY <3>1 DEF MovedStubsStopped
  <2>7. CASE \/ Interrupt \/ UpdateDone \/ RemoveCleanup \/ RemovePump
             \/ HelperInterrupt \/ HelperReturns \/ RemoveClosed
    BY <2>7 DEF Interrupt, UpdateDone, RemoveCleanup, RemovePump, HelperInterrupt,
           HelperReturns, RemoveClosed, wiring
  <2> QED
    BY <2>1, <2>2, <2>3, <2>4, <2>5, <2>6, <2>7 DEF Next, Begin, Finish
<1> QED
  BY <1>1, InductiveInvariant, PTL DEF Spec, RewireOnlyWhenStopped
-----------------------------------------------------------------------------
(***************************************************************************)
(* How the stubs of a link are wired, and that they stay so.               *)
(***************************************************************************)

(* The stubs that data passes through: all but the one being added.        *)
Settled == IF op.call = "add" THEN Len(stubs) - 1 ELSE Len(stubs)

(* Each stub writes to the next up to stub m, which writes to the writer.  *)
(* Those behind it were added to a link that had closed.                   *)
WiredTo(m) ==
  \A i \in 1 .. Settled :
    /\ i < m => out[stubs[i]] = stubs[i + 1]
    /\ i = m => out[stubs[i]] = Sink
    /\ i > m => out[stubs[i]] = stubs[i] /\ st[stubs[i]].closed

Frontier ==
  /\ stubs[1] = Entry
  /\ \E m \in 1 .. Settled : WiredTo(m)
  /\ op.call = "add" => out[stubs[Len(stubs)]] = out[stubs[Len(stubs) - 1]]

(* The stubs a call has interrupted and not yet started again.  Only these *)
(* can be stopped without having closed.                                   *)
Halting == (IF op.phase = "wait" THEN {Target} ELSE {})
             \cup (IF helper \in {"wait", "yes"} THEN {Previous} ELSE {})

StubOK(s) ==
  /\ st[s].closed => st[s].pc = "off"
  /\ st[s].pc = "flush" => s \in Halting
  /\ s \in Halting => st[s].pc \in {"flush", "off"} /\ ~st[s].closed
  /\ st[s].pipe = "pump" => st[s].pc \in {"select", "send", "off"}
  /\ Owns(s) => \E i \in 1 .. Settled : stubs[i] = s

StubsOK == \A s \in Stub : StubOK(s)

NoneStopped ==
  op.call # "panic" => \A i \in 1 .. Settled : Owns(stubs[i]) \/ stubs[i] \in Halting

(* RemoveToxic at its pump: the stub it drains closes only when the one    *)
(* before it has, and then the helper has found that one closed.           *)
Pumping ==
  /\ helper = "no" => st[Previous].closed
  /\ op.phase = "pump" =>
       /\ helper # "none"
       /\ st[Target].pipe = "pump"
       /\ st[Target].closed => st[Previous].closed

(* On a link that has not closed, the stubs run the chain, but for the one *)
(* toxic a call is adding or removing.                                     *)
PlaceOf(i) == IF op.call = "remove" /\ i > op.idx THEN i - 1 ELSE i

Matching ==
  op.call # "panic" /\ (\A i \in 1 .. Settled : ~st[stubs[i]].closed) =>
    /\ Len(chain) = IF op.call = "remove" THEN Len(stubs) - 1 ELSE Len(stubs)
    /\ \A i \in 1 .. Settled :
         (op.call = "remove" => i # op.idx) => st[stubs[i]].toxic = chain[PlaceOf(i)]
    /\ op.call = "add" => chain[Len(chain)] = op.toxic
    /\ op.call = "update" => chain[op.idx] = op.toxic

WInv == Frontier /\ StubsOK /\ NoneStopped /\ Pumping /\ Matching
-----------------------------------------------------------------------------
(* What a goroutine does by itself: it goes on with the toxic it runs, and *)
(* it stops only by closing its Output, or after a flush.                  *)
GoesOn(l, m) ==
  /\ m.toxic = l.toxic /\ m.pipe = l.pipe
  /\ m.pc # "flush" /\ (m.pc = "off" <=> m.closed)
  /\ l.pipe = "pump" => m.pc \in {"select", "send", "off"}

LEMMA AccountGoesOn ==
  ASSUME NEW l \in Local, ~l.closed, l.pipe = "limit_data", NEW n, NEW b
  PROVE  GoesOn(l, Account(l, n, b))
<1>1. ASSUME NEW q, NEW r
      PROVE  LET a == [l EXCEPT !.sent = q, !.quota = r]
             IN  GoesOn(l, Close(a)) /\ GoesOn(l, Await(a))
  BY DEF Close, Await, Local, GoesOn
<1> DEFINE q == l.sent + n
           r == b - q
           a == [l EXCEPT !.sent = q, !.quota = r]
<1>3. Account(l, n, b) = Close(a) \/ Account(l, n, b) = Await(a)
  BY DEF Account
<1> HIDE DEF q, r
<1>2. GoesOn(l, Close(a)) /\ GoesOn(l, Await(a))
  BY <1>1
<1> QED
  BY <1>2, <1>3

LEMMA OnChunkGoesOn ==
  ASSUME NEW l \in Local, ~l.closed, l.pc = "select", NEW c, NEW b
  PROVE  /\ GoesOn(l, OnChunk(l, c, b))
         /\ l.pipe = "pump" => ~OnChunk(l, c, b).closed
<1>1. l.pipe \in Kinds \cup {"pump"}
  BY DEF Local
<1>2. \A p \in {"send", "timed", "reset", "delay", "test"} : \A d :
        /\ Hold(l, p, d).pc = p /\ ~Hold(l, p, d).closed
        /\ Hold(l, p, d).toxic = l.toxic /\ Hold(l, p, d).pipe = l.pipe
  BY DEF Hold, Local
<1>3. CASE l.pipe \in {"noop", "slow_close", "slicer", "pump"}
  <2>1. OnChunk(l, c, b) = Hold(l, "send", c)
    BY <1>3 DEF OnChunk
  <2> QED
    BY <1>2, <2>1 DEF GoesOn
<1>4. CASE l.pipe = "latency"
  <2>1. OnChunk(l, c, b) = Hold(l, "timed", c)
    BY <1>4 DEF OnChunk
  <2> QED
    BY <1>2, <1>4, <2>1 DEF GoesOn
<1>8. CASE l.pipe = "bandwidth"
  <2>1. OnChunk(l, c, b) = Hold(l, IF b > 0 THEN "delay" ELSE "test", c)
    BY <1>8 DEF OnChunk
  <2>2. GoesOn(l, Hold(l, "delay", c)) /\ GoesOn(l, Hold(l, "test", c))
    BY <1>2, <1>8 DEF GoesOn
  <2> QED
    BY <1>8, <2>1, <2>2
<1>5. CASE l.pipe = "timeout"
  BY <1>5 DEF OnChunk, GoesOn
<1>6. CASE l.pipe = "reset_peer"
  <2>1. OnChunk(l, c, b) = Hold(l, "reset", Empty)
    BY <1>6 DEF OnChunk
  <2> QED
    BY <1>2, <1>6, <2>1 DEF GoesOn
<1>7. CASE l.pipe = "limit_data"
  <2>1. OnChunk(l, c, b) = IF Allowed(l, c) = 0 THEN Account(l, 0, b)
                           ELSE Hold(l, "send", First(c, Allowed(l, c)))
    BY <1>7 DEF OnChunk
  <2>2. GoesOn(l, Hold(l, "send", First(c, Allowed(l, c))))
    BY <1>2, <1>7 DEF GoesOn
  <2> QED
    BY <1>7, <2>1, <2>2, AccountGoesOn
<1> QED
  BY <1>1, <1>3, <1>4, <1>5, <1>6, <1>7, <1>8 DEF Kinds

LEMMA OnNilGoesOn ==
  ASSUME NEW l \in Local, ~l.closed, l.pc = "select"
  PROVE  GoesOn(l, OnNil(l))
<1>1. GoesOn(l, Close(l))
  BY DEF Close, Local, GoesOn
<1>2. l.pipe # "pump" => GoesOn(l, Hold(l, "timed", Empty)) /\ GoesOn(l, Hold(l, "reset", Empty))
  BY DEF Hold, Local, GoesOn
<1> QED
  BY <1>1, <1>2 DEF OnNil

LEMMA OnTimerGoesOn ==
  ASSUME NEW l \in Local, ~l.closed, l.pipe # "pump", NEW b
  PROVE  GoesOn(l, OnTimer(l, b))
<1>1. GoesOn(l, Close(l)) /\ GoesOn(l, Await(l)) /\ GoesOn(l, Panic(l))
  BY DEF Close, Await, Panic, Local, GoesOn
<1>2. \A p \in {"test", "pace", "timed", "send"} : GoesOn(l, [l EXCEPT !.pc = p])
  BY DEF Local, GoesOn
<1>3. GoesOn(l, [l EXCEPT !.pc = "piece", !.quota = b])
  BY DEF Local, GoesOn
<1>4. Size(l.chunk) > 0 \/ Size(l.chunk) <= 0
  BY DEF Local, Chunk, Size
<1>5. GoesOn(l, Paced(l, b))
  BY <1>1, <1>2, <1>3 DEF Paced
<1> QED
  BY <1>1, <1>2, <1>4, <1>5 DEF OnTimer

LEMMA AfterSendGoesOn ==
  ASSUME NEW l \in Local, ~l.closed, Sending(l), l.pipe = "pump" => l.pc = "send",
         NEW n, NEW b
  PROVE  /\ l.pc = "flush" => AfterSend(l, n, b) = Exit(l)
         /\ l.pc # "flush" => GoesOn(l, AfterSend(l, n, b))
         /\ l.pipe = "pump" => ~AfterSend(l, n, b).closed
<1>1. \A d : LET h == Hold(l, "timed", d) IN
               h.pc = "timed" /\ ~h.closed /\ h.toxic = l.toxic /\ h.pipe = l.pipe
  BY DEF Hold, Local
<1>2. GoesOn(l, Await(l)) /\ ~Await(l).closed /\ ~Exit(l).closed
  BY DEF Await, Exit, Local, GoesOn
<1>3. l.pc = "flush" => AfterSend(l, n, b) = Exit(l)
  BY DEF AfterSend
<1>4. CASE l.pc = "send" /\ l.pipe = "slicer"
  <2>1. AfterSend(l, n, b) = Hold(l, "timed", Rest(l.chunk, n))
    BY <1>4 DEF AfterSend
  <2> QED
    BY <1>1, <1>4, <2>1 DEF GoesOn
<1>5. CASE l.pc = "piece"
  <2>1. AfterSend(l, n, b) = AfterPiece(l, b)
    BY <1>5 DEF AfterSend
  <2>2. \A d : GoesOn(l, [Hold(l, "test", d) EXCEPT !.quota = 0])
    BY <1>5 DEF Hold, Local, GoesOn
  <2>3. GoesOn(l, Panic(l))
    BY <1>5 DEF Panic, Local, GoesOn
  <2>4. GoesOn(l, AfterPiece(l, b))
    BY <2>2, <2>3 DEF AfterPiece
  <2> QED
    BY <1>5, <2>1, <2>4
<1>6. CASE l.pc = "send" /\ l.pipe = "limit_data"
  <2>1. AfterSend(l, n, b) = Account(l, n, b)
    BY <1>6 DEF AfterSend
  <2> QED
    BY <1>6, <2>1, AccountGoesOn
<1>7. CASE l.pc = "send" /\ l.pipe \notin {"slicer", "limit_data"}
  <2>1. AfterSend(l, n, b) = Await(l)
    BY <1>7 DEF AfterSend
  <2> QED
    BY <1>2, <1>7, <2>1
<1> QED
  BY <1>2, <1>3, <1>4, <1>5, <1>6, <1>7 DEF Sending
-----------------------------------------------------------------------------
(* Data moving, as seen by one stub.                                       *)
Goes(s) ==
  /\ st[s].pc # "off" /\ ~st[s].closed
  /\ IF st[s].pc = "flush" THEN st'[s] = Exit(st[s]) ELSE GoesOn(st[s], st'[s])
  /\ st[s].pipe = "pump" /\ st'[s].closed => ChanClosed(s)

LEMMA TakenGoesOn ==
  ASSUME TypeOK, StubsOK, NEW s \in Stub, NEW c, st[s].pc = "select",
         st'[s] = Taken(s, c)
  PROVE  Goes(s)
<1>1. st[s] \in Local /\ ~st[s].closed
  BY DEF TypeOK, StubsOK, StubOK
<1> QED
  BY <1>1, OnChunkGoesOn DEF Taken, Goes

LEMMA SentGoesOn ==
  ASSUME TypeOK, StubsOK, NEW s \in Stub, NEW n, Sending(st[s]), st'[s] = Sent(s, n)
  PROVE  Goes(s)
<1>1. st[s] \in Local /\ ~st[s].closed /\ (st[s].pipe = "pump" => st[s].pc = "send")
  BY DEF TypeOK, StubsOK, StubOK, Sending
<1> QED
  BY <1>1, AfterSendGoesOn DEF Sent, Goes, Sending

LEMMA FlowGoesOn ==
  ASSUME TypeOK, Entry \notin buffered, StubsOK, Ends \/ Flow, NEW s \in Stub
  PROVE  st'[s] = st[s] \/ Goes(s)
<1>1. CASE Ends
  BY <1>1 DEF Ends, ReadSource, SourceEof, WriteDest, WriteFail, WriterEof, CloseDest,
         RemoveLink
<1>2. CASE ReaderToStub
  <2>1. st[Entry].pc = "select" /\ st' = [st EXCEPT ![Entry] = Taken(Entry, reader.chunk)]
    BY <1>2 DEF ReaderToStub, Ready
  <2>2. s = Entry => st'[s] = Taken(s, reader.chunk)
    BY <2>1 DEF TypeOK
  <2>3. s # Entry => st'[s] = st[s]
    BY <2>1 DEF TypeOK
  <2> QED
    BY <2>1, <2>2, <2>3, TakenGoesOn
<1>3. ASSUME NEW r \in Stub, StubToStub(r) PROVE st'[s] = st[s] \/ Goes(s)
  <2>1. PICK n \in PieceSizes(st[r]) :
          st' = [st EXCEPT ![r] = Sent(r, n),
                           ![out[r]] = Taken(out[r], First(st[r].chunk, n))]
    BY <1>3 DEF StubToStub
  <2>2. out[r] \in Stub /\ Sending(st[r]) /\ st[out[r]].pc = "select"
    BY <1>3 DEF StubToStub, Ready, TypeOK
  <2>3. r # out[r]
    BY <2>2 DEF Sending
  <2>4. /\ s = r => st'[s] = Sent(s, n)
        /\ s = out[r] => st'[s] = Taken(s, First(st[r].chunk, n))
        /\ s # r /\ s # out[r] => st'[s] = st[s]
    BY <2>1, <2>2, <2>3 DEF TypeOK
  <2> QED
    BY <2>2, <2>4, TakenGoesOn, SentGoesOn
<1>4. ASSUME NEW r \in Stub, StubToBuffer(r) \/ StubToWriter(r)
      PROVE  st'[s] = st[s] \/ Goes(s)
  <2>1. PICK n : st' = [st EXCEPT ![r] = Sent(r, n)]
    BY <1>4 DEF StubToBuffer, StubToWriter
  <2>2. Sending(st[r])
    BY <1>4 DEF StubToBuffer, StubToWriter
  <2>3. /\ s = r => st'[s] = Sent(s, n)
        /\ s # r => st'[s] = st[s]
    BY <2>1 DEF TypeOK
  <2> QED
    BY <2>2, <2>3, SentGoesOn
<1>5. ASSUME NEW r \in Stub, BufferToStub(r) PROVE st'[s] = st[s] \/ Goes(s)
  <2>1. st[r].pc = "select" /\ st' = [st EXCEPT ![r] = Taken(r, queue[r][1])]
    BY <1>5 DEF BufferToStub
  <2>2. /\ s = r => st'[s] = Taken(s, queue[r][1])
        /\ s # r => st'[s] = st[s]
    BY <2>1 DEF TypeOK
  <2> QED
    BY <2>1, <2>2, TakenGoesOn
<1>6. ASSUME NEW r \in Stub, StubEof(r) PROVE st'[s] = st[s] \/ Goes(s)
  <2>1. st[r].pc = "select" /\ ChanClosed(r) /\ st' = [st EXCEPT ![r] = OnNil(st[r])]
    BY <1>6 DEF StubEof
  <2>2. st[r] \in Local /\ ~st[r].closed
    BY <2>1 DEF TypeOK, StubsOK, StubOK
  <2>3. /\ s = r => st'[s] = OnNil(st[s])
        /\ s # r => st'[s] = st[s]
    BY <2>1 DEF TypeOK
  <2> QED
    BY <2>1, <2>2, <2>3, OnNilGoesOn DEF Goes
<1>7. ASSUME NEW r \in Stub, StubTimer(r) PROVE st'[s] = st[s] \/ Goes(s)
  <2>1. TimerArmed(st[r]) /\ st' = [st EXCEPT ![r] = OnTimer(st[r], AttrOf(st[r].toxic))]
    BY <1>7 DEF StubTimer
  <2>2. st[r] \in Local /\ ~st[r].closed /\ st[r].pipe # "pump"
        /\ st[r].pc \notin {"off", "flush"}
    BY <2>1 DEF TypeOK, StubsOK, StubOK, TimerArmed
  <2>3. /\ s = r => st'[s] = OnTimer(st[s], AttrOf(st[s].toxic))
        /\ s # r => st'[s] = st[s]
    BY <2>1 DEF TypeOK
  <2> QED
    BY <2>2, <2>3, OnTimerGoesOn DEF Goes
<1>8. ASSUME NEW r \in Stub, StubDeadline(r) PROVE st'[s] = st[s] \/ Goes(s)
  <2>1. Sending(st[r]) /\ st' = [st EXCEPT ![r] = Sent(r, Size(st[r].chunk))]
    BY <1>8 DEF StubDeadline, HasDeadline, Sending
  <2>2. /\ s = r => st'[s] = Sent(s, Size(st[r].chunk))
        /\ s # r => st'[s] = st[s]
    BY <2>1 DEF TypeOK
  <2> QED
    BY <2>1, <2>2, SentGoesOn
<1> QED
  BY <1>1, <1>2, <1>3, <1>4, <1>5, <1>6, <1>7, <1>8 DEF Flow
-----------------------------------------------------------------------------
(* The stubs of a link by their places.                                    *)
LEMMA Shape ==
  ASSUME IInv
  PROVE  /\ Len(stubs) \in Nat /\ Settled \in Int /\ Settled <= Len(stubs)
         /\ \A i \in 1 .. Len(stubs) : stubs[i] \in Stub /\ stubs[i] \in Nat
         /\ \A i, j \in 1 .. Len(stubs) : stubs[i] = stubs[j] => i = j
         /\ op.idx \in Nat
         /\ Len(chain) \in Nat
<1>1. stubs \in Seq(Stub) /\ chain \in Seq(Wrappers) /\ op.idx \in Nat
  BY DEF IInv, TypeOK
<1>2. /\ Len(stubs) \in Nat /\ Len(chain) \in Nat
      /\ \A i \in 1 .. Len(stubs) : stubs[i] \in Stub
  BY <1>1
<1>3. Stub \subseteq Nat
  BY LinkAssumption DEF Stub
<1>4. Settled \in Int /\ Settled <= Len(stubs)
  BY <1>2 DEF Settled
<1>5. \A i, j \in 1 .. Len(stubs) : stubs[i] = stubs[j] => i = j
  BY DEF IInv, MovedStubsStopped
<1> QED
  BY <1>1, <1>2, <1>3, <1>4, <1>5

(* Nobody but the stub before it sends to a stub that runs, and nobody but *)
(* that one can have closed its Input.                                     *)
LEMMA InputClosed ==
  ASSUME IInv, Frontier, StubsOK, op.call # "add",
         NEW i \in 2 .. Len(stubs), ~st[stubs[i]].closed, ChanClosed(stubs[i])
  PROVE  st[stubs[i - 1]].closed
<1>1. PICK m \in 1 .. Settled : WiredTo(m)
  BY DEF Frontier
<1>2. /\ i \in 1 .. Len(stubs) /\ 1 \in 1 .. Len(stubs) /\ Settled = Len(stubs)
      /\ stubs[i] \in Stub /\ stubs[i] # Entry
  BY Shape DEF Frontier, Settled
<1>3. PICK s \in Stub : st[s].closed /\ out[s] = stubs[i]
  BY <1>2 DEF ChanClosed
<1>4. PICK j \in 1 .. Settled : stubs[j] = s
  BY <1>3 DEF StubsOK, StubOK, Owns
<1>5. stubs[i] # Sink
  BY <1>2, Shape DEF Stub
<1>6. j \in Int /\ m \in Int /\ Len(stubs) \in Nat
  BY <1>1, <1>4, Shape
<1>7. ~(j = m) /\ ~(j > m)
  BY <1>1, <1>3, <1>4, <1>5 DEF WiredTo
<1>8. j < m /\ stubs[j + 1] = stubs[i]
  BY <1>1, <1>3, <1>4, <1>6, <1>7 DEF WiredTo
<1>9. j + 1 = i
  <2>1. j + 1 \in 1 .. Len(stubs)
    BY <1>1, <1>2, <1>4, <1>6, <1>8
  <2> QED
    BY <1>2, <1>8, <2>1, Shape
<1> QED
  BY <1>3, <1>4, <1>6, <1>9

(* Data moving changes no channel, no list and no call.                    *)
LEMMA FlowKeeps ==
  ASSUME IInv, WInv, Ends \/ Flow
  PROVE  WInv'
<1>1. UNCHANGED <<chain, stubs, out, op, helper>>
  BY DEF Ends, Flow, ReadSource, SourceEof, WriteDest, WriteFail, WriterEof, CloseDest,
     RemoveLink, ReaderToStub, StubToStub, StubToBuffer, BufferToStub, StubToWriter,
     StubEof, StubTimer, StubDeadline, config, wiring, api
<1>2. Settled' = Settled /\ Halting' = Halting /\ \A i : PlaceOf(i)' = PlaceOf(i)
  BY <1>1 DEF Settled, Halting, PlaceOf, Target, Previous
<1>3. ASSUME NEW s \in Stub
      PROVE  /\ st'[s].toxic = st[s].toxic /\ st'[s].pipe = st[s].pipe
             /\ st[s].closed => st'[s].closed
             /\ StubOK(s)'
             /\ Owns(s) => Owns(s)' \/ s \in Halting
             /\ st'[s].closed /\ st[s].pipe = "pump" => st[s].closed \/ ChanClosed(s)
  <2>1. st'[s] = st[s] \/ Goes(s)
    BY FlowGoesOn DEF IInv, WInv, MovedStubsStopped
  <2>2. StubOK(s) /\ st[s] \in Local
    BY DEF WInv, StubsOK, IInv, TypeOK
  <2>3. CASE st'[s] = st[s]
    BY <1>1, <1>2, <2>2, <2>3 DEF StubOK, Owns
  <2>4. CASE Goes(s) /\ st[s].pc = "flush"
    <3>1. st'[s] = Exit(st[s])
      BY <2>4 DEF Goes
    <3>2. /\ st'[s].pc = "off" /\ st'[s].toxic = st[s].toxic /\ st'[s].pipe = st[s].pipe
          /\ st'[s].closed = st[s].closed
      BY <2>2, <3>1 DEF Exit, Local
    <3> QED
      BY <1>1, <1>2, <2>2, <2>4, <3>2 DEF StubOK, Owns, Goes
  <2>5. CASE Goes(s) /\ st[s].pc # "flush"
    <3>1. GoesOn(st[s], st'[s]) /\ s \notin Halting
      BY <2>2, <2>5 DEF Goes, StubOK
    <3> QED
      BY <1>1, <1>2, <2>2, <2>5, <3>1 DEF Goes, GoesOn, StubOK, Owns
  <2> QED
    BY <2>1, <2>3, <2>4, <2>5
<1>4. \A i \in 1 .. Settled : stubs[i] \in Stub
  BY Shape
<1>5. Frontier'
  <2>1. PICK m \in 1 .. Settled : WiredTo(m)
    BY DEF WInv, Frontier
  <2>2. WiredTo(m)'
    BY <1>1, <1>2, <1>3, <1>4, <2>1 DEF WiredTo
  <2> QED
    BY <1>1, <1>2, <2>2 DEF WInv, Frontier
<1>6. StubsOK'
  BY <1>3 DEF StubsOK
<1>7. NoneStopped'
  BY <1>1, <1>2, <1>3, <1>4 DEF WInv, NoneStopped
<1>8. Pumping'
  <2>1. helper \in {"none", "interrupt", "wait", "yes", "no"}
    BY DEF IInv, TypeOK
  <2>2. CASE helper = "none"
    <3>1. op.phase # "pump"
      BY <2>2 DEF WInv, Pumping
    <3> QED
      BY <1>1, <2>2, <3>1 DEF Pumping
  <2>3. CASE helper # "none"
    <3>1. op.phase = "pump" /\ op.call = "remove" /\ op.idx \in 2 .. Len(stubs)
      BY <2>3 DEF IInv, IndicesInRange
    <3>2. /\ op.idx - 1 \in 1 .. Len(stubs) /\ Target \in Stub /\ Previous \in Stub
      BY <3>1, Shape DEF Target, Previous
    <3>3. st[Target].closed \/ ~ChanClosed(Target) \/ st[Previous].closed
      BY <3>1, InputClosed DEF WInv, Target, Previous
    <3>4. Target' = Target /\ Previous' = Previous
      BY <1>1 DEF Target, Previous
    <3> QED
      BY <1>1, <1>3, <2>3, <3>1, <3>2, <3>3, <3>4 DEF WInv, Pumping
  <2> QED
    BY <2>2, <2>3
<1>9. Matching'
  BY <1>1, <1>2, <1>3, <1>4 DEF WInv, Matching
<1> QED
  BY <1>5, <1>6, <1>7, <1>8, <1>9 DEF WInv
-----------------------------------------------------------------------------
(* A call begins: nothing has moved yet.                                   *)
LEMMA BeginKeeps ==
  ASSUME IInv, WInv, Begin
  PROVE  WInv'
<1> USE DEF Idle, Call
<1>a. IInv /\ Frontier /\ StubsOK /\ NoneStopped /\ Pumping /\ Matching
  BY DEF WInv
<1>b. /\ chain \in Seq(Wrappers) /\ stubs \in Seq(Stub) /\ Len(chain) \in Nat
      /\ Len(stubs) \in Nat
  BY DEF IInv, TypeOK
<1>c. ASSUME NEW t \in Toxics, UpdateToxicRejected(t) PROVE WInv'
  <2>1. UNCHANGED <<chain, stubs, out, op, helper, st>>
    BY <1>c DEF UpdateToxicRejected, wiring, api
  <2>2. /\ Settled' = Settled /\ Halting' = Halting
        /\ Target' = Target /\ Previous' = Previous
    BY <2>1 DEF Settled, Halting, Target, Previous
  <2>3. Frontier'
    BY <1>a, <2>1, <2>2 DEF Frontier, WiredTo
  <2>4. StubsOK'
    BY <1>a, <2>1, <2>2 DEF StubsOK, StubOK, Owns
  <2>5. NoneStopped'
    BY <1>a, <2>1, <2>2 DEF NoneStopped, Owns
  <2>6. Pumping' /\ Matching'
    BY <1>a, <2>1, <2>2 DEF Pumping, Matching, PlaceOf
  <2> QED
    BY <2>3, <2>4, <2>5, <2>6 DEF WInv
<1>1. CASE \E t \in Toxics : AddToxicBegin(t) \/ UpdateToxicBegin(t) \/ RemoveToxicBegin(t)
  <2>1. op = Idle /\ helper = "none" /\ helper' = "none" /\ st' = st
    BY <1>1 DEF AddToxicBegin, UpdateToxicBegin, RemoveToxicBegin, IInv, IndicesInRange
  <2>2. /\ op.call = "idle" /\ op.phase = "none" /\ op'.phase = "interrupt"
        /\ op'.call \in {"add", "update", "remove"}
    BY <1>1, <2>1 DEF AddToxicBegin, UpdateToxicBegin, RemoveToxicBegin
  <2>3. Settled = Len(stubs) /\ Settled' = Len(stubs)
        /\ \A i \in 1 .. Len(stubs) : stubs'[i] = stubs[i] /\ stubs[i] \in Stub
    <3>1. CASE \E t \in Toxics : AddToxicBegin(t)
      <4>1. stubs' = Append(stubs, fresh) /\ op'.call = "add" /\ fresh \in Stub
        BY <3>1 DEF AddToxicBegin
      <4>2. /\ Len(stubs') = Len(stubs) + 1
            /\ \A i \in 1 .. Len(stubs) : stubs'[i] = stubs[i]
        BY <1>b, <4>1
      <4> QED
        BY <1>b, <2>2, <4>1, <4>2, Shape DEF Settled
    <3>2. CASE \E t \in Toxics : UpdateToxicBegin(t) \/ RemoveToxicBegin(t)
      BY <2>2, <3>2, Shape DEF UpdateToxicBegin, RemoveToxicBegin, wiring, Settled
    <3> QED
      BY <1>1, <3>1, <3>2
  <2>4. Halting = {} /\ Halting' = {}
    BY <2>1, <2>2 DEF Halting
  <2>5. \A i \in 1 .. Len(stubs) : out'[stubs[i]] = out[stubs[i]]
    <3>1. CASE \E t \in Toxics : AddToxicBegin(t)
      <4>1. out' = [out EXCEPT ![fresh] = out[Last(stubs)]]
        BY <3>1 DEF AddToxicBegin
      <4>2. \A i \in 1 .. Len(stubs) : stubs[i] # fresh
        BY Shape DEF IInv, MovedStubsStopped, TypeOK
      <4> QED
        BY <2>3, <4>1, <4>2 DEF IInv, TypeOK
    <3>2. CASE \E t \in Toxics : UpdateToxicBegin(t) \/ RemoveToxicBegin(t)
      BY <3>2 DEF UpdateToxicBegin, RemoveToxicBegin, wiring
    <3> QED
      BY <1>1, <3>1, <3>2
  <2>6. PICK m \in 1 .. Len(stubs) : WiredTo(m)
    BY <1>a, <2>3 DEF Frontier
  <2>7. Frontier'
    <3>1. WiredTo(m)'
      <4> SUFFICES ASSUME NEW i \in 1 .. Len(stubs)
                   PROVE  /\ i < m => out'[stubs'[i]] = stubs'[i + 1]
                          /\ i = m => out'[stubs'[i]] = Sink
                          /\ i > m => out'[stubs'[i]] = stubs'[i] /\ st'[stubs'[i]].closed
        BY <2>3 DEF WiredTo
      <4>1. i < m => i + 1 \in 1 .. Len(stubs)
        BY <1>b
      <4> QED
        BY <2>1, <2>3, <2>5, <2>6, <4>1 DEF WiredTo
    <3>2. stubs'[1] = Entry
      BY <1>a, <1>b, <2>3, <2>6 DEF Frontier
    <3>3. op'.call = "add" => out'[stubs'[Len(stubs')]] = out'[stubs'[Len(stubs') - 1]]
      <4> SUFFICES ASSUME op'.call = "add"
                   PROVE  out'[stubs'[Len(stubs')]] = out'[stubs'[Len(stubs') - 1]]
        OBVIOUS
      <4>1. PICK t \in Toxics : AddToxicBegin(t)
        BY <1>1 DEF UpdateToxicBegin, RemoveToxicBegin
      <4>2. /\ stubs' = Append(stubs, fresh) /\ fresh \in Stub
            /\ out' = [out EXCEPT ![fresh] = out[Last(stubs)]]
        BY <4>1 DEF AddToxicBegin
      <4>3. Len(stubs') = Len(stubs) + 1 /\ stubs'[Len(stubs) + 1] = fresh
        BY <1>b, <4>2
      <4>4. Len(stubs) \in 1 .. Len(stubs) /\ Last(stubs) = stubs[Len(stubs)]
        BY <1>b, <2>6 DEF Last
      <4>5. out'[fresh] = out[Last(stubs)]
        BY <4>2 DEF IInv, TypeOK
      <4> QED
        BY <1>b, <2>3, <2>5, <4>3, <4>4, <4>5
    <3> QED
      BY <2>3, <2>6, <3>1, <3>2, <3>3 DEF Frontier
  <2>8. StubsOK' /\ NoneStopped'
    BY <1>a, <2>1, <2>2, <2>3, <2>4 DEF StubsOK, StubOK, NoneStopped, Owns
  <2>9. Pumping'
    BY <2>1, <2>2 DEF Pumping
  <2>10. Matching'
    <3> SUFFICES ASSUME \A i \in 1 .. Len(stubs) : ~st[stubs[i]].closed
                 PROVE  Matching'
      BY <2>1, <2>3 DEF Matching
    <3>1. /\ Len(chain) = Len(stubs)
          /\ \A i \in 1 .. Len(stubs) : st[stubs[i]].toxic = chain[i]
      BY <1>a, <2>2, <2>3 DEF Matching, PlaceOf
    <3>2. ASSUME NEW t \in Toxics, AddToxicBegin(t) PROVE Matching'
      <4>1. /\ chain' = Append(chain, t) /\ stubs' = Append(stubs, fresh)
            /\ t \in Wrappers /\ fresh \in Stub
            /\ op' = [call |-> "add", phase |-> "interrupt", toxic |-> t, idx |-> Len(stubs)]
        BY <3>2 DEF AddToxicBegin, Wrappers
      <4>2. /\ Len(chain') = Len(chain) + 1 /\ Len(stubs') = Len(stubs) + 1
            /\ chain'[Len(chain) + 1] = t
            /\ \A i \in 1 .. Len(chain) : chain'[i] = chain[i]
        BY <1>b, <4>1
      <4>3. \A i \in 1 .. Len(stubs) : PlaceOf(i)' = i
        BY <4>1 DEF PlaceOf
      <4> QED
        BY <2>1, <2>3, <3>1, <4>1, <4>2, <4>3 DEF Matching
    <3>3. ASSUME NEW t \in Toxics, UpdateToxicBegin(t) PROVE Matching'
      <4>1. PICK j \in 1 .. Len(chain) : /\ chain[j] = t
              /\ op' = [call |-> "update", phase |-> "interrupt", toxic |-> t, idx |-> j]
        BY <3>3 DEF UpdateToxicBegin
      <4>2. chain' = chain /\ stubs' = stubs
        BY <3>3 DEF UpdateToxicBegin, wiring
      <4>3. \A i \in 1 .. Len(stubs) : PlaceOf(i)' = i
        BY <4>1 DEF PlaceOf
      <4> QED
        BY <2>1, <2>3, <3>1, <4>1, <4>2, <4>3 DEF Matching
    <3>4. ASSUME NEW t \in Toxics, RemoveToxicBegin(t) PROVE Matching'
      <4>1. PICK j \in 1 .. Len(chain) : /\ chain' = RemoveAt(chain, j)
              /\ op' = [call |-> "remove", phase |-> "interrupt", toxic |-> t, idx |-> j]
        BY <3>4 DEF RemoveToxicBegin
      <4>2. stubs' = stubs
        BY <3>4 DEF RemoveToxicBegin, wiring
      <4>3. /\ Len(chain') = Len(chain) - 1
            /\ \A i \in 1 .. Len(chain) - 1 :
                 chain'[i] = IF i < j THEN chain[i] ELSE chain[i + 1]
        BY <1>b, <4>1, RemoveAtFacts
      <4>4. \A i \in 1 .. Len(stubs) : PlaceOf(i)' = IF i > j THEN i - 1 ELSE i
        BY <4>1 DEF PlaceOf
      <4>5. ASSUME NEW i \in 1 .. Len(stubs), i # j
            PROVE  st[stubs[i]].toxic = chain'[PlaceOf(i)']
        <5>1. CASE i > j
          <6>1. i - 1 \in 1 .. Len(chain) - 1 /\ ~(i - 1 < j) /\ (i - 1) + 1 = i
            BY <1>b, <3>1, <5>1
          <6> QED
            BY <3>1, <4>3, <4>4, <5>1, <6>1
        <5>2. CASE ~(i > j)
          <6>1. i \in 1 .. Len(chain) - 1 /\ i < j
            BY <1>b, <3>1, <4>5, <5>2
          <6> QED
            BY <3>1, <4>3, <4>4, <5>2, <6>1
        <5> QED
          BY <5>1, <5>2
      <4> QED
        BY <2>1, <2>3, <3>1, <4>1, <4>2, <4>3, <4>5 DEF Matching
    <3> QED
      BY <1>1, <3>2, <3>3, <3>4
  <2> QED
    BY <2>7, <2>8, <2>9, <2>10 DEF WInv
<1> QED
  BY <1>1, <1>c DEF Begin
-----------------------------------------------------------------------------
(* A call goes on.  What it does to the stubs it stops and starts.         *)
LEMMA RunFacts ==
  ASSUME NEW l \in Local, NEW t \in Wrappers, NEW p \in Pipes(t), NEW b
  PROVE  /\ Run(l, t, p, b).pc \in {"select", "panic"} /\ Run(l, t, p, b).toxic = t
         /\ Run(l, t, p, b).pipe # "pump" /\ Run(l, t, p, b).closed = l.closed
<1>1. p # "pump"
  BY ToxicAssumption DEF Pipes, Kinds, Wrappers
<1>2. CASE p = "limit_data" /\ ~l.stateful
  BY <1>1, <1>2 DEF Run, Local
<1>3. CASE ~(p = "limit_data" /\ ~l.stateful)
  <2> DEFINE q == IF p = "limit_data" THEN b - l.sent ELSE 0
  <2>1. Run(l, t, p, b) = [l EXCEPT !.pc = "select", !.toxic = t, !.pipe = p,
                                    !.chunk = Empty, !.quota = q]
    BY <1>3 DEF Run
  <2> HIDE DEF q
  <2> QED
    BY <1>1, <2>1 DEF Local
<1> QED
  BY <1>2, <1>3

LEMMA StoppedFacts ==
  ASSUME NEW l \in Local
  PROVE  /\ Close(l).pc = "off" /\ Close(l).closed
         /\ Exit(l).pc = "off" /\ Exit(l).closed = l.closed
         /\ Pump(l).pc = "select" /\ Pump(l).closed = l.closed /\ Pump(l).pipe = "pump"
         /\ OnInterrupt(l).pc \in {"flush", "off"} /\ OnInterrupt(l).closed = l.closed
         /\ OnInterrupt(l).toxic = l.toxic /\ OnInterrupt(l).pipe = l.pipe
BY DEF Close, Exit, Pump, OnInterrupt, Local

(* Where the call stands.                                                  *)
LEMMA CallFacts ==
  ASSUME IInv, WInv, Alive
  PROVE  /\ op.phase # "none" => op.idx \in 1 .. Settled /\ Target \in Stub
         /\ op.phase # "pump" => helper = "none"
         /\ op.phase = "pump" => /\ op.call = "remove" /\ op.idx \in 2 .. Settled
                                 /\ op.idx - 1 \in 1 .. Settled
                                 /\ Previous \in Stub /\ Previous # Target
         /\ op.call = "add" => /\ Settled = Len(stubs) - 1 /\ op.idx = Settled
                               /\ Last(stubs) = stubs[Len(stubs)] /\ Last(stubs) \in Stub
                               /\ Last(stubs) # Target /\ ~Owns(Last(stubs))
         /\ op.call # "add" => Settled = Len(stubs)
         /\ \A i \in 1 .. Settled : stubs[i] \in Stub
         /\ \A i, j \in 1 .. Settled : stubs[i] = stubs[j] => i = j
         /\ op.call \in {"idle", "add", "update", "remove"}
<1>1. /\ TypeOK /\ IndicesInRange /\ StubsOK /\ op.call \in {"idle", "add", "update", "remove"}
  BY DEF IInv, WInv, TypeOK, Alive
<1>2. op.phase # "pump" => helper = "none"
  BY <1>1 DEF IndicesInRange
<1>3. op.phase = "pump" => op.call = "remove" /\ op.idx \in 2 .. Settled
  BY <1>1 DEF IndicesInRange, Settled
<1>4. op.call = "add" => Settled = Len(stubs) - 1 /\ op.idx = Settled /\ op.idx \in 1 .. Settled
  BY <1>1, Shape DEF IndicesInRange, Settled
<1>5. op.phase # "none" => op.idx \in 1 .. Settled
  <2>1. op.phase # "none" => op.call # "idle"
    BY <1>1 DEF IndicesInRange, Idle
  <2> QED
    BY <1>1, <1>4, <2>1, Shape DEF IndicesInRange, Settled
<1>6. /\ \A i \in 1 .. Settled : stubs[i] \in Stub /\ i \in 1 .. Len(stubs)
      /\ \A i, j \in 1 .. Settled : stubs[i] = stubs[j] => i = j
  BY Shape
<1>7. op.phase # "none" => Target \in Stub
  BY <1>5, <1>6 DEF Target
<1>8. op.phase = "pump" => op.idx - 1 \in 1 .. Settled /\ op.idx - 1 # op.idx
                           /\ Previous \in Stub /\ Previous # Target
  BY <1>3, <1>5, <1>6, Shape DEF Previous, Target
<1>9. op.call = "add" => /\ Last(stubs) = stubs[Len(stubs)] /\ Last(stubs) \in Stub
                         /\ Last(stubs) # Target /\ ~Owns(Last(stubs))
  <2> SUFFICES ASSUME op.call = "add"
               PROVE  /\ Last(stubs) = stubs[Len(stubs)] /\ Last(stubs) \in Stub
                      /\ Last(stubs) # Target /\ ~Owns(Last(stubs))
    OBVIOUS
  <2>1. /\ Len(stubs) \in 1 .. Len(stubs) /\ op.idx \in 1 .. Len(stubs)
        /\ op.idx # Len(stubs)
    BY <1>4, Shape
  <2>2. Last(stubs) = stubs[Len(stubs)] /\ Last(stubs) \in Stub
    BY <2>1, Shape DEF Last
  <2>3. \A i \in 1 .. Settled : stubs[i] # Last(stubs)
    <3>1. \A i \in 1 .. Settled : i \in 1 .. Len(stubs) /\ i # Len(stubs)
      BY <1>4, Shape
    <3> QED
      BY <2>1, <2>2, <3>1, Shape
  <2>4. Last(stubs) # Target
    BY <1>4, <2>3 DEF Target
  <2> QED
    BY <1>1, <2>2, <2>3, <2>4 DEF StubsOK, StubOK
<1>10. op.call # "add" => Settled = Len(stubs)
  BY DEF Settled
<1> QED
  BY <1>1, <1>2, <1>3, <1>4, <1>5, <1>6, <1>7, <1>8, <1>9, <1>10

(* A stub takes an interrupt, of the call or of its helper.                *)
LEMMA StopKeeps ==
  ASSUME IInv, WInv, Interrupt \/ HelperInterrupt
  PROVE  WInv'
<1> DEFINE s == IF op.phase = "interrupt" THEN Target ELSE Previous
<1>a. Alive /\ IndicesInRange /\ st \in [Stub -> Local]
  BY DEF Interrupt, HelperInterrupt, IInv, TypeOK
<1>b. Frontier /\ StubsOK /\ NoneStopped /\ Pumping /\ Matching
  BY DEF WInv
<1>1. /\ s \in Stub /\ Interruptible(st[s]) /\ st' = [st EXCEPT ![s] = OnInterrupt(@)]
      /\ UNCHANGED <<chain, stubs, out>> /\ Halting = {} /\ Halting' = {s}
      /\ op'.call = op.call /\ op'.idx = op.idx /\ op'.toxic = op.toxic
  <2>1. CASE Interrupt
    <3>1. op.phase = "interrupt" /\ op' = [op EXCEPT !.phase = "wait"] /\ helper' = helper
      BY <2>1 DEF Interrupt
    <3>2. /\ op'.phase = "wait" /\ op'.idx = op.idx /\ op'.call = op.call
          /\ op'.toxic = op.toxic
      BY <3>1 DEF IInv, TypeOK
    <3>3. helper = "none" /\ Target \in Stub
      BY <1>a, <3>1, CallFacts
    <3>4. UNCHANGED <<chain, stubs, out>> /\ Target' = Target
      BY <2>1, <3>2 DEF Interrupt, config, wiring, Target
    <3> QED
      BY <2>1, <3>1, <3>2, <3>3, <3>4 DEF Interrupt, Halting
  <2>2. CASE HelperInterrupt
    <3>1. /\ helper = "interrupt" /\ helper' = "wait"
          /\ UNCHANGED <<chain, stubs, out, op>>
      BY <2>2 DEF HelperInterrupt, config, wiring
    <3>2. op.phase = "pump" /\ Previous \in Stub
      BY <1>a, <3>1, CallFacts
    <3>3. Previous' = Previous
      BY <3>1 DEF Previous
    <3> QED
      BY <2>2, <3>1, <3>2, <3>3 DEF HelperInterrupt, Halting
  <2> QED
    BY <2>1, <2>2
<1>2. /\ helper' # "no" /\ (op'.phase = "pump" => op.phase = "pump" /\ helper' = "wait")
      /\ op.phase = "pump" => Target # s /\ Target \in Stub /\ Previous \in Stub
      /\ Target' = Target /\ Previous' = Previous
  <2>1. helper # "no" /\ helper' # "no" /\ (op'.phase = "pump" => op.phase = "pump")
        /\ (op'.phase = "pump" => helper' = "wait")
    <3>1. CASE Interrupt
      <4>1. op' = [op EXCEPT !.phase = "wait"] /\ helper' = helper /\ op.phase = "interrupt"
        BY <3>1 DEF Interrupt
      <4>2. op'.phase = "wait" /\ helper = "none"
        BY <1>a, <4>1, CallFacts DEF IInv, TypeOK
      <4> QED
        BY <4>1, <4>2
    <3>2. CASE HelperInterrupt
      BY <3>2 DEF HelperInterrupt
    <3> QED
      BY <3>1, <3>2
  <2>2. op.phase = "pump" => Target # s /\ Target \in Stub /\ Previous \in Stub
    BY <1>a, CallFacts
  <2> QED
    BY <1>1, <2>1, <2>2 DEF Target, Previous
<1> HIDE DEF s
<1>3. /\ Settled' = Settled /\ \A i : PlaceOf(i)' = PlaceOf(i)
      /\ \A i \in 1 .. Settled : stubs[i] \in Stub
  BY <1>1, Shape DEF Settled, PlaceOf
<1>4. /\ st[s].pc # "off" /\ st[s].pipe # "pump" /\ ~st[s].closed
      /\ st'[s].pc \in {"flush", "off"} /\ ~st'[s].closed
      /\ st'[s].toxic = st[s].toxic /\ st'[s].pipe = st[s].pipe
  <2>1. st[s].pc # "off" /\ st[s].pipe # "pump"
    BY <1>1 DEF Interruptible
  <2>2. ~st[s].closed
    BY <1>b, <1>1, <2>1 DEF StubsOK, StubOK
  <2>3. st'[s] = OnInterrupt(st[s]) /\ st[s] \in Local
    BY <1>a, <1>1
  <2> QED
    BY <2>1, <2>2, <2>3, StoppedFacts
<1>5. \A r \in Stub : r # s => st'[r] = st[r]
  BY <1>a, <1>1
<1>6. Frontier'
  <2>1. PICK m \in 1 .. Settled : WiredTo(m)
    BY <1>b DEF Frontier
  <2>2. WiredTo(m)'
    BY <1>1, <1>3, <1>4, <1>5, <2>1 DEF WiredTo
  <2> QED
    BY <1>b, <1>1, <1>3, <2>2 DEF Frontier
<1>7. StubsOK'
  <2> SUFFICES ASSUME NEW r \in Stub PROVE StubOK(r)'
    BY DEF StubsOK
  <2>1. StubOK(r)
    BY <1>b DEF StubsOK
  <2> QED
    BY <1>1, <1>3, <1>4, <1>5, <2>1 DEF StubOK, Owns
<1>8. NoneStopped'
  BY <1>b, <1>1, <1>3, <1>5 DEF NoneStopped, Owns
<1>9. Pumping'
  BY <1>b, <1>2, <1>4, <1>5 DEF Pumping
<1>10. Matching'
  BY <1>b, <1>1, <1>3, <1>4, <1>5 DEF Matching
<1> QED
  BY <1>6, <1>7, <1>8, <1>9, <1>10 DEF WInv

(* The helper reports that the neighbour has returned, or was closed.      *)
LEMMA HelperReturnsKeeps ==
  ASSUME IInv, WInv, HelperReturns
  PROVE  WInv'
<1>1. /\ UNCHANGED <<chain, stubs, out, op, st>>
      /\ \/ helper = "wait" /\ helper' = "yes"
         \/ helper = "interrupt" /\ st[Previous].closed /\ helper' = "no"
  BY DEF HelperReturns, config, wiring
<1>2. /\ Halting' = Halting /\ Settled' = Settled /\ \A i : PlaceOf(i)' = PlaceOf(i)
      /\ Target' = Target /\ Previous' = Previous
  BY <1>1 DEF Halting, Settled, PlaceOf, Target, Previous
<1>3. Frontier' /\ Matching' /\ NoneStopped' /\ Pumping'
  BY <1>1, <1>2 DEF WInv, Frontier, WiredTo, Matching, NoneStopped, Owns, Pumping
<1>4. StubsOK'
  BY <1>1, <1>2 DEF WInv, StubsOK, StubOK, Owns
<1> QED
  BY <1>3, <1>4 DEF WInv

(* The stub to be interrupted has closed: the call ends there, and a stub  *)
(* it has added is closed too.                                             *)
LEMMA InterruptClosedKeeps ==
  ASSUME IInv, WInv, InterruptClosed
  PROVE  WInv'
<1>a. Alive /\ IndicesInRange /\ st \in [Stub -> Local] /\ op' = Idle
      /\ out \in [Stub -> Stub \cup {Sink}]
  BY DEF InterruptClosed, IInv, TypeOK
<1>b. Frontier /\ StubsOK /\ NoneStopped /\ Pumping /\ Matching
  BY DEF WInv
<1>1. /\ op.phase = "interrupt" /\ st[Target].closed /\ UNCHANGED <<chain, stubs, helper>>
      /\ helper = "none" /\ op.idx \in 1 .. Settled
  BY <1>a, CallFacts DEF InterruptClosed, config
<1>2. Settled' = Len(stubs) /\ Halting = {} /\ Halting' = {} /\ Settled <= Len(stubs)
  BY <1>a, <1>1, Shape DEF Settled, Halting, Idle
<1>3. ASSUME NEW i \in 1 .. Settled
      PROVE  /\ stubs[i] \in Stub /\ st'[stubs[i]] = st[stubs[i]]
             /\ out'[stubs[i]] = out[stubs[i]]
  <2>1. stubs[i] \in Stub
    BY <1>a, CallFacts
  <2>2. CASE op.call = "add"
    <3>1. stubs[i] # Last(stubs)
      <4>1. Last(stubs) = stubs[Len(stubs)] /\ i # Len(stubs) /\ i \in 1 .. Len(stubs)
            /\ Len(stubs) \in 1 .. Len(stubs)
        BY <1>a, <2>2, CallFacts, Shape
      <4> QED
        BY <4>1, Shape
    <3> QED
      BY <1>a, <2>1, <2>2, <3>1 DEF InterruptClosed
  <2>3. CASE op.call # "add"
    BY <2>1, <2>3 DEF InterruptClosed
  <2> QED
    BY <2>1, <2>2, <2>3
<1>4. \A i \in Settled + 1 .. Len(stubs) :
        /\ op.call = "add" /\ i = Len(stubs) /\ stubs[i] = Last(stubs)
        /\ stubs[i] \in Stub /\ out'[stubs[i]] = stubs[i]
        /\ st'[stubs[i]].closed /\ st'[stubs[i]].pc = "off"
  <2>1. CASE op.call = "add"
    <3>1. /\ Settled = Len(stubs) - 1 /\ Last(stubs) = stubs[Len(stubs)]
          /\ Last(stubs) \in Stub
      BY <1>a, <2>1, CallFacts
    <3>2. /\ out'[Last(stubs)] = Last(stubs)
          /\ st'[Last(stubs)] = Close(st[Last(stubs)])
      BY <1>a, <2>1, <3>1 DEF InterruptClosed
    <3>3. st'[Last(stubs)].closed /\ st'[Last(stubs)].pc = "off"
      BY <1>a, <3>1, <3>2, StoppedFacts
    <3> QED
      BY <2>1, <3>1, <3>2, <3>3, Shape
  <2>2. CASE op.call # "add"
    BY <1>a, <2>2, CallFacts, Shape
  <2> QED
    BY <2>1, <2>2
<1>5. ASSUME NEW s \in Stub
      PROVE  st'[s] = st[s] \/ (\E i \in Settled + 1 .. Len(stubs) : s = stubs[i])
  <2>1. CASE op.call = "add"
    <3>1. Last(stubs) = stubs[Len(stubs)] /\ Len(stubs) \in Settled + 1 .. Len(stubs)
      BY <1>a, <2>1, CallFacts, Shape
    <3> QED
      BY <1>a, <2>1, <3>1 DEF InterruptClosed
  <2>2. CASE op.call # "add"
    BY <2>2 DEF InterruptClosed
  <2> QED
    BY <2>1, <2>2
<1>6. \A i \in 1 .. Len(stubs) : i \in 1 .. Settled \/ i \in Settled + 1 .. Len(stubs)
  BY <1>2, Shape
<1>7. Frontier'
  <2>1. PICK m \in 1 .. Settled : WiredTo(m)
    BY <1>b DEF Frontier
  <2>2. m \in 1 .. Len(stubs) /\ m \in Int /\ Settled \in Int
    BY <1>2, <2>1, Shape
  <2>3. WiredTo(m)'
    <3> SUFFICES ASSUME NEW i \in 1 .. Len(stubs)
                 PROVE  /\ i < m => out'[stubs[i]] = stubs[i + 1]
                        /\ i = m => out'[stubs[i]] = Sink
                        /\ i > m => out'[stubs[i]] = stubs[i] /\ st'[stubs[i]].closed
      BY <1>1, <1>2 DEF WiredTo
    <3>1. CASE i \in 1 .. Settled
      BY <1>3, <2>1, <3>1 DEF WiredTo
    <3>2. CASE i \in Settled + 1 .. Len(stubs)
      BY <1>4, <2>1, <2>2, <3>2
    <3> QED
      BY <1>6, <3>1, <3>2
  <2> QED
    BY <1>a, <1>b, <1>1, <1>2, <2>2, <2>3 DEF Frontier, Idle
<1>8. StubsOK'
  <2> SUFFICES ASSUME NEW s \in Stub PROVE StubOK(s)'
    BY DEF StubsOK
  <2>1. StubOK(s)
    BY <1>b DEF StubsOK
  <2>2. CASE st'[s] = st[s]
    <3>1. \A i \in 1 .. Settled : i \in 1 .. Len(stubs)
      BY <1>2, Shape
    <3> QED
      BY <1>1, <1>2, <2>1, <2>2, <3>1 DEF StubOK, Owns
  <2>3. ASSUME NEW i \in Settled + 1 .. Len(stubs), s = stubs[i] PROVE StubOK(s)'
    <3>1. i \in 1 .. Len(stubs)
      BY <1>1, <2>3, Shape
    <3> QED
      BY <1>1, <1>2, <1>4, <2>3, <3>1 DEF StubOK
  <2> QED
    BY <1>5, <2>2, <2>3
<1>9. NoneStopped'
  <2>1. ASSUME NEW i \in 1 .. Settled PROVE Owns(stubs[i])'
    BY <1>a, <1>b, <1>1, <1>2, <1>3, <2>1 DEF NoneStopped, Owns, Alive
  <2>2. ASSUME NEW i \in Settled + 1 .. Len(stubs) PROVE Owns(stubs[i])'
    BY <1>1, <1>4, <2>2 DEF Owns
  <2> QED
    BY <1>1, <1>2, <1>6, <2>1, <2>2 DEF NoneStopped
<1>10. Pumping'
  BY <1>a, <1>1 DEF Pumping, Idle
<1>11. Matching'
  <2>1. st'[stubs[op.idx]].closed /\ op.idx \in 1 .. Settled'
    BY <1>1, <1>2, <1>3, Shape DEF Target
  <2> QED
    BY <1>1, <2>1 DEF Matching
<1> QED
  BY <1>7, <1>8, <1>9, <1>10, <1>11 DEF WInv

(* The stub a call has stopped runs again, or is closed by Cleanup, or is  *)
(* drained by RemoveToxic.                                                 *)
LEMMA RestartKeeps ==
  ASSUME IInv, WInv, UpdateDone \/ RemoveCleanup \/ RemovePump
  PROVE  WInv'
<1>a. /\ Alive /\ IndicesInRange /\ st \in [Stub -> Local] /\ chain \in Seq(Wrappers)
      /\ op.toxic \in Wrappers
  BY DEF UpdateDone, RemoveCleanup, RemovePump, IInv, TypeOK
<1>b. Frontier /\ StubsOK /\ NoneStopped /\ Pumping /\ Matching
  BY DEF WInv
<1>1. /\ op.phase = "wait" /\ op.call \in {"update", "remove"} /\ st[Target].pc = "off"
      /\ UNCHANGED <<chain, stubs, out>> /\ op.idx \in 1 .. Settled /\ Target \in Stub
      /\ helper = "none"
  <2>1. op.phase = "wait" /\ op.call \in {"update", "remove"} /\ st[Target].pc = "off"
    BY DEF UpdateDone, RemoveCleanup, RemovePump, Stopped
  <2>2. UNCHANGED <<chain, stubs, out>>
    BY DEF UpdateDone, RemoveCleanup, RemovePump, config, wiring
  <2> QED
    BY <1>a, <2>1, <2>2, CallFacts
<1>2. Halting = {Target} /\ ~st[Target].closed
  <2>1. Halting = {Target}
    BY <1>1 DEF Halting
  <2> QED
    BY <1>b, <1>1, <2>1 DEF StubsOK, StubOK
<1>3. Halting' = {} /\ Settled' = Len(stubs) /\ Settled = Len(stubs) /\ op'.call # "add"
      /\ \A i \in 1 .. Settled : stubs[i] \in Stub
  <2>1. op'.phase # "wait" /\ op'.call # "add" /\ helper' \notin {"wait", "yes"}
    <3>1. CASE UpdateDone \/ RemoveCleanup
      BY <1>1, <3>1 DEF UpdateDone, RemoveCleanup, Idle
    <3>2. CASE RemovePump
      <4>1. op' = [op EXCEPT !.phase = "pump"] /\ helper' = "interrupt" /\ op.call = "remove"
        BY <3>2 DEF RemovePump
      <4>2. op'.phase = "pump" /\ op'.call = "remove"
        BY <4>1 DEF IInv, TypeOK
      <4> QED
        BY <4>1, <4>2
    <3> QED
      BY <3>1, <3>2
  <2> QED
    BY <1>1, <2>1, Shape DEF Halting, Settled
<1>4. /\ st'[Target].pc # "off" \/ st'[Target].closed
      /\ st'[Target].pc # "flush"
      /\ st'[Target].closed => st'[Target].pc = "off"
      /\ st'[Target].pipe = "pump" => st'[Target].pc \in {"select", "send", "off"}
      /\ \A r \in Stub : r # Target => st'[r] = st[r]
  <2>1. CASE UpdateDone
    <3>1. PICK p \in Pipes(op.toxic) :
            st' = [st EXCEPT ![Target] = Run(@, op.toxic, p, AttrOf(op.toxic))]
      BY <2>1 DEF UpdateDone, Restart
    <3>2. st'[Target] = Run(st[Target], op.toxic, p, AttrOf(op.toxic))
          /\ \A r \in Stub : r # Target => st'[r] = st[r]
      BY <1>a, <1>1, <3>1
    <3> QED
      BY <1>a, <1>1, <1>2, <3>2, RunFacts
  <2>2. CASE RemoveCleanup
    <3>1. st'[Target] = Close(st[Target]) /\ \A r \in Stub : r # Target => st'[r] = st[r]
      BY <1>a, <1>1, <2>2 DEF RemoveCleanup
    <3> QED
      BY <1>a, <1>1, <3>1, StoppedFacts
  <2>3. CASE RemovePump
    <3>1. st'[Target] = Pump(st[Target]) /\ \A r \in Stub : r # Target => st'[r] = st[r]
      BY <1>a, <1>1, <2>3 DEF RemovePump
    <3> QED
      BY <1>a, <1>1, <1>2, <3>1, StoppedFacts
  <2> QED
    BY <2>1, <2>2, <2>3
<1>5. Frontier'
  <2>1. PICK m \in 1 .. Settled : WiredTo(m)
    BY <1>b DEF Frontier
  <2>2. WiredTo(m)'
    BY <1>1, <1>2, <1>3, <1>4, <2>1 DEF WiredTo
  <2> QED
    BY <1>b, <1>1, <1>3, <2>1, <2>2 DEF Frontier
<1>6. StubsOK'
  <2> SUFFICES ASSUME NEW s \in Stub PROVE StubOK(s)'
    BY DEF StubsOK
  <2>1. StubOK(s)
    BY <1>b DEF StubsOK
  <2>2. CASE s = Target
    BY <1>1, <1>3, <1>4, <2>2 DEF StubOK, Target
  <2>3. CASE s # Target
    BY <1>1, <1>2, <1>3, <1>4, <2>1, <2>3 DEF StubOK, Owns
  <2> QED
    BY <2>2, <2>3
<1>7. NoneStopped'
  <2> SUFFICES ASSUME NEW i \in 1 .. Settled PROVE Owns(stubs[i])'
    BY <1>1, <1>3 DEF NoneStopped
  <2>1. CASE stubs[i] = Target
    BY <1>1, <1>4, <2>1 DEF Owns
  <2>2. CASE stubs[i] # Target
    <3>1. Owns(stubs[i])
      BY <1>b, <1>1, <1>2, <2>2 DEF NoneStopped
    <3> QED
      BY <1>1, <1>3, <1>4, <2>2, <3>1 DEF Owns
  <2> QED
    BY <2>1, <2>2
<1>8. Pumping'
  <2>1. CASE UpdateDone \/ RemoveCleanup
    BY <1>1, <2>1 DEF UpdateDone, RemoveCleanup, Idle, Pumping
  <2>2. CASE RemovePump
    <3>1. /\ op' = [op EXCEPT !.phase = "pump"] /\ helper' = "interrupt"
          /\ st'[Target] = Pump(st[Target])
      BY <1>a, <1>1, <2>2 DEF RemovePump
    <3>2. Target' = Target
      BY <1>1, <3>1 DEF Target, IInv, TypeOK
    <3>3. st'[Target].pipe = "pump" /\ ~st'[Target].closed
      BY <1>a, <1>1, <1>2, <3>1, StoppedFacts
    <3> QED
      BY <3>1, <3>2, <3>3 DEF Pumping
  <2> QED
    BY <2>1, <2>2
<1>9. Matching'
  <2> SUFFICES ASSUME \A i \in 1 .. Settled : ~st'[stubs[i]].closed PROVE Matching'
    BY <1>1, <1>3 DEF Matching
  <2>1. \A i \in 1 .. Settled : ~st[stubs[i]].closed
    <3> SUFFICES ASSUME NEW i \in 1 .. Settled PROVE ~st[stubs[i]].closed
      OBVIOUS
    <3> QED
      BY <1>2, <1>3, <1>4
  <2>2. /\ Len(chain) = IF op.call = "remove" THEN Len(stubs) - 1 ELSE Len(stubs)
        /\ \A i \in 1 .. Settled :
             (op.call = "remove" => i # op.idx) => st[stubs[i]].toxic = chain[PlaceOf(i)]
        /\ op.call = "update" => chain[op.idx] = op.toxic
    BY <1>b, <1>1, <2>1 DEF Matching
  <2>3. \A i \in 1 .. Settled : i # op.idx => stubs[i] # Target
    BY <1>a, <1>1, CallFacts DEF Target
  <2>4. CASE UpdateDone
    <3>1. PICK p \in Pipes(op.toxic) :
            st' = [st EXCEPT ![Target] = Run(@, op.toxic, p, AttrOf(op.toxic))]
      BY <2>4 DEF UpdateDone, Restart
    <3>2. st'[Target].toxic = op.toxic
      BY <1>a, <1>1, <3>1, RunFacts
    <3>3. op.call = "update" /\ op' = Idle
      BY <2>4 DEF UpdateDone
    <3>4. \A i : PlaceOf(i) = i /\ PlaceOf(i)' = i
      BY <3>3 DEF PlaceOf, Idle
    <3>5. ASSUME NEW i \in 1 .. Settled PROVE st'[stubs[i]].toxic = chain[i]
      <4>1. CASE i = op.idx
        BY <2>2, <3>2, <3>3, <4>1 DEF Target
      <4>2. CASE i # op.idx
        BY <1>3, <1>4, <2>2, <2>3, <3>3, <3>4, <4>2
      <4> QED
        BY <4>1, <4>2
    <3> QED
      BY <1>1, <1>3, <2>2, <3>3, <3>4, <3>5 DEF Matching, Idle
  <2>5. CASE RemoveCleanup
    <3>1. st'[Target].closed
      BY <1>a, <1>1, <2>5, StoppedFacts DEF RemoveCleanup
    <3> QED
      BY <1>1, <3>1 DEF Target
  <2>6. CASE RemovePump
    <3>1. op.call = "remove" /\ op' = [op EXCEPT !.phase = "pump"]
      BY <2>6 DEF RemovePump
    <3>2. op'.call = "remove" /\ op'.idx = op.idx
      BY <3>1 DEF IInv, TypeOK
    <3>3. \A i : PlaceOf(i)' = PlaceOf(i)
      BY <3>1, <3>2 DEF PlaceOf
    <3>4. \A i \in 1 .. Settled : i # op.idx => st'[stubs[i]] = st[stubs[i]]
      BY <1>3, <1>4, <2>3
    <3> QED
      BY <1>1, <1>3, <2>2, <3>1, <3>2, <3>3, <3>4 DEF Matching
  <2> QED
    BY <2>4, <2>5, <2>6
<1> QED
  BY <1>5, <1>6, <1>7, <1>8, <1>9 DEF WInv

(* RemoveToxic met the end of the stream: the neighbour has closed too.    *)
LEMMA RemoveClosedKeeps ==
  ASSUME IInv, WInv, RemoveClosed
  PROVE  WInv'
<1>1. /\ Alive /\ op.phase = "pump" /\ st[Target].closed /\ helper \in {"yes", "no"}
      /\ UNCHANGED <<chain, stubs, out, st>> /\ op' = Idle /\ helper' = "none"
  BY DEF RemoveClosed, config, wiring
<1>2. /\ op.call = "remove" /\ op.idx \in 1 .. Settled /\ Settled = Len(stubs)
      /\ Target \in Stub /\ Previous \in Stub
  BY <1>1, CallFacts
<1>3. st[Previous].closed
  BY <1>1 DEF WInv, Pumping
<1>4. helper = "no" /\ Halting = {}
  <2>1. helper # "yes"
    BY <1>2, <1>3 DEF WInv, StubsOK, StubOK, Halting
  <2> QED
    BY <1>1, <2>1 DEF Halting
<1>5. Halting' = {} /\ Settled' = Settled
  BY <1>1, <1>2 DEF Halting, Settled, Idle
<1>6. Frontier'
  BY <1>1, <1>5 DEF WInv, Frontier, WiredTo, Idle
<1>7. StubsOK'
  BY <1>1, <1>4, <1>5 DEF WInv, StubsOK, StubOK, Owns
<1>8. NoneStopped'
  BY <1>1, <1>2, <1>4, <1>5 DEF WInv, NoneStopped, Owns
<1>9. Pumping'
  BY <1>1 DEF Pumping, Idle
<1>10. Matching'
  <2>1. st'[stubs[op.idx]].closed /\ op.idx \in 1 .. Settled'
    BY <1>1, <1>2, <1>5 DEF Target
  <2> QED
    BY <1>1, <2>1 DEF Matching
<1> QED
  BY <1>6, <1>7, <1>8, <1>9, <1>10 DEF WInv

(* AddToxic puts the new stub at the end and starts both.                  *)
LEMMA AddDoneKeeps ==
  ASSUME IInv, WInv, AddDone
  PROVE  WInv'
<1> DEFINE n == Settled
           new == stubs[n + 1]
<1>a. /\ Alive /\ st \in [Stub -> Local] /\ out \in [Stub -> Stub \cup {Sink}]
      /\ chain \in Seq(Wrappers) /\ op.toxic \in Wrappers
  BY DEF AddDone, IInv, TypeOK
<1>b. Frontier /\ StubsOK /\ NoneStopped /\ Pumping /\ Matching
  BY DEF WInv
<1>1. /\ op.call = "add" /\ op.phase = "wait" /\ st[Target].pc = "off"
      /\ UNCHANGED <<chain, stubs, helper>> /\ out' = [out EXCEPT ![Target] = Last(stubs)]
  BY DEF AddDone, Stopped, config
<1>2. /\ n \in 1 .. n /\ n + 1 = Len(stubs) /\ Target = stubs[n] /\ Last(stubs) = new
      /\ helper = "none" /\ Target \in Stub /\ new \in Stub /\ new # Target
      /\ ~Owns(new) /\ n \in Nat
      /\ \A i \in 1 .. n : stubs[i] \in Stub
      /\ \A i, j \in 1 .. n : stubs[i] = stubs[j] => i = j
  BY <1>a, <1>1, CallFacts, Shape DEF Target
<1>3. \A i \in 1 .. n : stubs[i] # new
  BY <1>2, Shape
<1>4. Halting = {Target} /\ ~st[Target].closed /\ ~st[new].closed
  <2>1. Halting = {Target}
    BY <1>1, <1>2 DEF Halting
  <2> QED
    BY <1>b, <1>2, <2>1 DEF StubsOK, StubOK, Owns
<1>5. /\ \A i \in 1 .. n - 1 : out[stubs[i]] = stubs[i + 1]
      /\ out[Target] = Sink /\ out[new] = Sink
  <2>1. PICK m \in 1 .. n : WiredTo(m)
    BY <1>b DEF Frontier
  <2>2. m = n
    <3>1. ~(n > m)
      BY <1>2, <1>4, <2>1 DEF WiredTo
    <3> QED
      BY <1>2, <2>1, <3>1
  <2>3. out[stubs[n]] = Sink /\ \A i \in 1 .. n - 1 : out[stubs[i]] = stubs[i + 1]
    BY <1>2, <2>1, <2>2 DEF WiredTo
  <2>4. out[new] = out[stubs[n]]
    <3>1. Len(stubs) - 1 = n
      BY <1>2
    <3> QED
      BY <1>b, <1>1, <1>2, <3>1 DEF Frontier
  <2> QED
    BY <1>2, <2>3, <2>4
<1>6. op'.call # "add" /\ Settled' = n + 1
  <2>1. op'.call # "add"
    BY <1>1 DEF AddDone, Idle, IInv, TypeOK
  <2> QED
    BY <1>1, <1>2, <2>1 DEF Settled
<1>7. \A i \in 1 .. n + 1 : i \in 1 .. n - 1 \/ i = n \/ i = n + 1
  BY <1>2
<1> HIDE DEF n, new
<1>8. Frontier'
  <2>1. /\ \A i \in 1 .. n - 1 : out'[stubs[i]] = stubs[i + 1]
        /\ out'[stubs[n]] = stubs[n + 1] /\ out'[stubs[n + 1]] = Sink
    <3>1. out'[Target] = new /\ \A s \in Stub : s # Target => out'[s] = out[s]
      BY <1>a, <1>1, <1>2
    <3>2. ASSUME NEW i \in 1 .. n - 1 PROVE out'[stubs[i]] = stubs[i + 1]
      <4>1. i \in 1 .. n /\ i # n
        BY <1>2
      <4>2. stubs[i] \in Stub /\ stubs[i] # Target
        BY <1>2, <4>1
      <4> QED
        BY <1>5, <3>1, <4>2
    <3> QED
      BY <1>2, <1>5, <3>1, <3>2 DEF new
  <2>2. ASSUME NEW m, m = n + 1 PROVE WiredTo(m)' /\ m \in 1 .. Settled'
    <3>1. \A i \in 1 .. m : /\ i < m => out'[stubs[i]] = stubs[i + 1]
                            /\ i = m => out'[stubs[i]] = Sink
                            /\ ~(i > m)
      BY <1>2, <1>7, <2>1, <2>2
    <3>2. Settled' = m /\ m \in 1 .. m
      BY <1>2, <1>6, <2>2
    <3> QED
      BY <1>1, <3>1, <3>2 DEF WiredTo
  <2> QED
    BY <1>b, <1>1, <1>6, <2>2 DEF Frontier
<1>9. CASE op.idx > Len(chain)
  <2>1. op' = [op EXCEPT !.call = "panic"] /\ st' = st
    BY <1>9 DEF AddDone
  <2>2. op'.call = "panic" /\ op'.phase = "wait" /\ op'.idx = op.idx
    BY <1>1, <2>1 DEF IInv, TypeOK
  <2>3. Halting' = Halting
    BY <1>1, <1>2, <2>2 DEF Halting, Target
  <2>4. \A i \in 1 .. n : i \in 1 .. n + 1
    BY <1>2
  <2>5. StubsOK'
    BY <1>b, <1>1, <1>6, <2>1, <2>3, <2>4 DEF StubsOK, StubOK, Owns, n
  <2>6. NoneStopped' /\ Matching' /\ Pumping'
    BY <1>1, <1>2, <2>2 DEF NoneStopped, Matching, Pumping
  <2> QED
    BY <1>8, <2>5, <2>6 DEF WInv
<1>10. CASE ~(op.idx > Len(chain))
  <2>1. op' = Idle
    BY <1>10 DEF AddDone
  <2>2. PICK p \in Pipes(op.toxic), r \in Pipes(chain[op.idx]) :
          st' = [st EXCEPT
            ![Last(stubs)] = Run(WithState(@, op.toxic), op.toxic, p, AttrOf(op.toxic)),
            ![Target] = Run(@, chain[op.idx], r, AttrOf(chain[op.idx]))]
    BY <1>10 DEF AddDone
  <2>3. op.idx = n /\ chain[op.idx] \in Wrappers
    <3>1. op.idx = n
      BY <1>a, <1>1, CallFacts DEF n
    <3> QED
      BY <1>a, <1>2, <1>10, <3>1
  <2>4. /\ st'[new] = Run(WithState(st[new], op.toxic), op.toxic, p, AttrOf(op.toxic))
        /\ st'[Target] = Run(st[Target], chain[n], r, AttrOf(chain[n]))
        /\ \A s \in Stub : s # new /\ s # Target => st'[s] = st[s]
    BY <1>a, <1>2, <2>2, <2>3
  <2>5. /\ st'[new].pc \in {"select", "panic"} /\ ~st'[new].closed
        /\ st'[new].pipe # "pump" /\ st'[new].toxic = op.toxic
    <3>1. WithState(st[new], op.toxic) \in Local /\ ~WithState(st[new], op.toxic).closed
      <4>1. st[new] \in Local /\ (Kind[op.toxic] = "limit_data") \in BOOLEAN
        BY <1>a, <1>2
      <4> QED
        BY <4>1, <1>4 DEF WithState, Local
    <3> QED
      BY <1>a, <2>4, <3>1, RunFacts
  <2>6. /\ st'[Target].pc \in {"select", "panic"} /\ ~st'[Target].closed
        /\ st'[Target].pipe # "pump" /\ st'[Target].toxic = chain[n]
    <3>1. st[Target] \in Local /\ ~st[Target].closed /\ op.idx = n
      BY <1>a, <1>2, <1>4, <2>3
    <3>2. chain[n] \in Wrappers /\ r \in Pipes(chain[n])
      BY <2>2, <2>3, <3>1
    <3> QED
      BY <2>4, <3>1, <3>2, RunFacts
  <2>7. Halting' = {}
    BY <1>1, <1>2, <2>1 DEF Halting, Idle
  <2>8. StubsOK'
    <3> SUFFICES ASSUME NEW s \in Stub PROVE StubOK(s)'
      BY DEF StubsOK
    <3>1. CASE s = new
      <4>1. n + 1 \in 1 .. n + 1
        BY <1>2
      <4> QED
        BY <1>1, <1>6, <2>5, <2>7, <3>1, <4>1 DEF StubOK, new
    <3>2. CASE s = Target
      <4>1. n \in 1 .. n + 1
        BY <1>2
      <4> QED
        BY <1>1, <1>2, <1>6, <2>6, <2>7, <3>2, <4>1 DEF StubOK
    <3>3. CASE s # new /\ s # Target
      <4>1. StubOK(s) /\ st'[s] = st[s]
        BY <1>b, <2>4, <3>3 DEF StubsOK
      <4>2. \A i \in 1 .. n : i \in 1 .. n + 1
        BY <1>2
      <4> QED
        BY <1>1, <1>4, <1>6, <2>7, <3>3, <4>1, <4>2 DEF StubOK, Owns, n
    <3> QED
      BY <3>1, <3>2, <3>3
  <2>9. NoneStopped'
    <3> SUFFICES ASSUME NEW i \in 1 .. n + 1
                 PROVE  st'[stubs[i]].pc # "off" \/ st'[stubs[i]].closed
      BY <1>1, <1>6 DEF NoneStopped, Owns
    <3>1. CASE i \in 1 .. n - 1
      <4>1. i \in 1 .. n /\ i # n
        BY <1>2, <3>1
      <4>2. stubs[i] \in Stub /\ stubs[i] # Target /\ stubs[i] # new
        BY <1>2, <1>3, <4>1
      <4>3. Owns(stubs[i])
        BY <1>b, <1>1, <1>4, <4>1, <4>2 DEF NoneStopped, n
      <4> QED
        BY <2>4, <4>2, <4>3 DEF Owns
    <3> QED
      BY <1>2, <1>7, <2>5, <2>6, <3>1 DEF new
  <2>10. Pumping'
    BY <1>1, <1>2, <2>1 DEF Pumping, Idle
  <2>11. Matching'
    <3> SUFFICES ASSUME \A i \in 1 .. n + 1 : ~st'[stubs[i]].closed PROVE Matching'
      BY <1>1, <1>6 DEF Matching
    <3>1. \A i \in 1 .. n : ~st[stubs[i]].closed
      <4> SUFFICES ASSUME NEW i \in 1 .. n PROVE ~st[stubs[i]].closed
        OBVIOUS
      <4>1. i \in 1 .. n + 1 /\ stubs[i] \in Stub /\ stubs[i] # new
        BY <1>2, <1>3
      <4> QED
        BY <1>4, <2>4, <4>1
    <3>2. /\ Len(chain) = n + 1 /\ chain[n + 1] = op.toxic
          /\ \A i \in 1 .. n : st[stubs[i]].toxic = chain[PlaceOf(i)]
      BY <1>b, <1>1, <1>2, <3>1 DEF Matching, n
    <3>3. \A i : PlaceOf(i) = i /\ PlaceOf(i)' = i
      BY <1>1, <2>1 DEF PlaceOf, Idle
    <3>4. ASSUME NEW i \in 1 .. n + 1 PROVE st'[stubs[i]].toxic = chain[i]
      <4>1. CASE i \in 1 .. n - 1
        <5>1. i \in 1 .. n /\ i # n
          BY <1>2, <4>1
        <5>2. stubs[i] \in Stub /\ stubs[i] # Target /\ stubs[i] # new
          BY <1>2, <1>3, <5>1
        <5> QED
          BY <2>4, <3>2, <3>3, <5>1, <5>2
      <4> QED
        BY <1>2, <1>7, <2>5, <2>6, <3>2, <4>1 DEF new
    <3> QED
      BY <1>1, <1>2, <1>6, <2>1, <3>2, <3>3, <3>4 DEF Matching, Idle
  <2> QED
    BY <1>8, <2>8, <2>9, <2>10, <2>11 DEF WInv
<1> QED
  BY <1>9, <1>10

(* RemoveToxic takes the drained stub out, and starts the one before it.   *)
LEMMA SpliceKeeps ==
  ASSUME IInv, WInv, RemoveSplice
  PROVE  WInv'
<1> USE DEF Idle
<1>a. /\ Alive /\ st \in [Stub -> Local] /\ out \in [Stub -> Stub \cup {Sink}]
      /\ chain \in Seq(Wrappers) /\ IndicesInRange /\ stubs \in Seq(Stub)
  BY DEF RemoveSplice, IInv, TypeOK
<1>b. Frontier /\ StubsOK /\ NoneStopped /\ Pumping /\ Matching
  BY DEF WInv
<1>1. /\ op.phase = "pump" /\ helper = "yes" /\ st[Target].pc = "select"
      /\ out' = [out EXCEPT ![Previous] = out[Target]]
      /\ stubs' = RemoveAt(stubs, op.idx)
      /\ op' = Idle /\ helper' = "none" /\ chain' = chain
  BY DEF RemoveSplice, config
<1>2. PICK n, k : n = Len(stubs) /\ k = op.idx
  OBVIOUS
<1>3. /\ n \in Nat /\ k \in 2 .. n /\ Settled = n /\ op.call = "remove"
      /\ Target = stubs[k] /\ Previous = stubs[k - 1] /\ Previous # Target
      /\ Target \in Stub /\ Previous \in Stub
      /\ \A i \in 1 .. n : stubs[i] \in Stub
      /\ \A i, j \in 1 .. n : stubs[i] = stubs[j] => i = j
  <2>1. op.call = "remove" /\ op.idx \in 2 .. Settled
    BY <1>a, <1>1, CallFacts
  <2>2. Settled = Len(stubs)
    BY <1>a, <2>1, CallFacts
  <2> QED
    BY <1>a, <1>1, <1>2, <2>1, <2>2, CallFacts, Shape DEF Target, Previous
<1>4. /\ Len(stubs') = n - 1
      /\ \A i \in 1 .. n - 1 : stubs'[i] = IF i < k THEN stubs[i] ELSE stubs[i + 1]
  <2>1. k \in 1 .. Len(stubs)
    BY <1>2, <1>3
  <2> QED
    BY <1>a, <1>1, <1>2, <2>1, RemoveAtFacts
<1>5. Settled' = n - 1 /\ Halting' = {} /\ Halting = {Previous}
  BY <1>1, <1>4 DEF Settled, Halting
<1>6. ~st[Target].closed /\ ~st[Previous].closed /\ st[Previous].pc # "select"
  BY <1>b, <1>1, <1>3, <1>5 DEF StubsOK, StubOK
<1>7. PICK p \in Pipes(Neighbour) :
        st' = [st EXCEPT ![Target] = Exit(@),
                         ![Previous] = Run(@, Neighbour, p, AttrOf(Neighbour))]
  BY DEF RemoveSplice
<1>8. /\ st'[Target] = Exit(st[Target])
      /\ st'[Previous] = Run(st[Previous], Neighbour, p, AttrOf(Neighbour))
      /\ \A s \in Stub : s # Target /\ s # Previous => st'[s] = st[s]
  BY <1>a, <1>3, <1>7
<1>9. /\ st'[Target].pc = "off" /\ ~st'[Target].closed
      /\ st'[Previous].pc \in {"select", "panic"} /\ ~st'[Previous].closed
      /\ st'[Previous].toxic = Neighbour /\ st'[Previous].pipe # "pump"
      /\ Neighbour = chain[k - 1]
  <2>1. Neighbour \in Wrappers /\ Neighbour = chain[k - 1]
    BY <1>a, <1>1, <1>2, CallStubs DEF Neighbour, IInv
  <2> QED
    BY <1>a, <1>3, <1>6, <1>7, <1>8, <2>1, RunFacts, StoppedFacts
<1>10. /\ out'[Previous] = out[Target]
       /\ \A s \in Stub : s # Previous => out'[s] = out[s]
  BY <1>a, <1>1, <1>3
<1>11. ASSUME NEW i \in 1 .. n - 1
       PROVE  /\ i < k - 1 => /\ stubs'[i] = stubs[i] /\ i \in 1 .. n
                              /\ stubs[i] # Previous /\ stubs[i] # Target
              /\ i = k - 1 => stubs'[i] = Previous
              /\ i > k - 1 => /\ stubs'[i] = stubs[i + 1] /\ i + 1 \in 1 .. n
                              /\ stubs[i + 1] # Previous /\ stubs[i + 1] # Target
  <2>1. i \in 1 .. n /\ i + 1 \in 1 .. n /\ k \in 1 .. n /\ k - 1 \in 1 .. n
    BY <1>3
  <2>2. stubs'[i] = IF i < k THEN stubs[i] ELSE stubs[i + 1]
    BY <1>4
  <2>3. CASE i < k - 1
    <3>1. i # k - 1 /\ i # k /\ i < k
      BY <1>3, <2>3
    <3> QED
      BY <1>3, <2>1, <2>2, <2>3, <3>1
  <2>4. CASE i = k - 1
    <3>1. i < k
      BY <1>3, <2>4
    <3> QED
      BY <1>3, <2>2, <2>4, <3>1
  <2>5. CASE i > k - 1
    <3>1. i + 1 # k - 1 /\ i + 1 # k /\ ~(i < k)
      BY <1>3, <2>5
    <3> QED
      BY <1>3, <2>1, <2>2, <2>5, <3>1
  <2> QED
    BY <1>3, <2>3, <2>4, <2>5
<1>12. Frontier'
  <2>1. PICK m \in 1 .. n : WiredTo(m)
    BY <1>b, <1>3 DEF Frontier
  <2>2. m \in Int /\ k <= m
    <3>1. ~(k > m)
      BY <1>3, <1>6, <2>1 DEF WiredTo
    <3> QED
      BY <1>3, <2>1, <3>1
  <2>3. ASSUME NEW i \in 1 .. n - 1
        PROVE  /\ i < m - 1 => out'[stubs'[i]] = stubs'[i + 1]
               /\ i = m - 1 => out'[stubs'[i]] = Sink
               /\ i > m - 1 => out'[stubs'[i]] = stubs'[i] /\ st'[stubs'[i]].closed
    <3>1. CASE i < k - 1
      <4>1. /\ i < m - 1 /\ i + 1 \in 1 .. n - 1 /\ i < m /\ i + 1 < k
        BY <1>3, <2>2, <3>1
      <4>2. stubs'[i] = stubs[i] /\ i \in 1 .. n /\ stubs[i] # Previous
        BY <1>11, <3>1
      <4>3. stubs'[i + 1] = stubs[i + 1]
        BY <1>4, <4>1
      <4>4. out[stubs[i]] = stubs[i + 1]
        BY <1>3, <2>1, <4>1, <4>2 DEF WiredTo
      <4>5. ~(i = m - 1) /\ ~(i > m - 1)
        BY <2>2, <4>1
      <4> QED
        BY <1>3, <1>10, <4>2, <4>3, <4>4, <4>5
    <3>2. CASE i = k - 1
      <4>1. stubs'[i] = Previous /\ out'[stubs'[i]] = out[stubs[k]] /\ k \in 1 .. n
        BY <1>3, <1>10, <1>11, <3>2
      <4>2. ASSUME i < m - 1 PROVE out'[stubs'[i]] = stubs'[i + 1]
        <5>1. k < m /\ k \in 1 .. n - 1 /\ ~(k < k) /\ i + 1 = k
          BY <1>3, <2>1, <2>2, <3>2, <4>2
        <5>2. out[stubs[k]] = stubs[k + 1]
          BY <1>3, <2>1, <4>1, <5>1 DEF WiredTo
        <5>3. stubs'[k] = stubs[k + 1]
          BY <1>4, <5>1
        <5> QED
          BY <4>1, <5>1, <5>2, <5>3
      <4>3. ASSUME i = m - 1 PROVE out'[stubs'[i]] = Sink
        <5>1. k = m
          BY <1>3, <2>2, <3>2, <4>3
        <5> QED
          BY <1>3, <2>1, <4>1, <5>1 DEF WiredTo
      <4>4. ~(i > m - 1)
        BY <1>3, <2>2, <3>2
      <4> QED
        BY <4>2, <4>3, <4>4
    <3>3. CASE i > k - 1
      <4>1. /\ stubs'[i] = stubs[i + 1] /\ i + 1 \in 1 .. n /\ stubs[i + 1] \in Stub
            /\ stubs[i + 1] # Previous /\ stubs[i + 1] # Target
        BY <1>3, <1>11, <3>3
      <4>2. out'[stubs'[i]] = out[stubs[i + 1]] /\ st'[stubs'[i]] = st[stubs[i + 1]]
        BY <1>8, <1>10, <4>1
      <4>3. ASSUME i < m - 1 PROVE out'[stubs'[i]] = stubs'[i + 1]
        <5>1. i + 1 < m /\ i + 1 \in 1 .. n - 1 /\ ~(i + 1 < k)
          BY <1>3, <2>1, <2>2, <3>3, <4>3
        <5>2. out[stubs[i + 1]] = stubs[(i + 1) + 1]
          BY <1>3, <2>1, <4>1, <5>1 DEF WiredTo
        <5>3. stubs'[i + 1] = stubs[(i + 1) + 1]
          BY <1>4, <5>1
        <5> QED
          BY <4>2, <5>2, <5>3
      <4>4. ASSUME i = m - 1 PROVE out'[stubs'[i]] = Sink
        <5>1. i + 1 = m
          BY <2>2, <4>4
        <5> QED
          BY <1>3, <2>1, <4>1, <4>2, <5>1 DEF WiredTo
      <4>5. ASSUME i > m - 1 PROVE out'[stubs'[i]] = stubs'[i] /\ st'[stubs'[i]].closed
        <5>1. i + 1 > m
          BY <2>2, <4>5
        <5> QED
          BY <1>3, <2>1, <4>1, <4>2, <5>1 DEF WiredTo
      <4> QED
        BY <4>3, <4>4, <4>5
    <3> QED
      BY <1>3, <3>1, <3>2, <3>3
  <2>4. m - 1 \in 1 .. n - 1
    BY <1>3, <2>1, <2>2
  <2>5. stubs'[1] = Entry
    <3>1. 1 \in 1 .. n - 1 /\ 1 < k
      BY <1>3
    <3> QED
      BY <1>b, <1>4, <3>1 DEF Frontier
  <2>6. WiredTo(m - 1)'
    BY <1>5, <2>3 DEF WiredTo
  <2> QED
    BY <1>1, <1>5, <2>4, <2>5, <2>6 DEF Frontier
<1>13. StubsOK'
  <2> SUFFICES ASSUME NEW s \in Stub PROVE StubOK(s)'
    BY DEF StubsOK
  <2>1. StubOK(s)
    BY <1>b DEF StubsOK
  <2>2. CASE s = Target
    <3>1. st'[s].pc = "off" /\ ~st'[s].closed
      BY <1>9, <2>2
    <3> QED
      BY <1>5, <3>1 DEF StubOK, Owns
  <2>3. CASE s = Previous
    <3>1. k - 1 \in 1 .. n - 1 /\ stubs'[k - 1] = s
      BY <1>3, <1>11, <2>3
    <3>2. /\ st'[s].pc \in {"select", "panic"} /\ ~st'[s].closed /\ st'[s].pipe # "pump"
      BY <1>9, <2>3
    <3> QED
      BY <1>5, <3>1, <3>2 DEF StubOK
  <2>4. CASE s # Target /\ s # Previous
    <3>1. st'[s] = st[s] /\ s \notin Halting
      BY <1>5, <1>8, <2>4
    <3>2. ASSUME Owns(s) PROVE \E i \in 1 .. n - 1 : stubs'[i] = s
      <4>1. PICK j \in 1 .. n : stubs[j] = s
        BY <1>3, <2>1, <3>2 DEF StubOK
      <4>2. j # k
        BY <1>3, <2>4, <4>1
      <4>3. CASE j < k
        <5>1. j \in 1 .. n - 1
          BY <1>3, <4>1, <4>3
        <5> QED
          BY <1>4, <4>1, <4>3, <5>1
      <4>4. CASE j > k
        <5>1. j - 1 \in 1 .. n - 1 /\ ~(j - 1 < k) /\ (j - 1) + 1 = j
          BY <1>3, <4>1, <4>4
        <5> QED
          BY <1>4, <4>1, <5>1
      <4> QED
        BY <1>3, <4>1, <4>2, <4>3, <4>4
    <3> QED
      BY <1>5, <2>1, <3>1, <3>2 DEF StubOK, Owns
  <2> QED
    BY <2>2, <2>3, <2>4
<1>14. NoneStopped'
  <2> SUFFICES ASSUME NEW i \in 1 .. n - 1
               PROVE  st'[stubs'[i]].pc # "off" \/ st'[stubs'[i]].closed
    BY <1>5 DEF NoneStopped, Owns
  <2>1. CASE i = k - 1
    BY <1>9, <1>11, <2>1
  <2>2. CASE i # k - 1
    <3>1. PICK j \in 1 .. n : stubs'[i] = stubs[j] /\ stubs[j] # Previous /\ stubs[j] # Target
      BY <1>3, <1>11, <2>2
    <3>2. Owns(stubs[j]) /\ stubs[j] \in Stub
      BY <1>b, <1>3, <1>5, <3>1 DEF NoneStopped
    <3> QED
      BY <1>8, <3>1, <3>2 DEF Owns
  <2> QED
    BY <2>1, <2>2
<1>15. Pumping'
  BY <1>1 DEF Pumping
<1>16. Matching'
  <2> SUFFICES ASSUME \A i \in 1 .. n - 1 : ~st'[stubs'[i]].closed
               PROVE  /\ Len(chain) = n - 1
                      /\ \A i \in 1 .. n - 1 : st'[stubs'[i]].toxic = chain[i]
    BY <1>1, <1>4, <1>5 DEF Matching, PlaceOf
  <2>1. ASSUME NEW j \in 1 .. n PROVE ~st[stubs[j]].closed
    <3>1. CASE j = k \/ j = k - 1
      BY <1>3, <1>6, <3>1
    <3>2. CASE j < k - 1
      <4>1. j \in 1 .. n - 1
        BY <1>3, <3>2
      <4> QED
        BY <1>3, <1>8, <1>11, <3>2, <4>1
    <3>3. CASE j > k
      <4>1. j - 1 \in 1 .. n - 1 /\ j - 1 > k - 1 /\ (j - 1) + 1 = j
        BY <1>3, <3>3
      <4>2. stubs'[j - 1] = stubs[j] /\ stubs[j] # Previous /\ stubs[j] # Target
        BY <1>11, <4>1
      <4> QED
        BY <1>3, <1>8, <4>1, <4>2
    <3> QED
      BY <1>3, <3>1, <3>2, <3>3
  <2>2. /\ Len(chain) = n - 1
        /\ \A i \in 1 .. n : i # k => st[stubs[i]].toxic = chain[PlaceOf(i)]
    BY <1>b, <1>2, <1>3, <2>1 DEF Matching
  <2>3. \A i : PlaceOf(i) = IF i > k THEN i - 1 ELSE i
    BY <1>2, <1>3 DEF PlaceOf
  <2>4. ASSUME NEW i \in 1 .. n - 1 PROVE st'[stubs'[i]].toxic = chain[i]
    <3>1. CASE i < k - 1
      <4>1. i # k /\ ~(i > k)
        BY <1>3, <3>1
      <4> QED
        BY <1>3, <1>8, <1>11, <2>2, <2>3, <3>1, <4>1
    <3>2. CASE i = k - 1
      BY <1>9, <1>11, <3>2
    <3>3. CASE i > k - 1
      <4>1. /\ i + 1 \in 1 .. n /\ i + 1 # k /\ i + 1 > k /\ (i + 1) - 1 = i
        BY <1>3, <3>3
      <4>2. st[stubs[i + 1]].toxic = chain[i]
        BY <2>2, <2>3, <4>1
      <4> QED
        BY <1>3, <1>8, <1>11, <3>3, <4>1, <4>2
    <3> QED
      BY <1>3, <3>1, <3>2, <3>3
  <2> QED
    BY <2>2, <2>4
<1> QED
  BY <1>12, <1>13, <1>14, <1>15, <1>16 DEF WInv
-----------------------------------------------------------------------------
(* The theorem.                                                            *)

LEMMA InitWInv == Init => WInv
<1> SUFFICES ASSUME Init PROVE WInv
  OBVIOUS
<1> USE DEF Idle
<1>1. PICK n \in 1 .. InitToxics + 1 : chain \in [1 .. n -> Wrappers]
  BY DEF Init, Chains
<1>2. /\ n \in Nat /\ n >= 1 /\ n <= MaxStubs /\ MaxStubs \in Nat
      /\ chain \in Seq(Wrappers) /\ Len(chain) = n
  BY <1>1, LinkAssumption
<1>3. /\ stubs = [i \in 1 .. n |-> i] /\ op = Idle /\ helper = "none"
      /\ out = [s \in Stub |-> IF s < n THEN s + 1 ELSE Sink]
  BY <1>2 DEF Init
<1>4. /\ Len(stubs) = n /\ Settled = n /\ Halting = {}
      /\ \A i \in 1 .. n : stubs[i] = i /\ i \in Stub
  BY <1>2, <1>3 DEF Settled, Halting, Stub
<1>5. PICK pipe \in [1 .. n -> Kinds] :
        /\ \A s \in 1 .. n : pipe[s] \in Pipes(chain[s])
        /\ st = [s \in Stub |->
                   IF s <= n
                     THEN Run(WithState(Fresh, chain[s]), chain[s], pipe[s],
                              AttrOf(chain[s]))
                     ELSE Fresh]
  BY <1>2 DEF Init
<1>6. ASSUME NEW s \in 1 .. n
      PROVE  /\ st[s].pc \in {"select", "panic"} /\ ~st[s].closed
             /\ st[s].pipe # "pump" /\ st[s].toxic = chain[s]
  <2>1. Fresh \in Local /\ ~Fresh.closed
    BY EmptyChunk DEF Fresh, Local, Places, Kinds, Wrappers
  <2>2. /\ WithState(Fresh, chain[s]) \in Local /\ ~WithState(Fresh, chain[s]).closed
    BY <2>1 DEF WithState, Local
  <2>3. st[s] = Run(WithState(Fresh, chain[s]), chain[s], pipe[s], AttrOf(chain[s]))
    BY <1>2, <1>4, <1>5
  <2>4. chain[s] \in Wrappers /\ pipe[s] \in Pipes(chain[s])
    BY <1>1, <1>5
  <2> QED
    BY <2>2, <2>3, <2>4, RunFacts
<1>7. ASSUME NEW s \in Stub, s \notin 1 .. n PROVE st[s] = Fresh
  <2>1. s \in Nat /\ ~(s <= n)
    BY <1>2, <1>7 DEF Stub
  <2> QED
    BY <1>5, <2>1
<1>8. Frontier
  <2>1. WiredTo(n)
    <3> SUFFICES ASSUME NEW i \in 1 .. n
                 PROVE  /\ i < n => out[stubs[i]] = stubs[i + 1]
                        /\ i = n => out[stubs[i]] = Sink
                        /\ ~(i > n)
      BY <1>4 DEF WiredTo
    <3>1. i < n => i + 1 \in 1 .. n
      BY <1>2
    <3> QED
      BY <1>2, <1>3, <1>4, <3>1
  <2>2. n \in 1 .. n /\ 1 \in 1 .. n
    BY <1>2
  <2> QED
    BY <1>3, <1>4, <2>1, <2>2 DEF Frontier
<1>9. StubsOK
  <2> SUFFICES ASSUME NEW s \in Stub PROVE StubOK(s)
    BY DEF StubsOK
  <2>1. CASE s \in 1 .. n
    BY <1>4, <1>6, <2>1 DEF StubOK, Owns
  <2>2. CASE s \notin 1 .. n
    BY <1>4, <1>7, <2>2 DEF StubOK, Owns, Fresh
  <2> QED
    BY <2>1, <2>2
<1>10. NoneStopped
  BY <1>4, <1>6 DEF NoneStopped, Owns
<1>11. Pumping
  BY <1>3 DEF Pumping
<1>12. Matching
  BY <1>2, <1>3, <1>4, <1>6 DEF Matching, PlaceOf
<1> QED
  BY <1>8, <1>9, <1>10, <1>11, <1>12 DEF WInv

LEMMA NextWInv == IInv /\ WInv /\ [Next]_vars => WInv'
<1> SUFFICES ASSUME IInv, WInv, [Next]_vars PROVE WInv'
  OBVIOUS
<1>1. CASE UNCHANGED vars
  BY <1>1 DEF vars, config, wiring, ends, api, WInv, Frontier, WiredTo, Settled, StubsOK,
         StubOK, Halting, Target, Previous, Owns, NoneStopped, Pumping, Matching, PlaceOf
<1>2. CASE Ends \/ Flow
  BY <1>2, FlowKeeps
<1>3. CASE Begin
  BY <1>3, BeginKeeps
<1>4. CASE Finish
  BY <1>4, StopKeeps, HelperReturnsKeeps, InterruptClosedKeeps, RestartKeeps,
     RemoveClosedKeeps, AddDoneKeeps, SpliceKeeps DEF Finish
<1> QED
  BY <1>1, <1>2, <1>3, <1>4 DEF Next

LEMMA SpecWInv == Spec => [](IInv /\ WInv)
<1>1. Spec => []IInv
  BY InductiveInvariant
<1> QED
  BY <1>1, InitWInv, NextWInv, PTL DEF Spec

(* Each channel has one owner.                                             *)
LEMMA OneOwner == IInv /\ WInv => OneOwnerPerChannel
<1> SUFFICES ASSUME IInv, WInv, NEW s \in Stub, Owns(s)
             PROVE  /\ out[s] # Entry
                    /\ \A d \in Stub : d # s /\ Owns(d) => out[d] # out[s]
  BY DEF OneOwnerPerChannel
<1>1. PICK m \in 1 .. Settled : WiredTo(m)
  BY DEF WInv, Frontier
<1>2. /\ Settled \in Int /\ Settled <= Len(stubs) /\ Len(stubs) \in Nat /\ m \in Int
      /\ \A i \in 1 .. Settled : stubs[i] # Sink /\ i \in 1 .. Len(stubs)
      /\ \A i \in 1 .. Settled : stubs[i] = Entry => i = 1
      /\ \A i, j \in 1 .. Len(stubs) : stubs[i] = stubs[j] => i = j
  <2>1. \A i \in 1 .. Settled : i \in 1 .. Len(stubs) /\ 1 \in 1 .. Len(stubs)
    BY Shape
  <2>2. \A i \in 1 .. Settled : stubs[i] # Sink
    BY <2>1, Shape DEF Stub
  <2> QED
    BY <1>1, <2>1, <2>2, Shape DEF WInv, Frontier
<1>3. \A d \in Stub : Owns(d) => \E i \in 1 .. Settled : stubs[i] = d
  BY DEF WInv, StubsOK, StubOK
<1> DEFINE reads(i) == IF i < m THEN i + 1 ELSE i
<1>4. ASSUME NEW i \in 1 .. Settled
      PROVE  \/ i = m /\ out[stubs[i]] = Sink
             \/ i # m /\ reads(i) \in 2 .. Settled /\ out[stubs[i]] = stubs[reads(i)]
  <2>1. CASE i < m
    BY <1>1, <1>2, <2>1 DEF WiredTo
  <2>2. CASE i = m
    BY <1>1, <2>2 DEF WiredTo
  <2>3. CASE i > m
    BY <1>1, <1>2, <2>3 DEF WiredTo
  <2> QED
    BY <1>2, <2>1, <2>2, <2>3
<1>5. PICK i \in 1 .. Settled : stubs[i] = s
  BY <1>3
<1>6. out[s] # Entry
  BY <1>2, <1>4, <1>5
<1>7. ASSUME NEW d \in Stub, d # s, Owns(d) PROVE out[d] # out[s]
  <2>1. PICK j \in 1 .. Settled : stubs[j] = d
    BY <1>3, <1>7
  <2>2. i # j
    BY <1>5, <1>7, <2>1
  <2>3. reads(i) = reads(j) => i = m \/ j = m
    BY <1>2, <2>2
  <2> HIDE DEF reads
  <2>4. CASE i = m \/ j = m
    BY <1>2, <1>4, <1>5, <2>1, <2>2, <2>4
  <2>5. CASE i # m /\ j # m
    <3>1. /\ reads(i) \in 1 .. Len(stubs) /\ reads(j) \in 1 .. Len(stubs)
          /\ out[s] = stubs[reads(i)] /\ out[d] = stubs[reads(j)]
      BY <1>2, <1>4, <1>5, <2>1, <2>5
    <3> QED
      BY <1>2, <2>3, <2>5, <3>1
  <2> QED
    BY <2>4, <2>5
<1> QED
  BY <1>6, <1>7

(* Whatever AddToxic, UpdateToxic and RemoveToxic do to a link while data  *)
(* and its end pass through: each channel has one sender, no call leaves a *)
(* stub stopped, and a link that has not closed runs the chain in order.   *)
THEOREM WiredCorrect == Spec => []Wired
<1>1. IInv /\ WInv => Wired
  <2> SUFFICES ASSUME IInv, WInv PROVE Wired
    OBVIOUS
  <2>1. OneOwnerPerChannel
    BY OneOwner
  <2>2. ASSUME op = Idle
        PROVE  Settled = Len(stubs) /\ Halting = {} /\ op.call = "idle"
    <3>1. op.call = "idle" /\ op.phase = "none"
      BY <2>2 DEF Idle
    <3>2. helper = "none"
      BY <3>1 DEF IInv, IndicesInRange
    <3> QED
      BY <3>1, <3>2 DEF Settled, Halting
  <2>3. NoneLeftStopped
    BY <2>2 DEF NoneLeftStopped, WInv, NoneStopped
  <2>4. MatchesChain
    <3> SUFFICES ASSUME op = Idle, \A i \in 1 .. Len(stubs) : ~st[stubs[i]].closed
                 PROVE  /\ Len(stubs) = Len(chain)
                        /\ \A i \in 1 .. Len(stubs) :
                             /\ st[stubs[i]].toxic = chain[i]
                             /\ out[stubs[i]] = IF i < Len(stubs) THEN stubs[i + 1] ELSE Sink
      BY DEF MatchesChain
    <3>1. Len(chain) = Len(stubs)
          /\ \A i \in 1 .. Len(stubs) : st[stubs[i]].toxic = chain[i]
      BY <2>2 DEF WInv, Matching, PlaceOf
    <3>2. PICK m \in 1 .. Len(stubs) : WiredTo(m)
      BY <2>2 DEF WInv, Frontier
    <3>3. Len(stubs) \in Nat /\ m = Len(stubs)
      <4>1. Len(stubs) \in Nat /\ Len(stubs) \in 1 .. Len(stubs)
        BY <3>2, Shape
      <4>2. ~(Len(stubs) > m)
        BY <2>2, <3>2, <4>1 DEF WiredTo
      <4> QED
        BY <3>2, <4>1, <4>2
    <3>4. \A i \in 1 .. Len(stubs) :
            out[stubs[i]] = IF i < Len(stubs) THEN stubs[i + 1] ELSE Sink
      BY <2>2, <3>2, <3>3 DEF WiredTo
    <3> QED
      BY <3>1, <3>4
  <2> QED
    BY <2>1, <2>3, <2>4 DEF Wired
<1> QED
  BY <1>1, SpecWInv, PTL
==============================================================================
