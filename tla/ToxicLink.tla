------------------------------ MODULE ToxicLink ------------------------------
(***************************************************************************)
(* One ToxicLink (link.go): the goroutine that reads the source, a chain   *)
(* of ToxicStubs each run by a goroutine of its own, the goroutine that    *)
(* writes the destination, and the API call that holds the mutex of the    *)
(* ToxicCollection while it adds, updates or removes a toxic of a live     *)
(* link.                                                                   *)
(*                                                                         *)
(* Every channel is known by the stub that reads it; Sink is the one the   *)
(* writer reads.  A channel without a buffer is a rendezvous, so sending   *)
(* and receiving are one step.  The buffer of a latency toxic is a queue.  *)
(* The goroutines' local steps are the operators of ToxicPipe.             *)
(*                                                                         *)
(* Some definitions are preceded by a wrong form of themselves, which the  *)
(* specification does not use: what a slip in that code would do, kept to  *)
(* see that the properties below notice it.                                *)
(***************************************************************************)
EXTENDS ToxicPipe, SequencesExt

CONSTANTS
  MaxStubs,    \* bound on the stubs the link ever creates
  MaxBytes,    \* bound on the bytes the source sends
  MaxChunk,    \* bound on the bytes of one read of the source
  MaxGiven,    \* bound on the bytes the destination is given, which are more
               \* than MaxBytes if bandwidth sends some again
  InitToxics,  \* bound on the toxics of the chain the link starts with
  BufferSize,  \* capacity of a latency toxic's channel (1024 in the code)
  Attrs,       \* the values of limit_data's bytes and of bandwidth's rate
  DestMayFail, \* whether a write to the destination may return an error
  MayStall     \* whether a write may block for WriteOutput's 5 s or longer

ASSUME LinkAssumption ==
  /\ MaxStubs \in Nat \ {0} /\ MaxBytes \in Nat /\ MaxChunk \in Nat
  /\ MaxGiven \in Nat
  /\ InitToxics \in 0 .. MaxStubs - 1
  /\ BufferSize \in Nat \ {0}
  /\ Attrs \subseteq Int /\ Attrs # {}
  /\ DestMayFail \in BOOLEAN /\ MayStall \in BOOLEAN

Stub == 1 .. MaxStubs
Entry == 1              \* the stub of the hidden noop, never removed
Sink == 0
Tuned == {t \in Toxics : Kind[t] \in {"limit_data", "bandwidth"}}

VARIABLES
  chain,     \* ToxicCollection.chain[direction], the noop first
  attr,      \* the attribute of each limit_data and bandwidth toxic: bytes,
             \* or the bytes the rate lets through in 100 ms
  stubs,     \* link.stubs
  fresh,     \* the next stub to be created
  out,       \* stub.Output of each stub
  buffered,  \* the channels made with a latency toxic's BufferSize
  queue,     \* what each buffered channel holds
  st,        \* the goroutine running on each stub, and its stub's fields
  reader,    \* link.read: io.Copy from the source into the first channel
  writer,    \* link.write: io.Copy from the last channel to the destination
  dest,      \* the offsets of the bytes the destination has been given
  op,        \* the API call that holds the mutex; idle when it is free
  helper,    \* the goroutine RemoveToxic starts to interrupt its neighbour
  lost       \* history: why the stream may not be whole

config == <<chain, attr>>
wiring == <<stubs, fresh, out, buffered>>
ends   == <<reader, writer, dest>>
api    == <<op, helper>>
vars   == <<config, wiring, queue, st, ends, api, lost>>
-----------------------------------------------------------------------------
Idle == [call |-> "idle", phase |-> "none", toxic |-> Noop, idx |-> 0]
Call(c, t, i) == [call |-> c, phase |-> "interrupt", toxic |-> t, idx |-> i]

Target   == stubs[op.idx]
Previous == stubs[op.idx - 1]

Neighbour == chain[op.idx - 1]   \* the toxic RemoveToxic restarts Previous with

AttrOf(t) == IF t \in Tuned THEN attr[t] ELSE 0

(* close(stub.Output), or ChanWriter.Close for the first channel.          *)
ChanClosed(c) ==
  \/ c = Entry /\ reader.pc = "done"
  \/ \E s \in Stub : st[s].closed /\ out[s] = c

(* Whether the goroutine at the other end of channel c takes a chunk now.  *)
ReadyWhenRunning(c) ==
  IF c = Sink THEN writer.pc = "read" ELSE st[c].pc # "off"
Ready(c) ==
  IF c = Sink THEN writer.pc = "read"
  ELSE IF c \in buffered THEN Len(queue[c]) < BufferSize
  ELSE st[c].pc = "select"

(* An index out of range, or a failed type assertion, ends the process.    *)
Alive == op.call # "panic" /\ \A s \in Stub : st[s].pc # "panic"

(* Why the stream may not be whole (lost):                                 *)
(*   toxic     a toxic has discarded bytes, as it is meant to              *)
(*   deadline  a flush has met WriteOutput's deadline and dropped a chunk  *)
(*   dest      a write to the destination has failed                       *)
(*   rate      bandwidth has cut its chunk by a rate that an update changed*)
(*             while it was sending the piece, or sent a piece longer than *)
(*             the chunk                                                   *)
(*   stub      a call has run or cleaned up a toxic on a stub that was     *)
(*             running another one                                         *)
Reasons == {"toxic", "deadline", "dest", "rate", "stub"}

TypeOK ==
  /\ chain \in Seq(Wrappers)
  /\ attr \in [Tuned -> Attrs]
  /\ stubs \in Seq(Stub)
  /\ fresh \in 1 .. MaxStubs + 1
  /\ out \in [Stub -> Stub \cup {Sink}]
  /\ buffered \subseteq Stub
  /\ queue \in [Stub -> Seq(Chunk)]
  /\ st \in [Stub -> Local]
  /\ reader \in [pc : {"read", "offer", "done"}, chunk : Chunk, taken : Nat]
  /\ writer \in [pc : {"read", "write", "close", "unlink", "done"}, chunk : Chunk]
  /\ dest \in Seq(Nat)
  /\ op \in [call : {"idle", "add", "update", "remove", "panic"},
             phase : {"none", "interrupt", "wait", "pump"},
             toxic : Wrappers, idx : Nat]
  /\ helper \in {"none", "interrupt", "wait", "yes", "no"}
  /\ lost \subseteq Reasons
-----------------------------------------------------------------------------
(* NewToxicLink and Start: one stub per toxic of the chain, all running.   *)

Chains == {c \in UNION {[1 .. n -> Wrappers] : n \in 1 .. InitToxics + 1} :
             c[1] = Noop /\ IsInjective(c)}

Init ==
  /\ chain \in Chains
  /\ attr \in [Tuned -> Attrs]
  /\ stubs = [i \in 1 .. Len(chain) |-> i]
  /\ fresh = Len(chain) + 1
  /\ out = [s \in Stub |-> IF s < Len(chain) THEN s + 1 ELSE Sink]
  /\ buffered = {s \in 1 .. Len(chain) : Kind[chain[s]] = "latency"}
  /\ queue = [s \in Stub |-> <<>>]
  /\ \E pipe \in [1 .. Len(chain) -> Kinds] :
       /\ \A s \in 1 .. Len(chain) : pipe[s] \in Pipes(chain[s])
       /\ st = [s \in Stub |->
                  IF s <= Len(chain)
                    THEN Run(WithState(Fresh, chain[s]), chain[s], pipe[s],
                             AttrOf(chain[s]))
                    ELSE Fresh]
  /\ reader = [pc |-> "read", chunk |-> Empty, taken |-> 0]
  /\ writer = [pc |-> "read", chunk |-> Empty]
  /\ dest = <<>>
  /\ op = Idle /\ helper = "none"
  /\ lost = {}
-----------------------------------------------------------------------------
(* The two ends.                                                           *)

ReadSource ==
  /\ Alive /\ reader.pc = "read"
  /\ \E n \in 1 .. MaxChunk :
       /\ reader.taken + n <= MaxBytes
       /\ reader' = [pc |-> "offer", taken |-> reader.taken + n,
                     chunk |-> [lo |-> reader.taken, hi |-> reader.taken + n,
                                cap |-> reader.taken + n]]
  /\ UNCHANGED <<config, wiring, queue, st, writer, dest, api, lost>>

SourceEof ==
  /\ Alive /\ reader.pc = "read"
  /\ reader' = [reader EXCEPT !.pc = "done"]
  /\ UNCHANGED <<config, wiring, queue, st, writer, dest, api, lost>>

(* io.Copy skips the destination when a read returns no bytes.             *)
WriteDest ==
  /\ Alive /\ writer.pc = "write"
  /\ Len(dest) + Size(writer.chunk) <= MaxGiven
  /\ dest' = dest \o [i \in 1 .. Size(writer.chunk) |-> writer.chunk.lo + i]
  /\ writer' = [pc |-> "read", chunk |-> Empty]
  /\ UNCHANGED <<config, wiring, queue, st, reader, api, lost>>

WriteFail ==
  /\ Alive /\ DestMayFail
  /\ writer.pc = "write"
  /\ writer' = [pc |-> "close", chunk |-> Empty]
  /\ lost' = lost \cup {"dest"}
  /\ UNCHANGED <<config, wiring, queue, st, reader, dest, api>>

WriterEof ==
  /\ Alive /\ writer.pc = "read"
  /\ ChanClosed(Sink)
  /\ writer' = [writer EXCEPT !.pc = "close"]
  /\ UNCHANGED <<config, wiring, queue, st, reader, dest, api, lost>>

CloseDest ==
  /\ Alive /\ writer.pc = "close"
  /\ writer' = [writer EXCEPT !.pc = "unlink"]
  /\ UNCHANGED <<config, wiring, queue, st, reader, dest, api, lost>>

(* ToxicCollection.RemoveLink takes the mutex.                             *)
RemoveLink ==
  /\ Alive /\ writer.pc = "unlink"
  /\ op = Idle
  /\ writer' = [writer EXCEPT !.pc = "done"]
  /\ UNCHANGED <<config, wiring, queue, st, reader, dest, api, lost>>
-----------------------------------------------------------------------------
(* Chunks move down the chain.                                             *)

Taken(s, c) == OnChunk(st[s], c, AttrOf(st[s].toxic))
Sent(s, n)  == AfterSend(st[s], n, AttrOf(st[s].toxic))

Because(why, holds) == IF holds THEN {why} ELSE {}
LostAt(s, c) == Because("toxic", Discards(st[s], c))
Miscut(s)    == Because("rate", Miscuts(st[s], AttrOf(st[s].toxic)))

ReaderToStub ==
  /\ Alive /\ reader.pc = "offer" /\ Ready(Entry)
  /\ st' = [st EXCEPT ![Entry] = Taken(Entry, reader.chunk)]
  /\ lost' = lost \cup LostAt(Entry, reader.chunk)
  /\ reader' = [reader EXCEPT !.pc = "read", !.chunk = Empty]
  /\ UNCHANGED <<config, wiring, queue, writer, dest, api>>

StubToStub(s) ==
  /\ Alive /\ Sending(st[s]) /\ out[s] # Sink /\ out[s] \notin buffered /\ Ready(out[s])
  /\ \E n \in PieceSizes(st[s]) :
       LET c == First(st[s].chunk, n)
       IN  /\ st' = [st EXCEPT ![s] = Sent(s, n), ![out[s]] = Taken(out[s], c)]
           /\ lost' = lost \cup Miscut(s) \cup LostAt(out[s], c)
  /\ UNCHANGED <<config, wiring, queue, ends, api>>

StubToBuffer(s) ==
  /\ Alive /\ Sending(st[s]) /\ out[s] \in buffered /\ Ready(out[s])
  /\ \E n \in PieceSizes(st[s]) :
       /\ queue' = [queue EXCEPT ![out[s]] = Append(@, First(st[s].chunk, n))]
       /\ st' = [st EXCEPT ![s] = Sent(s, n)]
  /\ lost' = lost \cup Miscut(s)
  /\ UNCHANGED <<config, wiring, ends, api>>

BufferToStub(s) ==
  /\ Alive /\ st[s].pc = "select" /\ queue[s] # <<>>
  /\ st' = [st EXCEPT ![s] = Taken(s, queue[s][1])]
  /\ lost' = lost \cup LostAt(s, queue[s][1])
  /\ queue' = [queue EXCEPT ![s] = Tail(@)]
  /\ UNCHANGED <<config, wiring, ends, api>>

StubToWriter(s) ==
  /\ Alive /\ Sending(st[s]) /\ out[s] = Sink /\ Ready(Sink)
  /\ \E n \in PieceSizes(st[s]) :
       /\ writer' = IF n = 0 THEN writer
                    ELSE [pc |-> "write", chunk |-> First(st[s].chunk, n)]
       /\ st' = [st EXCEPT ![s] = Sent(s, n)]
  /\ lost' = lost \cup Miscut(s)
  /\ UNCHANGED <<config, wiring, queue, reader, dest, api>>

(* Input is closed and drained: Pipe, or RemoveToxic, receives nil.        *)
StubEof(s) ==
  /\ Alive /\ st[s].pc = "select" /\ ChanClosed(s) /\ queue[s] = <<>>
  /\ st' = [st EXCEPT ![s] = OnNil(@)]
  /\ UNCHANGED <<config, wiring, queue, ends, api, lost>>

StubTimer(s) ==
  /\ Alive /\ TimerArmed(st[s])
  /\ st' = [st EXCEPT ![s] = OnTimer(@, AttrOf(@.toxic))]
  /\ UNCHANGED <<config, wiring, queue, ends, api, lost>>

(* WriteOutput gives up after 5 seconds and its caller drops the chunk.    *)
StubDeadline(s) ==
  /\ Alive /\ MayStall
  /\ HasDeadline(st[s]) /\ ~Ready(out[s])
  /\ st' = [st EXCEPT ![s] = Sent(s, Size(@.chunk))]
  /\ lost' = lost \cup Because("deadline", Size(st[s].chunk) > 0)
  /\ UNCHANGED <<config, wiring, queue, ends, api>>
-----------------------------------------------------------------------------
(* API calls: ToxicCollection takes the mutex and changes the chain, then  *)
(* calls the link and waits for it.                                        *)

Registered == writer.pc # "done"   \* collection.links still has the link

Restart(s, t) ==
  \E p \in Pipes(t) : st' = [st EXCEPT ![s] = Run(@, t, p, AttrOf(t))]

(* A name that is added again is a new object, and attr has one per name:  *)
(* it is taken again only when no stub runs the old one any more.          *)
AddToxicBegin(t) ==
  /\ Alive /\ op = Idle /\ Registered
  /\ t \notin Range(chain) /\ fresh \in Stub
  /\ \A s \in Stub : st[s].toxic = t => st[s].pc = "off"
  /\ chain' = Append(chain, t)
  /\ attr' \in IF t \in Tuned THEN {[attr EXCEPT ![t] = b] : b \in Attrs}
               ELSE {attr}
  /\ stubs' = Append(stubs, fresh)
  /\ fresh' = fresh + 1
  /\ out' = [out EXCEPT ![fresh] = out[Last(stubs)]]
  /\ buffered' = IF Kind[t] = "latency" THEN buffered \cup {fresh} ELSE buffered
  /\ op' = Call("add", t, Len(stubs))
  /\ UNCHANGED <<queue, st, ends, helper, lost>>

(* The decoder has written the attributes before any stub is interrupted:  *)
(* into the object that the goroutine of the toxic's stub is reading.      *)
UpdateToxicBegin(t) ==
  /\ Alive /\ op = Idle /\ Registered
  /\ \E i \in 1 .. Len(chain) : chain[i] = t /\ op' = Call("update", t, i)
  /\ \/ t \in Tuned /\ \E b \in Attrs : attr' = [attr EXCEPT ![t] = b]
     \/ UNCHANGED attr
  /\ UNCHANGED <<chain, wiring, queue, st, ends, helper, lost>>

(* The body is malformed: what was decoded before the error stays.         *)
UpdateToxicRejected(t) ==
  /\ Alive /\ op = Idle
  /\ t \in Tuned \cap Range(chain)
  /\ \E b \in Attrs : attr' = [attr EXCEPT ![t] = b]
  /\ UNCHANGED <<chain, wiring, queue, st, ends, api, lost>>

RemoveToxicBegin(t) ==
  /\ Alive /\ op = Idle /\ Registered
  /\ \E i \in 1 .. Len(chain) :
       /\ chain[i] = t
       /\ chain' = RemoveAt(chain, i)
       /\ op' = Call("remove", t, i)
  /\ UNCHANGED <<attr, wiring, queue, st, ends, helper, lost>>

(* InterruptToxic: the stub takes the interrupt, or it is already closed.  *)
Interrupt ==
  /\ Alive /\ op.phase = "interrupt" /\ Interruptible(st[Target])
  /\ st' = [st EXCEPT ![Target] = OnInterrupt(@)]
  /\ op' = [op EXCEPT !.phase = "wait"]
  /\ UNCHANGED <<config, wiring, queue, ends, helper, lost>>

InterruptClosedWaits == FALSE

InterruptClosedSharing ==
  /\ Alive /\ op.phase = "interrupt" /\ st[Target].closed
  /\ st' = IF op.call = "add" THEN [st EXCEPT ![Last(stubs)] = Close(@)] ELSE st
  /\ op' = Idle
  /\ UNCHANGED <<config, wiring, queue, ends, helper, lost>>

InterruptClosedForgetting ==
  /\ Alive /\ op.phase = "interrupt" /\ st[Target].closed
  /\ stubs' = IF op.call = "add" THEN RemoveAt(stubs, Len(stubs)) ELSE stubs
  /\ op' = Idle
  /\ UNCHANGED <<config, fresh, out, buffered, queue, st, ends, helper, lost>>

InterruptClosed ==
  /\ Alive /\ op.phase = "interrupt" /\ st[Target].closed
  /\ IF op.call = "add"
       THEN /\ out' = [out EXCEPT ![Last(stubs)] = Last(stubs)]
            /\ st' = [st EXCEPT ![Last(stubs)] = Close(@)]
       ELSE UNCHANGED <<out, st>>
  /\ op' = Idle
  /\ UNCHANGED <<config, stubs, fresh, buffered, queue, ends, helper, lost>>

StoppedSoon == op.phase = "wait"
Stopped == op.phase = "wait" /\ st[Target].pc = "off"   \* <-stub.running

(* A call has found by position a stub that was not running the toxic it   *)
(* now runs, or cleans up, there.                                          *)
Misplaced(s, t) == Because("stub", st[s].toxic # t)

(* chain[direction][i-1] is looked up by position in link.stubs.           *)
AddDone ==
  /\ Alive /\ op.call = "add" /\ Stopped
  /\ out' = [out EXCEPT ![Target] = Last(stubs)]
  /\ IF op.idx > Len(chain)
       THEN op' = [op EXCEPT !.call = "panic"] /\ UNCHANGED <<st, lost>>
       ELSE /\ op' = Idle
            /\ lost' = lost \cup Misplaced(Target, chain[op.idx])
            /\ \E p \in Pipes(op.toxic), r \in Pipes(chain[op.idx]) :
                 st' = [st EXCEPT
                   ![Last(stubs)] =
                      Run(WithState(@, op.toxic), op.toxic, p, AttrOf(op.toxic)),
                   ![Target] =
                      Run(@, chain[op.idx], r, AttrOf(chain[op.idx]))]
  /\ UNCHANGED <<config, stubs, fresh, buffered, queue, ends, helper>>

UpdateDone ==
  /\ Alive /\ op.call = "update" /\ Stopped
  /\ Restart(Target, op.toxic)
  /\ op' = Idle
  /\ lost' = lost \cup Misplaced(Target, op.toxic)
  /\ UNCHANGED <<config, wiring, queue, ends, helper>>

(* TimeoutToxic.Cleanup closes the stub, which stays in link.stubs.        *)
RemoveCleanupOpen ==
  /\ Alive /\ op.call = "remove" /\ Stopped
  /\ Kind[op.toxic] = "timeout"
  /\ op' = Idle
  /\ UNCHANGED <<config, wiring, queue, st, ends, helper, lost>>

RemoveCleanup ==
  /\ Alive /\ op.call = "remove" /\ Stopped
  /\ Kind[op.toxic] = "timeout"
  /\ st' = [st EXCEPT ![Target] = Close(@)]
  /\ op' = Idle
  /\ lost' = lost \cup Misplaced(Target, op.toxic)
  /\ UNCHANGED <<config, wiring, queue, ends, helper>>

RemovePump ==
  /\ Alive /\ op.call = "remove" /\ Stopped
  /\ Kind[op.toxic] # "timeout"
  /\ st' = [st EXCEPT ![Target] = Pump(@)]
  /\ op' = [op EXCEPT !.phase = "pump"]
  /\ helper' = "interrupt"
  /\ UNCHANGED <<config, wiring, queue, ends, lost>>

HelperInterrupt ==
  /\ Alive /\ helper = "interrupt" /\ Interruptible(st[Previous])
  /\ st' = [st EXCEPT ![Previous] = OnInterrupt(@)]
  /\ helper' = "wait"
  /\ UNCHANGED <<config, wiring, queue, ends, op, lost>>

HelperReturns ==
  /\ Alive
  /\ \/ helper = "wait" /\ st[Previous].pc = "off" /\ helper' = "yes"
     \/ helper = "interrupt" /\ st[Previous].closed /\ helper' = "no"
  /\ UNCHANGED <<config, wiring, queue, st, ends, op, lost>>

(* The neighbour has stopped and the toxic's buffer is empty.              *)
RemoveSplice ==
  /\ Alive /\ op.phase = "pump" /\ helper = "yes"
  /\ st[Target].pc = "select" /\ queue[Target] = <<>>
  /\ out' = [out EXCEPT ![Previous] = out[Target]]
  /\ stubs' = RemoveAt(stubs, op.idx)
  /\ \E p \in Pipes(Neighbour) :
       st' = [st EXCEPT ![Target] = Exit(@),
                        ![Previous] = Run(@, Neighbour, p, AttrOf(Neighbour))]
  /\ op' = Idle /\ helper' = "none"
  /\ lost' = lost \cup Misplaced(Previous, Neighbour)
  /\ UNCHANGED <<config, fresh, buffered, queue, ends>>

(* RemoveToxic met the end of the stream: it returns without shortening    *)
(* link.stubs, once the helper has its answer.                             *)
RemoveClosed ==
  /\ Alive /\ op.phase = "pump" /\ st[Target].closed
  /\ helper \in {"yes", "no"}
  /\ op' = Idle /\ helper' = "none"
  /\ UNCHANGED <<config, wiring, queue, st, ends, lost>>
-----------------------------------------------------------------------------
Ends == \/ ReadSource \/ SourceEof \/ WriteDest \/ WriteFail
        \/ WriterEof \/ CloseDest \/ RemoveLink

Flow == \/ ReaderToStub
        \/ \E s \in Stub : \/ StubToStub(s) \/ StubToBuffer(s) \/ BufferToStub(s)
                           \/ StubToWriter(s) \/ StubEof(s) \/ StubTimer(s)
                           \/ StubDeadline(s)

Begin == \E t \in Toxics : \/ AddToxicBegin(t) \/ UpdateToxicBegin(t)
                           \/ RemoveToxicBegin(t) \/ UpdateToxicRejected(t)

Finish == \/ Interrupt \/ InterruptClosed \/ AddDone \/ UpdateDone
          \/ RemoveCleanup \/ RemovePump \/ HelperInterrupt \/ HelperReturns
          \/ RemoveSplice \/ RemoveClosed

Next == Ends \/ Flow \/ Begin \/ Finish

Spec == Init /\ [][Next]_vars

(***************************************************************************)
(* Fairness.  Every goroutine that can go on does.  A select whose cases   *)
(* are ready together picks one at random, and a sync.Mutex does not starve*)
(* a waiter, so a case that is ready again and again is taken: the strong  *)
(* fairness of the steps that compete for a stub or for the mutex.  Nobody *)
(* promises that the source sends, that the API is called, that a timeout  *)
(* toxic has a timeout, or that a destination fails.  That the destination *)
(* accepts what is written to it is an assumption, DestFairness.           *)
(***************************************************************************)
Take(s)  == BufferToStub(s) \/ StubEof(s)
Ticks(s) == st[s].pc # "select" /\ (StubTimer(s) \/ StubDeadline(s))

(* Data is finite and moves one way, so it is enough to ask that some chunk*)
(* or end of stream moves whenever one can: less than the fairness of each *)
(* goroutine, which implies it.                                            *)
Moves ==
  \/ ReaderToStub
  \/ \E s \in Stub : StubToStub(s) \/ StubToBuffer(s) \/ StubToWriter(s) \/ Take(s)

Fairness ==
  /\ SF_vars(Moves) /\ SF_vars(RemoveLink)
  /\ SF_vars(Interrupt \/ HelperInterrupt \/ RemoveSplice)
  /\ \A s \in Stub : WF_vars(Ticks(s))
  /\ WF_vars(WriterEof \/ CloseDest)
  /\ WF_vars(HelperReturns)
  /\ WF_vars(InterruptClosed \/ AddDone \/ UpdateDone \/ RemoveCleanup
             \/ RemovePump \/ RemoveClosed)

DestFairness == WF_vars(WriteDest \/ WriteFail)

FairSpec == Spec /\ Fairness /\ DestFairness
-----------------------------------------------------------------------------
(* What the destination has, followed by what is under way to it, from the *)
(* writer back to the reader.  Nobody reads the channel of a closed stub   *)
(* any more: what is in there is not under way.                            *)

Offsets(c) == [i \in 1 .. Size(c) |-> c.lo + i]
HeldBy(s)  == IF st[s].closed THEN <<>>
              ELSE Offsets(st[s].chunk) \o
                   FlattenSeq([i \in 1 .. Len(queue[s]) |-> Offsets(queue[s][i])])
UnderWay   == Offsets(writer.chunk) \o
              FlattenSeq([i \in 1 .. Len(stubs) |-> HeldBy(stubs[Len(stubs) + 1 - i])]) \o
              Offsets(reader.chunk)
Stream     == dest \o UnderWay

(* No byte overtakes, or is given twice, however often toxics are added,   *)
(* updated and removed while chunks are in every place they can be in -    *)
(* until an update of a bandwidth toxic's rate meets it in the sending of a*)
(* piece, after which it sends bytes again (bandwidth.go:46, :49).         *)
InOrder ==
  "rate" \notin lost => \A i \in 1 .. Len(Stream) - 1 : Stream[i] < Stream[i + 1]

(* "Don't drop any data on the floor": what was read from the source is    *)
(* given to the destination or held by a goroutine or in a channel that is *)
(* read, unless there is a reason why the stream may not be whole.         *)
NothingMissing ==
  lost = {} => Len(Stream) = reader.taken

(* Two goroutines never send on one channel, nor does one send on or close *)
(* a channel another has closed, which would panic; link.read owns the     *)
(* first channel.                                                          *)
Owns(s) == st[s].pc # "off" \/ st[s].closed

OneOwnerPerChannel ==
  \A s \in Stub : Owns(s) =>
    /\ out[s] # Entry
    /\ \A d \in Stub : d # s /\ Owns(d) => out[d] # out[s]

(* When the mutex is free, each stub of the link is running or has closed  *)
(* its Output: no call leaves a stub stopped, and the stream with it.      *)
NoneLeftStopped ==
  op = Idle => \A i \in 1 .. Len(stubs) : Owns(stubs[i])

(* While nothing on the link has closed, what runs is the chain the API    *)
(* shows, wired in its order (link.go's picture of a link).                *)
MatchesChain ==
  op = Idle /\ (\A i \in 1 .. Len(stubs) : ~st[stubs[i]].closed) =>
    /\ Len(stubs) = Len(chain)
    /\ \A i \in 1 .. Len(stubs) :
         /\ st[stubs[i]].toxic = chain[i]
         /\ out[stubs[i]] = IF i < Len(stubs) THEN stubs[i + 1] ELSE Sink

(* The three together: the stubs, their goroutines and their channels,     *)
(* over any sequence of adding, updating and removing toxics.              *)
Wired == OneOwnerPerChannel /\ NoneLeftStopped /\ MatchesChain

(* The positions a call has looked up in the chain or in link.stubs exist  *)
(* whenever it uses them; only AddToxic's own lookup can miss (AddDone).   *)
IndicesInRange ==
  /\ chain # <<>> /\ chain[1] = Noop
  /\ op.call = "idle" => op = Idle
  /\ op.phase = "none" => op.call = "idle"
  /\ op.phase = "pump" => op.call = "remove"
  /\ helper # "none" => op.phase = "pump"
  /\ op.call # "remove" => Len(chain) <= Len(stubs)
  /\ op.call = "add" => op.idx \in 1 .. Len(stubs) /\ op.idx + 1 = Len(stubs)
  /\ op.call = "update" => op.idx \in 1 .. Len(stubs)
  /\ op.call = "remove" =>
       /\ op.idx \in 2 .. Len(stubs)
       /\ op.idx - 1 <= Len(chain) /\ Len(chain) < Len(stubs)

(* A stub is on the link once, and a stub whose Output a call is about to  *)
(* move is stopped: the one being added, and the neighbour once the helper *)
(* has seen it return.  The noop's channel never has a buffer.             *)
MovedStubsStopped ==
  /\ Entry \notin buffered
  /\ \A i \in 1 .. Len(stubs) : stubs[i] < fresh
  /\ \A i, j \in 1 .. Len(stubs) : stubs[i] = stubs[j] => i = j
  /\ \A s \in Stub : s >= fresh => st[s].pc = "off"
  /\ op.call = "add" => st[stubs[Len(stubs)]].pc = "off"
  /\ helper = "yes" => st[Previous].pc = "off"

(* A channel is moved only while the stub it belongs to is stopped, "so    *)
(* that we don't have a race when moving channels".                        *)
RewireOnlyWhenStopped ==
  [][\A s \in Stub : out'[s] # out[s] => st[s].pc = "off"]_vars

(* A call to add, update or remove a toxic returns: the mutex is not held  *)
(* for ever by a call that waits for a stub.                               *)
CallsReturn == (op # Idle) ~> (op = Idle)

(* Whether the stream has been cut short: a toxic has discarded data or has*)
(* closed it by itself or when it was removed, the destination has failed, *)
(* or the process has ended in a panic.                                    *)
CutShort ==
  \/ ~Alive
  \/ lost \cap {"toxic", "dest"} # {}
  \/ \E s \in Stub : /\ st[s].closed
                     /\ \/ st[s].pipe = "reset_peer"
                        \/ st[s].toxic # Noop /\ Kind[st[s].toxic] = "timeout"

(* Whether a stream that should be whole may not be: by a deadline, by a   *)
(* change of rate in the sending of a piece, or by calls that take one stub*)
(* for another.                                                            *)
Broken == lost \cap {"deadline", "rate", "stub"} # {}

(* Nothing but a stream cut short keeps a call from returning: then nobody *)
(* reads the channel a toxic may be blocked on, writing to it for ever.    *)
CallsReturnUncut == (op # Idle) ~> (op = Idle \/ CutShort)

(* Once a stub has closed, for whatever reason, the destination is closed: *)
(* the end of the stream passes every toxic downstream, those an API call  *)
(* is moving included.                                                     *)
CloseReachesDest ==
  (\E s \in Stub : st[s].closed) ~> (writer.pc \in {"unlink", "done"} \/ ~Alive)

(* An API call never meets a link whose stubs are not those of the chain:  *)
(* it looks up no toxic that is not there, and runs none on a stub that was*)
(* not made for it, where its Pipe would not find its state.               *)
NoPanic == op.call # "panic" /\ \A s \in Stub : st[s].pc # "panic"

(* A link is a byte pipe that toxics may cut short, as long as it is not   *)
(* Broken: while toxics are added, updated and removed, what arrives is a  *)
(* prefix of what was sent, all of it if nothing cuts it, and its end      *)
(* arrives too.  Nothing is said of a link from the moment it is Broken:   *)
(* early returns of RemoveToxic shift the stubs against the chain, and a   *)
(* timeout removed by position may then close the stub of another toxic    *)
(* over the bytes in its channel.                                          *)
Pipe == INSTANCE BytePipe WITH
  taken  <- reader.taken,
  given  <- dest,
  ended  <- reader.pc = "done",
  cut    <- CutShort,
  broken <- Broken,
  closed <- writer.pc \in {"unlink", "done"}

=============================================================================
