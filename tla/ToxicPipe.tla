------------------------------ MODULE ToxicPipe ------------------------------
(***************************************************************************)
(* What the goroutine that runs a toxic on a ToxicStub does (toxics/*.go). *)
(*                                                                         *)
(* A stub's local state is a record; each operator below is the effect on  *)
(* that record of one thing that can happen to the goroutine: it starts,   *)
(* it takes a chunk or an end of stream from Input, its timer fires, it is *)
(* interrupted, its write to Output completes.  The state machine that     *)
(* decides when those things happen is module ToxicLink.                   *)
(*                                                                         *)
(* A chunk is the half-open range of stream offsets it carries, so that    *)
(* splitting and truncating it are arithmetic and every byte of the stream *)
(* keeps its identity.  It is a slice of an array that ends at offset cap; *)
(* one that has been cut short can be cut longer again.                    *)
(*                                                                         *)
(* The attribute of a toxic (limit_data's bytes, bandwidth's rate) is read *)
(* from the object that the API's decoder writes, so the operators of the  *)
(* steps that read it are given its value at that step.                    *)
(***************************************************************************)
EXTENDS Integers, Sequences, FiniteSets

CONSTANTS
  Toxics,     \* the toxics (names) the API may add to a chain
  Noop,       \* the hidden wrapper every chain starts with
  Kind,       \* the type of each wrapper, a function on Toxics \cup {Noop}
  Sometimes   \* the toxics whose toxicity lies strictly between 0 and 1

Kinds == {"noop", "latency", "bandwidth", "slicer", "slow_close",
          "timeout", "reset_peer", "limit_data"}

Wrappers == Toxics \cup {Noop}

ASSUME ToxicAssumption ==
  /\ Noop \notin Toxics
  /\ Kind \in [Wrappers -> Kinds]
  /\ Kind[Noop] = "noop"
  /\ Sometimes \subseteq Toxics

-----------------------------------------------------------------------------
(* Chunks.                                                                 *)

Chunk == {c \in [lo : Nat, hi : Nat, cap : Nat] : c.lo <= c.hi /\ c.hi <= c.cap}
Empty == [lo |-> 0, hi |-> 0, cap |-> 0]
Size(c) == c.hi - c.lo
Room(c) == c.cap - c.lo
First(c, n) == [c EXCEPT !.hi = c.lo + n]
RestUncut(c, n) == c
RestBack(c, n)  == [c EXCEPT !.lo = @ - n]
Rest(c, n)  == [c EXCEPT !.lo = @ + n]
Least(a, b) == IF a <= b THEN a ELSE b

(***************************************************************************)
(* Local states.  pc is where the goroutine stands:                        *)
(*   off     not started, or returned from Pipe (running is closed)        *)
(*   select  in the select on Interrupt and Input                          *)
(*   delay   bandwidth has found its rate positive and will divide by it   *)
(*   test    bandwidth compares what it holds with its rate                *)
(*   pace    bandwidth in the select before a piece, holding a chunk       *)
(*   piece   bandwidth in Output <- piece, which nothing interrupts        *)
(*   timed   in a select on a timer and Interrupt, holding a chunk         *)
(*   send    in Output <- chunk, which nothing interrupts                  *)
(*   flush   interrupted, writing what it holds before it returns          *)
(*   reset   in the uninterruptible sleep of reset_peer                    *)
(*   panic   a nil stub.State, an index out of range or a division by zero *)
(* pipe is the Pipe it runs, which toxicity may have made the noop's, and  *)
(* "pump" while RemoveToxic itself moves the stub's chunks.  sent is       *)
(* LimitDataToxicState.bytesTransmitted; quota is limit_data's local       *)
(* bytesRemaining, and the length of the piece bandwidth is sending.       *)
(***************************************************************************)
Places == {"off", "select", "delay", "test", "pace", "piece", "timed", "send",
           "flush", "reset", "panic"}

Local == {l \in [pc : Places, toxic : Wrappers, pipe : Kinds \cup {"pump"},
                 chunk : Chunk, stateful : BOOLEAN, sent : Nat, quota : Int,
                 closed : BOOLEAN] :
            l.pc = "piece" => l.quota \in 0 .. Room(l.chunk)}

Fresh == [pc |-> "off", toxic |-> Noop, pipe |-> "noop", chunk |-> Empty,
          stateful |-> FALSE, sent |-> 0, quota |-> 0, closed |-> FALSE]

Exit(l)  == [l EXCEPT !.pc = "off", !.chunk = Empty]
Close(l) == [l EXCEPT !.pc = "off", !.chunk = Empty, !.closed = TRUE]
Panic(l) == [l EXCEPT !.pc = "panic"]
Await(l) == [l EXCEPT !.pc = "select", !.chunk = Empty]
Hold(l, place, c) == [l EXCEPT !.pc = place, !.chunk = c]

(* NewState(): the stub of a stateful toxic gets a state object.           *)
WithState(l, t) == [l EXCEPT !.stateful = (Kind[t] = "limit_data")]

(* The Pipes Run(t) may pick, one random draw each time it is called.      *)
Pipes(t) == {Kind[t]} \cup (IF t \in Sometimes THEN {"noop"} ELSE {})

(* Run(t) having picked p; limit_data reads its state and its limit.       *)
Run(l, t, p, attr) ==
  IF p = "limit_data" /\ ~l.stateful
    THEN [l EXCEPT !.pc = "panic", !.toxic = t, !.pipe = p]
    ELSE [l EXCEPT !.pc = "select", !.toxic = t, !.pipe = p, !.chunk = Empty,
                   !.quota = IF p = "limit_data" THEN attr - l.sent ELSE 0]

(* RemoveToxic reads the stub's Input and writes its Output itself.        *)
Pump(l) == [l EXCEPT !.pc = "select", !.pipe = "pump", !.chunk = Empty]
-----------------------------------------------------------------------------
(* A chunk c, or the end of the stream, comes out of Input.                *)

(* How much of c limit_data lets through with what it thinks remains.      *)
Allowed(l, c) == Least(IF l.quota < 0 THEN 0 ELSE l.quota, Size(c))

(* The end of limit_data's loop body, n more bytes having been written.    *)
AccountResends(l, n, attr) ==
  IF attr > l.sent + n THEN [l EXCEPT !.sent = l.sent + n, !.pc = "send"]
                        ELSE Close(l)
Account(l, n, attr) ==
  LET a == [l EXCEPT !.sent = l.sent + n, !.quota = attr - (l.sent + n)]
  IN  IF a.quota <= 0 THEN Close(a) ELSE Await(a)

OnChunk(l, c, attr) ==
  CASE l.pipe \in {"noop", "slow_close", "slicer", "pump"} -> Hold(l, "send", c)
    [] l.pipe = "latency" -> Hold(l, "timed", c)
    [] l.pipe = "bandwidth" -> Hold(l, IF attr > 0 THEN "delay" ELSE "test", c)
    [] l.pipe = "timeout" -> l
    [] l.pipe = "reset_peer" -> Hold(l, "reset", Empty)
    [] l.pipe = "limit_data" ->
         IF Allowed(l, c) = 0 THEN Account(l, 0, attr)
                              ELSE Hold(l, "send", First(c, Allowed(l, c)))

(* Whether taking c loses some of its bytes by the toxic's own doing.      *)
Discards(l, c) ==
  /\ Size(c) > 0
  /\ \/ l.pipe \in {"timeout", "reset_peer"}
     \/ l.pipe = "limit_data" /\ Allowed(l, c) < Size(c)

OnNilReturns(l) == Exit(l)
OnNil(l) ==
  CASE l.pipe = "slow_close" -> Hold(l, "timed", Empty)
    [] l.pipe = "reset_peer" -> Hold(l, "reset", Empty)
    [] l.pipe \notin {"slow_close", "reset_peer"} -> Close(l)
-----------------------------------------------------------------------------
(* Timers and interrupts.                                                  *)

(* A timer has fired, or the goroutine goes on by itself.                  *)
TimerArmed(l) ==
  \/ l.pc \in {"delay", "test", "pace", "timed", "reset"}
  \/ l.pc = "select" /\ l.pipe = "timeout"

(* bandwidth reads its rate for the division, for each test of its loop and*)
(* for each piece, which may be as long as the array allows.               *)
Paced(l, rate) ==
  CASE l.pc = "delay" -> IF rate = 0 THEN Panic(l) ELSE [l EXCEPT !.pc = "test"]
    [] l.pc = "test"  ->
         [l EXCEPT !.pc = IF Size(l.chunk) > rate THEN "pace" ELSE "timed"]
    [] l.pc = "pace"  -> IF rate \in 0 .. Room(l.chunk)
                           THEN [l EXCEPT !.pc = "piece", !.quota = rate]
                           ELSE Panic(l)
    [] l.pc \notin {"delay", "test", "pace"} -> [l EXCEPT !.pc = "send"]

OnTimer(l, attr) ==
  CASE l.pipe = "latency" -> [l EXCEPT !.pc = "send"]
    [] l.pipe = "bandwidth" -> Paced(l, attr)
    [] l.pipe = "slicer" /\ Size(l.chunk) > 0 -> [l EXCEPT !.pc = "send"]
    [] l.pipe = "slicer" /\ Size(l.chunk) <= 0 -> Await(l)
    [] l.pipe \notin {"latency", "bandwidth", "slicer"} -> Close(l)

Interruptible(l) == l.pc \in {"select", "pace", "timed"} /\ l.pipe # "pump"

(* latency, bandwidth and slicer write out what they hold; others return.  *)
OnInterruptDropping(l) == Exit(l)
OnInterrupt(l) ==
  IF l.pc \in {"pace", "timed"} /\ l.pipe # "slow_close"
    THEN [l EXCEPT !.pc = "flush"]
    ELSE Exit(l)
-----------------------------------------------------------------------------
(* Writes to Output.                                                       *)

Sending(l) == l.pc \in {"send", "piece", "flush"}

(* The sizes the next write may have: slicer cuts anywhere, bandwidth's    *)
(* piece has been cut, and everything else writes the whole chunk.         *)
PieceSizes(l) ==
  IF l.pc = "send" /\ l.pipe = "slicer" /\ Size(l.chunk) > 0
    THEN 1 .. Size(l.chunk)
  ELSE IF l.pc = "piece"
    THEN {l.quota}
  ELSE {Size(l.chunk)}

(* bandwidth's piece has been taken, and the chunk is cut by the rate as it*)
(* is by then.                                                             *)
AfterPiece(l, rate) ==
  IF rate \in 0 .. Size(l.chunk)
    THEN [Hold(l, "test", Rest(l.chunk, rate)) EXCEPT !.quota = 0]
    ELSE Panic(l)

(* Whether the cut is not the piece: bytes are skipped, or sent once more, *)
(* or the piece had bytes that are not the chunk's.                        *)
Miscuts(l, rate) ==
  l.pc = "piece" /\ (l.quota # rate \/ l.quota > Size(l.chunk))

(* A write of the first n bytes has completed.                             *)
AfterSend(l, n, attr) ==
  CASE l.pc = "flush" -> Exit(l)
    [] l.pc = "piece" -> AfterPiece(l, attr)
    [] l.pc = "send" /\ l.pipe = "slicer" -> Hold(l, "timed", Rest(l.chunk, n))
    [] l.pc = "send" /\ l.pipe = "limit_data" -> Account(l, n, attr)
    [] l.pc = "send" /\ l.pipe \notin {"slicer", "limit_data"} -> Await(l)

(* The writes made with WriteOutput(chunk, 5 seconds), which give up.      *)
HasDeadline(l) ==
  \/ l.pc = "flush" /\ l.pipe = "bandwidth"
  \/ l.pc = "send" /\ l.pipe = "pump"
=============================================================================
