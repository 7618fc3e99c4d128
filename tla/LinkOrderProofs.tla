--------------------------- MODULE LinkOrderProofs ---------------------------
(***************************************************************************)
(* What a link does with the bytes it carries, for every set of toxics,    *)
(* every bound and every interleaving: they keep their order and none is   *)
(* given twice until an update of bandwidth's rate changes a cut it makes; *)
(* none is lost until there is one of the reasons lost records; and, of    *)
(* toxics that relay what they are given, a link that is not Broken is a   *)
(* BytePipe.                                                               *)
(***************************************************************************)
EXTENDS ToxicLinkProofs

USE DEF Sink, Entry

(* The bytes of a chunk, of a channel's buffer, and all that a stub has.   *)
Bytes(c)   == c.lo + 1 .. c.hi
BytesIn(q) == UNION {Bytes(q[k]) : k \in 1 .. Len(q)}
Held(s)    == Bytes(st[s].chunk) \cup BytesIn(queue[s])

(* The bytes that have left the stubs, and the last one they were given.   *)
Arrived == Range(dest) \cup Bytes(writer.chunk)
ReadTo  == IF reader.pc = "offer" THEN reader.chunk.lo ELSE reader.taken

(* Where a goroutine stands tells whether it may have bytes.               *)
HandsOK(l) ==
  /\ l.pc \in {"off", "select", "reset"} => Bytes(l.chunk) = {}
  /\ l.pc \in {"delay", "test", "pace", "piece"} => l.pipe = "bandwidth"
  /\ l.pc = "timed" /\ l.pipe \notin {"latency", "bandwidth", "slicer"} =>
       Bytes(l.chunk) = {}

(* A stub nobody sends to: not made yet, being added, or added too late.   *)
Unused(s) ==
  \/ s >= fresh
  \/ out[s] = s
  \/ op.call = "add" /\ s = stubs[Len(stubs)]

Hands ==
  /\ \A s \in Stub :
       /\ HandsOK(st[s])
       /\ s \notin buffered => queue[s] = <<>>
       /\ Unused(s) => Held(s) = {}
  /\ IF reader.pc = "offer" THEN reader.chunk.hi = reader.taken ELSE reader.chunk = Empty
  /\ writer.pc # "write" => writer.chunk = Empty

InTurn(q) == \A k, l \in 1 .. Len(q) : k < l => Below(Bytes(q[k]), Bytes(q[l]))

(* The chunk a stub holds came out of its channel before what is in it.    *)
QueueSorted(s) ==
  /\ Below(Bytes(st[s].chunk), BytesIn(queue[s]))
  /\ InTurn(queue[s])

SortedQueues == \A s \in Stub : QueueSorted(s)

SortedEnds ==
  /\ Increasing(dest)
  /\ Below(Range(dest), Bytes(writer.chunk))
  /\ Arrived \subseteq 1 .. ReadTo

SortedStubs ==
  \A i \in 1 .. Len(stubs) :
    /\ Below(Arrived, Held(stubs[i]))
    /\ Held(stubs[i]) \subseteq 1 .. ReadTo
    /\ \A j \in 1 .. Len(stubs) : i < j => Below(Held(stubs[j]), Held(stubs[i]))

Complete ==
  lost = {} =>
    \A x \in 1 .. ReadTo : x \in Arrived \/ \E i \in 1 .. Len(stubs) : x \in Held(stubs[i])

OInv == Hands /\ SortedQueues /\ SortedEnds /\ SortedStubs /\ Complete
-----------------------------------------------------------------------------
(* What each thing that happens to a goroutine does with the bytes it has. *)

LEMMA CutBytes ==
  ASSUME NEW c \in Chunk, NEW n \in 0 .. Size(c)
  PROVE  /\ Bytes(c) = Bytes(First(c, n)) \cup Bytes(Rest(c, n))
         /\ Below(Bytes(First(c, n)), Bytes(Rest(c, n)))
         /\ n = Size(c) => Bytes(Rest(c, n)) = {}
         /\ n = 0 => Bytes(First(c, n)) = {}
<1>1. c.lo \in Nat /\ c.hi \in Nat /\ c.lo <= c.hi /\ Size(c) = c.hi - c.lo
  BY DEF Chunk, Size
<1>2. Bytes(First(c, n)) = c.lo + 1 .. c.lo + n /\ Bytes(Rest(c, n)) = c.lo + n + 1 .. c.hi
  BY <1>1 DEF Bytes, First, Rest
<1>3. Bytes(c) = Bytes(First(c, n)) \cup Bytes(Rest(c, n))
  <2>1. c.lo + n \in Nat /\ c.lo <= c.lo + n /\ c.lo + n <= c.hi
    BY <1>1
  <2>2. ASSUME NEW a \in Nat, NEW m \in Nat, NEW b \in Nat, a <= m, m <= b
        PROVE  a + 1 .. b = (a + 1 .. m) \cup (m + 1 .. b)
    BY <2>2
  <2>3. c.lo + 1 .. c.hi = (c.lo + 1 .. c.lo + n) \cup ((c.lo + n) + 1 .. c.hi)
    <3> DEFINE a == c.lo
               m == c.lo + n
               b == c.hi
    <3>1. a \in Nat /\ m \in Nat /\ b \in Nat /\ a <= m /\ m <= b
      BY <1>1, <2>1
    <3> HIDE DEF a, m, b
    <3>2. a + 1 .. b = (a + 1 .. m) \cup (m + 1 .. b)
      BY <2>2, <3>1
    <3> QED
      BY <3>2 DEF a, m, b
  <2> QED
    BY <1>2, <2>3 DEF Bytes
<1>4. Below(Bytes(First(c, n)), Bytes(Rest(c, n)))
  BY <1>1, <1>2 DEF Below
<1>5. (n = Size(c) => Bytes(Rest(c, n)) = {}) /\ (n = 0 => Bytes(First(c, n)) = {})
  BY <1>1, <1>2
<1> QED
  BY <1>3, <1>4, <1>5

LEMMA EmptyBytes ==
  /\ Bytes(Empty) = {}
  /\ \A c \in Chunk : Size(c) > 0 \/ Bytes(c) = {}
BY DEF Bytes, Empty, Chunk, Size

LEMMA AccountBytes ==
  ASSUME NEW l \in Local, NEW n, NEW b
  PROVE  /\ Account(l, n, b).chunk = Empty
         /\ Account(l, n, b).pc \in {"off", "select"}
<1> DEFINE a == [l EXCEPT !.sent = l.sent + n, !.quota = b - (l.sent + n)]
<1>1. Account(l, n, b) = IF a.quota <= 0 THEN Close(a) ELSE Await(a)
  BY DEF Account
<1>2. DOMAIN a = DOMAIN l
  OBVIOUS
<1>3. DOMAIN l = {"pc", "toxic", "pipe", "chunk", "stateful", "sent", "quota", "closed"}
  BY DEF Local
<1> HIDE DEF a
<1>4. /\ Close(a).chunk = Empty /\ Close(a).pc = "off"
      /\ Await(a).chunk = Empty /\ Await(a).pc = "select"
  BY <1>2, <1>3 DEF Close, Await
<1> QED
  BY <1>1, <1>4

LEMMA OnChunkBytes ==
  ASSUME NEW l \in Local, NEW c \in Chunk, NEW b, l.pc = "select", HandsOK(l)
  PROVE  /\ HandsOK(OnChunk(l, c, b))
         /\ Bytes(OnChunk(l, c, b).chunk) \subseteq Bytes(c)
         /\ Discards(l, c) \/ Bytes(OnChunk(l, c, b).chunk) = Bytes(c)
<1>1. l.pipe \in Kinds \cup {"pump"} /\ Bytes(l.chunk) = {}
  BY DEF Local, HandsOK
<1>2. \A p : \A d : /\ Hold(l, p, d).pc = p /\ Hold(l, p, d).chunk = d
                    /\ Hold(l, p, d).pipe = l.pipe
  BY DEF Hold, Local
<1>3. CASE l.pipe \in {"noop", "slow_close", "slicer", "pump"}
  <2>1. OnChunk(l, c, b) = Hold(l, "send", c)
    BY <1>3 DEF OnChunk
  <2> QED
    BY <1>2, <2>1 DEF HandsOK
<1>4. CASE l.pipe = "latency"
  <2>1. OnChunk(l, c, b) = Hold(l, "timed", c)
    BY <1>4 DEF OnChunk
  <2> QED
    BY <1>2, <1>4, <2>1 DEF HandsOK
<1>8. CASE l.pipe = "bandwidth"
  <2>1. OnChunk(l, c, b) = Hold(l, IF b > 0 THEN "delay" ELSE "test", c)
    BY <1>8 DEF OnChunk
  <2>2. OnChunk(l, c, b) = Hold(l, "delay", c) \/ OnChunk(l, c, b) = Hold(l, "test", c)
    BY <2>1
  <2> QED
    BY <1>2, <1>8, <2>2 DEF HandsOK
<1>5. CASE l.pipe = "timeout"
  <2>1. OnChunk(l, c, b) = l
    BY <1>5 DEF OnChunk
  <2> QED
    BY <1>1, <1>5, <2>1, EmptyBytes DEF Discards
<1>6. CASE l.pipe = "reset_peer"
  <2>1. OnChunk(l, c, b) = Hold(l, "reset", Empty)
    BY <1>6 DEF OnChunk
  <2>2. OnChunk(l, c, b).pc = "reset" /\ OnChunk(l, c, b).chunk = Empty
    BY <1>2, <2>1
  <2>3. HandsOK(OnChunk(l, c, b)) /\ Bytes(OnChunk(l, c, b).chunk) = {}
    BY <2>2, EmptyBytes DEF HandsOK
  <2>4. Discards(l, c) \/ Bytes(c) = {}
    BY <1>6, EmptyBytes DEF Discards
  <2> QED
    BY <2>3, <2>4
<1>7. CASE l.pipe = "limit_data"
  <2>1. OnChunk(l, c, b) = IF Allowed(l, c) = 0 THEN Account(l, 0, b)
                           ELSE Hold(l, "send", First(c, Allowed(l, c)))
    BY <1>7 DEF OnChunk
  <2>2. /\ Allowed(l, c) \in 0 .. Size(c) /\ Size(c) \in Nat
    BY AllowedPart, CutChunk DEF Chunk, Size
  <2>3. Discards(l, c) \/ Size(c) = 0 \/ Allowed(l, c) = Size(c)
    BY <1>7, <2>2 DEF Discards
  <2>4. Bytes(c) = Bytes(First(c, Allowed(l, c))) \cup Bytes(Rest(c, Allowed(l, c)))
    BY <2>2, CutBytes
  <2>5. CASE Allowed(l, c) = 0
    BY <2>1, <2>2, <2>3, <2>5, AccountBytes, EmptyBytes DEF HandsOK
  <2>6. CASE Allowed(l, c) # 0
    <3>1. OnChunk(l, c, b) = Hold(l, "send", First(c, Allowed(l, c)))
      BY <2>1, <2>6
    <3>2. Discards(l, c) \/ Bytes(First(c, Allowed(l, c))) = Bytes(c)
      BY <2>2, <2>3, <2>6, CutBytes
    <3> QED
      BY <1>2, <2>4, <3>1, <3>2 DEF HandsOK
  <2> QED
    BY <2>5, <2>6
<1> QED
  BY <1>1, <1>3, <1>4, <1>5, <1>6, <1>7, <1>8 DEF Kinds

(* A write takes the first bytes of the chunk, unless the rate of bandwidth*)
(* has changed while it was sending a piece.                               *)
LEMMA AfterSendBytes ==
  ASSUME NEW l \in Local, NEW b, Sending(l), ~Miscuts(l, b), NEW n \in PieceSizes(l)
  PROVE  /\ n \in 0 .. Size(l.chunk) /\ l.chunk \in Chunk
         /\ HandsOK(l) => HandsOK(AfterSend(l, n, b))
         /\ Bytes(AfterSend(l, n, b).chunk) = Bytes(Rest(l.chunk, n))
<1>1. n \in 0 .. Size(l.chunk) /\ l.chunk \in Chunk /\ Size(l.chunk) \in Nat
  <2>1. l.chunk \in Chunk /\ Size(l.chunk) \in Nat
    BY DEF Local, Chunk, Size
  <2>2. CASE l.pc = "piece"
    <3>1. n = l.quota /\ l.quota \in 0 .. Room(l.chunk) /\ ~(l.quota > Size(l.chunk))
      BY <2>2 DEF PieceSizes, Local, Miscuts
    <3> QED
      BY <2>1, <3>1 DEF Room, Chunk
  <2>3. CASE l.pc # "piece"
    BY <2>1, <2>3, PieceSizesType
  <2> QED
    BY <2>1, <2>2, <2>3
<1>2. \A p : \A d : /\ Hold(l, p, d).pc = p /\ Hold(l, p, d).chunk = d
                    /\ Hold(l, p, d).pipe = l.pipe
  BY DEF Hold, Local
<1>3. /\ Exit(l).chunk = Empty /\ Exit(l).pc = "off"
      /\ Await(l).chunk = Empty /\ Await(l).pc = "select"
  BY DEF Exit, Await, Local
<1>4. l.pc # "piece" /\ ~(l.pc = "send" /\ l.pipe = "slicer") => Bytes(Rest(l.chunk, n)) = {}
  BY <1>1, CutBytes DEF PieceSizes
<1>5. CASE l.pc = "flush"
  <2>1. AfterSend(l, n, b) = Exit(l)
    BY <1>5 DEF AfterSend
  <2> QED
    BY <1>1, <1>3, <1>4, <1>5, <2>1, EmptyBytes DEF HandsOK
<1>6. CASE l.pc = "send" /\ l.pipe = "slicer"
  <2>1. AfterSend(l, n, b) = Hold(l, "timed", Rest(l.chunk, n))
    BY <1>6 DEF AfterSend
  <2> QED
    BY <1>1, <1>2, <1>6, <2>1 DEF HandsOK
<1>7. CASE l.pc = "piece"
  <2>1. n = b
    BY <1>7 DEF PieceSizes, Miscuts
  <2>2. AfterSend(l, n, b) = [Hold(l, "test", Rest(l.chunk, n)) EXCEPT !.quota = 0]
    BY <1>1, <1>7, <2>1 DEF AfterSend, AfterPiece
  <2>3. \A d : LET h == [Hold(l, "test", d) EXCEPT !.quota = 0] IN
                 h.pc = "test" /\ h.pipe = l.pipe /\ h.chunk = d
    BY DEF Hold, Local
  <2> QED
    BY <1>1, <1>7, <2>2, <2>3 DEF HandsOK
<1>8. CASE l.pc = "send" /\ l.pipe = "limit_data"
  <2>1. AfterSend(l, n, b) = Account(l, n, b)
    BY <1>8 DEF AfterSend
  <2> QED
    BY <1>1, <1>4, <1>8, <2>1, AccountBytes, EmptyBytes DEF HandsOK
<1>9. CASE l.pc = "send" /\ l.pipe \notin {"slicer", "limit_data"}
  <2>1. AfterSend(l, n, b) = Await(l)
    BY <1>9 DEF AfterSend
  <2> QED
    BY <1>1, <1>3, <1>4, <1>9, <2>1, EmptyBytes DEF HandsOK
<1> QED
  BY <1>5, <1>6, <1>7, <1>8, <1>9 DEF Sending

LEMMA OnNilBytes ==
  ASSUME NEW l \in Local, l.pc = "select", HandsOK(l)
  PROVE  HandsOK(OnNil(l)) /\ Bytes(OnNil(l).chunk) = Bytes(l.chunk)
<1>1. \A p : \A d : /\ Hold(l, p, d).pc = p /\ Hold(l, p, d).chunk = d
                    /\ Hold(l, p, d).pipe = l.pipe
  BY DEF Hold, Local
<1>2. Close(l).chunk = Empty /\ Close(l).pc = "off"
  BY DEF Close, Local
<1>3. OnNil(l) \in {Hold(l, "timed", Empty), Hold(l, "reset", Empty), Close(l)}
  BY DEF OnNil
<1>4. OnNil(l).chunk = Empty /\ OnNil(l).pc \in {"timed", "reset", "off"}
  BY <1>1, <1>2, <1>3
<1>5. Bytes(OnNil(l).chunk) = {} /\ Bytes(l.chunk) = {}
  BY <1>4, EmptyBytes DEF HandsOK
<1> QED
  BY <1>4, <1>5 DEF HandsOK

LEMMA PacedBytes ==
  ASSUME NEW l \in Local, NEW b, l.pipe = "bandwidth"
  PROVE  HandsOK(Paced(l, b)) /\ Paced(l, b).chunk = l.chunk
<1>1. Panic(l).pc = "panic" /\ Panic(l).chunk = l.chunk
  BY DEF Panic, Local
<1>2. \A p : LET m == [l EXCEPT !.pc = p] IN m.pc = p /\ m.pipe = l.pipe /\ m.chunk = l.chunk
  BY DEF Local
<1>3. LET m == [l EXCEPT !.pc = "piece", !.quota = b] IN
        m.pc = "piece" /\ m.pipe = l.pipe /\ m.chunk = l.chunk
  BY DEF Local
<1>4. \/ Paced(l, b) = Panic(l)
      \/ \E p \in {"test", "pace", "timed", "send"} : Paced(l, b) = [l EXCEPT !.pc = p]
      \/ Paced(l, b) = [l EXCEPT !.pc = "piece", !.quota = b]
  BY DEF Paced
<1>5. /\ Paced(l, b).pc \in {"panic", "test", "pace", "timed", "send", "piece"}
      /\ Paced(l, b).chunk = l.chunk
      /\ Paced(l, b).pc # "panic" => Paced(l, b).pipe = "bandwidth"
  <2>1. CASE Paced(l, b) = Panic(l)
    BY <1>1, <2>1
  <2>2. ASSUME NEW p \in {"test", "pace", "timed", "send"}, Paced(l, b) = [l EXCEPT !.pc = p]
        PROVE  /\ Paced(l, b).pc = p /\ Paced(l, b).chunk = l.chunk
               /\ Paced(l, b).pipe = "bandwidth"
    BY <1>2, <2>2
  <2>3. CASE Paced(l, b) = [l EXCEPT !.pc = "piece", !.quota = b]
    BY <1>3, <2>3
  <2> QED
    BY <1>4, <2>1, <2>2, <2>3
<1> QED
  BY <1>5 DEF HandsOK

LEMMA OnTimerBytes ==
  ASSUME NEW l \in Local, NEW b, TimerArmed(l), HandsOK(l)
  PROVE  HandsOK(OnTimer(l, b)) /\ Bytes(OnTimer(l, b).chunk) = Bytes(l.chunk)
<1>1. /\ Close(l).chunk = Empty /\ Close(l).pc = "off"
      /\ Await(l).chunk = Empty /\ Await(l).pc = "select"
      /\ [l EXCEPT !.pc = "send"].pc = "send" /\ [l EXCEPT !.pc = "send"].chunk = l.chunk
  BY DEF Close, Await, Local
<1>2. l.chunk \in Chunk /\ Size(l.chunk) \in Int
  BY DEF Local, Chunk, Size
<1>3. CASE l.pipe = "latency" \/ (l.pipe = "slicer" /\ Size(l.chunk) > 0)
  <2>1. OnTimer(l, b) = [l EXCEPT !.pc = "send"]
    <3>1. CASE l.pipe = "latency"
      BY <3>1 DEF OnTimer
    <3>2. CASE l.pipe = "slicer" /\ Size(l.chunk) > 0
      <4>1. ~(Size(l.chunk) <= 0)
        BY <1>2, <3>2
      <4> QED
        BY <3>2, <4>1 DEF OnTimer
    <3> QED
      BY <1>3, <3>1, <3>2
  <2> QED
    BY <1>1, <2>1 DEF HandsOK
<1>4. CASE l.pipe = "slicer" /\ ~(Size(l.chunk) > 0)
  <2>1. OnTimer(l, b) = Await(l)
    BY <1>2, <1>4 DEF OnTimer
  <2> QED
    BY <1>1, <1>2, <1>4, <2>1, EmptyBytes DEF HandsOK
<1>5. CASE l.pipe \notin {"latency", "bandwidth", "slicer"}
  <2>1. OnTimer(l, b) = Close(l)
    BY <1>5 DEF OnTimer
  <2>2. Bytes(l.chunk) = {}
    BY <1>5 DEF HandsOK, TimerArmed
  <2> QED
    BY <1>1, <2>1, <2>2, EmptyBytes DEF HandsOK
<1>6. CASE l.pipe = "bandwidth"
  <2>1. OnTimer(l, b) = Paced(l, b)
    BY <1>6 DEF OnTimer
  <2> QED
    BY <1>6, <2>1, PacedBytes
<1> QED
  BY <1>3, <1>4, <1>5, <1>6

LEMMA StopBytes ==
  ASSUME NEW l \in Local, HandsOK(l)
  PROVE  /\ Interruptible(l) =>
              HandsOK(OnInterrupt(l)) /\ Bytes(OnInterrupt(l).chunk) = Bytes(l.chunk)
         /\ Bytes(l.chunk) = {} =>
              /\ HandsOK(Close(l)) /\ Bytes(Close(l).chunk) = Bytes(l.chunk)
              /\ HandsOK(Exit(l)) /\ Bytes(Exit(l).chunk) = Bytes(l.chunk)
              /\ HandsOK(Pump(l)) /\ Bytes(Pump(l).chunk) = Bytes(l.chunk)
<1>1. /\ Close(l).chunk = Empty /\ Close(l).pc = "off"
      /\ Exit(l).chunk = Empty /\ Exit(l).pc = "off"
      /\ Pump(l).chunk = Empty /\ Pump(l).pc = "select"
      /\ [l EXCEPT !.pc = "flush"].pc = "flush" /\ [l EXCEPT !.pc = "flush"].chunk = l.chunk
  BY DEF Close, Exit, Pump, Local
<1>2. ASSUME Interruptible(l)
      PROVE  HandsOK(OnInterrupt(l)) /\ Bytes(OnInterrupt(l).chunk) = Bytes(l.chunk)
  <2>1. CASE l.pc \in {"pace", "timed"} /\ l.pipe # "slow_close"
    BY <1>1, <2>1 DEF OnInterrupt, HandsOK
  <2>2. CASE ~(l.pc \in {"pace", "timed"} /\ l.pipe # "slow_close")
    <3>1. Bytes(l.chunk) = {}
      BY <1>2, <2>2 DEF Interruptible, HandsOK
    <3> QED
      BY <1>1, <2>2, <3>1, EmptyBytes DEF OnInterrupt, HandsOK
  <2> QED
    BY <2>1, <2>2
<1> QED
  BY <1>1, <1>2, EmptyBytes DEF HandsOK

LEMMA RunBytes ==
  ASSUME NEW l \in Local, NEW t \in Wrappers, NEW p \in Pipes(t), NEW b, Bytes(l.chunk) = {}
  PROVE  /\ Bytes(Run(l, t, p, b).chunk) = {} /\ HandsOK(Run(l, t, p, b))
         /\ WithState(l, t) \in Local /\ WithState(l, t).chunk = l.chunk
<1>1. Run(l, t, p, b).chunk \in {l.chunk, Empty}
  <2>1. CASE p = "limit_data" /\ ~l.stateful
    BY <2>1 DEF Run, Local
  <2>2. CASE ~(p = "limit_data" /\ ~l.stateful)
    <3> DEFINE q == IF p = "limit_data" THEN b - l.sent ELSE 0
    <3>1. Run(l, t, p, b) = [l EXCEPT !.pc = "select", !.toxic = t, !.pipe = p,
                                      !.chunk = Empty, !.quota = q]
      BY <2>2 DEF Run
    <3> HIDE DEF q
    <3> QED
      BY <3>1 DEF Local
  <2> QED
    BY <2>1, <2>2
<1>2. Run(l, t, p, b).pc \in {"select", "panic"}
  BY RunFacts
<1>3. WithState(l, t) \in Local /\ WithState(l, t).chunk = l.chunk
  BY DEF WithState, Local
<1> QED
  BY <1>1, <1>2, <1>3, EmptyBytes DEF HandsOK
-----------------------------------------------------------------------------
(* Where a goroutine that runs is on the link, and to whom it sends: to the*)
(* stub behind it, or to the writer past stubs that have nothing.          *)
LEMMA Active ==
  ASSUME IInv, WInv, Hands, NEW s \in Stub, st[s].pc # "off"
  PROVE  /\ ~Unused(s)
         /\ \E i \in 1 .. Len(stubs) :
              /\ stubs[i] = s
              /\ out[s] # Sink => /\ i + 1 \in 1 .. Len(stubs) /\ out[s] = stubs[i + 1]
                                  /\ out[s] \in Stub /\ ~Unused(out[s]) /\ out[s] # s
              /\ out[s] = Sink => \A j \in 1 .. Len(stubs) : i < j => Held(stubs[j]) = {}
<1>1. PICK m \in 1 .. Settled : WiredTo(m)
  BY DEF WInv, Frontier
<1>2. PICK i \in 1 .. Settled : stubs[i] = s
  BY DEF WInv, StubsOK, StubOK, Owns
<1>3. ~st[s].closed
  BY DEF WInv, StubsOK, StubOK
<1>4. /\ m \in Int /\ i \in Int /\ Len(stubs) \in Nat /\ Settled <= Len(stubs)
      /\ Settled \in Int /\ 1 <= i /\ m <= Settled
      /\ i \in 1 .. Len(stubs) /\ m \in 1 .. Len(stubs)
      /\ op.call = "add" => Settled < Len(stubs)
      /\ op.call # "add" => Settled = Len(stubs)
  BY <1>1, <1>2, Shape DEF Settled
<1>5. i <= m
  BY <1>1, <1>2, <1>3, <1>4 DEF WiredTo
<1>6. ASSUME NEW k \in 1 .. Settled, k <= m
      PROVE  ~Unused(stubs[k])
  <2>1. k \in 1 .. Len(stubs) /\ k \in Int /\ stubs[k] \in Stub /\ stubs[k] \in Nat
    BY <1>4, Shape
  <2>2. stubs[k] < fresh /\ fresh \in Int
    BY <2>1 DEF IInv, MovedStubsStopped, TypeOK
  <2>3. out[stubs[k]] # stubs[k]
    <3>1. CASE k = m
      BY <1>1, <2>1, <3>1, LinkAssumption DEF WiredTo, Stub
    <3>2. CASE k # m
      <4>1. out[stubs[k]] = stubs[k + 1] /\ k + 1 \in 1 .. Len(stubs) /\ k + 1 # k
        BY <1>1, <1>4, <1>6, <2>1, <3>2 DEF WiredTo
      <4> QED
        BY <2>1, <4>1, Shape
    <3> QED
      BY <3>1, <3>2
  <2>4. op.call = "add" => stubs[k] # stubs[Len(stubs)]
    <3>1. k <= Settled /\ 1 <= k
      BY <1>4, <1>6
    <3>2. op.call = "add" => k # Len(stubs) /\ Len(stubs) \in 1 .. Len(stubs)
      BY <1>4, <2>1, <3>1
    <3> QED
      BY <2>1, <3>2, Shape
  <2> QED
    BY <2>1, <2>2, <2>3, <2>4 DEF Unused
<1>7. CASE i < m
  <2>1. /\ out[s] = stubs[i + 1] /\ i + 1 \in 1 .. Settled /\ i + 1 <= m
        /\ i + 1 \in 1 .. Len(stubs) /\ i + 1 # i
    <3>1. out[s] = stubs[i + 1]
      BY <1>1, <1>2, <1>7 DEF WiredTo
    <3> QED
      BY <1>4, <1>7, <3>1
  <2>2. out[s] \in Stub /\ out[s] # s /\ out[s] # Sink
    BY <1>2, <1>4, <2>1, Shape, LinkAssumption DEF Stub
  <2> QED
    BY <1>2, <1>4, <1>5, <1>6, <2>1, <2>2
<1>8. CASE i = m
  <2>1. out[s] = Sink
    BY <1>1, <1>2, <1>8 DEF WiredTo
  <2>2. ASSUME NEW j \in 1 .. Len(stubs), i < j PROVE Held(stubs[j]) = {}
    <3>1. stubs[j] \in Stub
      BY Shape
    <3>2. Unused(stubs[j])
      <4>1. CASE j <= Settled
        <5>1. out[stubs[j]] = stubs[j]
          BY <1>1, <1>4, <1>8, <2>2, <4>1 DEF WiredTo
        <5> QED
          BY <5>1 DEF Unused
      <4>2. CASE ~(j <= Settled)
        <5>1. op.call = "add" /\ j = Len(stubs)
          BY <1>4, <4>2 DEF Settled
        <5> QED
          BY <5>1 DEF Unused
      <4> QED
        BY <4>1, <4>2
    <3> QED
      BY <3>1, <3>2 DEF Hands
  <2> QED
    BY <1>2, <1>4, <1>5, <1>6, <2>1, <2>2
<1>9. i < m \/ i = m
  BY <1>4, <1>5
<1> QED
  BY <1>7, <1>8, <1>9

(* A step that moves no byte, and may only lose some.                      *)
LEMMA QuietKeeps ==
  ASSUME IInv, OInv,
         UNCHANGED <<stubs, queue, dest>>, writer'.chunk = writer.chunk,
         ReadTo' = ReadTo, lost' = {} => lost = {},
         \A s \in Stub : /\ Bytes(st'[s].chunk) \subseteq Bytes(st[s].chunk)
                         /\ lost' = {} => Bytes(st'[s].chunk) = Bytes(st[s].chunk)
  PROVE  /\ SortedQueues' /\ SortedEnds' /\ SortedStubs' /\ Complete'
         /\ \A s \in Stub : Held(s)' \subseteq Held(s)
<1>2. /\ \A s \in Stub : Held(s)' \subseteq Held(s)
      /\ lost' = {} => \A s \in Stub : Held(s)' = Held(s)
  BY DEF Held
<1>3. Arrived' = Arrived
  BY DEF Arrived
<1>4. SortedQueues'
  BY DEF OInv, SortedQueues, QueueSorted, Below
<1>5. SortedEnds'
  BY <1>3 DEF OInv, SortedEnds
<1>6. SortedStubs'
  <2> SUFFICES ASSUME NEW i \in 1 .. Len(stubs)
               PROVE  /\ Below(Arrived, Held(stubs[i])')
                      /\ Held(stubs[i])' \subseteq 1 .. ReadTo
                      /\ \A j \in 1 .. Len(stubs) :
                           i < j => Below(Held(stubs[j])', Held(stubs[i])')
    BY <1>3 DEF SortedStubs
  <2>1. \A k \in 1 .. Len(stubs) : Held(stubs[k])' \subseteq Held(stubs[k])
    BY <1>2, Shape
  <2> QED
    BY <2>1 DEF OInv, SortedStubs, Below
<1>7. Complete'
  <2>1. lost' = {} => \A k \in 1 .. Len(stubs) : Held(stubs[k])' = Held(stubs[k])
    BY <1>2, Shape
  <2> QED
    BY <1>3, <2>1 DEF OInv, Complete
<1> QED
  BY <1>2, <1>4, <1>5, <1>6, <1>7

(* A stub hands bytes to the one behind it, its first ones.                *)
HandsOver(s, d, F) ==
  /\ F \subseteq Held(s) /\ Below(F, Held(s)')
  /\ Held(s)' \subseteq Held(s) /\ Held(s) \subseteq Held(s)' \cup F
  /\ Held(d)' \subseteq Held(d) \cup F
  /\ \A r \in Stub : r # s /\ r # d => Held(r)' = Held(r)

LEMMA HandOver ==
  ASSUME IInv, OInv, stubs' = stubs, Arrived' = Arrived, ReadTo' = ReadTo,
         NEW i \in 1 .. Len(stubs), i + 1 \in 1 .. Len(stubs),
         NEW s \in Stub, s = stubs[i], NEW d \in Stub, d = stubs[i + 1],
         NEW F, HandsOver(s, d, F),
         lost' = {} => lost = {} /\ Held(d)' = Held(d) \cup F
  PROVE  SortedStubs' /\ Complete'
<1> DEFINE n == Len(stubs)
           H(k) == Held(stubs[k])
           G(k) == Held(stubs[k])'
<1>a. n \in Nat /\ i \in Int
  BY Shape
<1>b. /\ \A k \in 1 .. n : Below(Arrived, H(k)) /\ H(k) \subseteq 1 .. ReadTo
      /\ \A k, j \in 1 .. n : k < j => Below(H(j), H(k))
      /\ lost = {} => \A x \in 1 .. ReadTo : x \in Arrived \/ \E k \in 1 .. n : x \in H(k)
  BY DEF OInv, SortedStubs, Complete
<1>c. /\ F \subseteq H(i) /\ Below(F, G(i)) /\ G(i) \subseteq H(i)
      /\ G(i + 1) \subseteq H(i + 1) \cup F
      /\ \A k \in 1 .. n : k # i /\ k # i + 1 => G(k) = H(k)
      /\ lost' = {} => /\ lost = {} /\ H(i) \subseteq G(i) \cup F
                       /\ G(i + 1) = H(i + 1) \cup F
  <2>1. \A r : \A k : r = stubs[k] => G(k) = Held(r)'
    BY DEF Held
  <2>2. \A k \in 1 .. n : k # i /\ k # i + 1 => G(k) = H(k)
    <3>1. \A k \in 1 .. n : k # i /\ k # i + 1 => stubs[k] # s /\ stubs[k] # d
      BY Shape
    <3> HIDE DEF G
    <3> QED
      BY <2>1, <3>1, Shape DEF HandsOver
  <2> HIDE DEF G
  <2> QED
    BY <2>1, <2>2 DEF HandsOver
<1>d. SortedStubs' <=>
        \A k \in 1 .. n : /\ Below(Arrived, G(k)) /\ G(k) \subseteq 1 .. ReadTo
                          /\ \A j \in 1 .. n : k < j => Below(G(j), G(k))
  BY DEF SortedStubs
<1>e. Complete' <=>
        (lost' = {} =>
           \A x \in 1 .. ReadTo : x \in Arrived \/ \E k \in 1 .. n : x \in G(k))
  BY DEF Complete
<1> HIDE DEF H, G, n
<1>1. i + 1 \in 1 .. n /\ i \in 1 .. n
  BY DEF n
<1>2. ASSUME NEW k \in 1 .. n PROVE Below(Arrived, G(k)) /\ G(k) \subseteq 1 .. ReadTo
  <2>1. CASE k = i + 1
    BY <1>b, <1>c, <1>1, <2>1 DEF Below
  <2>2. CASE k # i + 1
    BY <1>b, <1>c, <1>1, <2>2 DEF Below
  <2> QED
    BY <2>1, <2>2
<1>3. ASSUME NEW k \in 1 .. n, NEW j \in 1 .. n, k < j PROVE Below(G(j), G(k))
  <2>1. CASE j = i + 1 /\ k = i
    <3>1. Below(H(i + 1), H(i))
      BY <1>b, <1>1, <1>3, <2>1
    <3> QED
      BY <1>c, <2>1, <3>1 DEF Below
  <2>2. CASE j = i + 1 /\ k # i
    <3>1. k < i /\ k < i + 1 /\ k # i + 1
      BY <1>a, <1>3, <2>2
    <3>2. Below(H(i + 1), H(k)) /\ Below(H(i), H(k)) /\ G(k) = H(k)
      BY <1>b, <1>c, <1>1, <3>1
    <3> QED
      BY <1>c, <2>2, <3>2 DEF Below
  <2>3. CASE k = i + 1
    <3>1. j # i /\ j # i + 1 /\ i < j
      BY <1>a, <1>3, <2>3
    <3>2. Below(H(j), H(i + 1)) /\ Below(H(j), H(i)) /\ G(j) = H(j)
      BY <1>b, <1>c, <1>1, <1>3, <2>3, <3>1
    <3> QED
      BY <1>c, <2>3, <3>2 DEF Below
  <2>4. CASE j # i + 1 /\ k # i + 1
    <3>1. G(j) \subseteq H(j) /\ G(k) \subseteq H(k)
      BY <1>c, <2>4
    <3>2. Below(H(j), H(k))
      BY <1>b, <1>3
    <3> QED
      BY <3>1, <3>2 DEF Below
  <2> QED
    BY <2>1, <2>2, <2>3, <2>4
<1>4. ASSUME lost' = {}, NEW x \in 1 .. ReadTo
      PROVE  x \in Arrived \/ \E k \in 1 .. n : x \in G(k)
  <2>1. CASE x \in Arrived
    BY <2>1
  <2>2. ASSUME NEW k \in 1 .. n, x \in H(k) PROVE \E j \in 1 .. n : x \in G(j)
    <3>1. CASE k = i
      BY <1>c, <1>1, <1>4, <2>2, <3>1
    <3>2. CASE k = i + 1
      BY <1>c, <1>1, <1>4, <2>2, <3>2
    <3>3. CASE k # i /\ k # i + 1
      BY <1>c, <2>2, <3>3
    <3> QED
      BY <3>1, <3>2, <3>3
  <2> QED
    BY <1>b, <1>c, <1>4, <2>1, <2>2
<1> QED
  BY <1>d, <1>e, <1>2, <1>3, <1>4

(* Stubs have less than before, and nothing else changes for them.         *)
LEMMA Dwindle ==
  ASSUME IInv, OInv, stubs' = stubs, Arrived' = Arrived, ReadTo' = ReadTo,
         \A r \in Stub : Held(r)' \subseteq Held(r),
         lost' = {} => lost = {} /\ \A r \in Stub : Held(r)' = Held(r)
  PROVE  SortedStubs' /\ Complete'
<1> DEFINE n == Len(stubs)
           H(k) == Held(stubs[k])
           G(k) == Held(stubs[k])'
<1>1. /\ \A k \in 1 .. n : G(k) \subseteq H(k)
      /\ lost' = {} => lost = {} /\ \A k \in 1 .. n : G(k) = H(k)
  <2>1. \A r : \A k : r = stubs[k] => G(k) = Held(r)'
    BY DEF Held
  <2> HIDE DEF G
  <2> QED
    BY <2>1, Shape
<1>2. SortedStubs' <=>
        \A k \in 1 .. n : /\ Below(Arrived, G(k)) /\ G(k) \subseteq 1 .. ReadTo
                          /\ \A j \in 1 .. n : k < j => Below(G(j), G(k))
  BY DEF SortedStubs
<1>3. Complete' <=>
        (lost' = {} =>
           \A x \in 1 .. ReadTo : x \in Arrived \/ \E k \in 1 .. n : x \in G(k))
  BY DEF Complete
<1> HIDE DEF G
<1>4. SortedStubs'
  BY <1>1, <1>2 DEF OInv, SortedStubs, Below
<1>5. Complete'
  BY <1>1, <1>3 DEF OInv, Complete
<1> QED
  BY <1>4, <1>5

(* The last stub that has bytes gives up its first ones to the writer.     *)
LEMMA GiveUpFirst ==
  ASSUME IInv, OInv, stubs' = stubs, ReadTo' = ReadTo, lost \subseteq lost',
         NEW i \in 1 .. Len(stubs), NEW s \in Stub, s = stubs[i],
         \A j \in 1 .. Len(stubs) : i < j => Held(stubs[j]) = {},
         NEW F, Arrived' = Arrived \cup F, Held(s) = F \cup Held(s)', Below(F, Held(s)'),
         \A r \in Stub : r # s => Held(r)' = Held(r)
  PROVE  SortedStubs' /\ Complete'
<1> DEFINE n == Len(stubs)
           H(k) == Held(stubs[k])
           G(k) == Held(stubs[k])'
<1>a. n \in Nat /\ i \in Int /\ i \in 1 .. n
  BY Shape
<1>b. /\ \A k \in 1 .. n : Below(Arrived, H(k)) /\ H(k) \subseteq 1 .. ReadTo
      /\ \A k, j \in 1 .. n : k < j => Below(H(j), H(k))
      /\ lost = {} => \A x \in 1 .. ReadTo : x \in Arrived \/ \E k \in 1 .. n : x \in H(k)
  BY DEF OInv, SortedStubs, Complete
<1>1. /\ H(i) = F \cup G(i) /\ Below(F, G(i)) /\ \A k \in 1 .. n : k # i => G(k) = H(k)
      /\ \A j \in 1 .. n : i < j => H(j) = {}
  <2>1. \A r : \A k : r = stubs[k] => G(k) = Held(r)'
    BY DEF Held
  <2>2. \A k \in 1 .. n : k # i => stubs[k] # s /\ stubs[k] \in Stub
    BY Shape
  <2> HIDE DEF G
  <2> QED
    BY <2>1, <2>2
<1>2. SortedStubs' <=>
        \A k \in 1 .. n : /\ Below(Arrived', G(k)) /\ G(k) \subseteq 1 .. ReadTo
                          /\ \A j \in 1 .. n : k < j => Below(G(j), G(k))
  BY DEF SortedStubs
<1>3. Complete' <=>
        (lost' = {} =>
           \A x \in 1 .. ReadTo : x \in Arrived' \/ \E k \in 1 .. n : x \in G(k))
  BY DEF Complete
<1> HIDE DEF H, G, n
<1>4. \A k \in 1 .. n : G(k) \subseteq H(k)
  BY <1>1
<1>5. ASSUME NEW k \in 1 .. n PROVE Below(Arrived', G(k))
  <2>1. Below(Arrived, G(k))
    BY <1>b, <1>4 DEF Below
  <2>2. Below(F, G(k))
    <3>1. CASE k = i
      BY <1>1, <3>1
    <3>2. CASE k < i
      BY <1>a, <1>b, <1>1, <1>4, <3>2 DEF Below
    <3>3. CASE i < k
      BY <1>1, <1>4, <3>3 DEF Below
    <3> QED
      BY <1>a, <3>1, <3>2, <3>3
  <2> QED
    BY <2>1, <2>2 DEF Below
<1>6. SortedStubs'
  BY <1>b, <1>2, <1>4, <1>5 DEF Below
<1>7. Complete'
  BY <1>a, <1>b, <1>1, <1>3
<1> QED
  BY <1>6, <1>7
-----------------------------------------------------------------------------
(* The channel of a latency toxic: first in, first out.                    *)
LEMMA AppendBytes ==
  ASSUME NEW q \in Seq(Chunk), NEW c \in Chunk
  PROVE  /\ BytesIn(Append(q, c)) = BytesIn(q) \cup Bytes(c)
         /\ InTurn(q) /\ Below(BytesIn(q), Bytes(c)) => InTurn(Append(q, c))
<1> DEFINE a == Append(q, c)
<1>1. /\ Len(q) \in Nat /\ Len(a) = Len(q) + 1 /\ a[Len(q) + 1] = c
      /\ \A k \in 1 .. Len(q) : a[k] = q[k] /\ k \in 1 .. Len(a)
      /\ \A k \in 1 .. Len(a) : k \in 1 .. Len(q) \/ k = Len(q) + 1
      /\ Len(q) + 1 \in 1 .. Len(a)
  OBVIOUS
<1> HIDE DEF a
<1>2. BytesIn(a) = BytesIn(q) \cup Bytes(c)
  <2>1. ASSUME NEW x \in BytesIn(a) PROVE x \in BytesIn(q) \cup Bytes(c)
    <3>1. PICK k \in 1 .. Len(a) : x \in Bytes(a[k])
      BY <2>1 DEF BytesIn
    <3> QED
      BY <1>1, <3>1 DEF BytesIn
  <2>2. ASSUME NEW x \in BytesIn(q) PROVE x \in BytesIn(a)
    <3>1. PICK k \in 1 .. Len(q) : x \in Bytes(q[k])
      BY <2>2 DEF BytesIn
    <3> QED
      BY <1>1, <3>1 DEF BytesIn
  <2>3. Bytes(c) \subseteq BytesIn(a)
    BY <1>1 DEF BytesIn
  <2> QED
    BY <2>1, <2>2, <2>3
<1>3. ASSUME InTurn(q), Below(BytesIn(q), Bytes(c)), NEW k \in 1 .. Len(a), NEW l \in 1 .. Len(a),
             k < l
      PROVE  Below(Bytes(a[k]), Bytes(a[l]))
  <2>1. k \in 1 .. Len(q)
    BY <1>1, <1>3
  <2>2. CASE l \in 1 .. Len(q)
    BY <1>1, <1>3, <2>1, <2>2 DEF InTurn
  <2>3. CASE l = Len(q) + 1
    <3>1. Bytes(a[k]) \subseteq BytesIn(q)
      BY <1>1, <2>1 DEF BytesIn
    <3> QED
      BY <1>1, <1>3, <2>3, <3>1 DEF Below
  <2> QED
    BY <1>1, <2>2, <2>3
<1> QED
  BY <1>2, <1>3 DEF a, InTurn

LEMMA TailBytes ==
  ASSUME NEW q \in Seq(Chunk), q # <<>>
  PROVE  /\ q[1] \in Chunk
         /\ BytesIn(q) = Bytes(q[1]) \cup BytesIn(Tail(q))
         /\ InTurn(q) => Below(Bytes(q[1]), BytesIn(Tail(q))) /\ InTurn(Tail(q))
<1> DEFINE t == Tail(q)
<1>1. /\ Len(q) \in Nat /\ Len(t) = Len(q) - 1 /\ 1 \in 1 .. Len(q) /\ q[1] \in Chunk
      /\ \A k \in 1 .. Len(t) : t[k] = q[k + 1] /\ k + 1 \in 1 .. Len(q) /\ 1 < k + 1
  OBVIOUS
<1>2. \A k \in 1 .. Len(q) : k = 1 \/ (k - 1 \in 1 .. Len(t) /\ (k - 1) + 1 = k)
  BY <1>1
<1> HIDE DEF t
<1>3. BytesIn(q) = Bytes(q[1]) \cup BytesIn(t)
  <2>1. ASSUME NEW x \in BytesIn(q) PROVE x \in Bytes(q[1]) \cup BytesIn(t)
    <3>1. PICK k \in 1 .. Len(q) : x \in Bytes(q[k])
      BY <2>1 DEF BytesIn
    <3>2. CASE k = 1
      BY <3>1, <3>2
    <3>3. CASE k # 1
      <4>1. k - 1 \in 1 .. Len(t) /\ t[k - 1] = q[k]
        BY <1>1, <1>2, <3>3
      <4> QED
        BY <3>1, <4>1 DEF BytesIn
    <3> QED
      BY <3>2, <3>3
  <2>2. ASSUME NEW x \in BytesIn(t) PROVE x \in BytesIn(q)
    <3>1. PICK k \in 1 .. Len(t) : x \in Bytes(t[k])
      BY <2>2 DEF BytesIn
    <3> QED
      BY <1>1, <3>1 DEF BytesIn
  <2>3. Bytes(q[1]) \subseteq BytesIn(q)
    BY <1>1 DEF BytesIn
  <2> QED
    BY <2>1, <2>2, <2>3
<1>4. ASSUME InTurn(q) PROVE Below(Bytes(q[1]), BytesIn(t)) /\ InTurn(t)
  <2>1. \A k \in 1 .. Len(t) : Below(Bytes(q[1]), Bytes(t[k]))
    BY <1>1, <1>4 DEF InTurn
  <2>2. Below(Bytes(q[1]), BytesIn(t))
    BY <2>1 DEF Below, BytesIn
  <2>3. ASSUME NEW k \in 1 .. Len(t), NEW l \in 1 .. Len(t), k < l
        PROVE  Below(Bytes(t[k]), Bytes(t[l]))
    <3>1. k + 1 < l + 1
      BY <1>1, <2>3
    <3> QED
      BY <1>1, <1>4, <3>1 DEF InTurn
  <2> QED
    BY <2>2, <2>3 DEF InTurn
<1> QED
  BY <1>1, <1>3, <1>4 DEF t

(* A stub writes the first n bytes of its chunk.                           *)
LEMMA SendFacts ==
  ASSUME IInv, OInv, NEW s \in Stub, Sending(st[s]), "rate" \notin Miscut(s),
         NEW n \in PieceSizes(st[s])
  PROVE  /\ First(st[s].chunk, n) \in Chunk /\ HandsOK(Sent(s, n)) /\ n \in Nat
         /\ n = 0 => Bytes(First(st[s].chunk, n)) = {}
         /\ n = Size(st[s].chunk) => Bytes(Sent(s, n).chunk) = {}
         /\ Bytes(st[s].chunk) = Bytes(First(st[s].chunk, n)) \cup Bytes(Sent(s, n).chunk)
         /\ Below(Bytes(First(st[s].chunk, n)),
                  Bytes(Sent(s, n).chunk) \cup BytesIn(queue[s]))
<1>1. /\ st[s] \in Local /\ QueueSorted(s) /\ HandsOK(st[s])
      /\ ~Miscuts(st[s], AttrOf(st[s].toxic))
  BY DEF IInv, TypeOK, OInv, SortedQueues, Hands, Miscut, Because
<1>2. /\ n \in 0 .. Size(st[s].chunk) /\ st[s].chunk \in Chunk
      /\ HandsOK(Sent(s, n)) /\ Bytes(Sent(s, n).chunk) = Bytes(Rest(st[s].chunk, n))
  BY <1>1, AfterSendBytes DEF Sent
<1>3. First(st[s].chunk, n) \in Chunk /\ n \in Nat
  BY <1>2, CutChunk
<1>4. Below(Bytes(st[s].chunk), BytesIn(queue[s]))
  BY <1>1 DEF QueueSorted
<1> QED
  BY <1>2, <1>3, <1>4, CutBytes DEF Below

(* A stub that waits for a chunk takes one, and may let it drop.           *)
LEMMA TakeFacts ==
  ASSUME IInv, Hands, NEW s \in Stub, st[s].pc = "select", NEW c \in Chunk
  PROVE  /\ HandsOK(Taken(s, c)) /\ Bytes(Taken(s, c).chunk) \subseteq Bytes(c)
         /\ Bytes(st[s].chunk) = {}
         /\ Discards(st[s], c) \/ Bytes(Taken(s, c).chunk) = Bytes(c)
<1>1. st[s] \in Local /\ HandsOK(st[s])
  BY DEF IInv, TypeOK, Hands
<1> QED
  BY <1>1, OnChunkBytes DEF Taken, HandsOK
-----------------------------------------------------------------------------
(* The steps of the goroutines.                                            *)

(* While data moves the channels stay, so a stub nobody sends to stays so. *)
LEMMA FlowHands ==
  ASSUME Hands, UNCHANGED <<stubs, fresh, out, buffered, op>>,
         \A s \in Stub : /\ HandsOK(st'[s])
                         /\ s \notin buffered => queue'[s] = <<>>
                         /\ Unused(s) => Held(s)' = {},
         IF reader'.pc = "offer" THEN reader'.chunk.hi = reader'.taken
         ELSE reader'.chunk = Empty,
         writer'.pc # "write" => writer'.chunk = Empty
  PROVE  Hands'
<1>1. \A s : Unused(s)' <=> Unused(s)
  BY DEF Unused
<1> QED
  BY <1>1 DEF Hands

(* Stub s at place i hands chunk c to stub d, which waits for it.          *)
HandsToStub(s, d, c, i) ==
  /\ ~Unused(s) /\ ~Unused(d) /\ d # s
  /\ stubs[i] = s /\ i + 1 \in 1 .. Len(stubs) /\ stubs[i + 1] = d
  /\ HandsOver(s, d, Bytes(c))
  /\ st[d].pc = "select" /\ st'[d] = Taken(d, c) /\ HandsOK(st'[d])
  /\ HandsOK(st'[s]) /\ Bytes(st'[s].chunk) \subseteq Bytes(st[s].chunk)
  /\ \A r \in Stub : r # s /\ r # d => st'[r] = st[r]
  /\ BytesIn(queue[d]) = {}
  /\ Discards(st[d], c) \/ Held(d)' = Held(d) \cup Bytes(c)
  /\ lost' = {} => lost = {} /\ ~Discards(st[d], c)

LEMMA StubToStubMoves ==
  ASSUME IInv, WInv, OInv, NEW s \in Stub, StubToStub(s), "rate" \notin lost'
  PROVE  \E d \in Stub, c \in Chunk, i \in 1 .. Len(stubs) : HandsToStub(s, d, c, i)
<1>1. /\ Sending(st[s]) /\ out[s] # Sink /\ out[s] \notin buffered /\ Ready(out[s])
      /\ UNCHANGED <<stubs, fresh, out, buffered, op, queue, reader, writer, dest>>
      /\ "rate" \notin Miscut(s)
  BY DEF StubToStub, wiring, ends, api
<1>2. Hands /\ st \in [Stub -> Local] /\ st[s].pc # "off"
  BY <1>1 DEF OInv, IInv, TypeOK, Sending
<1>3. PICK d \in Stub : d = out[s] /\ ~Unused(s) /\ ~Unused(d) /\ d # s
  BY <1>1, <1>2, Active
<1>4. PICK i \in 1 .. Len(stubs) : stubs[i] = s /\ i + 1 \in 1 .. Len(stubs) /\ d = stubs[i + 1]
  BY <1>1, <1>2, <1>3, Active
<1>5. PICK n \in PieceSizes(st[s]) :
        /\ st' = [st EXCEPT ![s] = Sent(s, n), ![d] = Taken(d, First(st[s].chunk, n))]
        /\ lost' = lost \cup Miscut(s) \cup LostAt(d, First(st[s].chunk, n))
  BY <1>3 DEF StubToStub
<1>c. PICK c \in Chunk : c = First(st[s].chunk, n)
  BY <1>1, SendFacts
<1>6. st[d].pc = "select" /\ queue[d] = <<>>
  BY <1>1, <1>2, <1>3 DEF Ready, Hands
<1>7. /\ st'[s] = Sent(s, n) /\ st'[d] = Taken(d, c)
      /\ \A r \in Stub : r # s /\ r # d => st'[r] = st[r]
  BY <1>2, <1>3, <1>5, <1>c
<1>8. /\ c \in Chunk /\ HandsOK(st'[s])
      /\ Bytes(st[s].chunk) = Bytes(c) \cup Bytes(st'[s].chunk)
      /\ Below(Bytes(c), Bytes(st'[s].chunk) \cup BytesIn(queue[s]))
  BY <1>1, <1>7, <1>c, SendFacts
<1>9. /\ HandsOK(st'[d]) /\ Bytes(st'[d].chunk) \subseteq Bytes(c) /\ Bytes(st[d].chunk) = {}
      /\ Discards(st[d], c) \/ Bytes(st'[d].chunk) = Bytes(c)
      /\ lost' = {} => lost = {} /\ ~Discards(st[d], c)
  <2>1. lost' = {} => lost = {} /\ ~Discards(st[d], c)
    BY <1>5, <1>c DEF LostAt, Because
  <2>2. /\ HandsOK(Taken(d, c)) /\ Bytes(Taken(d, c).chunk) \subseteq Bytes(c)
        /\ Bytes(st[d].chunk) = {}
        /\ Discards(st[d], c) \/ Bytes(Taken(d, c).chunk) = Bytes(c)
    BY <1>2, <1>6, TakeFacts
  <2> QED
    BY <1>7, <2>1, <2>2
<1>10. BytesIn(queue[d]) = {}
  BY <1>6 DEF BytesIn
<1>11. /\ HandsOver(s, d, Bytes(c))
       /\ Discards(st[d], c) \/ Held(d)' = Held(d) \cup Bytes(c)
  <2>1. /\ Held(s) = Bytes(st[s].chunk) \cup BytesIn(queue[s]) /\ Held(d) = {}
        /\ Held(s)' = Bytes(st'[s].chunk) \cup BytesIn(queue[s])
        /\ Held(d)' = Bytes(st'[d].chunk)
        /\ \A r \in Stub : r # s /\ r # d => Held(r)' = Held(r)
    BY <1>1, <1>7, <1>9, <1>10 DEF Held
  <2> QED
    BY <1>8, <1>9, <2>1 DEF HandsOver
<1> QED
  BY <1>3, <1>4, <1>6, <1>7, <1>8, <1>9, <1>10, <1>11 DEF HandsToStub

LEMMA StubToStubKeeps ==
  ASSUME IInv, WInv, OInv, NEW s \in Stub, StubToStub(s), "rate" \notin lost'
  PROVE  OInv'
<1>1. /\ out[s] \notin buffered
      /\ UNCHANGED <<stubs, fresh, out, buffered, op, queue, reader, writer, dest>>
  BY DEF StubToStub, wiring, ends, api
<1>p. PICK d \in Stub, c \in Chunk, i \in 1 .. Len(stubs) : HandsToStub(s, d, c, i)
  BY StubToStubMoves
<1>2. /\ ~Unused(s) /\ ~Unused(d) /\ d # s
      /\ stubs[i] = s /\ i + 1 \in 1 .. Len(stubs) /\ stubs[i + 1] = d
      /\ HandsOver(s, d, Bytes(c))
      /\ HandsOK(st'[d]) /\ HandsOK(st'[s])
      /\ Bytes(st'[s].chunk) \subseteq Bytes(st[s].chunk)
      /\ \A r \in Stub : r # s /\ r # d => st'[r] = st[r]
      /\ BytesIn(queue[d]) = {}
      /\ lost' = {} => lost = {} /\ Held(d)' = Held(d) \cup Bytes(c)
  BY <1>p DEF HandsToStub
<1>3. Arrived' = Arrived /\ ReadTo' = ReadTo
  BY <1>1 DEF Arrived, ReadTo
<1>4. SortedStubs' /\ Complete'
  BY <1>1, <1>2, <1>3, HandOver, ZenonT(60)
<1>5. SortedEnds'
  BY <1>1, <1>3 DEF OInv, SortedEnds
<1>6. SortedQueues'
  <2>1. ASSUME NEW r \in Stub PROVE QueueSorted(r)'
    <3>1. QueueSorted(r)
      BY DEF OInv, SortedQueues
    <3>2. CASE r = d
      BY <1>1, <1>2, <3>1, <3>2 DEF QueueSorted, Below
    <3>3. CASE r # d
      <4>1. Bytes(st'[r].chunk) \subseteq Bytes(st[r].chunk)
        BY <1>2, <3>3
      <4> QED
        BY <1>1, <3>1, <4>1 DEF QueueSorted, Below
    <3> QED
      BY <3>2, <3>3
  <2> QED
    BY <2>1 DEF SortedQueues
<1>7. Hands'
  <2>1. \A r \in Stub : /\ HandsOK(st'[r]) /\ (r \notin buffered => queue'[r] = <<>>)
                        /\ Unused(r) => Held(r)' = {}
    BY <1>1, <1>2 DEF OInv, Hands, HandsOver
  <2> QED
    BY <1>1, <2>1, FlowHands DEF OInv, Hands
<1> QED
  BY <1>4, <1>5, <1>6, <1>7 DEF OInv

(* Stub s at place i puts chunk c in the channel of stub d.                *)
HandsToBuffer(s, d, c, i) ==
  /\ d = out[s] /\ d \in buffered /\ ~Unused(s) /\ ~Unused(d) /\ d # s
  /\ stubs[i] = s /\ i + 1 \in 1 .. Len(stubs) /\ stubs[i + 1] = d
  /\ HandsOver(s, d, Bytes(c)) /\ Held(d)' = Held(d) \cup Bytes(c)
  /\ HandsOK(st'[s]) /\ Bytes(st'[s].chunk) \subseteq Bytes(st[s].chunk)
  /\ \A r \in Stub : r # s => st'[r] = st[r]
  /\ \A r \in Stub : r # d => queue'[r] = queue[r]
  /\ BytesIn(queue'[d]) = BytesIn(queue[d]) \cup Bytes(c)
  /\ InTurn(queue[d]) /\ Below(BytesIn(queue[d]), Bytes(c)) => InTurn(queue'[d])

LEMMA StubToBufferMoves ==
  ASSUME IInv, WInv, OInv, NEW s \in Stub, StubToBuffer(s), "rate" \notin lost'
  PROVE  \E d \in Stub, c \in Chunk, i \in 1 .. Len(stubs) : HandsToBuffer(s, d, c, i)
<1>1. /\ Sending(st[s]) /\ out[s] \in buffered /\ "rate" \notin Miscut(s)
      /\ UNCHANGED <<stubs, fresh, out, buffered, op, reader, writer, dest>>
  BY DEF StubToBuffer, wiring, ends, api
<1>2. /\ Hands /\ st \in [Stub -> Local] /\ queue \in [Stub -> Seq(Chunk)] /\ st[s].pc # "off"
      /\ out[s] # Sink
  BY <1>1, LinkAssumption DEF OInv, IInv, TypeOK, Sending, Stub
<1>3. PICK d \in Stub : d = out[s] /\ ~Unused(s) /\ ~Unused(d) /\ d # s
  BY <1>2, Active
<1>4. PICK i \in 1 .. Len(stubs) : stubs[i] = s /\ i + 1 \in 1 .. Len(stubs) /\ d = stubs[i + 1]
  BY <1>2, <1>3, Active
<1>5. PICK n \in PieceSizes(st[s]) :
        /\ queue' = [queue EXCEPT ![d] = Append(@, First(st[s].chunk, n))]
        /\ st' = [st EXCEPT ![s] = Sent(s, n)]
  BY <1>3 DEF StubToBuffer
<1>c. PICK c \in Chunk : c = First(st[s].chunk, n)
  BY <1>1, SendFacts
<1>6. /\ st'[s] = Sent(s, n) /\ \A r \in Stub : r # s => st'[r] = st[r]
      /\ queue'[d] = Append(queue[d], c) /\ \A r \in Stub : r # d => queue'[r] = queue[r]
  BY <1>2, <1>3, <1>5, <1>c
<1>7. /\ c \in Chunk /\ HandsOK(st'[s])
      /\ Bytes(st[s].chunk) = Bytes(c) \cup Bytes(st'[s].chunk)
      /\ Below(Bytes(c), Bytes(st'[s].chunk) \cup BytesIn(queue[s]))
  BY <1>1, <1>6, <1>c, SendFacts
<1>8. /\ queue[d] \in Seq(Chunk) /\ BytesIn(queue'[d]) = BytesIn(queue[d]) \cup Bytes(c)
      /\ InTurn(queue[d]) /\ Below(BytesIn(queue[d]), Bytes(c)) => InTurn(queue'[d])
  BY <1>2, <1>3, <1>6, <1>7, AppendBytes
<1>9. HandsOver(s, d, Bytes(c)) /\ Held(d)' = Held(d) \cup Bytes(c)
  <2>1. /\ Held(s) = Bytes(st[s].chunk) \cup BytesIn(queue[s])
        /\ Held(s)' = Bytes(st'[s].chunk) \cup BytesIn(queue[s])
        /\ Held(d) = Bytes(st[d].chunk) \cup BytesIn(queue[d])
        /\ Held(d)' = Bytes(st[d].chunk) \cup BytesIn(queue'[d])
        /\ \A r \in Stub : r # s /\ r # d => Held(r)' = Held(r)
    BY <1>3, <1>6 DEF Held
  <2> QED
    BY <1>7, <1>8, <2>1 DEF HandsOver
<1> QED
  BY <1>1, <1>3, <1>4, <1>6, <1>7, <1>8, <1>9 DEF HandsToBuffer

LEMMA StubToBufferKeeps ==
  ASSUME IInv, WInv, OInv, NEW s \in Stub, StubToBuffer(s), "rate" \notin lost'
  PROVE  OInv'
<1>1. UNCHANGED <<stubs, fresh, out, buffered, op, reader, writer, dest>> /\ lost \subseteq lost'
  BY DEF StubToBuffer, wiring, ends, api
<1>p. PICK d \in Stub, c \in Chunk, i \in 1 .. Len(stubs) : HandsToBuffer(s, d, c, i)
  BY StubToBufferMoves
<1>2. /\ d \in buffered /\ ~Unused(s) /\ ~Unused(d) /\ d # s
      /\ stubs[i] = s /\ i + 1 \in 1 .. Len(stubs) /\ stubs[i + 1] = d
      /\ HandsOver(s, d, Bytes(c)) /\ Held(d)' = Held(d) \cup Bytes(c)
      /\ HandsOK(st'[s]) /\ Bytes(st'[s].chunk) \subseteq Bytes(st[s].chunk)
      /\ \A r \in Stub : r # s => st'[r] = st[r]
      /\ \A r \in Stub : r # d => queue'[r] = queue[r]
      /\ BytesIn(queue'[d]) = BytesIn(queue[d]) \cup Bytes(c)
      /\ InTurn(queue[d]) /\ Below(BytesIn(queue[d]), Bytes(c)) => InTurn(queue'[d])
  BY <1>p DEF HandsToBuffer
<1>3. Arrived' = Arrived /\ ReadTo' = ReadTo
  BY <1>1 DEF Arrived, ReadTo
<1>4. SortedStubs' /\ Complete'
  BY <1>1, <1>2, <1>3, HandOver, ZenonT(60)
<1>5. SortedEnds'
  BY <1>1, <1>3 DEF OInv, SortedEnds
<1>6. SortedQueues'
  <2>1. ASSUME NEW r \in Stub PROVE QueueSorted(r)'
    <3>1. QueueSorted(r)
      BY DEF OInv, SortedQueues
    <3>2. CASE r = d
      <4>1. Below(Held(d), Held(s))
        <5>1. i \in Int /\ i < i + 1
          OBVIOUS
        <5> QED
          BY <1>2, <5>1 DEF OInv, SortedStubs
      <4>2. Below(BytesIn(queue[d]), Bytes(c)) /\ Below(Bytes(st[d].chunk), Bytes(c))
        BY <1>2, <4>1 DEF Below, Held, HandsOver
      <4>3. st'[d].chunk = st[d].chunk
        BY <1>2
      <4> QED
        BY <1>2, <3>1, <3>2, <4>2, <4>3 DEF QueueSorted, Below
    <3>3. CASE r # d
      <4>1. Bytes(st'[r].chunk) \subseteq Bytes(st[r].chunk) /\ queue'[r] = queue[r]
        BY <1>2, <3>3
      <4> QED
        BY <3>1, <4>1 DEF QueueSorted, Below
    <3> QED
      BY <3>2, <3>3
  <2> QED
    BY <2>1 DEF SortedQueues
<1>7. Hands'
  <2>1. \A r \in Stub : /\ HandsOK(st'[r]) /\ (r \notin buffered => queue'[r] = <<>>)
                        /\ Unused(r) => Held(r)' = {}
    BY <1>1, <1>2 DEF OInv, Hands, HandsOver
  <2> QED
    BY <1>1, <2>1, FlowHands DEF OInv, Hands
<1> QED
  BY <1>4, <1>5, <1>6, <1>7 DEF OInv

(* A latency toxic takes the first chunk out of its channel.               *)
(* Stub s takes chunk c, the first one in its channel.                     *)
TakesFromBuffer(s, c) ==
  /\ st[s].pc = "select" /\ st'[s] = Taken(s, c) /\ HandsOK(st'[s])
  /\ \A r \in Stub : r # s => st'[r] = st[r] /\ queue'[r] = queue[r] /\ Held(r)' = Held(r)
  /\ Below(Bytes(st'[s].chunk), BytesIn(queue'[s])) /\ InTurn(queue'[s])
  /\ queue'[s] = Tail(queue[s]) /\ queue[s] # <<>>
  /\ Held(s)' \subseteq Held(s) /\ (Discards(st[s], c) \/ Held(s)' = Held(s))
  /\ lost' = {} => lost = {} /\ ~Discards(st[s], c)

LEMMA BufferToStubMoves ==
  ASSUME IInv, WInv, OInv, NEW s \in Stub, BufferToStub(s)
  PROVE  \E c \in Chunk : TakesFromBuffer(s, c)
<1>1. /\ st[s].pc = "select" /\ queue[s] # <<>>
      /\ UNCHANGED <<stubs, fresh, out, buffered, op, reader, writer, dest>>
  BY DEF BufferToStub, wiring, ends, api
<1>2. Hands /\ st \in [Stub -> Local] /\ queue \in [Stub -> Seq(Chunk)]
  BY DEF OInv, IInv, TypeOK
<1>c. PICK c \in Chunk : c = queue[s][1]
  BY <1>1, <1>2, TailBytes
<1>3. /\ st'[s] = Taken(s, c) /\ \A r \in Stub : r # s => st'[r] = st[r]
      /\ queue'[s] = Tail(queue[s]) /\ \A r \in Stub : r # s => queue'[r] = queue[r]
      /\ lost' = {} => lost = {} /\ ~Discards(st[s], c)
  BY <1>2, <1>c DEF BufferToStub, LostAt, Because
<1>4. /\ HandsOK(st'[s]) /\ Bytes(st'[s].chunk) \subseteq Bytes(c) /\ Bytes(st[s].chunk) = {}
      /\ Discards(st[s], c) \/ Bytes(st'[s].chunk) = Bytes(c)
  <2>1. /\ HandsOK(Taken(s, c)) /\ Bytes(Taken(s, c).chunk) \subseteq Bytes(c)
        /\ Bytes(st[s].chunk) = {}
        /\ Discards(st[s], c) \/ Bytes(Taken(s, c).chunk) = Bytes(c)
    BY <1>1, <1>2, TakeFacts
  <2> QED
    BY <1>3, <2>1
<1>5. QueueSorted(s)
  BY DEF OInv, SortedQueues
<1>6. /\ BytesIn(queue[s]) = Bytes(c) \cup BytesIn(queue'[s])
      /\ Below(Bytes(c), BytesIn(queue'[s])) /\ InTurn(queue'[s])
  BY <1>1, <1>2, <1>3, <1>5, <1>c, TailBytes DEF QueueSorted
<1>7. /\ \A r \in Stub : r # s => Held(r)' = Held(r)
      /\ Held(s)' \subseteq Held(s) /\ (Discards(st[s], c) \/ Held(s)' = Held(s))
  <2>1. \A r \in Stub : r # s => Held(r)' = Held(r)
    BY <1>3 DEF Held
  <2>2. Held(s) = Bytes(c) \cup BytesIn(queue'[s])
        /\ Held(s)' = Bytes(st'[s].chunk) \cup BytesIn(queue'[s])
    BY <1>4, <1>6 DEF Held
  <2> QED
    BY <1>4, <2>1, <2>2
<1>8. Below(Bytes(st'[s].chunk), BytesIn(queue'[s]))
  BY <1>4, <1>6 DEF Below
<1> QED
  BY <1>1, <1>3, <1>4, <1>6, <1>7, <1>8 DEF TakesFromBuffer

LEMMA BufferToStubKeeps ==
  ASSUME IInv, WInv, OInv, NEW s \in Stub, BufferToStub(s)
  PROVE  OInv'
<1>1. UNCHANGED <<stubs, fresh, out, buffered, op, reader, writer, dest>>
  BY DEF BufferToStub, wiring, ends, api
<1>p. PICK c \in Chunk : TakesFromBuffer(s, c)
  BY BufferToStubMoves
<1>2. /\ HandsOK(st'[s]) /\ Held(s)' \subseteq Held(s)
      /\ \A r \in Stub : r # s => st'[r] = st[r] /\ queue'[r] = queue[r] /\ Held(r)' = Held(r)
      /\ Below(Bytes(st'[s].chunk), BytesIn(queue'[s])) /\ InTurn(queue'[s])
      /\ queue'[s] = Tail(queue[s]) /\ queue[s] # <<>>
      /\ lost' = {} => lost = {} /\ Held(s)' = Held(s)
  BY <1>p DEF TakesFromBuffer
<1>3. /\ \A r \in Stub : Held(r)' \subseteq Held(r)
      /\ lost' = {} => lost = {} /\ \A r \in Stub : Held(r)' = Held(r)
  BY <1>2
<1>4. Arrived' = Arrived /\ ReadTo' = ReadTo
  BY <1>1 DEF Arrived, ReadTo
<1>5. SortedStubs' /\ Complete'
  BY <1>1, <1>3, <1>4, Dwindle
<1>6. SortedEnds'
  BY <1>1, <1>4 DEF OInv, SortedEnds
<1>7. SortedQueues'
  BY <1>2 DEF OInv, SortedQueues, QueueSorted
<1>8. Hands'
  <2>1. \A r \in Stub : /\ HandsOK(st'[r])
                        /\ Unused(r) => Held(r)' = {}
    BY <1>2, <1>3 DEF OInv, Hands
  <2>2. \A r \in Stub : r \notin buffered => queue'[r] = <<>>
    BY <1>1, <1>2 DEF OInv, Hands
  <2> QED
    BY <1>1, <2>1, <2>2, FlowHands DEF OInv, Hands
<1> QED
  BY <1>5, <1>6, <1>7, <1>8 DEF OInv

(* The last stub gives bytes to the writer, its first ones.                *)
(* Stub s at place i gives chunk c to the writer, which waits for it.      *)
GivesToWriter(s, c, i) ==
  /\ stubs[i] = s /\ \A j \in 1 .. Len(stubs) : i < j => Held(stubs[j]) = {}
  /\ Held(s) = Bytes(c) \cup Held(s)' /\ Below(Bytes(c), Held(s)')
  /\ \A r \in Stub : r # s => Held(r)' = Held(r) /\ st'[r] = st[r]
  /\ HandsOK(st'[s]) /\ Bytes(st'[s].chunk) \subseteq Bytes(st[s].chunk)
  /\ Arrived' = Arrived \cup Bytes(c) /\ Arrived = Range(dest)
  /\ Bytes(writer'.chunk) = Bytes(c) /\ (writer'.pc # "write" => writer'.chunk = Empty)

LEMMA StubToWriterMoves ==
  ASSUME IInv, WInv, OInv, NEW s \in Stub, StubToWriter(s), "rate" \notin lost'
  PROVE  \E c \in Chunk, i \in 1 .. Len(stubs) : GivesToWriter(s, c, i)
<1>1. /\ Sending(st[s]) /\ out[s] = Sink /\ writer.pc = "read" /\ "rate" \notin Miscut(s)
      /\ UNCHANGED <<stubs, fresh, out, buffered, op, queue, reader, dest>>
  BY DEF StubToWriter, wiring, api, Ready
<1>2. /\ Hands /\ st \in [Stub -> Local] /\ st[s].pc # "off" /\ Bytes(writer.chunk) = {}
  BY <1>1, EmptyBytes DEF OInv, IInv, TypeOK, Sending, Hands
<1>3. PICK i \in 1 .. Len(stubs) : /\ stubs[i] = s
                                   /\ \A j \in 1 .. Len(stubs) : i < j => Held(stubs[j]) = {}
  BY <1>1, <1>2, Active, ZenonT(60)
<1>4. PICK n \in PieceSizes(st[s]) :
        /\ writer' = IF n = 0 THEN writer
                     ELSE [pc |-> "write", chunk |-> First(st[s].chunk, n)]
        /\ st' = [st EXCEPT ![s] = Sent(s, n)]
  BY DEF StubToWriter
<1>5. PICK c \in Chunk : c = First(st[s].chunk, n)
  BY <1>1, SendFacts
<1>6. st'[s] = Sent(s, n) /\ \A r \in Stub : r # s => st'[r] = st[r]
  BY <1>2, <1>4
<1>7. /\ HandsOK(st'[s])
      /\ Bytes(st[s].chunk) = Bytes(c) \cup Bytes(st'[s].chunk)
      /\ Below(Bytes(c), Bytes(st'[s].chunk) \cup BytesIn(queue[s]))
      /\ n = 0 => Bytes(c) = {}
  BY <1>1, <1>5, <1>6, SendFacts
<1>8. Bytes(writer'.chunk) = Bytes(c) /\ (writer'.pc # "write" => writer'.chunk = Empty)
  <2>1. CASE n = 0
    BY <1>1, <1>2, <1>4, <1>7, <2>1 DEF Hands
  <2>2. CASE n # 0
    BY <1>4, <1>5, <2>2
  <2> QED
    BY <2>1, <2>2
<1>9. /\ Held(s) = Bytes(c) \cup Held(s)' /\ Below(Bytes(c), Held(s)')
      /\ \A r \in Stub : r # s => Held(r)' = Held(r)
  <2>1. /\ Held(s) = Bytes(st[s].chunk) \cup BytesIn(queue[s])
        /\ Held(s)' = Bytes(st'[s].chunk) \cup BytesIn(queue[s])
        /\ \A r \in Stub : r # s => Held(r)' = Held(r)
    BY <1>1, <1>6 DEF Held
  <2> QED
    BY <1>7, <2>1
<1>10. Arrived' = Arrived \cup Bytes(c) /\ ReadTo' = ReadTo /\ Arrived = Range(dest)
  BY <1>1, <1>2, <1>8 DEF Arrived, ReadTo
<1> QED
  BY <1>3, <1>6, <1>7, <1>8, <1>9, <1>10 DEF GivesToWriter

LEMMA StubToWriterKeeps ==
  ASSUME IInv, WInv, OInv, NEW s \in Stub, StubToWriter(s), "rate" \notin lost'
  PROVE  OInv'
<1>1. UNCHANGED <<stubs, fresh, out, buffered, op, queue, reader, dest>> /\ lost \subseteq lost'
  BY DEF StubToWriter, wiring, api
<1>p. PICK c \in Chunk, i \in 1 .. Len(stubs) : GivesToWriter(s, c, i)
  BY StubToWriterMoves
<1>2. /\ stubs[i] = s /\ \A j \in 1 .. Len(stubs) : i < j => Held(stubs[j]) = {}
      /\ Held(s) = Bytes(c) \cup Held(s)' /\ Below(Bytes(c), Held(s)')
      /\ \A r \in Stub : r # s => Held(r)' = Held(r) /\ st'[r] = st[r]
      /\ HandsOK(st'[s]) /\ Bytes(st'[s].chunk) \subseteq Bytes(st[s].chunk)
      /\ Arrived' = Arrived \cup Bytes(c) /\ Arrived = Range(dest)
      /\ Bytes(writer'.chunk) = Bytes(c) /\ (writer'.pc # "write" => writer'.chunk = Empty)
  BY <1>p DEF GivesToWriter
<1>3. ReadTo' = ReadTo
  BY <1>1 DEF ReadTo
<1>4. SortedEnds'
  <2>1. Below(Arrived, Held(s)) /\ Held(s) \subseteq 1 .. ReadTo
    BY <1>2 DEF OInv, SortedStubs
  <2> QED
    BY <1>1, <1>2, <1>3, <2>1 DEF OInv, SortedEnds, Below
<1>5. SortedStubs' /\ Complete'
  BY <1>1, <1>2, <1>3, GiveUpFirst
<1>6. SortedQueues'
  <2>1. ASSUME NEW r \in Stub PROVE QueueSorted(r)'
    <3>1. Bytes(st'[r].chunk) \subseteq Bytes(st[r].chunk)
      BY <1>2
    <3> QED
      BY <1>1, <3>1 DEF OInv, SortedQueues, QueueSorted, Below
  <2> QED
    BY <2>1 DEF SortedQueues
<1>7. Hands'
  <2>1. \A r \in Stub : /\ HandsOK(st'[r]) /\ (r \notin buffered => queue'[r] = <<>>)
                        /\ Unused(r) => Held(r)' = {}
    BY <1>1, <1>2 DEF OInv, Hands
  <2> QED
    BY <1>1, <1>2, <2>1, FlowHands DEF OInv, Hands
<1> QED
  BY <1>4, <1>5, <1>6, <1>7 DEF OInv

(* The first stub gets what the reader has read.                           *)
(* The reader hands chunk c, the next there is, to the first stub, e.      *)
ReaderHands(e, c) ==
  /\ e = stubs[1] /\ e = Entry /\ 1 \in 1 .. Len(stubs) /\ queue[e] = <<>>
  /\ st[e].pc = "select" /\ st'[e] = Taken(e, c) /\ HandsOK(st'[e])
  /\ \A r \in Stub : r # e => st'[r] = st[r] /\ Held(r)' = Held(r)
  /\ Held(e) = {} /\ Held(e)' \subseteq Bytes(c)
  /\ Discards(st[e], c) \/ Held(e)' = Bytes(c)
  /\ lost' = {} => lost = {} /\ ~Discards(st[e], c)
  /\ Bytes(c) = ReadTo + 1 .. ReadTo'
  /\ ReadTo \in Nat /\ ReadTo' \in Nat /\ ReadTo <= ReadTo'

LEMMA ReaderToStubMoves ==
  ASSUME IInv, WInv, OInv, ReaderToStub
  PROVE  \E e \in Stub, c \in Chunk : ReaderHands(e, c)
<1>1. /\ reader.pc = "offer" /\ Ready(Entry) /\ lost' = lost \cup LostAt(Entry, reader.chunk)
      /\ reader' = [reader EXCEPT !.pc = "read", !.chunk = Empty]
      /\ st' = [st EXCEPT ![Entry] = Taken(Entry, reader.chunk)]
      /\ UNCHANGED <<stubs, fresh, out, buffered, op, queue, writer, dest>>
  BY DEF ReaderToStub, wiring, api
<1>2. /\ Hands /\ st \in [Stub -> Local] /\ reader.chunk \in Chunk /\ reader.taken \in Nat
      /\ reader' = [pc |-> "read", chunk |-> Empty, taken |-> reader.taken]
  BY <1>1 DEF OInv, IInv, TypeOK
<1>3. PICK c \in Chunk : c = reader.chunk
  BY <1>2
<1>4. PICK e \in Stub : e = Entry
  BY LinkAssumption DEF Stub
<1>5. /\ e = stubs[1] /\ 1 \in 1 .. Len(stubs) /\ e \notin buffered
      /\ st[e].pc = "select" /\ queue[e] = <<>>
  <2>1. stubs[1] = Entry
    BY DEF WInv, Frontier
  <2>2. 1 \in 1 .. Len(stubs)
    <3>1. \E m \in 1 .. Settled : TRUE
      BY DEF WInv, Frontier
    <3> QED
      BY <3>1, Shape
  <2>3. e \notin buffered
    BY <1>4 DEF IInv, MovedStubsStopped
  <2>4. st[e].pc = "select"
    BY <1>1, <1>4, <2>3 DEF Ready
  <2> QED
    BY <1>2, <1>4, <2>1, <2>2, <2>3, <2>4 DEF Hands
<1>6. /\ st'[e] = Taken(e, c) /\ \A r \in Stub : r # e => st'[r] = st[r]
      /\ lost' = {} => lost = {} /\ ~Discards(st[e], c)
  BY <1>1, <1>2, <1>3, <1>4 DEF LostAt, Because
<1>7. /\ HandsOK(st'[e]) /\ Bytes(st'[e].chunk) \subseteq Bytes(c) /\ Bytes(st[e].chunk) = {}
      /\ Discards(st[e], c) \/ Bytes(st'[e].chunk) = Bytes(c)
  <2>1. /\ HandsOK(Taken(e, c)) /\ Bytes(Taken(e, c).chunk) \subseteq Bytes(c)
        /\ Bytes(st[e].chunk) = {}
        /\ Discards(st[e], c) \/ Bytes(Taken(e, c).chunk) = Bytes(c)
    BY <1>2, <1>5, TakeFacts
  <2> QED
    BY <1>6, <2>1
<1>8. /\ ReadTo = c.lo /\ ReadTo' = c.hi /\ Bytes(c) = ReadTo + 1 .. ReadTo'
      /\ ReadTo \in Nat /\ ReadTo' \in Nat /\ ReadTo <= ReadTo'
  <2>1. c.lo \in Nat /\ c.hi \in Nat /\ c.lo <= c.hi /\ c.hi = reader.taken
    BY <1>1, <1>2, <1>3 DEF Chunk, Hands
  <2> QED
    BY <1>1, <1>2, <1>3, <2>1 DEF ReadTo, Bytes
<1>9. Arrived' = Arrived /\ BytesIn(queue[e]) = {}
  BY <1>1, <1>5 DEF Arrived, BytesIn
<1>10. /\ Held(e) = {} /\ Held(e)' \subseteq Bytes(c)
       /\ \A r \in Stub : r # e => Held(r)' = Held(r)
       /\ Discards(st[e], c) \/ Held(e)' = Bytes(c)
  BY <1>1, <1>6, <1>7, <1>9 DEF Held
<1> QED
  BY <1>4, <1>5, <1>6, <1>7, <1>8, <1>10 DEF ReaderHands

LEMMA ReaderToStubKeeps ==
  ASSUME IInv, WInv, OInv, ReaderToStub
  PROVE  OInv'
<1>1. /\ UNCHANGED <<stubs, fresh, out, buffered, op, queue, writer, dest>>
      /\ reader'.pc = "read" /\ reader'.chunk = Empty
  BY DEF ReaderToStub, wiring, api, IInv, TypeOK
<1>p. PICK e \in Stub, c \in Chunk : ReaderHands(e, c)
  BY ReaderToStubMoves
<1>5. /\ e = stubs[1] /\ 1 \in 1 .. Len(stubs) /\ st[e].pc = "select" /\ queue[e] = <<>>
  BY <1>p DEF ReaderHands
<1>6. /\ \A r \in Stub : r # e => st'[r] = st[r]
      /\ HandsOK(st'[e])
  BY <1>p DEF ReaderHands
<1>8. /\ Bytes(c) = ReadTo + 1 .. ReadTo'
      /\ ReadTo \in Nat /\ ReadTo' \in Nat /\ ReadTo <= ReadTo'
  BY <1>p DEF ReaderHands
<1>9. Arrived' = Arrived /\ BytesIn(queue[e]) = {}
  BY <1>1, <1>5 DEF Arrived, BytesIn
<1>10. /\ Held(e) = {} /\ Held(e)' \subseteq Bytes(c)
       /\ \A r \in Stub : r # e => Held(r)' = Held(r)
       /\ lost' = {} => lost = {} /\ Held(e)' = Bytes(c)
  BY <1>p DEF ReaderHands
<1>11. SortedStubs' /\ Complete'
  <2> DEFINE n == Len(stubs)
             H(k) == Held(stubs[k])
             G(k) == Held(stubs[k])'
  <2>1. /\ G(1) \subseteq Bytes(c) /\ \A k \in 1 .. n : k # 1 => G(k) = H(k)
        /\ H(1) = {}
        /\ lost' = {} => lost = {} /\ G(1) = Bytes(c)
    <3>1. \A r : \A k : r = stubs[k] => G(k) = Held(r)'
      BY <1>1 DEF Held
    <3>2. \A k \in 1 .. n : k # 1 => stubs[k] # e /\ stubs[k] \in Stub
      BY <1>5, Shape
    <3> HIDE DEF G
    <3> QED
      BY <1>5, <1>10, <3>1, <3>2
  <2>2. SortedStubs' <=>
          \A k \in 1 .. n : /\ Below(Arrived, G(k)) /\ G(k) \subseteq 1 .. ReadTo'
                            /\ \A j \in 1 .. n : k < j => Below(G(j), G(k))
    BY <1>1, <1>9 DEF SortedStubs
  <2>3. Complete' <=>
          (lost' = {} =>
             \A x \in 1 .. ReadTo' : x \in Arrived \/ \E k \in 1 .. n : x \in G(k))
    BY <1>1, <1>9 DEF Complete
  <2>4. /\ \A k \in 1 .. n : Below(Arrived, H(k)) /\ H(k) \subseteq 1 .. ReadTo
        /\ \A k, j \in 1 .. n : k < j => Below(H(j), H(k))
        /\ lost = {} => \A x \in 1 .. ReadTo : x \in Arrived \/ \E k \in 1 .. n : x \in H(k)
        /\ Arrived \subseteq 1 .. ReadTo
    BY DEF OInv, SortedStubs, SortedEnds, Complete
  <2>5. n \in Nat /\ 1 \in 1 .. n
    BY <1>5, Shape
  <2> HIDE DEF H, G, n
  <2>6. ASSUME NEW k \in 1 .. n PROVE Below(Arrived, G(k)) /\ G(k) \subseteq 1 .. ReadTo'
    <3>1. CASE k = 1
      BY <1>8, <2>1, <2>4, <3>1 DEF Below
    <3>2. CASE k # 1
      BY <1>8, <2>1, <2>4, <3>2
    <3> QED
      BY <3>1, <3>2
  <2>7. ASSUME NEW k \in 1 .. n, NEW j \in 1 .. n, k < j PROVE Below(G(j), G(k))
    <3>1. j # 1
      BY <2>7
    <3>2. G(j) = H(j) /\ H(j) \subseteq 1 .. ReadTo
      BY <2>1, <2>4, <3>1
    <3>3. CASE k = 1
      BY <1>8, <2>1, <3>2, <3>3 DEF Below
    <3>4. CASE k # 1
      BY <2>1, <2>4, <2>7, <3>2, <3>4
    <3> QED
      BY <3>3, <3>4
  <2>8. ASSUME lost' = {}, NEW x \in 1 .. ReadTo'
        PROVE  x \in Arrived \/ \E k \in 1 .. n : x \in G(k)
    <3>1. CASE x <= ReadTo
      <4>1. x \in 1 .. ReadTo
        BY <1>8, <3>1
      <4>2. x \in Arrived \/ \E k \in 1 .. n : x \in H(k)
        BY <2>1, <2>4, <2>8, <4>1
      <4> QED
        BY <2>1, <4>2
    <3>2. CASE ~(x <= ReadTo)
      <4>1. x \in Bytes(c)
        BY <1>8, <3>2
      <4> QED
        BY <2>1, <2>5, <2>8, <4>1
    <3> QED
      BY <3>1, <3>2
  <2> QED
    BY <2>2, <2>3, <2>6, <2>7, <2>8
<1>12. SortedEnds'
  <2>1. Arrived \subseteq 1 .. ReadTo'
    BY <1>8 DEF OInv, SortedEnds
  <2> QED
    BY <1>1, <1>9, <2>1 DEF OInv, SortedEnds
<1>13. SortedQueues'
  <2>1. ASSUME NEW r \in Stub PROVE QueueSorted(r)'
    <3>1. CASE r = e
      BY <1>1, <1>5, <1>9, <3>1 DEF OInv, SortedQueues, QueueSorted, Below
    <3>2. CASE r # e
      BY <1>1, <1>6, <3>2 DEF OInv, SortedQueues, QueueSorted
    <3> QED
      BY <3>1, <3>2
  <2> QED
    BY <2>1 DEF SortedQueues
<1>14. Hands'
  <2>1. ~Unused(e)
    BY <1>5, Active DEF OInv
  <2>2. \A r \in Stub : /\ HandsOK(st'[r]) /\ (r \notin buffered => queue'[r] = <<>>)
                        /\ Unused(r) => Held(r)' = {}
    BY <1>1, <1>6, <1>10, <2>1 DEF OInv, Hands
  <2> QED
    BY <1>1, <2>2, FlowHands DEF OInv, Hands
<1> QED
  BY <1>11, <1>12, <1>13, <1>14 DEF OInv

(* A goroutine meets the end of its input, its timer or its deadline.      *)
LEMMA StubAloneKeeps ==
  ASSUME IInv, WInv, OInv, NEW s \in Stub, StubEof(s) \/ StubTimer(s) \/ StubDeadline(s)
  PROVE  OInv' /\ \A r \in Stub : Held(r)' \subseteq Held(r)
<1>1. UNCHANGED <<stubs, fresh, out, buffered, op, queue, reader, writer, dest>>
  BY DEF StubEof, StubTimer, StubDeadline, wiring, ends, api
<1>2. /\ Hands /\ st \in [Stub -> Local] /\ HandsOK(st[s]) /\ st[s] \in Local
  BY DEF OInv, IInv, TypeOK, Hands
<1>3. /\ HandsOK(st'[s]) /\ Bytes(st'[s].chunk) \subseteq Bytes(st[s].chunk)
      /\ lost' = {} => lost = {} /\ Bytes(st'[s].chunk) = Bytes(st[s].chunk)
  <2>1. CASE StubEof(s)
    <3>1. st'[s] = OnNil(st[s]) /\ lost' = lost /\ st[s].pc = "select"
      BY <1>2, <2>1 DEF StubEof
    <3> QED
      BY <1>2, <3>1, OnNilBytes
  <2>2. CASE StubTimer(s)
    <3>1. st'[s] = OnTimer(st[s], AttrOf(st[s].toxic)) /\ lost' = lost /\ TimerArmed(st[s])
      BY <1>2, <2>2 DEF StubTimer
    <3> QED
      BY <1>2, <3>1, OnTimerBytes
  <2>3. CASE StubDeadline(s)
    <3>1. /\ st'[s] = Sent(s, Size(st[s].chunk)) /\ HasDeadline(st[s])
          /\ lost' = {} => lost = {} /\ ~(Size(st[s].chunk) > 0)
      BY <1>2, <2>3 DEF StubDeadline, Because
    <3>2. /\ Sending(st[s]) /\ Size(st[s].chunk) \in PieceSizes(st[s])
          /\ "rate" \notin Miscut(s)
      BY <3>1 DEF HasDeadline, Sending, PieceSizes, Miscut, Miscuts, Because
    <3>3. HandsOK(st'[s]) /\ Bytes(st'[s].chunk) = {}
      BY <3>1, <3>2, SendFacts
    <3>4. ~(Size(st[s].chunk) > 0) => Bytes(st[s].chunk) = {}
      BY <1>2, EmptyBytes DEF Local
    <3> QED
      BY <3>1, <3>3, <3>4
  <2> QED
    BY <2>1, <2>2, <2>3
<1>4. \A r \in Stub : r # s => st'[r] = st[r]
  BY <1>2 DEF StubEof, StubTimer, StubDeadline
<1>5. /\ SortedQueues' /\ SortedEnds' /\ SortedStubs' /\ Complete'
      /\ \A r \in Stub : Held(r)' \subseteq Held(r)
  <2>1. ReadTo' = ReadTo
    BY <1>1 DEF ReadTo
  <2>2. \A r \in Stub : /\ Bytes(st'[r].chunk) \subseteq Bytes(st[r].chunk)
                        /\ lost' = {} => Bytes(st'[r].chunk) = Bytes(st[r].chunk)
    BY <1>3, <1>4
  <2> QED
    BY <1>1, <1>3, <2>1, <2>2, QuietKeeps
<1>6. Hands'
  <2>1. \A r \in Stub : /\ HandsOK(st'[r]) /\ (r \notin buffered => queue'[r] = <<>>)
                        /\ Unused(r) => Held(r)' = {}
    BY <1>1, <1>2, <1>3, <1>4, <1>5 DEF Hands
  <2> QED
    BY <1>1, <1>2, <2>1, FlowHands DEF Hands
<1> QED
  BY <1>5, <1>6 DEF OInv
-----------------------------------------------------------------------------
(* The two ends.                                                           *)

LEMMA OffsetsFacts ==
  ASSUME NEW c \in Chunk
  PROVE  /\ Offsets(c) \in Seq(Nat) /\ Increasing(Offsets(c)) /\ Range(Offsets(c)) = Bytes(c)
<1>1. c.lo \in Nat /\ c.hi \in Nat /\ Size(c) \in Nat /\ Size(c) = c.hi - c.lo
  BY DEF Chunk, Size
<1>2. /\ Offsets(c) \in Seq(Nat) /\ Len(Offsets(c)) = Size(c)
      /\ \A i \in 1 .. Size(c) : Offsets(c)[i] = c.lo + i
      /\ DOMAIN Offsets(c) = 1 .. Size(c)
  BY <1>1 DEF Offsets
<1>3. Increasing(Offsets(c))
  BY <1>1, <1>2 DEF Increasing
<1>4. ASSUME NEW x \in Bytes(c) PROVE x \in Range(Offsets(c))
  <2>1. x - c.lo \in 1 .. Size(c) /\ c.lo + (x - c.lo) = x
    BY <1>1 DEF Bytes
  <2> QED
    BY <1>2, <2>1 DEF Range
<1>5. ASSUME NEW i \in 1 .. Size(c) PROVE Offsets(c)[i] \in Bytes(c)
  BY <1>1, <1>2 DEF Bytes
<1> QED
  BY <1>2, <1>3, <1>4, <1>5 DEF Range

LEMMA EndsKeeps ==
  ASSUME IInv, WInv, OInv, Ends
  PROVE  OInv'
<1>1. UNCHANGED <<stubs, fresh, out, buffered, op, queue, st>>
  BY DEF Ends, ReadSource, SourceEof, WriteDest, WriteFail, WriterEof, CloseDest, RemoveLink,
         wiring, api
<1>2. /\ Hands /\ writer.chunk \in Chunk /\ dest \in Seq(Nat) /\ reader.taken \in Nat
      /\ reader \in [pc : {"read", "offer", "done"}, chunk : Chunk, taken : Nat]
      /\ writer \in [pc : {"read", "write", "close", "unlink", "done"}, chunk : Chunk]
  BY DEF OInv, IInv, TypeOK
<1>3. /\ ReadTo' = ReadTo
      /\ IF reader'.pc = "offer" THEN reader'.chunk.hi = reader'.taken
         ELSE reader'.chunk = Empty
  <2>1. CASE ReadSource
    <3>1. PICK n \in 1 .. MaxChunk :
            reader' = [pc |-> "offer", taken |-> reader.taken + n,
                       chunk |-> [lo |-> reader.taken, hi |-> reader.taken + n,
                                  cap |-> reader.taken + n]]
      BY <2>1 DEF ReadSource
    <3>2. reader.pc = "read"
      BY <2>1 DEF ReadSource
    <3> QED
      BY <3>1, <3>2 DEF ReadTo
  <2>2. CASE SourceEof
    <3>1. reader' = [reader EXCEPT !.pc = "done"] /\ reader.pc = "read"
      BY <2>2 DEF SourceEof
    <3> QED
      BY <1>2, <3>1 DEF ReadTo, Hands
  <2>3. CASE WriteDest \/ WriteFail \/ WriterEof \/ CloseDest \/ RemoveLink
    <3>1. reader' = reader
      BY <2>3 DEF WriteDest, WriteFail, WriterEof, CloseDest, RemoveLink
    <3> QED
      BY <1>2, <3>1 DEF ReadTo, Hands
  <2> QED
    BY <2>1, <2>2, <2>3 DEF Ends
<1>4. writer'.pc # "write" => writer'.chunk = Empty
  <2>1. CASE WriteDest \/ WriteFail
    BY <2>1 DEF WriteDest, WriteFail
  <2>2. CASE ReadSource \/ SourceEof
    BY <1>2, <2>2 DEF ReadSource, SourceEof, Hands
  <2>3. CASE WriterEof \/ CloseDest \/ RemoveLink
    <3>1. writer.pc # "write" /\ writer'.chunk = writer.chunk
      BY <1>2, <2>3 DEF WriterEof, CloseDest, RemoveLink
    <3> QED
      BY <1>2, <3>1 DEF Hands
  <2> QED
    BY <2>1, <2>2, <2>3 DEF Ends
<1>5. Hands'
  <2>1. \A r \in Stub : Held(r)' = Held(r)
    BY <1>1 DEF Held
  <2>2. \A r \in Stub : /\ HandsOK(st'[r]) /\ (r \notin buffered => queue'[r] = <<>>)
                        /\ Unused(r) => Held(r)' = {}
    BY <1>1, <1>2, <2>1 DEF Hands
  <2> QED
    BY <1>1, <1>2, <1>3, <1>4, <2>2, FlowHands
<1>6. /\ Increasing(dest') /\ Below(Range(dest'), Bytes(writer'.chunk))
      /\ Arrived' \subseteq Arrived /\ (lost' = {} => lost = {} /\ Arrived' = Arrived)
  <2>1. CASE WriteDest
    <3>1. /\ dest' = dest \o Offsets(writer.chunk) /\ writer'.chunk = Empty /\ lost' = lost
      BY <2>1 DEF WriteDest, Offsets
    <3>2. /\ Offsets(writer.chunk) \in Seq(Nat) /\ Increasing(Offsets(writer.chunk))
          /\ Range(Offsets(writer.chunk)) = Bytes(writer.chunk)
      BY <1>2, OffsetsFacts
    <3>3. Increasing(dest) /\ Below(Range(dest), Bytes(writer.chunk))
      BY DEF OInv, SortedEnds
    <3>4. Increasing(dest') /\ Range(dest') = Range(dest) \cup Bytes(writer.chunk)
      BY <1>2, <3>1, <3>2, <3>3, IncreasingConcat, RangeConcat
    <3>5. Bytes(writer'.chunk) = {}
      BY <3>1, EmptyBytes
    <3> QED
      BY <3>1, <3>4, <3>5 DEF Arrived, Below
  <2>2. CASE WriteFail
    <3>1. dest' = dest /\ writer'.chunk = Empty /\ lost' # {}
      BY <2>2 DEF WriteFail
    <3>2. Bytes(writer'.chunk) = {}
      BY <3>1, EmptyBytes
    <3> QED
      BY <3>1, <3>2 DEF Arrived, Below, OInv, SortedEnds
  <2>3. CASE ReadSource \/ SourceEof \/ WriterEof \/ CloseDest \/ RemoveLink
    <3>1. dest' = dest /\ writer'.chunk = writer.chunk /\ lost' = lost
      BY <1>2, <2>3 DEF ReadSource, SourceEof, WriterEof, CloseDest, RemoveLink
    <3> QED
      BY <3>1 DEF Arrived, OInv, SortedEnds
  <2> QED
    BY <2>1, <2>2, <2>3 DEF Ends
<1>7. SortedEnds'
  BY <1>3, <1>6 DEF OInv, SortedEnds
<1>8. SortedQueues'
  BY <1>1 DEF OInv, SortedQueues, QueueSorted
<1>9. SortedStubs'
  <2>1. \A k \in 1 .. Len(stubs) : Held(stubs[k])' = Held(stubs[k])
    BY <1>1 DEF Held
  <2> QED
    BY <1>1, <1>3, <1>6, <2>1 DEF OInv, SortedStubs, Below
<1>10. Complete'
  <2>1. \A k \in 1 .. Len(stubs) : Held(stubs[k])' = Held(stubs[k])
    BY <1>1 DEF Held
  <2> QED
    BY <1>1, <1>3, <1>6, <2>1 DEF OInv, Complete
<1> QED
  BY <1>5, <1>7, <1>8, <1>9, <1>10 DEF OInv
-----------------------------------------------------------------------------
(* The steps of the API calls move no byte.                                *)

(* A call that leaves link.stubs alone, and that makes no stub one that    *)
(* nobody sends to unless it has nothing.                                  *)
LEMMA CallKeeps ==
  ASSUME IInv, OInv, UNCHANGED <<stubs, queue, reader, writer, dest>>, lost \subseteq lost',
         buffered \subseteq buffered',
         \A s \in Stub : HandsOK(st'[s]) /\ Bytes(st'[s].chunk) = Bytes(st[s].chunk),
         \A s \in Stub : Unused(s)' => Unused(s) \/ Held(s) = {}
  PROVE  OInv' /\ \A r \in Stub : Held(r)' = Held(r)
<1>1. ReadTo' = ReadTo
  BY DEF ReadTo
<1>2. SortedQueues' /\ SortedEnds' /\ SortedStubs' /\ Complete'
  BY <1>1, QuietKeeps
<1>3. \A s \in Stub : Held(s)' = Held(s)
  BY DEF Held
<1>4. Hands'
  BY <1>3 DEF OInv, Hands
<1> QED
  BY <1>2, <1>3, <1>4 DEF OInv

(* A call that puts a stub on the link or takes one off, which has nothing.*)
(* The stubs that have bytes are on it before and after, in the same order.*)
LEMMA RelistKeeps ==
  ASSUME IInv, OInv, UNCHANGED <<queue, reader, writer, dest>>, lost \subseteq lost',
         buffered \subseteq buffered',
         \A s \in Stub : HandsOK(st'[s]) /\ Bytes(st'[s].chunk) = Bytes(st[s].chunk),
         \A s \in Stub : Unused(s)' => Unused(s) \/ Held(s) = {},
         NEW t \in Seq(Stub), stubs' = t,
         \A k \in 1 .. Len(t) :
            Held(t[k]) = {} \/ \E i \in 1 .. Len(stubs) : t[k] = stubs[i],
         \A k, j \in 1 .. Len(t) : k < j =>
            \/ Held(t[k]) = {} \/ Held(t[j]) = {}
            \/ \E a, b \in 1 .. Len(stubs) : a < b /\ t[k] = stubs[a] /\ t[j] = stubs[b],
         \A i \in 1 .. Len(stubs) :
            Held(stubs[i]) = {} \/ \E k \in 1 .. Len(t) : t[k] = stubs[i]
  PROVE  OInv' /\ \A r \in Stub : Held(r)' = Held(r)
<1>1. \A s \in Stub : Held(s)' = Held(s)
  BY DEF Held
<1>2. ReadTo' = ReadTo /\ Arrived' = Arrived
  BY DEF ReadTo, Arrived
<1>3. Hands'
  BY <1>1 DEF OInv, Hands
<1>4. SortedQueues'
  BY DEF OInv, SortedQueues, QueueSorted, Below
<1>5. SortedEnds'
  BY <1>2 DEF OInv, SortedEnds
<1> DEFINE H(k) == Held(stubs[k])
           G(k) == Held(stubs[k])'
           n == Len(t)
<1>6. \A k \in 1 .. n : G(k) = Held(t[k])
  <2>1. \A r : \A k : r = t[k] => G(k) = Held(r)'
    BY DEF Held
  <2>2. \A k \in 1 .. n : t[k] \in Stub
    OBVIOUS
  <2> HIDE DEF G
  <2> QED
    BY <1>1, <2>1, <2>2
<1>7. SortedStubs' <=>
        \A k \in 1 .. n : /\ Below(Arrived, G(k)) /\ G(k) \subseteq 1 .. ReadTo
                          /\ \A j \in 1 .. n : k < j => Below(G(j), G(k))
  BY <1>2 DEF SortedStubs
<1>8. Complete' <=>
        (lost' = {} => \A x \in 1 .. ReadTo : x \in Arrived \/ \E k \in 1 .. n : x \in G(k))
  BY <1>2 DEF Complete
<1>9. /\ \A k \in 1 .. Len(stubs) : Below(Arrived, H(k)) /\ H(k) \subseteq 1 .. ReadTo
      /\ \A k, j \in 1 .. Len(stubs) : k < j => Below(H(j), H(k))
      /\ lost = {} => \A x \in 1 .. ReadTo :
                        x \in Arrived \/ \E k \in 1 .. Len(stubs) : x \in H(k)
  BY DEF OInv, SortedStubs, Complete
<1>10. \A k \in 1 .. n : G(k) = {} \/ \E i \in 1 .. Len(stubs) : G(k) = H(i)
  <2> HIDE DEF G
  <2> SUFFICES ASSUME NEW k \in 1 .. n, Held(t[k]) # {}
               PROVE  \E i \in 1 .. Len(stubs) : G(k) = H(i)
    BY <1>6
  <2>1. PICK i \in 1 .. Len(stubs) : t[k] = stubs[i]
    OBVIOUS
  <2>2. G(k) = H(i)
    BY <1>6, <2>1
  <2> QED
    BY <2>2
<1>11. \A i \in 1 .. Len(stubs) : H(i) = {} \/ \E k \in 1 .. n : G(k) = H(i)
  <2> HIDE DEF G
  <2> QED
    BY <1>6
<1>12. \A k, j \in 1 .. n : k < j =>
         \/ G(k) = {} \/ G(j) = {}
         \/ \E a, b \in 1 .. Len(stubs) : a < b /\ G(k) = H(a) /\ G(j) = H(b)
  <2> HIDE DEF G
  <2> SUFFICES ASSUME NEW k \in 1 .. n, NEW j \in 1 .. n, k < j, G(k) # {}, G(j) # {}
               PROVE  \E a, b \in 1 .. Len(stubs) : a < b /\ G(k) = H(a) /\ G(j) = H(b)
    OBVIOUS
  <2>1. G(k) = Held(t[k]) /\ G(j) = Held(t[j])
    BY <1>6
  <2>2. PICK a, b \in 1 .. Len(stubs) : a < b /\ t[k] = stubs[a] /\ t[j] = stubs[b]
    BY <2>1
  <2>3. G(k) = H(a) /\ G(j) = H(b)
    BY <2>1, <2>2
  <2> QED
    BY <2>2, <2>3
<1> HIDE DEF H, G, n
<1>13. ASSUME NEW k \in 1 .. n, NEW j \in 1 .. n, k < j PROVE Below(G(j), G(k))
  <2>1. CASE G(k) = {} \/ G(j) = {}
    BY <2>1 DEF Below
  <2>2. CASE G(k) # {} /\ G(j) # {}
    BY <1>9, <1>12, <1>13, <2>2
  <2> QED
    BY <2>1, <2>2
<1>14. ASSUME NEW k \in 1 .. n PROVE Below(Arrived, G(k)) /\ G(k) \subseteq 1 .. ReadTo
  BY <1>9, <1>10 DEF Below
<1>15. SortedStubs'
  BY <1>7, <1>13, <1>14
<1>16. Complete'
  BY <1>8, <1>9, <1>11
<1> QED
  BY <1>1, <1>3, <1>4, <1>5, <1>15, <1>16 DEF OInv

(* An update or a removal begins, or a body is rejected.                   *)
LEMMA BeginInPlaceKeeps ==
  ASSUME IInv, WInv, OInv, NEW t \in Toxics,
         UpdateToxicBegin(t) \/ RemoveToxicBegin(t) \/ UpdateToxicRejected(t)
  PROVE  OInv' /\ \A r \in Stub : Held(r)' = Held(r)
<1>1. /\ UNCHANGED <<stubs, fresh, out, buffered, queue, st, reader, writer, dest, lost>>
      /\ op'.call # "add" \/ op' = op
  BY DEF UpdateToxicBegin, RemoveToxicBegin, UpdateToxicRejected, Call, wiring, ends, api
<1>2. \A s \in Stub : Unused(s)' => Unused(s)
  BY <1>1 DEF Unused
<1>3. \A s \in Stub : HandsOK(st[s])
  BY DEF OInv, Hands
<1> QED
  BY <1>1, <1>2, <1>3, CallKeeps

(* AddToxic puts a new stub behind the last; nobody sends to it yet.       *)
LEMMA AddBeginKeeps ==
  ASSUME IInv, WInv, OInv, NEW t \in Toxics, AddToxicBegin(t)
  PROVE  OInv' /\ \A r \in Stub : Held(r)' = Held(r)
<1>1. /\ UNCHANGED <<queue, st, reader, writer, dest, lost>> /\ fresh \in Stub
      /\ buffered \subseteq buffered' /\ stubs' = Append(stubs, fresh) /\ fresh' = fresh + 1
      /\ out' = [out EXCEPT ![fresh] = out[Last(stubs)]] /\ op = Idle
  BY DEF AddToxicBegin, ends
<1>2. /\ stubs \in Seq(Stub) /\ fresh \in Int /\ Len(stubs) \in Nat
      /\ out \in [Stub -> Stub \cup {Sink}] /\ Stub \subseteq Int
  BY DEF IInv, TypeOK, Stub
<1>3. PICK u \in Seq(Stub) : u = Append(stubs, fresh)
  BY <1>1, <1>2
<1>4. /\ Len(u) = Len(stubs) + 1 /\ u[Len(stubs) + 1] = fresh
      /\ \A k \in 1 .. Len(stubs) : u[k] = stubs[k] /\ k \in 1 .. Len(u)
      /\ \A k \in 1 .. Len(u) : k \in 1 .. Len(stubs) \/ k = Len(stubs) + 1
  BY <1>1, <1>2, <1>3
<1>5. Unused(fresh) /\ Held(fresh) = {}
  BY <1>1, <1>2 DEF Unused, OInv, Hands
<1>6. \A s \in Stub : Unused(s)' => Unused(s) \/ Held(s) = {}
  <2> SUFFICES ASSUME NEW s \in Stub, Unused(s)' PROVE Unused(s) \/ Held(s) = {}
    OBVIOUS
  <2>1. CASE s = fresh
    BY <1>5, <2>1
  <2>2. CASE s # fresh
    <3>1. stubs'[Len(stubs')] = fresh
      BY <1>1, <1>3, <1>4
    <3>2. s >= fresh + 1 => s >= fresh
      BY <1>2
    <3>3. out'[s] = out[s]
      BY <1>1, <1>2, <2>2
    <3> QED
      BY <1>1, <2>2, <3>1, <3>2, <3>3 DEF Unused
  <2> QED
    BY <2>1, <2>2
<1>7. \A s \in Stub : HandsOK(st[s])
  BY DEF OInv, Hands
<1>8. \A k \in 1 .. Len(u) : Held(u[k]) = {} \/ \E i \in 1 .. Len(stubs) : u[k] = stubs[i]
  BY <1>4, <1>5
<1>9. \A k, j \in 1 .. Len(u) : k < j =>
        \/ Held(u[k]) = {} \/ Held(u[j]) = {}
        \/ \E a, b \in 1 .. Len(stubs) : a < b /\ u[k] = stubs[a] /\ u[j] = stubs[b]
  BY <1>4, <1>5
<1>11. \A i \in 1 .. Len(stubs) :
         Held(stubs[i]) = {} \/ \E k \in 1 .. Len(u) : u[k] = stubs[i]
  BY <1>4
<1>12. stubs' = u /\ UNCHANGED <<queue, reader, writer, dest, lost>>
  BY <1>1, <1>3
<1>13. \A s \in Stub : HandsOK(st'[s]) /\ Bytes(st'[s].chunk) = Bytes(st[s].chunk)
  BY <1>1, <1>7
<1> QED
  BY <1>1, <1>6, <1>8, <1>9, <1>11, <1>12, <1>13, RelistKeeps

(* A stub takes an interrupt: it returns at once if it has nothing, and    *)
(* writes out what it has if not.                                          *)
LEMMA InterruptKeeps ==
  ASSUME IInv, WInv, OInv, Interrupt \/ HelperInterrupt
  PROVE  OInv' /\ \A r \in Stub : Held(r)' = Held(r)
<1>1. /\ UNCHANGED <<stubs, fresh, out, buffered, queue, reader, writer, dest, lost>>
      /\ op'.call = op.call /\ Alive
  BY DEF Interrupt, HelperInterrupt, wiring, ends, IInv, TypeOK
<1>2. st \in [Stub -> Local] /\ \A r \in Stub : HandsOK(st[r])
  BY DEF IInv, TypeOK, OInv, Hands
<1>3. \E s \in Stub : Interruptible(st[s]) /\ st' = [st EXCEPT ![s] = OnInterrupt(@)]
  <2>1. CASE Interrupt
    BY <1>1, <2>1, CallFacts DEF Interrupt
  <2>2. CASE HelperInterrupt
    <3>1. helper # "none"
      BY <2>2 DEF HelperInterrupt
    <3> QED
      BY <1>1, <2>2, <3>1, CallFacts DEF HelperInterrupt
  <2> QED
    BY <2>1, <2>2
<1>4. PICK s \in Stub : Interruptible(st[s]) /\ st' = [st EXCEPT ![s] = OnInterrupt(@)]
  BY <1>3
<1>5. /\ st'[s] = OnInterrupt(st[s]) /\ \A r \in Stub : r # s => st'[r] = st[r]
  BY <1>2, <1>4
<1>6. HandsOK(st'[s]) /\ Bytes(st'[s].chunk) = Bytes(st[s].chunk)
  BY <1>2, <1>4, <1>5, StopBytes
<1>7. \A r \in Stub : HandsOK(st'[r]) /\ Bytes(st'[r].chunk) = Bytes(st[r].chunk)
  BY <1>2, <1>5, <1>6
<1>8. \A r \in Stub : Unused(r)' => Unused(r) \/ Held(r) = {}
  BY <1>1 DEF Unused
<1> QED
  BY <1>1, <1>7, <1>8, CallKeeps

(* The helper has its answer, or the call meets the end of the stream.     *)
LEMMA ReturnKeeps ==
  ASSUME IInv, WInv, OInv, HelperReturns \/ RemoveClosed
  PROVE  OInv' /\ \A r \in Stub : Held(r)' = Held(r)
<1>1. /\ UNCHANGED <<stubs, fresh, out, buffered, queue, st, reader, writer, dest, lost>>
      /\ op'.call # "add" \/ op' = op
  BY DEF HelperReturns, RemoveClosed, Idle, wiring, ends
<1>2. \A s \in Stub : Unused(s)' => Unused(s) \/ Held(s) = {}
  BY <1>1 DEF Unused
<1>3. \A s \in Stub : HandsOK(st'[s]) /\ Bytes(st'[s].chunk) = Bytes(st[s].chunk)
  BY <1>1 DEF OInv, Hands
<1> QED
  BY <1>1, <1>2, <1>3, CallKeeps

(* A stub that has stopped holds no chunk: it starts again, closes, or is  *)
(* pumped.                                                                 *)
LEMMA StartAgainKeeps ==
  ASSUME IInv, WInv, OInv, UpdateDone \/ RemoveCleanup \/ RemovePump
  PROVE  OInv' /\ \A r \in Stub : Held(r)' = Held(r)
<1>1. /\ UNCHANGED <<stubs, fresh, out, buffered, queue, reader, writer, dest>>
      /\ lost \subseteq lost'
      /\ op'.call # "add" /\ Alive /\ st[Target].pc = "off" /\ op.phase # "none"
  <2>1. /\ UNCHANGED <<stubs, fresh, out, buffered, queue, reader, writer, dest>>
        /\ lost \subseteq lost' /\ Alive /\ Stopped
    BY DEF UpdateDone, RemoveCleanup, RemovePump, wiring, ends
  <2>2. CASE op' = Idle
    BY <2>1, <2>2 DEF Stopped, Idle
  <2>3. CASE RemovePump
    BY <2>1, <2>3 DEF RemovePump, Stopped, IInv, TypeOK
  <2> QED
    BY <2>1, <2>2, <2>3 DEF UpdateDone, RemoveCleanup
<1>2. /\ st \in [Stub -> Local] /\ \A r \in Stub : HandsOK(st[r])
      /\ op.toxic \in Wrappers
  BY DEF IInv, TypeOK, OInv, Hands
<1>3. PICK s \in Stub : s = Target
  BY <1>1, CallFacts
<1>4. st[s] \in Local /\ Bytes(st[s].chunk) = {} /\ HandsOK(st[s])
  BY <1>1, <1>2, <1>3 DEF HandsOK
<1>5. /\ HandsOK(st'[s]) /\ Bytes(st'[s].chunk) = {}
      /\ \A r \in Stub : r # s => st'[r] = st[r]
  <2>1. CASE UpdateDone
    <3>1. PICK p \in Pipes(op.toxic) :
            st' = [st EXCEPT ![s] = Run(st[s], op.toxic, p, AttrOf(op.toxic))]
      BY <1>2, <1>3, <2>1 DEF UpdateDone, Restart
    <3>2. /\ Bytes(Run(st[s], op.toxic, p, AttrOf(op.toxic)).chunk) = {}
          /\ HandsOK(Run(st[s], op.toxic, p, AttrOf(op.toxic)))
      BY <1>2, <1>4, RunBytes
    <3> QED
      BY <1>2, <3>1, <3>2
  <2>2. CASE RemoveCleanup
    <3>1. st' = [st EXCEPT ![s] = Close(st[s])]
      BY <1>2, <1>3, <2>2 DEF RemoveCleanup
    <3> QED
      BY <1>2, <1>4, <3>1, StopBytes
  <2>3. CASE RemovePump
    <3>1. st' = [st EXCEPT ![s] = Pump(st[s])]
      BY <1>2, <1>3, <2>3 DEF RemovePump
    <3> QED
      BY <1>2, <1>4, <3>1, StopBytes
  <2> QED
    BY <2>1, <2>2, <2>3
<1>6. \A r \in Stub : HandsOK(st'[r]) /\ Bytes(st'[r].chunk) = Bytes(st[r].chunk)
  BY <1>2, <1>4, <1>5
<1>7. \A r \in Stub : Unused(r)' => Unused(r) \/ Held(r) = {}
  BY <1>1 DEF Unused
<1> QED
  BY <1>1, <1>6, <1>7, CallKeeps

(* AddToxic finds the last stub closed and closes the one it has made.     *)
LEMMA AddTooLateKeeps ==
  ASSUME IInv, WInv, OInv, InterruptClosed
  PROVE  OInv' /\ \A r \in Stub : Held(r)' = Held(r)
<1>1. /\ UNCHANGED <<stubs, fresh, buffered, queue, reader, writer, dest, lost>>
      /\ op'.call # "add" /\ Alive
  BY DEF InterruptClosed, Idle, ends
<1>2. /\ st \in [Stub -> Local] /\ \A r \in Stub : HandsOK(st[r])
      /\ out \in [Stub -> Stub \cup {Sink}]
  BY DEF IInv, TypeOK, OInv, Hands
<1>3. CASE op.call # "add"
  <2>1. UNCHANGED <<out, st>>
    BY <1>3 DEF InterruptClosed
  <2>2. \A s \in Stub : Unused(s)' => Unused(s) \/ Held(s) = {}
    BY <1>1, <2>1 DEF Unused
  <2>3. \A s \in Stub : HandsOK(st'[s]) /\ Bytes(st'[s].chunk) = Bytes(st[s].chunk)
    BY <1>2, <2>1
  <2> QED
    BY <1>1, <2>2, <2>3, CallKeeps
<1>4. CASE op.call = "add"
  <2>1. PICK s \in Stub : s = Last(stubs) /\ s = stubs[Len(stubs)]
    BY <1>1, <1>4, CallFacts
  <2>2. out' = [out EXCEPT ![s] = s] /\ st' = [st EXCEPT ![s] = Close(st[s])]
    BY <1>2, <1>4, <2>1 DEF InterruptClosed
  <2>3. Held(s) = {} /\ Bytes(st[s].chunk) = {}
    BY <1>4, <2>1 DEF Unused, OInv, Hands, Held
  <2>4. HandsOK(Close(st[s])) /\ Bytes(Close(st[s]).chunk) = {}
    BY <1>2, <2>3, StopBytes
  <2>5. \A r \in Stub : HandsOK(st'[r]) /\ Bytes(st'[r].chunk) = Bytes(st[r].chunk)
    BY <1>2, <2>2, <2>3, <2>4
  <2>6. \A r \in Stub : Unused(r)' => Unused(r) \/ Held(r) = {}
    BY <1>1, <1>2, <2>2, <2>3 DEF Unused
  <2> QED
    BY <1>1, <2>5, <2>6, CallKeeps
<1> QED
  BY <1>3, <1>4

(* AddToxic starts the new stub and, behind which it is, the stopped one.  *)
LEMMA AddedKeeps ==
  ASSUME IInv, WInv, OInv, AddDone
  PROVE  OInv' /\ \A r \in Stub : Held(r)' = Held(r)
<1>1. /\ UNCHANGED <<stubs, fresh, buffered, queue, reader, writer, dest>>
      /\ lost \subseteq lost'
      /\ op'.call # "add" /\ Alive /\ op.call = "add" /\ op.phase # "none"
      /\ st[Target].pc = "off" /\ out' = [out EXCEPT ![Target] = Last(stubs)]
  BY DEF AddDone, Stopped, Idle, ends, IInv, TypeOK
<1>2. /\ st \in [Stub -> Local] /\ \A r \in Stub : HandsOK(st[r])
      /\ out \in [Stub -> Stub \cup {Sink}] /\ op.toxic \in Wrappers
      /\ chain \in Seq(Wrappers) /\ op.idx \in Nat
  BY DEF IInv, TypeOK, OInv, Hands
<1>3. PICK s \in Stub : s = Last(stubs) /\ s = stubs[Len(stubs)]
  BY <1>1, CallFacts
<1>4. PICK d \in Stub : d = Target /\ d # s
  BY <1>1, <1>3, CallFacts
<1>5. Held(s) = {} /\ Bytes(st[s].chunk) = {} /\ Bytes(st[d].chunk) = {}
  BY <1>1, <1>2, <1>3, <1>4 DEF Unused, OInv, Hands, Held, HandsOK
<1>6. \A r \in Stub : HandsOK(st'[r]) /\ Bytes(st'[r].chunk) = Bytes(st[r].chunk)
  <2>1. CASE op.idx > Len(chain)
    BY <1>2, <2>1 DEF AddDone
  <2>2. CASE ~(op.idx > Len(chain))
    <3>1. chain[op.idx] \in Wrappers
      <4>1. op.idx \in 1 .. Len(chain)
        BY <1>1, <1>2, <2>2, CallFacts
      <4> QED
        BY <1>2, <4>1
    <3>2. PICK p \in Pipes(op.toxic), q \in Pipes(chain[op.idx]) :
            st' = [st EXCEPT
              ![s] = Run(WithState(st[s], op.toxic), op.toxic, p, AttrOf(op.toxic)),
              ![d] = Run(st[d], chain[op.idx], q, AttrOf(chain[op.idx]))]
      BY <1>2, <1>3, <1>4, <2>2 DEF AddDone
    <3> DEFINE x == Run(WithState(st[s], op.toxic), op.toxic, p, AttrOf(op.toxic))
               y == Run(st[d], chain[op.idx], q, AttrOf(chain[op.idx]))
    <3>3. WithState(st[s], op.toxic) \in Local /\ WithState(st[s], op.toxic).chunk = st[s].chunk
      BY <1>2, <1>5, RunBytes
    <3>4. Bytes(x.chunk) = {} /\ HandsOK(x)
      BY <1>2, <1>5, <3>3, RunBytes
    <3>5. Bytes(y.chunk) = {} /\ HandsOK(y)
      BY <1>2, <1>5, <3>1, RunBytes
    <3>6. st'[s] = x /\ st'[d] = y /\ \A r \in Stub : r # s /\ r # d => st'[r] = st[r]
      BY <1>2, <1>4, <3>2
    <3> HIDE DEF x, y
    <3> QED
      BY <1>2, <1>5, <3>4, <3>5, <3>6
  <2> QED
    BY <2>1, <2>2
<1>7. \A r \in Stub : Unused(r)' => Unused(r) \/ Held(r) = {}
  <2>1. out' = [out EXCEPT ![d] = s]
    BY <1>1, <1>3, <1>4
  <2> QED
    BY <1>1, <1>2, <1>4, <2>1 DEF Unused
<1> QED
  BY <1>1, <1>6, <1>7, CallKeeps

(* RemoveToxic takes its stub off the link once there is nothing in it, and*)
(* starts the neighbour, which has stopped, with the stub's Output.        *)
LEMMA SplicedKeeps ==
  ASSUME IInv, WInv, OInv, RemoveSplice
  PROVE  OInv' /\ \A r \in Stub : Held(r)' = Held(r)
<1>1. /\ UNCHANGED <<fresh, buffered, queue, reader, writer, dest>>
      /\ lost \subseteq lost'
      /\ op'.call # "add" /\ Alive /\ op.phase = "pump" /\ helper = "yes"
      /\ st[Target].pc = "select" /\ queue[Target] = <<>>
      /\ out' = [out EXCEPT ![Previous] = out[Target]] /\ stubs' = RemoveAt(stubs, op.idx)
  BY DEF RemoveSplice, Idle, ends
<1>2. /\ st \in [Stub -> Local] /\ \A r \in Stub : HandsOK(st[r]) /\ Hands
      /\ out \in [Stub -> Stub \cup {Sink}] /\ stubs \in Seq(Stub)
      /\ st[Previous].pc = "off" /\ Stub \subseteq Int /\ Sink \notin Stub
  BY <1>1 DEF IInv, TypeOK, OInv, Hands, MovedStubsStopped, Stub
<1>3. PICK d \in Stub, s \in Stub : d = Target /\ s = Previous /\ s # d
  BY <1>1, CallFacts
<1>4. PICK n \in Nat, k \in Int : /\ n = Len(stubs) /\ k = op.idx /\ k \in 2 .. n
                                  /\ d = stubs[k] /\ s = stubs[k - 1]
  <2>1. op.idx \in 2 .. Settled /\ Settled <= Len(stubs) /\ Settled \in Int
    BY <1>1, CallFacts, Shape
  <2> QED
    BY <1>3, <2>1, Shape DEF Target, Previous
<1>5. Bytes(st[d].chunk) = {} /\ Bytes(st[s].chunk) = {} /\ Held(d) = {}
  <2>1. st[d].pc = "select" /\ st[s].pc = "off" /\ queue[d] = <<>>
    BY <1>1, <1>2, <1>3
  <2>2. BytesIn(queue[d]) = {}
    BY <2>1 DEF BytesIn
  <2>3. Bytes(st[d].chunk) = {} /\ Bytes(st[s].chunk) = {}
    BY <1>2, <2>1 DEF HandsOK
  <2> QED
    BY <2>2, <2>3 DEF Held
<1>6. \A r \in Stub : HandsOK(st'[r]) /\ Bytes(st'[r].chunk) = Bytes(st[r].chunk)
  <2>1. Neighbour \in Wrappers
    BY <1>1, CallStubs DEF IInv
  <2>2. PICK p \in Pipes(Neighbour) :
          st' = [st EXCEPT ![d] = Exit(st[d]),
                           ![s] = Run(st[s], Neighbour, p, AttrOf(Neighbour))]
    BY <1>2, <1>3 DEF RemoveSplice
  <2>3. /\ Bytes(Run(st[s], Neighbour, p, AttrOf(Neighbour)).chunk) = {}
        /\ HandsOK(Run(st[s], Neighbour, p, AttrOf(Neighbour)))
    BY <1>2, <1>5, <2>1, RunBytes
  <2>4. HandsOK(Exit(st[d])) /\ Bytes(Exit(st[d]).chunk) = {}
    BY <1>2, <1>5, StopBytes
  <2> QED
    BY <1>2, <1>3, <1>5, <2>2, <2>3, <2>4
<1>7. out[d] # s
  <2>1. PICK i \in 1 .. Len(stubs) :
          /\ stubs[i] = d
          /\ out[d] # Sink => i + 1 \in 1 .. Len(stubs) /\ out[d] = stubs[i + 1]
    BY <1>1, <1>2, <1>3, Active
  <2>2. i = k
    BY <1>4, <2>1, Shape
  <2>3. k + 1 \in 1 .. Len(stubs) => stubs[k + 1] # s
    BY <1>4, Shape
  <2> QED
    BY <1>2, <2>1, <2>2, <2>3
<1>8. \A r \in Stub : Unused(r)' => Unused(r) \/ Held(r) = {}
  <2>1. out' = [out EXCEPT ![s] = out[d]]
    BY <1>1, <1>3
  <2> QED
    BY <1>1, <1>2, <1>7, <2>1 DEF Unused
<1>a. k \in 1 .. Len(stubs)
  BY <1>4
<1>9. PICK u \in Seq(Stub) : u = RemoveAt(stubs, k)
  BY <1>2, <1>a, RemoveAtFacts
<1>10. /\ Len(u) = n - 1
       /\ \A i \in 1 .. n - 1 : u[i] = IF i < k THEN stubs[i] ELSE stubs[i + 1]
  <2>1. /\ Len(u) = Len(stubs) - 1
        /\ \A i \in 1 .. Len(stubs) - 1 : u[i] = IF i < k THEN stubs[i] ELSE stubs[i + 1]
    BY <1>2, <1>9, <1>a, RemoveAtFacts
  <2> QED
    BY <1>4, <2>1
<1>11. \A i \in 1 .. Len(u) : Held(u[i]) = {} \/ \E a \in 1 .. Len(stubs) : u[i] = stubs[a]
  <2>1. ASSUME NEW i \in 1 .. Len(u) PROVE \E a \in 1 .. Len(stubs) : u[i] = stubs[a]
    <3>1. i \in 1 .. n - 1 /\ i \in 1 .. n /\ i + 1 \in 1 .. n
      BY <1>4, <1>10
    <3> QED
      BY <1>4, <1>10, <3>1
  <2> QED
    BY <2>1
<1>12. \A i, j \in 1 .. Len(u) : i < j =>
         \/ Held(u[i]) = {} \/ Held(u[j]) = {}
         \/ \E a, b \in 1 .. Len(stubs) : a < b /\ u[i] = stubs[a] /\ u[j] = stubs[b]
  <2>1. ASSUME NEW i \in 1 .. Len(u), NEW j \in 1 .. Len(u), i < j
        PROVE  \E a, b \in 1 .. Len(stubs) : a < b /\ u[i] = stubs[a] /\ u[j] = stubs[b]
    <3> DEFINE a == IF i < k THEN i ELSE i + 1
               b == IF j < k THEN j ELSE j + 1
    <3>1. i \in 1 .. n - 1 /\ j \in 1 .. n - 1 /\ i \in Int /\ j \in Int
      BY <1>4, <1>10
    <3>2. u[i] = stubs[a] /\ u[j] = stubs[b]
      BY <1>10, <3>1
    <3>3. a \in 1 .. n /\ b \in 1 .. n /\ a < b
      BY <1>4, <2>1, <3>1
    <3> HIDE DEF a, b
    <3> QED
      BY <1>4, <3>2, <3>3
  <2> QED
    BY <2>1
<1>13. \A i \in 1 .. Len(stubs) :
         Held(stubs[i]) = {} \/ \E j \in 1 .. Len(u) : u[j] = stubs[i]
  <2> SUFFICES ASSUME NEW i \in 1 .. n
               PROVE  Held(stubs[i]) = {} \/ \E j \in 1 .. Len(u) : u[j] = stubs[i]
    BY <1>4
  <2>1. CASE i = k
    BY <1>4, <1>5, <2>1
  <2>2. CASE i < k
    <3>1. i \in 1 .. n - 1
      BY <1>4, <2>2
    <3> QED
      BY <1>10, <2>2, <3>1
  <2>3. CASE i > k
    <3>1. i - 1 \in 1 .. n - 1 /\ ~(i - 1 < k) /\ (i - 1) + 1 = i
      BY <1>4, <2>3
    <3>2. u[i - 1] = stubs[i]
      BY <1>10, <3>1
    <3> QED
      BY <1>10, <3>1, <3>2
  <2> QED
    BY <1>4, <2>1, <2>2, <2>3
<1>14. stubs' = u /\ buffered \subseteq buffered'
  BY <1>1, <1>4, <1>9
<1> QED
  BY <1>1, <1>6, <1>8, <1>11, <1>12, <1>13, <1>14, RelistKeeps
-----------------------------------------------------------------------------
(* The invariant.                                                          *)

LEMMA InitOInv == Init => OInv
<1> SUFFICES ASSUME Init PROVE OInv
  OBVIOUS
<1>1. TypeOK
  BY TypeInit
<1>2. PICK n \in Nat : /\ n = Len(chain) /\ n \in 1 .. MaxStubs /\ chain \in Seq(Wrappers)
                       /\ \A i \in 1 .. n : chain[i] \in Wrappers
  <2>1. PICK n \in 1 .. InitToxics + 1 : chain \in [1 .. n -> Wrappers]
    BY DEF Init, Chains
  <2>2. n \in Nat /\ n \in 1 .. MaxStubs /\ Len(chain) = n
    BY <2>1, LinkAssumption
  <2> QED
    BY <1>1, <2>1, <2>2 DEF TypeOK
<1>3. PICK pipe \in [1 .. n -> Kinds] :
        /\ \A s \in 1 .. n : pipe[s] \in Pipes(chain[s])
        /\ st = [s \in Stub |->
                   IF s <= n
                     THEN Run(WithState(Fresh, chain[s]), chain[s], pipe[s],
                              AttrOf(chain[s]))
                     ELSE Fresh]
  BY <1>2 DEF Init
<1>4. Fresh \in Local /\ Bytes(Fresh.chunk) = {} /\ HandsOK(Fresh) /\ Fresh.chunk = Empty
  BY EmptyBytes, EmptyChunk DEF Fresh, Local, HandsOK, Places, Kinds, Wrappers
<1>5. \A s \in Stub : Bytes(st[s].chunk) = {} /\ HandsOK(st[s])
  <2> SUFFICES ASSUME NEW s \in Stub PROVE Bytes(st[s].chunk) = {} /\ HandsOK(st[s])
    OBVIOUS
  <2>1. CASE s <= n
    <3>1. s \in 1 .. n
      BY <1>2, <2>1 DEF Stub
    <3>2. chain[s] \in Wrappers /\ pipe[s] \in Pipes(chain[s])
      BY <1>2, <1>3, <3>1
    <3>3. WithState(Fresh, chain[s]) \in Local /\ WithState(Fresh, chain[s]).chunk = Fresh.chunk
      BY <1>4, <3>2, RunBytes
    <3>4. st[s] = Run(WithState(Fresh, chain[s]), chain[s], pipe[s], AttrOf(chain[s]))
      BY <1>3, <2>1
    <3>5. PICK l \in Local : l = WithState(Fresh, chain[s]) /\ Bytes(l.chunk) = {}
      BY <1>4, <3>3
    <3>6. st[s] = Run(l, chain[s], pipe[s], AttrOf(chain[s]))
      BY <3>4, <3>5
    <3>7. PICK t \in Wrappers : t = chain[s]
      BY <3>2
    <3>8. PICK p \in Pipes(t) : p = pipe[s]
      BY <3>2, <3>7
    <3>9. /\ Bytes(Run(l, t, p, AttrOf(t)).chunk) = {}
          /\ HandsOK(Run(l, t, p, AttrOf(t)))
      BY <3>5, RunBytes
    <3> QED
      BY <3>6, <3>7, <3>8, <3>9
  <2>2. CASE ~(s <= n)
    BY <1>3, <1>4, <2>2
  <2> QED
    BY <2>1, <2>2
<1>6. /\ queue = [s \in Stub |-> <<>>] /\ dest = <<>> /\ writer.chunk = Empty
      /\ reader.chunk = Empty /\ reader.taken = 0 /\ reader.pc = "read" /\ writer.pc = "read"
      /\ stubs = [i \in 1 .. n |-> i] /\ Len(stubs) = n
  BY <1>2 DEF Init
<1>7. \A s \in Stub : queue[s] = <<>> /\ BytesIn(queue[s]) = {} /\ Held(s) = {}
  <2>1. \A s \in Stub : queue[s] = <<>>
    BY <1>6
  <2>2. \A s \in Stub : BytesIn(queue[s]) = {}
    BY <2>1 DEF BytesIn
  <2> QED
    BY <1>5, <2>1, <2>2 DEF Held
<1>8. Arrived = {} /\ ReadTo = 0 /\ Range(dest) = {} /\ Bytes(writer.chunk) = {}
  BY <1>6, EmptyBytes DEF Arrived, ReadTo, Range
<1>9. \A i \in 1 .. Len(stubs) : Held(stubs[i]) = {}
  <2>1. \A i \in 1 .. Len(stubs) : stubs[i] = i /\ i \in Stub
    BY <1>2, <1>6, LinkAssumption DEF Stub
  <2> QED
    BY <1>7, <2>1
<1>10. Hands
  BY <1>5, <1>6, <1>7 DEF Hands
<1>11. SortedQueues
  BY <1>5, <1>7 DEF SortedQueues, QueueSorted, InTurn, Below
<1>12. SortedEnds
  BY <1>6, <1>8 DEF SortedEnds, Increasing, Below
<1>13. SortedStubs
  BY <1>8, <1>9 DEF SortedStubs, Below
<1>14. Complete
  BY <1>8 DEF Complete
<1> QED
  BY <1>10, <1>11, <1>12, <1>13, <1>14 DEF OInv

(* What may break a stream is never forgotten.                             *)
LEMMA LostStays ==
  ASSUME [Next]_vars
  PROVE  lost \subseteq lost'
<1>1. CASE UNCHANGED vars
  BY <1>1 DEF vars
<1>2. CASE Ends \/ Flow
  BY <1>2 DEF Ends, ReadSource, SourceEof, WriteDest, WriteFail, WriterEof, CloseDest,
     RemoveLink, Flow, ReaderToStub, StubToStub, StubToBuffer, BufferToStub,
     StubToWriter, StubEof, StubTimer, StubDeadline
<1>3. CASE Begin
  BY <1>3 DEF Begin, AddToxicBegin, UpdateToxicBegin, RemoveToxicBegin, UpdateToxicRejected
<1>4. CASE Finish
  BY <1>4 DEF Finish, Interrupt, InterruptClosed, AddDone, UpdateDone, RemoveCleanup,
     RemovePump, HelperInterrupt, HelperReturns, RemoveSplice, RemoveClosed
<1> QED
  BY <1>1, <1>2, <1>3, <1>4 DEF Next

LEMMA NextOInv == IInv /\ WInv /\ OInv /\ [Next]_vars /\ "rate" \notin lost' => OInv'
<1> SUFFICES ASSUME IInv, WInv, OInv, [Next]_vars, "rate" \notin lost' PROVE OInv'
  OBVIOUS
<1>1. CASE UNCHANGED vars
  <2>1. /\ UNCHANGED <<stubs, fresh, out, buffered, queue, st, reader, writer, dest, op, lost>>
    BY <1>1 DEF vars, config, wiring, ends, api
  <2>2. \A s \in Stub : Unused(s)' => Unused(s) \/ Held(s) = {}
    BY <2>1 DEF Unused
  <2>3. \A s \in Stub : HandsOK(st'[s]) /\ Bytes(st'[s].chunk) = Bytes(st[s].chunk)
    BY <2>1 DEF OInv, Hands
  <2> QED
    BY <2>1, <2>2, <2>3, CallKeeps
<1>2. CASE Ends
  BY <1>2, EndsKeeps
<1>3. CASE Flow
  BY <1>3, ReaderToStubKeeps, StubToStubKeeps, StubToBufferKeeps, BufferToStubKeeps,
     StubToWriterKeeps, StubAloneKeeps DEF Flow
<1>4. CASE Begin
  BY <1>4, BeginInPlaceKeeps, AddBeginKeeps DEF Begin
<1>5. CASE Finish
  BY <1>5, InterruptKeeps, AddTooLateKeeps, AddedKeeps, StartAgainKeeps, ReturnKeeps,
     SplicedKeeps DEF Finish
<1> QED
  BY <1>1, <1>2, <1>3, <1>4, <1>5 DEF Next

(* OInv holds until the rate of a bandwidth toxic changes while it sends.  *)
Ordered == "rate" \notin lost => OInv

LEMMA SpecOrdered == Spec => [](IInv /\ WInv /\ Ordered)
<1>1. Spec => [](IInv /\ WInv)
  BY SpecWInv
<1>2. Init => Ordered
  BY InitOInv DEF Ordered
<1>3. IInv /\ WInv /\ Ordered /\ [Next]_vars => Ordered'
  BY NextOInv, LostStays DEF Ordered
<1> QED
  BY <1>1, <1>2, <1>3, PTL DEF Spec
-----------------------------------------------------------------------------
(* What a step does to one stub.                                           *)

LEMMA FlowCases ==
  ASSUME IInv, Flow, NEW s \in Stub
  PROVE  \/ st'[s] = st[s]
         \/ st[s].pc = "select" /\ \E c : st'[s] = Taken(s, c)
         \/ Sending(st[s]) /\ \E n : st'[s] = Sent(s, n)
         \/ StubEof(s) /\ st'[s] = OnNil(st[s])
         \/ StubTimer(s) /\ st'[s] = OnTimer(st[s], AttrOf(st[s].toxic))
<1>0. st \in [Stub -> Local] /\ Entry \notin buffered
  BY DEF IInv, TypeOK, MovedStubsStopped
<1>1. CASE ReaderToStub
  <2>1. st' = [st EXCEPT ![Entry] = Taken(Entry, reader.chunk)] /\ st[Entry].pc = "select"
    BY <1>0, <1>1 DEF ReaderToStub, Ready
  <2> QED
    BY <1>0, <2>1
<1>2. ASSUME NEW r \in Stub, StubToStub(r)
      PROVE  \/ st'[s] = st[s]
             \/ st[s].pc = "select" /\ \E c : st'[s] = Taken(s, c)
             \/ Sending(st[s]) /\ \E n : st'[s] = Sent(s, n)
  <2>1. PICK n \in PieceSizes(st[r]) :
          st' = [st EXCEPT ![r] = Sent(r, n), ![out[r]] = Taken(out[r], First(st[r].chunk, n))]
    BY <1>2 DEF StubToStub
  <2>2. Sending(st[r]) /\ st[out[r]].pc = "select"
    BY <1>2 DEF StubToStub, Ready
  <2> QED
    BY <1>0, <2>1, <2>2
<1>3. ASSUME NEW r \in Stub, StubToBuffer(r) \/ StubToWriter(r) \/ StubDeadline(r)
      PROVE  st'[s] = st[s] \/ (Sending(st[s]) /\ \E n : st'[s] = Sent(s, n))
  <2>1. Sending(st[r]) /\ \E n : st' = [st EXCEPT ![r] = Sent(r, n)]
    BY <1>3 DEF StubToBuffer, StubToWriter, StubDeadline, HasDeadline, Sending
  <2> QED
    BY <1>0, <2>1
<1>4. ASSUME NEW r \in Stub, BufferToStub(r)
      PROVE  st'[s] = st[s] \/ (st[s].pc = "select" /\ \E c : st'[s] = Taken(s, c))
  <2>1. st[r].pc = "select" /\ st' = [st EXCEPT ![r] = Taken(r, queue[r][1])]
    BY <1>4 DEF BufferToStub
  <2> QED
    BY <1>0, <2>1
<1>5. ASSUME NEW r \in Stub, StubEof(r) \/ StubTimer(r)
      PROVE  \/ st'[s] = st[s]
             \/ StubEof(s) /\ st'[s] = OnNil(st[s])
             \/ StubTimer(s) /\ st'[s] = OnTimer(st[s], AttrOf(st[s].toxic))
  <2>1. CASE s # r
    BY <1>0, <1>5, <2>1 DEF StubEof, StubTimer
  <2>2. CASE s = r
    BY <1>0, <1>5, <2>2 DEF StubEof, StubTimer
  <2> QED
    BY <2>1, <2>2
<1> QED
  BY <1>1, <1>2, <1>3, <1>4, <1>5 DEF Flow

(* The stubs a call may touch: those it has stopped and the one it adds.   *)
LEMMA CallStops ==
  ASSUME IInv, WInv, Alive
  PROVE  /\ op.phase = "wait" => /\ Target \in Stub /\ ~st[Target].closed
                                 /\ st[Target].pc # "reset"
         /\ helper \in {"wait", "yes"} => /\ Previous \in Stub /\ ~st[Previous].closed
                                          /\ st[Previous].pc # "reset"
         /\ op.call = "add" => /\ Last(stubs) \in Stub /\ ~st[Last(stubs)].closed
                               /\ st[Last(stubs)].pc = "off"
         /\ fresh \in Stub => ~st[fresh].closed /\ st[fresh].pc = "off"
<1>1. op.phase = "wait" => Target \in Stub /\ Target \in Halting
  BY CallFacts DEF Halting
<1>2. helper \in {"wait", "yes"} => Previous \in Stub /\ Previous \in Halting
  BY CallFacts DEF Halting, IInv, IndicesInRange
<1>3. op.call = "add" => Last(stubs) \in Stub /\ ~Owns(Last(stubs))
  BY CallFacts
<1>4. ASSUME fresh \in Stub PROVE ~Owns(fresh)
  <2>1. \A i \in 1 .. Settled : i \in 1 .. Len(stubs)
    BY Shape
  <2>2. \A i \in 1 .. Len(stubs) : stubs[i] < fresh
    BY DEF IInv, MovedStubsStopped
  <2>3. ~(fresh < fresh)
    BY <1>4, LinkAssumption DEF Stub
  <2> QED
    BY <1>4, <2>1, <2>2, <2>3 DEF WInv, StubsOK, StubOK
<1> QED
  BY <1>1, <1>2, <1>3, <1>4 DEF WInv, StubsOK, StubOK, Owns

(* A call stops a stub, pumps it, lets it go, or starts it: with the toxic *)
(* it ran, unless that is a reason why the stream may not be whole, or with*)
(* the one that is being added.  It closes the stub it adds too late, or   *)
(* the one it has cleaned up.                                              *)
CalledOn(s) ==
  /\ ~st[s].closed /\ st[s].pc # "reset"
  /\ \/ st'[s] \in {OnInterrupt(st[s]), Pump(st[s]), Exit(st[s])}
     \/ \E t \in Wrappers : \E p \in Pipes(t) :
          /\ st'[s] = Run(st[s], t, p, AttrOf(t))
          /\ st[s].toxic = t \/ "stub" \in lost'
     \/ /\ op.call = "add" /\ s = Last(stubs)
        /\ \E p \in Pipes(op.toxic) :
             st'[s] = Run(WithState(st[s], op.toxic), op.toxic, p, AttrOf(op.toxic))
     \/ InterruptClosed /\ op.call = "add" /\ s = Last(stubs) /\ st'[s] = Close(st[s])
     \/ RemoveCleanup /\ s = Target /\ st'[s] = Close(st[s])

LEMMA CallCases ==
  ASSUME IInv, WInv, Begin \/ Finish, NEW s \in Stub
  PROVE  st'[s] = st[s] \/ CalledOn(s)
<1>0. /\ st \in [Stub -> Local] /\ st[s] \in Local /\ op.toxic \in Wrappers
      /\ chain \in Seq(Wrappers) /\ op.idx \in Nat /\ Len(chain) \in Nat
  BY DEF IInv, TypeOK
<1>m. \A t : st[s].toxic # t => "stub" \in Misplaced(s, t)
  BY DEF Misplaced, Because
<1>1. CASE Begin \/ HelperReturns \/ RemoveClosed
  BY <1>1 DEF Begin, AddToxicBegin, UpdateToxicBegin, RemoveToxicBegin, UpdateToxicRejected,
         HelperReturns, RemoveClosed
<1>2. CASE Interrupt \/ HelperInterrupt
  <2>1. PICK r : Interruptible(st[r]) /\ st' = [st EXCEPT ![r] = OnInterrupt(st[r])]
    BY <1>2 DEF Interrupt, HelperInterrupt
  <2>2. CASE s = r
    <3>1. st[s].pc \in {"select", "pace", "timed"}
      BY <2>1, <2>2 DEF Interruptible
    <3>2. ~st[s].closed
      BY <3>1 DEF WInv, StubsOK, StubOK
    <3> QED
      BY <1>0, <2>1, <2>2, <3>1, <3>2 DEF CalledOn
  <2> QED
    BY <1>0, <2>1, <2>2
<1>3. CASE InterruptClosed
  <2>1. CASE op.call = "add" /\ s = Last(stubs)
    <3>1. st'[s] = Close(st[s]) /\ Alive
      BY <1>0, <1>3, <2>1 DEF InterruptClosed
    <3>2. ~st[s].closed /\ st[s].pc # "reset"
      BY <2>1, <3>1, CallStops
    <3> QED
      BY <1>3, <2>1, <3>1, <3>2 DEF CalledOn
  <2> QED
    BY <1>0, <1>3, <2>1 DEF InterruptClosed
<1>4. CASE AddDone
  <2>1. /\ Alive /\ op.call = "add" /\ op.phase = "wait"
    BY <1>4 DEF AddDone, Stopped
  <2>2. CASE op.idx > Len(chain)
    BY <1>4, <2>2 DEF AddDone
  <2>3. CASE ~(op.idx > Len(chain))
    <3>1. PICK p \in Pipes(op.toxic), r \in Pipes(chain[op.idx]) :
            st' = [st EXCEPT
                     ![Last(stubs)] = Run(WithState(@, op.toxic), op.toxic, p, AttrOf(op.toxic)),
                     ![Target] = Run(@, chain[op.idx], r, AttrOf(chain[op.idx]))]
      BY <1>4, <2>3 DEF AddDone
    <3>2. chain[op.idx] \in Wrappers /\ Target # Last(stubs)
      <4>1. op.idx \in 1 .. Settled /\ Target # Last(stubs) /\ Settled \in Int
        BY <2>1, CallFacts, Shape
      <4>2. op.idx \in 1 .. Len(chain)
        BY <1>0, <2>3, <4>1
      <4> QED
        BY <1>0, <4>1, <4>2
    <3>3. CASE s = Target
      <4>1. st'[s] = Run(st[s], chain[op.idx], r, AttrOf(chain[op.idx]))
        BY <1>0, <3>1, <3>2, <3>3
      <4>2. ~st[s].closed /\ st[s].pc # "reset"
        BY <2>1, <3>3, CallStops
      <4>3. lost' = lost \cup Misplaced(s, chain[op.idx])
        BY <1>4, <2>3, <3>3 DEF AddDone
      <4>4. st[s].toxic = chain[op.idx] \/ "stub" \in lost'
        BY <1>m, <4>3
      <4> QED
        BY <3>1, <3>2, <4>1, <4>2, <4>4 DEF CalledOn
    <3>4. CASE s = Last(stubs)
      <4>1. st'[s] = Run(WithState(st[s], op.toxic), op.toxic, p, AttrOf(op.toxic))
        BY <1>0, <3>1, <3>2, <3>4
      <4>2. ~st[s].closed /\ st[s].pc # "reset"
        BY <2>1, <3>4, CallStops
      <4> QED
        BY <2>1, <3>4, <4>1, <4>2 DEF CalledOn
    <3> QED
      BY <1>0, <3>1, <3>3, <3>4
  <2> QED
    BY <2>2, <2>3
<1>5. CASE UpdateDone
  <2>1. /\ Alive /\ op.phase = "wait" /\ Restart(Target, op.toxic)
        /\ lost' = lost \cup Misplaced(Target, op.toxic)
    BY <1>5 DEF UpdateDone, Stopped
  <2>2. PICK p \in Pipes(op.toxic) :
          st' = [st EXCEPT ![Target] = Run(@, op.toxic, p, AttrOf(op.toxic))]
    BY <2>1 DEF Restart
  <2>3. CASE s = Target
    <3>1. st'[s] = Run(st[s], op.toxic, p, AttrOf(op.toxic))
      BY <1>0, <2>2, <2>3
    <3>2. st[s].toxic = op.toxic \/ "stub" \in lost'
      BY <1>m, <2>1, <2>3
    <3> QED
      BY <1>0, <2>1, <2>3, <3>1, <3>2, CallStops DEF CalledOn
  <2> QED
    BY <1>0, <2>2, <2>3
<1>6. CASE RemoveCleanup
  <2>1. Alive /\ op.phase = "wait" /\ st' = [st EXCEPT ![Target] = Close(@)]
    BY <1>6 DEF RemoveCleanup, Stopped
  <2>2. CASE s = Target
    BY <1>0, <1>6, <2>1, <2>2, CallStops DEF CalledOn
  <2> QED
    BY <1>0, <2>1, <2>2
<1>7. CASE RemovePump
  <2>1. Alive /\ op.phase = "wait" /\ st' = [st EXCEPT ![Target] = Pump(@)]
    BY <1>7 DEF RemovePump, Stopped
  <2>2. CASE s = Target
    BY <1>0, <2>1, <2>2, CallStops DEF CalledOn
  <2> QED
    BY <1>0, <2>1, <2>2
<1>8. CASE RemoveSplice
  <2>1. /\ Alive /\ helper = "yes" /\ st[Target].pc = "select" /\ op.phase = "pump"
        /\ lost' = lost \cup Misplaced(Previous, Neighbour)
    BY <1>8 DEF RemoveSplice
  <2>2. PICK p \in Pipes(Neighbour) :
          st' = [st EXCEPT ![Target] = Exit(@),
                           ![Previous] = Run(@, Neighbour, p, AttrOf(Neighbour))]
    BY <1>8 DEF RemoveSplice
  <2>3. Previous # Target /\ Previous \in Stub /\ Target \in Stub
    BY <2>1, CallFacts
  <2>4. Neighbour \in Wrappers
    <3>1. op.idx - 1 <= Len(chain) /\ op.idx >= 2
      BY <2>1, <1>0 DEF IInv, IndicesInRange
    <3> QED
      BY <1>0, <3>1 DEF Neighbour
  <2>5. CASE s = Target
    <3>1. st'[s] = Exit(st[s]) /\ st[s].pc = "select"
      BY <1>0, <2>1, <2>2, <2>3, <2>5
    <3>2. ~st[s].closed
      BY <3>1 DEF WInv, StubsOK, StubOK
    <3> QED
      BY <3>1, <3>2 DEF CalledOn
  <2>6. CASE s = Previous
    <3>1. st'[s] = Run(st[s], Neighbour, p, AttrOf(Neighbour))
      BY <1>0, <2>2, <2>3, <2>6
    <3>2. st[s].toxic = Neighbour \/ "stub" \in lost'
      BY <1>m, <2>1, <2>6
    <3> QED
      BY <2>1, <2>4, <2>6, <3>1, <3>2, CallStops DEF CalledOn
  <2> QED
    BY <1>0, <2>2, <2>5, <2>6
<1> QED
  BY <1>1, <1>2, <1>3, <1>4, <1>5, <1>6, <1>7, <1>8 DEF Finish

(* A stub that resets or has closed keeps its Output.                      *)
LEMMA OutStays ==
  ASSUME IInv, WInv, Next, NEW s \in Stub, st[s].closed \/ st[s].pc = "reset"
  PROVE  out'[s] = out[s]
<1> SUFFICES ASSUME out'[s] # out[s] PROVE FALSE
  OBVIOUS
<1>1. /\ out \in [Stub -> Stub \cup {Sink}] /\ st \in [Stub -> Local]
      /\ st[s].closed \/ st[s].pc # "off"
  BY DEF IInv, TypeOK
<1>2. Alive => /\ op.phase = "wait" => s # Target
               /\ helper = "yes" => s # Previous
               /\ op.call = "add" => s # Last(stubs)
               /\ s # fresh
  BY <1>1, CallStops
<1>3. CASE Ends \/ Flow
  <2>1. out' = out
    BY <1>3 DEF Ends, ReadSource, SourceEof, WriteDest, WriteFail, WriterEof, CloseDest,
           RemoveLink, Flow, ReaderToStub, StubToStub, StubToBuffer, BufferToStub,
           StubToWriter, StubEof, StubTimer, StubDeadline, wiring
  <2> QED
    BY <2>1
<1>4. CASE Begin
  <2>1. PICK t \in Toxics : \/ AddToxicBegin(t) \/ UpdateToxicBegin(t)
                            \/ RemoveToxicBegin(t) \/ UpdateToxicRejected(t)
    BY <1>4 DEF Begin
  <2>2. Alive /\ (out' = out \/ out' = [out EXCEPT ![fresh] = out[Last(stubs)]])
    BY <2>1 DEF AddToxicBegin, UpdateToxicBegin, RemoveToxicBegin, UpdateToxicRejected, wiring
  <2> QED
    BY <1>1, <1>2, <2>2
<1>5. CASE AddDone
  BY <1>1, <1>2, <1>5 DEF AddDone, Stopped
<1>6. CASE InterruptClosed
  BY <1>1, <1>2, <1>6 DEF InterruptClosed
<1>7. CASE RemoveSplice
  BY <1>1, <1>2, <1>7 DEF RemoveSplice
<1>8. CASE Interrupt \/ UpdateDone \/ RemoveCleanup \/ RemovePump \/ HelperInterrupt
           \/ HelperReturns \/ RemoveClosed
  BY <1>8 DEF Interrupt, UpdateDone, RemoveCleanup, RemovePump, HelperInterrupt,
         HelperReturns, RemoveClosed, wiring
<1> QED
  BY <1>3, <1>4, <1>5, <1>6, <1>7, <1>8 DEF Next, Finish

(* Nothing happens to a stub that has closed.                              *)
LEMMA ClosedStays ==
  ASSUME IInv, WInv, Next, NEW s \in Stub, st[s].closed
  PROVE  st'[s] = st[s] /\ out'[s] = out[s]
<1>1. st[s].pc = "off"
  BY DEF WInv, StubsOK, StubOK
<1>2. CASE Ends
  BY <1>2, OutStays DEF Ends, ReadSource, SourceEof, WriteDest, WriteFail, WriterEof,
     CloseDest, RemoveLink
<1>3. CASE Flow
  <2>1. ~Sending(st[s]) /\ ~StubEof(s) /\ ~StubTimer(s)
    BY <1>1 DEF Sending, StubEof, StubTimer, TimerArmed
  <2> QED
    BY <1>1, <1>3, <2>1, FlowCases, OutStays
<1>4. CASE Begin \/ Finish
  BY <1>4, CallCases, OutStays DEF CalledOn
<1> QED
  BY <1>2, <1>3, <1>4 DEF Next
-----------------------------------------------------------------------------
(* A stub that closes leaves nothing in its channel, as long as every stub *)
(* has run the toxic it was made for: only the channel of a latency toxic  *)
(* holds anything, and latency closes at the end of its input alone.       *)
Relays(l) ==
  \/ l.pipe \in {"noop", "latency", "pump"} /\ l.pc \in {"off", "select", "send", "flush"}
  \/ l.pipe = "latency" /\ l.pc = "timed"

Latent(s) == Relays(st[s]) /\ Kind[st[s].toxic] \in {"latency", "noop"}

Unmade(s) ==
  /\ s \notin buffered /\ ~st[s].closed
  /\ Kind[st[s].toxic] = "noop" /\ st[s].pipe = "noop" /\ st[s].pc = "off"

Emptied ==
  /\ \A s \in buffered :
       /\ Latent(s)
       /\ st[s].closed => Held(s) = {} /\ (ChanClosed(s) \/ out[s] = s)
  /\ \A s \in Stub : s >= fresh => Unmade(s)
  /\ op.call = "add" /\ Last(stubs) \in buffered => Kind[op.toxic] = "latency"

Whole == lost \cap {"rate", "stub"} = {} => Emptied

LEMMA EventsRelay ==
  ASSUME NEW l \in Local, Relays(l)
  PROVE  /\ l.pc = "select" => \A c, b :
              Relays(OnChunk(l, c, b)) /\ OnChunk(l, c, b).closed = l.closed
         /\ l.pc = "select" => Relays(OnNil(l))
         /\ TimerArmed(l) => \A b :
              Relays(OnTimer(l, b)) /\ OnTimer(l, b).closed = l.closed
         /\ Sending(l) => \A n, b :
              Relays(AfterSend(l, n, b)) /\ AfterSend(l, n, b).closed = l.closed
         /\ \A m \in {OnInterrupt(l), Exit(l), Pump(l)} :
              Relays(m) /\ m.toxic = l.toxic /\ m.closed = l.closed
         /\ Relays(Close(l)) /\ Close(l).toxic = l.toxic
<1>1. l.pipe \in {"noop", "latency", "pump"}
      /\ l.pc \in {"off", "select", "timed", "send", "flush"}
      /\ (l.pipe # "latency" => l.pc # "timed")
  BY DEF Relays
<1>2. \A place \in Places : \A d :
        /\ Hold(l, place, d).pc = place /\ Hold(l, place, d).pipe = l.pipe
        /\ Hold(l, place, d).closed = l.closed
  BY DEF Hold, Local
<1>3. /\ Close(l).pc = "off" /\ Close(l).pipe = l.pipe /\ Close(l).toxic = l.toxic
      /\ Exit(l).pc = "off" /\ Exit(l).pipe = l.pipe /\ Exit(l).closed = l.closed
      /\ Exit(l).toxic = l.toxic
      /\ Await(l).pc = "select" /\ Await(l).pipe = l.pipe /\ Await(l).closed = l.closed
      /\ Pump(l).pc = "select" /\ Pump(l).pipe = "pump" /\ Pump(l).closed = l.closed
      /\ Pump(l).toxic = l.toxic
  BY DEF Close, Exit, Await, Pump, Local
<1>4. ASSUME NEW m, m.pipe \in {"noop", "latency", "pump"},
             m.pc \in {"off", "select", "send", "flush"}
      PROVE  Relays(m)
  BY <1>4 DEF Relays
<1>p. ASSUME NEW place \in {"send", "flush"}
      PROVE  LET m == [l EXCEPT !.pc = place] IN
             Relays(m) /\ m.toxic = l.toxic /\ m.closed = l.closed
  BY <1>1 DEF Local, Relays
<1>5. ASSUME l.pc = "select", NEW c, NEW b
      PROVE  Relays(OnChunk(l, c, b)) /\ OnChunk(l, c, b).closed = l.closed
  <2>1. CASE l.pipe \in {"noop", "pump"}
    <3>1. OnChunk(l, c, b) = Hold(l, "send", c)
      BY <2>1 DEF OnChunk
    <3> QED
      BY <1>1, <1>2, <1>4, <3>1 DEF Places
  <2>2. CASE l.pipe = "latency"
    <3>1. OnChunk(l, c, b) = Hold(l, "timed", c)
      BY <2>2 DEF OnChunk
    <3> QED
      BY <1>2, <2>2, <3>1 DEF Places, Relays
  <2> QED
    BY <1>1, <2>1, <2>2
<1>6. Relays(OnNil(l))
  <2>1. OnNil(l) = Close(l)
    BY <1>1 DEF OnNil
  <2> QED
    BY <1>1, <1>3, <1>4, <2>1
<1>7. ASSUME TimerArmed(l), NEW b
      PROVE  Relays(OnTimer(l, b)) /\ OnTimer(l, b).closed = l.closed
  <2>1. l.pipe = "latency"
    BY <1>1, <1>7 DEF TimerArmed
  <2>2. OnTimer(l, b) = [l EXCEPT !.pc = "send"]
    BY <2>1 DEF OnTimer
  <2> QED
    BY <1>p, <2>2
<1>8. ASSUME Sending(l), NEW n, NEW b
      PROVE  Relays(AfterSend(l, n, b)) /\ AfterSend(l, n, b).closed = l.closed
  <2>1. AfterSend(l, n, b) \in {Exit(l), Await(l)}
    BY <1>1, <1>8 DEF AfterSend, Sending
  <2>2. CASE AfterSend(l, n, b) = Exit(l)
    BY <1>1, <1>3, <1>4, <2>2
  <2>3. CASE AfterSend(l, n, b) = Await(l)
    BY <1>1, <1>3, <1>4, <2>3
  <2> QED
    BY <2>1, <2>2, <2>3
<1>9. Relays(OnInterrupt(l)) /\ OnInterrupt(l).toxic = l.toxic /\ OnInterrupt(l).closed = l.closed
  <2>1. CASE OnInterrupt(l) = Exit(l)
    BY <1>1, <1>3, <1>4, <2>1
  <2>2. CASE OnInterrupt(l) = [l EXCEPT !.pc = "flush"]
    BY <1>p, <2>2
  <2> QED
    BY <2>1, <2>2 DEF OnInterrupt
<1>10. Relays(Exit(l)) /\ Relays(Pump(l)) /\ Relays(Close(l))
  BY <1>1, <1>3, <1>4
<1> QED
  BY <1>3, <1>5, <1>6, <1>7, <1>8, <1>9, <1>10

(* A channel that has been closed stays so; link.read owns only the first. *)
LEMMA ChanStaysClosed ==
  ASSUME IInv, WInv, Next, NEW s \in Stub, s # Entry, ChanClosed(s)
  PROVE  ChanClosed(s)'
<1>1. PICK q \in Stub : st[q].closed /\ out[q] = s
  BY DEF ChanClosed
<1>2. st'[q].closed /\ out'[q] = s
  BY <1>1, ClosedStays
<1> QED
  BY <1>2 DEF ChanClosed

(* Nobody sends to a stub that has closed at the end of its input, or that *)
(* was added too late, and it takes nothing.                               *)
LEMMA NothingComes ==
  ASSUME IInv, WInv, OInv, Flow, NEW s \in Stub, s # Entry,
         st[s].closed, ChanClosed(s) \/ out[s] = s
  PROVE  queue'[s] = queue[s]
<1>0. queue \in [Stub -> Seq(Chunk)] /\ st[s].pc = "off"
  BY DEF IInv, TypeOK, WInv, StubsOK, StubOK
<1>1. ASSUME NEW r \in Stub, StubToBuffer(r) PROVE queue'[s] = queue[s]
  <2>1. st[r].pc # "off" /\ ~st[r].closed /\ out[r] \in buffered
    BY <1>1 DEF StubToBuffer, Sending, WInv, StubsOK, StubOK
  <2>2. out[r] \in Stub /\ out[r] # Sink
    BY <2>1, LinkAssumption DEF IInv, TypeOK, Stub
  <2>3. out[r] # s
    <3>1. CASE out[s] = s
      <4>1. ~Unused(out[r])
        BY <2>1, <2>2, Active DEF OInv
      <4> QED
        BY <3>1, <4>1 DEF Unused
    <3>2. CASE ChanClosed(s)
      <4>1. PICK q \in Stub : st[q].closed /\ out[q] = s
        BY <3>2 DEF ChanClosed
      <4> QED
        BY <2>1, <4>1, OneOwner DEF OneOwnerPerChannel, Owns
    <3> QED
      BY <3>1, <3>2
  <2> QED
    BY <1>0, <1>1, <2>2, <2>3 DEF StubToBuffer
<1>2. ASSUME NEW r \in Stub, BufferToStub(r) PROVE queue'[s] = queue[s]
  BY <1>0, <1>2 DEF BufferToStub
<1> QED
  BY <1>1, <1>2 DEF Flow, ReaderToStub, StubToStub, StubToWriter, StubEof, StubTimer, StubDeadline

LEMMA FlowEmptied ==
  ASSUME IInv, WInv, OInv, Emptied, Flow
  PROVE  Emptied'
<1>0. /\ UNCHANGED <<out, buffered, stubs, fresh, op>> /\ st \in [Stub -> Local]
      /\ buffered \subseteq Stub \ {Entry} /\ StubsOK /\ TypeOK /\ Entry \notin buffered
  BY DEF Flow, ReaderToStub, StubToStub, StubToBuffer, BufferToStub, StubToWriter, StubEof,
         StubTimer, StubDeadline, wiring, api, IInv, TypeOK, MovedStubsStopped, WInv
<1>1. ASSUME NEW s \in buffered
      PROVE  /\ Latent(s)'
             /\ st'[s].closed => st[s].closed \/ (StubEof(s) /\ st'[s] = Close(st[s]))
  <2>1. s \in Stub /\ st[s] \in Local /\ Relays(st[s]) /\ Kind[st[s].toxic] \in {"latency", "noop"}
    BY <1>0 DEF Emptied, Latent
  <2>2. st'[s].toxic = st[s].toxic
    <3>1. Exit(st[s]).toxic = st[s].toxic
      BY <2>1, EventsRelay
    <3> QED
      BY <1>0, <2>1, <3>1, FlowGoesOn DEF Goes, GoesOn
  <2>3. CASE st'[s] = st[s]
    BY <2>1, <2>3 DEF Latent
  <2>4. CASE st[s].pc = "select" /\ \E c : st'[s] = Taken(s, c)
    BY <2>1, <2>2, <2>4, EventsRelay DEF Latent, Taken
  <2>5. CASE Sending(st[s]) /\ \E n : st'[s] = Sent(s, n)
    BY <2>1, <2>2, <2>5, EventsRelay DEF Latent, Sent
  <2>6. CASE StubEof(s) /\ st'[s] = OnNil(st[s])
    <3>1. st[s].pc = "select" /\ OnNil(st[s]) = Close(st[s])
      BY <2>1, <2>6 DEF StubEof, OnNil, Relays
    <3> QED
      BY <2>1, <2>2, <2>6, <3>1, EventsRelay DEF Latent
  <2>7. CASE StubTimer(s) /\ st'[s] = OnTimer(st[s], AttrOf(st[s].toxic))
    BY <2>1, <2>2, <2>7, EventsRelay DEF Latent, StubTimer
  <2> QED
    BY <2>1, <2>3, <2>4, <2>5, <2>6, <2>7, FlowCases
<1>2. ASSUME NEW s \in buffered, st'[s].closed
      PROVE  Held(s)' = {} /\ (ChanClosed(s) \/ out[s] = s)'
  <2>1. s \in Stub /\ s # Entry
    BY <1>0
  <2>2. CASE st[s].closed
    <3>1. Held(s) = {} /\ (ChanClosed(s) \/ out[s] = s)
      BY <2>2 DEF Emptied
    <3>2. queue'[s] = queue[s] /\ st'[s] = st[s] /\ out'[s] = out[s]
      BY <2>1, <2>2, <3>1, NothingComes, ClosedStays DEF Next
    <3> QED
      BY <2>1, <3>1, <3>2, ChanStaysClosed DEF Held, Next
  <2>3. CASE StubEof(s) /\ st'[s] = Close(st[s])
    <3>1. queue'[s] = <<>> /\ ChanClosed(s)
      BY <2>3 DEF StubEof
    <3>2. st'[s].chunk = Empty
      BY <1>0, <2>1, <2>3 DEF Close, Local
    <3>3. Held(s)' = {}
      BY <3>1, <3>2, EmptyBytes DEF Held, BytesIn
    <3> QED
      BY <2>1, <3>1, <3>3, ChanStaysClosed DEF Next
  <2> QED
    BY <1>1, <1>2, <2>2, <2>3
<1>3. ASSUME NEW s \in Stub, s >= fresh PROVE Unmade(s)'
  <2>1. Unmade(s)
    BY <1>3 DEF Emptied
  <2>2. st'[s] = st[s]
    BY <2>1, FlowCases DEF Unmade, Sending, StubEof, StubTimer, TimerArmed
  <2> QED
    BY <1>0, <2>1, <2>2 DEF Unmade
<1> QED
  BY <1>0, <1>1, <1>2, <1>3 DEF Emptied

(* A call touches only stubs that are on the link.                         *)
LEMMA UnmadeStays ==
  ASSUME IInv, WInv, Begin \/ Finish, NEW s \in Stub, s >= fresh
  PROVE  st'[s] = st[s] /\ fresh <= fresh'
<1>0. st \in [Stub -> Local] /\ fresh \in Int /\ s \in Int
  BY LinkAssumption DEF IInv, TypeOK, Stub
<1>1. \A i \in 1 .. Len(stubs) : stubs[i] # s
  <2>1. \A i \in 1 .. Len(stubs) : stubs[i] \in Stub /\ stubs[i] < fresh
    BY Shape DEF IInv, MovedStubsStopped
  <2> QED
    BY <1>0, <2>1
<1>2. Alive => /\ op.phase # "none" => Target # s
               /\ op.phase = "pump" => Previous # s
               /\ op.call = "add" => Last(stubs) # s
  <2> SUFFICES ASSUME Alive
               PROVE  /\ op.phase # "none" => Target # s
                      /\ op.phase = "pump" => Previous # s
                      /\ op.call = "add" => Last(stubs) # s
    OBVIOUS
  <2>1. \A i \in 1 .. Settled : i \in 1 .. Len(stubs)
    BY Shape
  <2>2. op.call = "add" => Last(stubs) = stubs[Len(stubs)] /\ Len(stubs) \in 1 .. Len(stubs)
    BY <2>1, CallFacts, Shape DEF IInv, IndicesInRange
  <2>3. op.phase # "none" => Target # s
    BY <1>1, <2>1, CallFacts DEF Target
  <2>4. op.phase = "pump" => Previous # s
    BY <1>1, <2>1, CallFacts DEF Previous
  <2> QED
    BY <1>1, <2>2, <2>3, <2>4
<1>3. CASE Begin
  BY <1>0, <1>3 DEF Begin, AddToxicBegin, UpdateToxicBegin, RemoveToxicBegin,
     UpdateToxicRejected, wiring
<1>4. CASE Interrupt \/ InterruptClosed
  BY <1>0, <1>2, <1>4 DEF Interrupt, InterruptClosed, wiring
<1>5. CASE AddDone \/ UpdateDone \/ RemoveCleanup \/ RemovePump
  BY <1>0, <1>2, <1>5 DEF AddDone, UpdateDone, Restart, RemoveCleanup, RemovePump, Stopped, wiring
<1>6. CASE HelperInterrupt \/ HelperReturns \/ RemoveSplice \/ RemoveClosed
  <2>1. Alive /\ (HelperInterrupt => op.phase = "pump")
    BY <1>6, CallFacts DEF HelperInterrupt, HelperReturns, RemoveSplice, RemoveClosed
  <2> QED
    BY <1>0, <1>2, <1>6, <2>1 DEF HelperInterrupt, HelperReturns, RemoveSplice, RemoveClosed, wiring
<1> QED
  BY <1>3, <1>4, <1>5, <1>6 DEF Finish

(* What a call does to a stub that was made for a latency toxic.           *)
LEMMA CallLatent ==
  ASSUME IInv, WInv, OInv, Emptied, Begin \/ Finish, "stub" \notin lost', NEW s \in buffered
  PROVE  /\ Latent(s)'
         /\ st'[s].closed => \/ st[s].closed
                             \/ /\ InterruptClosed /\ op.call = "add" /\ s = Last(stubs)
                                /\ st'[s] = Close(st[s])
<1>0. /\ s \in Stub /\ st[s] \in Local /\ Relays(st[s]) /\ op.toxic \in Wrappers
      /\ Kind[st[s].toxic] \in {"latency", "noop"}
  BY DEF IInv, TypeOK, Emptied, Latent
<1> SUFFICES ASSUME CalledOn(s)
             PROVE  /\ Latent(s)'
                    /\ st'[s].closed => /\ InterruptClosed /\ op.call = "add" /\ s = Last(stubs)
                                        /\ st'[s] = Close(st[s])
  BY <1>0, CallCases DEF Latent
<1>1. ~st[s].closed
  BY DEF CalledOn
<1>2. CASE st'[s] \in {OnInterrupt(st[s]), Pump(st[s]), Exit(st[s])}
  BY <1>0, <1>1, <1>2, EventsRelay DEF Latent
<1>3. ASSUME NEW l \in Local, NEW t \in Wrappers, NEW p \in Pipes(t), NEW b,
             ~l.closed, Kind[t] \in {"latency", "noop"}, st'[s] = Run(l, t, p, b)
      PROVE  Latent(s)' /\ ~st'[s].closed
  <2>1. p \in {"latency", "noop"}
    BY <1>3 DEF Pipes
  <2>2. Run(l, t, p, b).pc = "select" /\ Run(l, t, p, b).pipe = p
    BY <1>3, <2>1 DEF Run, Local
  <2> QED
    BY <1>3, <2>1, <2>2, RunFacts DEF Latent, Relays
<1>4. CASE \E t \in Wrappers : \E p \in Pipes(t) :
             st'[s] = Run(st[s], t, p, AttrOf(t)) /\ st[s].toxic = t
  BY <1>0, <1>1, <1>3, <1>4
<1>5. CASE /\ op.call = "add" /\ s = Last(stubs)
           /\ \E p \in Pipes(op.toxic) :
                st'[s] = Run(WithState(st[s], op.toxic), op.toxic, p, AttrOf(op.toxic))
  <2>1. Kind[op.toxic] = "latency"
    BY <1>5 DEF Emptied
  <2>2. WithState(st[s], op.toxic) \in Local /\ ~WithState(st[s], op.toxic).closed
    BY <1>0, <1>1 DEF WithState, Local
  <2> QED
    BY <1>0, <1>3, <1>5, <2>1, <2>2
<1>6. CASE InterruptClosed /\ op.call = "add" /\ s = Last(stubs) /\ st'[s] = Close(st[s])
  BY <1>0, <1>6, EventsRelay DEF Latent
<1>7. ~(RemoveCleanup /\ s = Target)
  BY <1>0 DEF RemoveCleanup, Misplaced, Because
<1> QED
  BY <1>2, <1>4, <1>5, <1>6, <1>7 DEF CalledOn

LEMMA CallEmptied ==
  ASSUME IInv, WInv, OInv, Emptied, Begin \/ Finish, "stub" \notin lost'
  PROVE  Emptied'
<1>0. /\ st \in [Stub -> Local] /\ buffered \subseteq Stub \ {Entry} /\ queue' = queue
      /\ out \in [Stub -> Stub \cup {Sink}] /\ buffered' \subseteq Stub
      /\ stubs \in Seq(Stub)
  <2>1. queue' = queue
    BY DEF Begin, AddToxicBegin, UpdateToxicBegin, RemoveToxicBegin, UpdateToxicRejected,
       Finish, Interrupt, InterruptClosed, AddDone, UpdateDone, RemoveCleanup, RemovePump,
       HelperInterrupt, HelperReturns, RemoveSplice, RemoveClosed
  <2>2. TypeOK'
    BY TypeBegin, TypeFinish DEF IInv
  <2> QED
    BY <2>1, <2>2 DEF IInv, TypeOK, MovedStubsStopped
<1>1. \/ buffered' = buffered
      \/ \E t \in Toxics : AddToxicBegin(t)
  BY DEF Begin, AddToxicBegin, UpdateToxicBegin, RemoveToxicBegin, UpdateToxicRejected,
     Finish, Interrupt, InterruptClosed, AddDone, UpdateDone, RemoveCleanup, RemovePump,
     HelperInterrupt, HelperReturns, RemoveSplice, RemoveClosed, wiring
<1>2. ASSUME NEW s \in buffered
      PROVE  Latent(s)' /\ (st'[s].closed => Held(s)' = {} /\ (ChanClosed(s) \/ out[s] = s)')
  <2>1. s \in Stub /\ s # Entry /\ Latent(s)'
    BY <1>0, CallLatent
  <2>2. CASE st[s].closed
    <3>1. Held(s) = {} /\ (ChanClosed(s) \/ out[s] = s)
      BY <2>2 DEF Emptied
    <3>2. st'[s] = st[s] /\ out'[s] = out[s]
      BY <2>1, <2>2, ClosedStays DEF Next
    <3> QED
      BY <1>0, <2>1, <3>1, <3>2, ChanStaysClosed DEF Held, Next
  <2>3. CASE InterruptClosed /\ op.call = "add" /\ s = Last(stubs) /\ st'[s] = Close(st[s])
    <3>1. out'[s] = s
      BY <1>0, <2>1, <2>3 DEF InterruptClosed
    <3>2. Last(stubs) = stubs[Len(stubs)]
      BY DEF Last
    <3>3. Held(s) = {}
      BY <2>1, <2>3, <3>2 DEF OInv, Hands, Unused
    <3>4. st'[s].chunk = Empty
      BY <1>0, <2>1, <2>3 DEF Close, Local
    <3>5. Held(s)' = {}
      BY <1>0, <3>3, <3>4, EmptyBytes DEF Held
    <3> QED
      BY <2>1, <3>1, <3>5
  <2> QED
    BY <2>1, <2>2, <2>3, CallLatent
<1>3. ASSUME NEW s \in Stub, s >= fresh
      PROVE  Unmade(s) /\ st'[s] = st[s] /\ fresh <= fresh'
  BY <1>3, UnmadeStays DEF Emptied
<1>4. CASE \E t \in Toxics : AddToxicBegin(t)
  <2>1. PICK t \in Toxics : AddToxicBegin(t)
    BY <1>4
  <2>2. /\ fresh \in Stub /\ fresh' = fresh + 1 /\ fresh \in Nat /\ st' = st
        /\ stubs' = Append(stubs, fresh) /\ op'.toxic = t
        /\ buffered' = IF Kind[t] = "latency" THEN buffered \cup {fresh} ELSE buffered
    BY <2>1, LinkAssumption DEF AddToxicBegin, Stub, Call
  <2>a. PICK n \in Stub : n = fresh
    BY <2>2
  <2>3. Last(stubs') = n
    BY <1>0, <2>2, <2>a DEF Last
  <2>4. Unmade(n) /\ n \notin buffered
    BY <1>3, <2>2, <2>a DEF Unmade
  <2>5. Latent(n)' /\ ~st'[n].closed
    BY <2>2, <2>4 DEF Unmade, Latent, Relays
  <2>6. \A s \in Stub : s >= fresh' => Unmade(s)'
    <3> SUFFICES ASSUME NEW s \in Stub, s >= fresh' PROVE Unmade(s)'
      OBVIOUS
    <3>1. s >= fresh /\ s # fresh
      BY <2>2, LinkAssumption DEF Stub
    <3> QED
      BY <1>3, <2>2, <3>1 DEF Unmade
  <2> QED
    BY <1>2, <2>2, <2>3, <2>4, <2>5, <2>6, <2>a DEF Emptied
<1>5. CASE buffered' = buffered /\ ~\E t \in Toxics : AddToxicBegin(t)
  <2>1. \A s \in Stub : s >= fresh' => Unmade(s)'
    <3>1. fresh' = fresh
      BY <1>5 DEF Begin, UpdateToxicBegin, RemoveToxicBegin, UpdateToxicRejected,
         Finish, Interrupt, InterruptClosed, AddDone, UpdateDone, RemoveCleanup, RemovePump,
         HelperInterrupt, HelperReturns, RemoveSplice, RemoveClosed, wiring
    <3> QED
      BY <1>3, <1>5, <3>1 DEF Unmade
  <2>2. op'.call = "add" => op.call = "add" /\ op'.toxic = op.toxic /\ stubs' = stubs
    BY <1>5 DEF Begin, UpdateToxicBegin, RemoveToxicBegin, UpdateToxicRejected,
       Finish, Interrupt, InterruptClosed, AddDone, UpdateDone, RemoveCleanup, RemovePump,
       HelperInterrupt, HelperReturns, RemoveSplice, RemoveClosed, wiring, api, Call, Idle,
       IInv, TypeOK
  <2> QED
    BY <1>2, <1>5, <2>1, <2>2 DEF Emptied
<1> QED
  BY <1>1, <1>4, <1>5

LEMMA EndsEmptied ==
  ASSUME IInv, WInv, Emptied, Ends
  PROVE  Emptied'
<1>1. UNCHANGED <<st, queue, out, buffered, stubs, fresh, op>>
  BY DEF Ends, ReadSource, SourceEof, WriteDest, WriteFail, WriterEof, CloseDest, RemoveLink,
     wiring, api
<1>2. ASSUME NEW s \in buffered, st[s].closed
      PROVE  Held(s)' = {} /\ (ChanClosed(s) \/ out[s] = s)'
  <2>1. s \in Stub /\ s # Entry
    BY DEF IInv, TypeOK, MovedStubsStopped
  <2>2. Held(s) = {} /\ (ChanClosed(s) \/ out[s] = s)
    BY <1>2 DEF Emptied
  <2> QED
    BY <1>1, <2>1, <2>2, ChanStaysClosed DEF Held, Next
<1> QED
  BY <1>1, <1>2 DEF Emptied, Latent, Unmade

LEMMA InitEmptied == Init => Emptied
<1> SUFFICES ASSUME Init PROVE Emptied
  OBVIOUS
<1>1. PICK pipe \in [1 .. Len(chain) -> Kinds] :
        /\ \A s \in 1 .. Len(chain) : pipe[s] \in Pipes(chain[s])
        /\ st = [s \in Stub |->
                   IF s <= Len(chain)
                     THEN Run(WithState(Fresh, chain[s]), chain[s], pipe[s], AttrOf(chain[s]))
                     ELSE Fresh]
  BY DEF Init
<1>2. /\ TypeOK /\ fresh = Len(chain) + 1 /\ op.call = "idle" /\ Len(chain) \in Nat
      /\ buffered = {s \in 1 .. Len(chain) : Kind[chain[s]] = "latency"}
      /\ \A s \in 1 .. Len(chain) : chain[s] \in Wrappers
  <2>1. TypeOK /\ chain \in Seq(Wrappers)
    BY TypeInit DEF TypeOK
  <2>2. fresh = Len(chain) + 1 /\ op = Idle
    BY DEF Init
  <2>3. buffered = {s \in 1 .. Len(chain) : Kind[chain[s]] = "latency"}
    BY DEF Init
  <2> QED
    BY <2>1, <2>2, <2>3 DEF Idle
<1>3. ASSUME NEW s \in buffered PROVE Latent(s) /\ ~st[s].closed
  <2>1. s \in 1 .. Len(chain) /\ Kind[chain[s]] = "latency" /\ s \in Stub /\ s <= Len(chain)
    BY <1>2 DEF TypeOK
  <2>2. WithState(Fresh, chain[s]) \in Local /\ ~WithState(Fresh, chain[s]).closed
    <3>1. Fresh \in Local /\ ~Fresh.closed
      BY EmptyChunk DEF Fresh, Local, Places, Kinds, Wrappers
    <3> QED
      BY <3>1 DEF WithState, Local
  <2>3. pipe[s] \in Pipes(chain[s]) /\ pipe[s] \in {"latency", "noop"}
    BY <1>1, <2>1 DEF Pipes
  <2>4. st[s] = Run(WithState(Fresh, chain[s]), chain[s], pipe[s], AttrOf(chain[s]))
    BY <1>1, <2>1
  <2>5. st[s].pc = "select" /\ st[s].pipe = pipe[s]
    BY <2>2, <2>3, <2>4 DEF Run, Local
  <2> QED
    BY <1>2, <2>1, <2>2, <2>3, <2>4, <2>5, RunFacts DEF Latent, Relays
<1>4. ASSUME NEW s \in Stub, s >= fresh PROVE Unmade(s)
  <2>1. ~(s <= Len(chain)) /\ st[s] = Fresh
    BY <1>1, <1>2, <1>4, LinkAssumption DEF Stub
  <2> QED
    BY <1>2, <2>1, ToxicAssumption DEF Unmade, Fresh
<1> QED
  BY <1>2, <1>3, <1>4 DEF Emptied

LEMMA SpecWhole == Spec => [](IInv /\ WInv /\ Ordered /\ Whole)
<1>1. Init => Whole
  BY InitEmptied DEF Whole
<1>2. IInv /\ WInv /\ Ordered /\ Whole /\ [Next]_vars => Whole'
  <2> SUFFICES ASSUME IInv, WInv, Ordered, Whole, [Next]_vars, lost' \cap {"rate", "stub"} = {}
               PROVE  Emptied'
    BY DEF Whole
  <2>1. OInv /\ Emptied /\ "stub" \notin lost'
    BY LostStays DEF Ordered, Whole
  <2>2. CASE UNCHANGED vars
    BY <2>1, <2>2 DEF vars, config, wiring, ends, api, Emptied, Latent, Unmade, Held, ChanClosed
  <2> QED
    BY <2>1, <2>2, EndsEmptied, FlowEmptied, CallEmptied DEF Next
<1> QED
  BY <1>1, <1>2, SpecOrdered, PTL DEF Spec
-----------------------------------------------------------------------------
(* What the invariant says of the stream: what the destination has been    *)
(* given followed by what is under way to it.                              *)

LEMMA Join ==
  ASSUME NEW s \in Seq(Nat), NEW t \in Seq(Nat), Increasing(s), Increasing(t),
         Below(Range(s), Range(t))
  PROVE  s \o t \in Seq(Nat) /\ Increasing(s \o t) /\ Range(s \o t) = Range(s) \cup Range(t)
<1>1. s \o t \in Seq(Nat)
  OBVIOUS
<1>2. Increasing(s \o t)
  BY IncreasingConcat
<1>3. Range(s \o t) = Range(s) \cup Range(t)
  BY RangeConcat
<1> QED
  BY <1>1, <1>2, <1>3

(* A stub's own bytes, the chunk it holds before those in its channel;     *)
(* nobody takes what is in the channel of a closed one.                    *)
InHand(s) == IF st[s].closed THEN {} ELSE Held(s)

LEMMA HeldByFacts ==
  ASSUME IInv, OInv, NEW s \in Stub
  PROVE  HeldBy(s) \in Seq(Nat) /\ Increasing(HeldBy(s)) /\ Range(HeldBy(s)) = InHand(s)
<1>0. CASE st[s].closed
  <2>1. <<>> \in Seq(Nat) /\ Increasing(<<>>) /\ Range(<<>>) = {}
    BY DEF Increasing, Range
  <2> QED
    BY <1>0, <2>1 DEF HeldBy, InHand
<1> SUFFICES ASSUME ~st[s].closed
             PROVE  /\ HeldBy(s) \in Seq(Nat) /\ Increasing(HeldBy(s))
                    /\ Range(HeldBy(s)) = InHand(s)
  BY <1>0
<1>1. st[s].chunk \in Chunk /\ queue[s] \in Seq(Chunk) /\ QueueSorted(s)
  BY DEF IInv, TypeOK, Local, OInv, SortedQueues
<1>2. PICK q \in Seq(Chunk) : q = queue[s]
  BY <1>1
<1> DEFINE qs == [i \in 1 .. Len(q) |-> Offsets(q[i])]
<1>3. Len(q) \in Nat /\ \A i \in 1 .. Len(q) : q[i] \in Chunk
  OBVIOUS
<1>4. \A i \in 1 .. Len(q) : /\ Offsets(q[i]) \in Seq(Nat) /\ Increasing(Offsets(q[i]))
                             /\ Range(Offsets(q[i])) = Bytes(q[i])
  BY <1>3, OffsetsFacts
<1>5. qs \in Seq(Seq(Nat)) /\ Len(qs) = Len(q) /\ \A i \in 1 .. Len(q) : qs[i] = Offsets(q[i])
  BY <1>3, <1>4
<1>6. HeldBy(s) = Offsets(st[s].chunk) \o FlattenSeq(qs)
  BY <1>2 DEF HeldBy
<1> HIDE DEF qs
<1>7. PICK f \in Seq(Nat) : f = FlattenSeq(qs)
  BY <1>5, FlattenFacts
<1>8. Range(f) = BytesIn(q)
  <2>1. Range(f) = UNION {Range(qs[k]) : k \in 1 .. Len(qs)}
    BY <1>5, <1>7, FlattenFacts
  <2>2. \A k \in 1 .. Len(q) : Range(qs[k]) = Bytes(q[k])
    BY <1>4, <1>5
  <2>3. ASSUME NEW x PROVE x \in Range(f) <=> x \in BytesIn(q)
    <3>1. x \in Range(f) <=> \E k \in 1 .. Len(q) : x \in Range(qs[k])
      BY <1>5, <2>1
    <3>2. x \in BytesIn(q) <=> \E k \in 1 .. Len(q) : x \in Bytes(q[k])
      BY DEF BytesIn
    <3> QED
      BY <2>2, <3>1, <3>2
  <2> QED
    BY <2>3
<1>9. Increasing(f)
  <2>1. \A k \in 1 .. Len(qs) : Increasing(qs[k])
    BY <1>4, <1>5
  <2>2. \A k, l \in 1 .. Len(qs) : k < l => Below(Range(qs[k]), Range(qs[l]))
    BY <1>1, <1>2, <1>4, <1>5 DEF QueueSorted, InTurn
  <2> QED
    BY <1>5, <1>7, <2>1, <2>2, FlattenFacts
<1>10. PICK o \in Seq(Nat) : /\ o = Offsets(st[s].chunk) /\ Increasing(o)
                             /\ Range(o) = Bytes(st[s].chunk)
  BY <1>1, OffsetsFacts
<1>11. Below(Range(o), Range(f)) /\ HeldBy(s) = o \o f
  BY <1>1, <1>2, <1>6, <1>7, <1>8, <1>10 DEF QueueSorted
<1>12. o \o f \in Seq(Nat) /\ Increasing(o \o f) /\ Range(o \o f) = Range(o) \cup Range(f)
  BY <1>9, <1>10, <1>11, Join
<1> QED
  BY <1>2, <1>8, <1>10, <1>11, <1>12 DEF Held, InHand

(* All the stubs' bytes, from the last stub to the first.                  *)
AllHeld == UNION {InHand(stubs[i]) : i \in 1 .. Len(stubs)}

LEMMA StubsFacts ==
  ASSUME IInv, OInv
  PROVE  \E f \in Seq(Nat) :
           /\ f = FlattenSeq([i \in 1 .. Len(stubs) |-> HeldBy(stubs[Len(stubs) + 1 - i])])
           /\ Increasing(f) /\ Range(f) = AllHeld
<1>1. PICK n \in Nat : n = Len(stubs)
  BY Shape
<1> DEFINE hs == [i \in 1 .. n |-> HeldBy(stubs[n + 1 - i])]
<1>2. \A i \in 1 .. n : /\ n + 1 - i \in 1 .. n /\ n + 1 - (n + 1 - i) = i
                        /\ stubs[n + 1 - i] \in Stub
  BY <1>1, Shape
<1>3. \A i \in 1 .. n : /\ HeldBy(stubs[n + 1 - i]) \in Seq(Nat)
                        /\ Increasing(HeldBy(stubs[n + 1 - i]))
                        /\ Range(HeldBy(stubs[n + 1 - i])) = InHand(stubs[n + 1 - i])
  BY <1>2, HeldByFacts
<1>4. /\ hs \in Seq(Seq(Nat)) /\ Len(hs) = n
      /\ \A i \in 1 .. n : /\ Increasing(hs[i]) /\ Range(hs[i]) = InHand(stubs[n + 1 - i])
  BY <1>3
<1>a. hs = [i \in 1 .. Len(stubs) |-> HeldBy(stubs[Len(stubs) + 1 - i])]
  BY <1>1
<1> HIDE DEF hs
<1>5. PICK f \in Seq(Nat) : f = FlattenSeq(hs)
  BY <1>4, FlattenFacts
<1>6. ASSUME NEW k \in 1 .. n, NEW l \in 1 .. n, k < l
      PROVE  Below(Range(hs[k]), Range(hs[l]))
  <2>1. PICK a \in 1 .. n, b \in 1 .. n : a = n + 1 - k /\ b = n + 1 - l /\ b < a
    BY <1>2, <1>6
  <2>2. Below(InHand(stubs[a]), InHand(stubs[b]))
    BY <1>1, <2>1 DEF OInv, SortedStubs, InHand, Below
  <2> QED
    BY <1>4, <2>1, <2>2
<1>7. Increasing(f)
  BY <1>4, <1>5, <1>6, FlattenFacts
<1>8. Range(f) = AllHeld
  <2>1. Range(f) = UNION {Range(hs[k]) : k \in 1 .. Len(hs)}
    BY <1>4, <1>5, FlattenFacts
  <2>2. ASSUME NEW x \in Range(f) PROVE x \in AllHeld
    <3>1. PICK k \in 1 .. n : x \in Range(hs[k])
      BY <1>4, <2>1, <2>2
    <3>2. x \in InHand(stubs[n + 1 - k])
      BY <1>4, <3>1
    <3> QED
      BY <1>1, <1>2, <3>2 DEF AllHeld
  <2>3. ASSUME NEW x \in AllHeld PROVE x \in Range(f)
    <3>1. PICK i \in 1 .. n : x \in InHand(stubs[i])
      BY <1>1, <2>3 DEF AllHeld
    <3>2. PICK k \in 1 .. n : k = n + 1 - i /\ n + 1 - k = i
      BY <1>2
    <3>3. x \in Range(hs[k])
      BY <1>4, <3>1, <3>2
    <3> QED
      BY <1>4, <2>1, <3>3
  <2> QED
    BY <2>2, <2>3
<1> QED
  BY <1>5, <1>7, <1>8, <1>a

(* What the reader has read and not handed over comes after all the rest.  *)
LEMMA LastRead ==
  ASSUME IInv, OInv
  PROVE  /\ ReadTo \in Nat /\ reader.taken \in Nat /\ ReadTo <= reader.taken
         /\ Bytes(reader.chunk) = ReadTo + 1 .. reader.taken
<1>1. reader.taken \in Nat /\ reader.chunk \in Chunk /\ Hands
  BY DEF IInv, TypeOK, OInv
<1>2. CASE reader.pc = "offer"
  BY <1>1, <1>2 DEF Hands, ReadTo, Bytes, Chunk
<1>3. CASE reader.pc # "offer"
  <2>1. ReadTo = reader.taken /\ Bytes(reader.chunk) = {}
    BY <1>1, <1>3, EmptyBytes DEF Hands, ReadTo
  <2>2. reader.taken + 1 .. reader.taken = {}
    BY <1>1
  <2> QED
    BY <1>1, <2>1, <2>2
<1> QED
  BY <1>2, <1>3

LEMMA StreamFacts ==
  ASSUME IInv, OInv
  PROVE  /\ Stream \in Seq(Nat) /\ Increasing(Stream)
         /\ Range(Stream) = Arrived \cup AllHeld \cup Bytes(reader.chunk)
<1>1. /\ dest \in Seq(Nat) /\ writer.chunk \in Chunk /\ reader.chunk \in Chunk
      /\ reader.taken \in Nat /\ Hands /\ SortedEnds /\ SortedStubs
  BY DEF IInv, TypeOK, OInv
<1>2. PICK w \in Seq(Nat) : /\ w = Offsets(writer.chunk) /\ Increasing(w)
                            /\ Range(w) = Bytes(writer.chunk)
  BY <1>1, OffsetsFacts
<1>3. PICK r \in Seq(Nat) : /\ r = Offsets(reader.chunk) /\ Increasing(r)
                            /\ Range(r) = Bytes(reader.chunk)
  BY <1>1, OffsetsFacts
<1>4. PICK f \in Seq(Nat) :
        /\ f = FlattenSeq([i \in 1 .. Len(stubs) |-> HeldBy(stubs[Len(stubs) + 1 - i])])
        /\ Increasing(f) /\ Range(f) = AllHeld
  BY StubsFacts
<1>5. Stream = dest \o ((w \o f) \o r)
  BY <1>2, <1>3, <1>4 DEF Stream, UnderWay
<1>6. Below(Arrived, AllHeld) /\ Arrived \subseteq 1 .. ReadTo /\ AllHeld \subseteq 1 .. ReadTo
  BY <1>1 DEF SortedStubs, SortedEnds, AllHeld, InHand, Below
<1>7. /\ ReadTo \in Nat /\ Bytes(reader.chunk) = ReadTo + 1 .. reader.taken
      /\ reader.taken \in Nat
  BY LastRead
<1>8. /\ Range(w) \subseteq Arrived /\ Range(dest) \subseteq Arrived /\ Increasing(dest)
      /\ Below(Range(dest), Range(w)) /\ Arrived = Range(dest) \cup Range(w)
  BY <1>1, <1>2 DEF Arrived, SortedEnds
<1>9. Below(Arrived \cup AllHeld, Range(r))
  BY <1>3, <1>6, <1>7 DEF Below
<1>10. PICK a \in Seq(Nat) : a = w \o f /\ Increasing(a) /\ Range(a) = Range(w) \cup AllHeld
  <2>1. Below(Range(w), Range(f))
    BY <1>4, <1>6, <1>8 DEF Below
  <2>2. w \o f \in Seq(Nat) /\ Increasing(w \o f) /\ Range(w \o f) = Range(w) \cup Range(f)
    BY <1>2, <1>4, <2>1, Join
  <2> QED
    BY <1>4, <2>2
<1>11. PICK b \in Seq(Nat) : b = a \o r /\ Increasing(b) /\ Range(b) = Range(a) \cup Range(r)
  <2>1. Below(Range(a), Range(r))
    BY <1>8, <1>9, <1>10 DEF Below
  <2>2. a \o r \in Seq(Nat) /\ Increasing(a \o r) /\ Range(a \o r) = Range(a) \cup Range(r)
    BY <1>3, <1>10, <2>1, Join
  <2> QED
    BY <2>2
<1>12. /\ dest \o b \in Seq(Nat) /\ Increasing(dest \o b)
       /\ Range(dest \o b) = Range(dest) \cup Range(b)
  <2>1. Below(Range(dest), Range(b))
    BY <1>6, <1>8, <1>9, <1>10, <1>11 DEF Below
  <2> QED
    BY <1>1, <1>8, <1>11, <2>1, Join
<1> QED
  BY <1>3, <1>5, <1>8, <1>10, <1>11, <1>12

(* No byte overtakes another and none is given twice, whatever toxics are  *)
(* on the link, wherever chunks are when AddToxic, UpdateToxic and         *)
(* RemoveToxic (link.go) stop stubs, move channels and start them again,   *)
(* and whatever an update writes into a limit_data toxic that is running:  *)
(* as long as no update has changed the rate of a bandwidth toxic between  *)
(* two of its readings of it for one piece (bandwidth.go:42-49).           *)
THEOREM InOrderCorrect == Spec => []InOrder
<1>1. IInv /\ WInv /\ Ordered => InOrder
  <2> SUFFICES ASSUME IInv, OInv, NEW i \in 1 .. Len(Stream) - 1
               PROVE  Stream[i] < Stream[i + 1]
    BY DEF InOrder, Ordered
  <2>1. Stream \in Seq(Nat) /\ Increasing(Stream)
    BY StreamFacts
  <2>2. i \in 1 .. Len(Stream) /\ i + 1 \in 1 .. Len(Stream) /\ i < i + 1
    BY <2>1
  <2> QED
    BY <2>1, <2>2 DEF Increasing
<1> QED
  BY <1>1, SpecOrdered, PTL

(* What a closed stub has is nothing, as long as every stub has run the    *)
(* toxic it was made for.                                                  *)
LEMMA AllInHand ==
  ASSUME IInv, WInv, OInv, Emptied, NEW s \in Stub
  PROVE  InHand(s) = Held(s)
<1> SUFFICES ASSUME st[s].closed PROVE Held(s) = {}
  BY DEF InHand
<1>1. CASE s \in buffered
  BY <1>1 DEF Emptied
<1>2. CASE s \notin buffered
  <2>1. queue[s] = <<>> /\ Bytes(st[s].chunk) = {}
    BY <1>2 DEF OInv, Hands, HandsOK, WInv, StubsOK, StubOK
  <2> QED
    BY <2>1 DEF Held, BytesIn
<1> QED
  BY <1>1, <1>2

(* "Don't drop any data on the floor" (link.go): of the bytes read from the*)
(* source every one is with the destination or with a goroutine or in a    *)
(* channel that somebody reads, whatever toxics are added, updated and     *)
(* removed, as long as lost names no reason why not: no toxic has discarded*)
(* any, no flush has run into its deadline, no write to the destination has*)
(* failed, no update has changed bandwidth's rate within a piece, and no   *)
(* call has run or cleaned up a toxic on the stub of another one.          *)
THEOREM NothingMissingCorrect == Spec => []NothingMissing
<1>1. IInv /\ WInv /\ Ordered /\ Whole => NothingMissing
  <2> SUFFICES ASSUME IInv, WInv, Ordered, Whole, lost = {} PROVE Len(Stream) = reader.taken
    BY DEF NothingMissing
  <2>0. OInv /\ Emptied
    BY DEF Ordered, Whole
  <2>1. /\ Stream \in Seq(Nat) /\ Increasing(Stream)
        /\ Range(Stream) = Arrived \cup AllHeld \cup Bytes(reader.chunk)
    BY <2>0, StreamFacts
  <2>2. /\ ReadTo \in Nat /\ reader.taken \in Nat /\ ReadTo <= reader.taken
        /\ Bytes(reader.chunk) = ReadTo + 1 .. reader.taken
    BY <2>0, LastRead
  <2>3. \A i \in 1 .. Len(stubs) : InHand(stubs[i]) = Held(stubs[i])
    BY <2>0, AllInHand, Shape
  <2>4. Arrived \cup AllHeld = 1 .. ReadTo
    <3>1. Arrived \subseteq 1 .. ReadTo
      BY <2>0 DEF OInv, SortedEnds
    <3>2. AllHeld \subseteq 1 .. ReadTo
      BY <2>0, <2>3 DEF OInv, SortedStubs, AllHeld
    <3>3. 1 .. ReadTo \subseteq Arrived \cup AllHeld
      BY <2>0, <2>3 DEF OInv, Complete, AllHeld
    <3> QED
      BY <3>1, <3>2, <3>3
  <2>5. Range(Stream) = 1 .. reader.taken
    BY <2>1, <2>2, <2>4
  <2> QED
    BY <2>1, <2>2, <2>5, IncreasingLength
<1> QED
  BY <1>1, SpecWhole, PTL
-----------------------------------------------------------------------------
(***************************************************************************)
(* A link implements BytePipe, as far as safety goes, when its toxics pass *)
(* on all they take until they close.                                      *)
(***************************************************************************)

(* Every toxic but reset_peer, which closes soon after it discards, passes *)
(* on all of the stream.                                                   *)
Relaying == \A t \in Toxics : Kind[t] \notin {"timeout", "limit_data"}

(* What a goroutine waits for: the time until a reset, or until it may send*)
(* or close, slow_close's only once its input has ended.                   *)
WaitsFor(l) ==
  /\ l.pipe \notin {"timeout", "limit_data"}
  /\ l.pc = "reset" => l.pipe = "reset_peer"
  /\ l.pc = "timed" => l.pipe \in {"latency", "bandwidth", "slicer", "slow_close"}

Closing(l) == l.pc = "timed" /\ l.pipe = "slow_close"
AtEnd(s)   == ChanClosed(s) /\ queue[s] = <<>>

Waiting == \A s \in Stub : WaitsFor(st[s]) /\ (Closing(st[s]) => AtEnd(s))

(* A stub that has closed, unless nothing may come to cut it short, has    *)
(* nothing in front of it.                                                 *)
DrainedTo(i) == reader.pc = "done" /\ \A j \in 1 .. i : Held(stubs[j]) = {}
Drained ==
  ~CutShort => \A i \in 1 .. Len(stubs) : st[stubs[i]].closed => DrainedTo(i)

(* Nothing passes a stub that is resetting or has closed.  If none is on   *)
(* its way, a byte follows those before it without a gap.                  *)
Blocked(s) == st[s].pc = "reset" \/ (st[s].closed /\ out[s] # s)
Giving     == writer.pc \in {"read", "write"}
OpenFrom(i) == Giving /\ \A k \in i .. Len(stubs) : ~Blocked(stubs[k])
Present(x) == x \in Arrived \/ \E k \in 1 .. Len(stubs) : x \in Held(stubs[k])

NoGap ==
  /\ Giving => \A x \in Arrived : \A y \in 1 .. x : Present(y)
  /\ \A i \in 1 .. Len(stubs) :
       OpenFrom(i) => \A x \in Held(stubs[i]) : \A y \in 1 .. x : Present(y)
  /\ OpenFrom(1) => \A y \in 1 .. ReadTo : Present(y)

(* The destination is closed when it has been given everything.            *)
GivenAll == reader.pc = "done" /\ Len(dest) = reader.taken
EndOK == writer.pc = "close" => CutShort \/ GivenAll

PInv == Waiting /\ Drained /\ NoGap /\ EndOK
-----------------------------------------------------------------------------
LEMMA PipesRelay ==
  ASSUME Relaying, NEW t \in Wrappers, NEW p \in Pipes(t)
  PROVE  p \notin {"timeout", "limit_data"}
BY ToxicAssumption DEF Relaying, Wrappers, Pipes

(* What each event leaves a goroutine waiting for.                         *)
LEMMA EventsWait ==
  ASSUME NEW l \in Local, WaitsFor(l), NEW b
  PROVE  /\ l.pc = "select" => \A c :
              LET m == OnChunk(l, c, b) IN
              /\ WaitsFor(m) /\ ~Closing(m) /\ (Discards(l, c) => m.pc = "reset")
              /\ ~m.closed \/ l.closed
         /\ l.pc = "select" => WaitsFor(OnNil(l))
         /\ TimerArmed(l) => WaitsFor(OnTimer(l, b)) /\ ~Closing(OnTimer(l, b))
         /\ Sending(l) => \A n :
              LET m == AfterSend(l, n, b) IN
              WaitsFor(m) /\ ~Closing(m) /\ (~m.closed \/ l.closed)
         /\ WaitsFor(OnInterrupt(l)) /\ ~Closing(OnInterrupt(l))
         /\ WaitsFor(Close(l)) /\ ~Closing(Close(l))
         /\ WaitsFor(Exit(l)) /\ ~Closing(Exit(l))
         /\ WaitsFor(Pump(l)) /\ ~Closing(Pump(l))
<1>1. l.pipe \in (Kinds \cup {"pump"}) \ {"timeout", "limit_data"}
  BY DEF Local, WaitsFor
<1>2. \A place \in Places : \A d :
        /\ Hold(l, place, d).pc = place /\ Hold(l, place, d).pipe = l.pipe
        /\ Hold(l, place, d).closed = l.closed
  BY DEF Hold, Local
<1>3. /\ Close(l).pc = "off" /\ Close(l).pipe = l.pipe
      /\ Exit(l).pc = "off" /\ Exit(l).pipe = l.pipe /\ Exit(l).closed = l.closed
      /\ Await(l).pc = "select" /\ Await(l).pipe = l.pipe /\ Await(l).closed = l.closed
      /\ Pump(l).pc = "select" /\ Pump(l).pipe = "pump"
      /\ \A place \in Places : /\ [l EXCEPT !.pc = place].pc = place
                               /\ [l EXCEPT !.pc = place].pipe = l.pipe
  BY DEF Close, Exit, Await, Pump, Local
<1>4. ASSUME NEW m, m.pipe = l.pipe, m.pc \in {"off", "select", "send", "flush"}
      PROVE  WaitsFor(m) /\ ~Closing(m)
  BY <1>1, <1>4 DEF WaitsFor, Closing
<1>5. WaitsFor(Close(l)) /\ ~Closing(Close(l)) /\ WaitsFor(Exit(l)) /\ ~Closing(Exit(l))
      /\ WaitsFor(Await(l)) /\ ~Closing(Await(l))
      /\ \A d : WaitsFor(Hold(l, "send", d)) /\ ~Closing(Hold(l, "send", d))
  <2>1. WaitsFor(Close(l)) /\ ~Closing(Close(l)) /\ WaitsFor(Exit(l)) /\ ~Closing(Exit(l))
        /\ WaitsFor(Await(l)) /\ ~Closing(Await(l))
    BY <1>3, <1>4
  <2>2. ASSUME NEW d PROVE WaitsFor(Hold(l, "send", d)) /\ ~Closing(Hold(l, "send", d))
    BY <1>2, <1>4 DEF Places
  <2> QED
    BY <2>1, <2>2
<1>s. WaitsFor([l EXCEPT !.pc = "send"]) /\ ~Closing([l EXCEPT !.pc = "send"])
  <2>1. [l EXCEPT !.pc = "send"].pc = "send" /\ [l EXCEPT !.pc = "send"].pipe = l.pipe
    BY <1>3 DEF Places
  <2> QED
    BY <1>4, <2>1
<1>6. WaitsFor(Pump(l)) /\ ~Closing(Pump(l))
  BY <1>3 DEF WaitsFor, Closing
<1>7. WaitsFor(OnInterrupt(l)) /\ ~Closing(OnInterrupt(l))
  <2>1. [l EXCEPT !.pc = "flush"].pc = "flush" /\ [l EXCEPT !.pc = "flush"].pipe = l.pipe
    BY <1>3 DEF Places
  <2> QED
    BY <1>4, <1>5, <2>1 DEF OnInterrupt
<1>8. ASSUME l.pc = "select", NEW c
      PROVE  LET m == OnChunk(l, c, b) IN
             /\ WaitsFor(m) /\ ~Closing(m) /\ (Discards(l, c) => m.pc = "reset")
             /\ ~m.closed \/ l.closed
  <2>1. CASE l.pipe \in {"noop", "slow_close", "slicer", "pump"}
    <3>1. OnChunk(l, c, b) = Hold(l, "send", c) /\ ~Discards(l, c)
      BY <2>1 DEF OnChunk, Discards
    <3> QED
      BY <1>2, <1>5, <3>1 DEF Places
  <2>2. CASE l.pipe \in {"latency", "bandwidth"}
    <3>1. /\ OnChunk(l, c, b) \in {Hold(l, "timed", c), Hold(l, "delay", c), Hold(l, "test", c)}
          /\ ~Discards(l, c)
      BY <2>2 DEF OnChunk, Discards
    <3> QED
      BY <1>2, <2>2, <3>1 DEF Places, WaitsFor, Closing
  <2>3. CASE l.pipe = "reset_peer"
    <3>1. OnChunk(l, c, b) = Hold(l, "reset", Empty)
      BY <2>3 DEF OnChunk
    <3> QED
      BY <1>2, <2>3, <3>1 DEF Places, WaitsFor, Closing
  <2> QED
    BY <1>1, <2>1, <2>2, <2>3 DEF Kinds
<1>9. ASSUME l.pc = "select" PROVE WaitsFor(OnNil(l))
  <2>1. CASE l.pipe \in {"slow_close", "reset_peer"}
    BY <1>2, <2>1 DEF OnNil, Places, WaitsFor
  <2>2. CASE l.pipe \notin {"slow_close", "reset_peer"}
    BY <1>5, <2>2 DEF OnNil
  <2> QED
    BY <2>1, <2>2
<1>10. ASSUME TimerArmed(l) PROVE WaitsFor(OnTimer(l, b)) /\ ~Closing(OnTimer(l, b))
  <2>1. Size(l.chunk) > 0 \/ Size(l.chunk) <= 0
    BY DEF Local, Chunk, Size
  <2>2. CASE l.pipe # "bandwidth"
    BY <1>5, <1>s, <2>1, <2>2 DEF OnTimer
  <2>3. CASE l.pipe = "bandwidth"
    <3>1. OnTimer(l, b) = Paced(l, b)
      BY <2>3 DEF OnTimer
    <3>2. \/ Paced(l, b) = [l EXCEPT !.pc = "piece", !.quota = b]
          \/ \E place \in {"panic", "test", "pace", "timed", "send"} :
               Paced(l, b) = [l EXCEPT !.pc = place]
      BY DEF Paced, Panic
    <3>3. Paced(l, b).pipe = "bandwidth" /\ Paced(l, b).pc # "reset"
      BY <2>3, <3>2 DEF Local
    <3> QED
      BY <3>1, <3>3 DEF WaitsFor, Closing
  <2> QED
    BY <2>2, <2>3
<1>11. ASSUME Sending(l), NEW n
       PROVE  LET m == AfterSend(l, n, b) IN
              WaitsFor(m) /\ ~Closing(m) /\ (~m.closed \/ l.closed)
  <2>1. CASE l.pc = "flush"
    BY <1>3, <1>5, <2>1 DEF AfterSend
  <2>2. CASE l.pc = "send" /\ l.pipe = "slicer"
    <3>1. AfterSend(l, n, b) = Hold(l, "timed", Rest(l.chunk, n))
      BY <2>2 DEF AfterSend
    <3> QED
      BY <1>2, <2>2, <3>1 DEF Places, WaitsFor, Closing
  <2>3. CASE l.pc = "piece"
    <3>1. AfterSend(l, n, b) = AfterPiece(l, b)
      BY <2>3 DEF AfterSend
    <3>2. \/ AfterPiece(l, b) = [Hold(l, "test", Rest(l.chunk, b)) EXCEPT !.quota = 0]
          \/ AfterPiece(l, b) = [l EXCEPT !.pc = "panic"]
      BY DEF AfterPiece, Panic
    <3>3. /\ AfterPiece(l, b).pc \in {"test", "panic"} /\ AfterPiece(l, b).pipe = l.pipe
          /\ AfterPiece(l, b).closed = l.closed
      BY <3>2 DEF Hold, Local
    <3> QED
      BY <1>1, <3>1, <3>3 DEF WaitsFor, Closing
  <2>4. CASE l.pc = "send" /\ l.pipe # "slicer"
    <3>1. AfterSend(l, n, b) = Await(l)
      BY <1>1, <2>4 DEF AfterSend
    <3> QED
      BY <1>3, <1>5, <3>1
  <2> QED
    BY <1>11, <2>1, <2>2, <2>3, <2>4 DEF Sending
<1> QED
  BY <1>5, <1>6, <1>7, <1>8, <1>9, <1>10, <1>11

LEMMA RunWaits ==
  ASSUME Relaying, NEW l \in Local, NEW t \in Wrappers, NEW p \in Pipes(t), NEW b
  PROVE  WaitsFor(Run(l, t, p, b)) /\ ~Closing(Run(l, t, p, b))
<1>1. p \notin {"timeout", "limit_data"}
  BY PipesRelay
<1>2. Run(l, t, p, b) = [l EXCEPT !.pc = "select", !.toxic = t, !.pipe = p,
                                  !.chunk = Empty, !.quota = 0]
  BY <1>1 DEF Run
<1>3. Run(l, t, p, b).pc = "select" /\ Run(l, t, p, b).pipe = p
  BY <1>2 DEF Local
<1> QED
  BY <1>1, <1>3 DEF WaitsFor, Closing
-----------------------------------------------------------------------------
(* What a step does to one stub.  Those that have closed, or wait for their*)
(* reset, are left alone but for that.                                     *)
TouchedBy(s) ==
  /\ ~st[s].closed /\ WaitsFor(st'[s])
  /\ \/ st[s].pc # "reset" /\ ~Closing(st'[s]) /\ ~st'[s].closed
     \/ StubEof(s) /\ st'[s] = OnNil(st[s])
     \/ StubTimer(s) /\ st'[s] = OnTimer(st[s], AttrOf(st[s].toxic))
     \/ /\ InterruptClosed /\ op.call = "add" /\ s = Last(stubs)
        /\ st[s].pc # "reset" /\ ~Closing(st'[s])

LEMMA TakenTouches ==
  ASSUME IInv, WInv, Waiting, NEW s \in Stub, st[s].pc = "select",
         NEW c, st'[s] = Taken(s, c)
  PROVE  TouchedBy(s) /\ (Discards(st[s], c) => st'[s].pc = "reset")
<1>1. st[s] \in Local /\ ~st[s].closed /\ WaitsFor(st[s])
  BY DEF IInv, TypeOK, WInv, StubsOK, StubOK, Waiting
<1>2. LET m == OnChunk(st[s], c, AttrOf(st[s].toxic)) IN
      /\ WaitsFor(m) /\ ~Closing(m) /\ (Discards(st[s], c) => m.pc = "reset")
      /\ ~m.closed \/ st[s].closed
  BY <1>1, EventsWait
<1> QED
  BY <1>1, <1>2 DEF Taken, TouchedBy

LEMMA SentTouches ==
  ASSUME IInv, WInv, Waiting, NEW s \in Stub, Sending(st[s]), NEW n, st'[s] = Sent(s, n)
  PROVE  TouchedBy(s)
<1>1. st[s] \in Local /\ ~st[s].closed /\ WaitsFor(st[s]) /\ st[s].pc # "reset"
  BY DEF IInv, TypeOK, WInv, StubsOK, StubOK, Waiting, Sending
<1>2. LET m == AfterSend(st[s], n, AttrOf(st[s].toxic)) IN
      WaitsFor(m) /\ ~Closing(m) /\ (~m.closed \/ st[s].closed)
  BY <1>1, EventsWait
<1> QED
  BY <1>1, <1>2 DEF Sent, TouchedBy

LEMMA FlowTouches ==
  ASSUME IInv, WInv, OInv, Waiting, Flow, NEW s \in Stub
  PROVE  st'[s] = st[s] \/ TouchedBy(s)
<1>0. st[s] \in Local /\ WaitsFor(st[s])
  BY DEF IInv, TypeOK, Waiting
<1>1. CASE \/ st[s].pc = "select" /\ \E c : st'[s] = Taken(s, c)
           \/ Sending(st[s]) /\ \E n : st'[s] = Sent(s, n)
  BY <1>1, TakenTouches, SentTouches
<1>2. CASE StubEof(s) /\ st'[s] = OnNil(st[s])
  <2>1. st[s].pc = "select"
    BY <1>2 DEF StubEof
  <2>2. ~st[s].closed
    BY <2>1 DEF WInv, StubsOK, StubOK
  <2> QED
    BY <1>0, <1>2, <2>1, <2>2, EventsWait DEF TouchedBy
<1>3. CASE StubTimer(s) /\ st'[s] = OnTimer(st[s], AttrOf(st[s].toxic))
  <2>1. TimerArmed(st[s])
    BY <1>3 DEF StubTimer
  <2>2. ~st[s].closed
    BY <2>1 DEF WInv, StubsOK, StubOK, TimerArmed
  <2> QED
    BY <1>0, <1>3, <2>1, <2>2, EventsWait DEF TouchedBy
<1> QED
  BY <1>1, <1>2, <1>3, FlowCases

LEMMA CallTouches ==
  ASSUME Relaying, IInv, WInv, Waiting, Begin \/ Finish, NEW s \in Stub
  PROVE  st'[s] = st[s] \/ TouchedBy(s)
<1> SUFFICES ASSUME CalledOn(s) PROVE TouchedBy(s)
  BY CallCases
<1>1. /\ st[s] \in Local /\ WaitsFor(st[s]) /\ ~st[s].closed /\ st[s].pc # "reset"
      /\ op.toxic \in Wrappers
  BY DEF IInv, TypeOK, Waiting, CalledOn
<1>2. /\ WaitsFor(OnInterrupt(st[s])) /\ ~Closing(OnInterrupt(st[s]))
      /\ WaitsFor(Close(st[s])) /\ ~Closing(Close(st[s]))
      /\ WaitsFor(Exit(st[s])) /\ ~Closing(Exit(st[s]))
      /\ WaitsFor(Pump(st[s])) /\ ~Closing(Pump(st[s]))
  BY <1>1, EventsWait
<1>3. /\ OnInterrupt(st[s]).closed = st[s].closed /\ Exit(st[s]).closed = st[s].closed
      /\ Pump(st[s]).closed = st[s].closed
  BY <1>1, StoppedFacts
<1>4. ASSUME NEW l \in Local, NEW t \in Wrappers, NEW p \in Pipes(t), NEW b,
             l.closed = st[s].closed, st'[s] = Run(l, t, p, b)
      PROVE  TouchedBy(s)
  BY <1>1, <1>4, RunWaits, RunFacts DEF TouchedBy
<1>5. CASE st'[s] \in {OnInterrupt(st[s]), Pump(st[s]), Exit(st[s])}
  BY <1>1, <1>2, <1>3, <1>5 DEF TouchedBy
<1>6. CASE \E t \in Wrappers : \E p \in Pipes(t) : st'[s] = Run(st[s], t, p, AttrOf(t))
  BY <1>1, <1>4, <1>6
<1>7. CASE \E p \in Pipes(op.toxic) :
             st'[s] = Run(WithState(st[s], op.toxic), op.toxic, p, AttrOf(op.toxic))
  <2>1. WithState(st[s], op.toxic) \in Local /\ WithState(st[s], op.toxic).closed = st[s].closed
    BY <1>1 DEF WithState, Local
  <2> QED
    BY <1>1, <1>4, <1>7, <2>1
<1>8. CASE InterruptClosed /\ op.call = "add" /\ s = Last(stubs) /\ st'[s] = Close(st[s])
  BY <1>1, <1>2, <1>8 DEF TouchedBy
<1>9. ~RemoveCleanup
  <2>1. Kind[op.toxic] # "timeout"
    BY <1>1, ToxicAssumption DEF Relaying, Wrappers
  <2> QED
    BY <2>1 DEF RemoveCleanup
<1> QED
  BY <1>5, <1>6, <1>7, <1>8, <1>9 DEF CalledOn
-----------------------------------------------------------------------------
(* What lasts through every step.                                          *)

LEMMA AllTouches ==
  ASSUME Relaying, IInv, WInv, OInv, Waiting, Next, NEW s \in Stub
  PROVE  st'[s] = st[s] \/ TouchedBy(s)
<1>1. Ends => st' = st
  BY DEF Ends, ReadSource, SourceEof, WriteDest, WriteFail, WriterEof, CloseDest, RemoveLink
<1> QED
  BY <1>1, FlowTouches, CallTouches DEF Next

(* A stub that resets or has closed keeps its Output, and but for its reset*)
(* nothing happens to it.                                                  *)
LEMMA StaysPut ==
  ASSUME Relaying, IInv, WInv, OInv, Waiting, Next, NEW s \in Stub
  PROVE  /\ st[s].closed => st'[s] = st[s]
         /\ st[s].pc = "reset" => st'[s] = st[s] \/ st'[s].closed
         /\ st[s].closed \/ st[s].pc = "reset" => out'[s] = out[s]
<1>1. st[s].closed => st'[s] = st[s]
  BY AllTouches DEF TouchedBy
<1>2. ASSUME st[s].pc = "reset" PROVE st'[s] = st[s] \/ st'[s].closed
  <2>1. st[s].pipe = "reset_peer" /\ st[s] \in Local
    BY <1>2 DEF Waiting, WaitsFor, IInv, TypeOK
  <2>2. OnTimer(st[s], AttrOf(st[s].toxic)) = Close(st[s])
    BY <2>1 DEF OnTimer
  <2>3. ~StubEof(s)
    BY <1>2 DEF StubEof
  <2> QED
    BY <1>2, <2>1, <2>2, <2>3, AllTouches, StoppedFacts DEF TouchedBy
<1>3. st[s].closed \/ st[s].pc = "reset" => out'[s] = out[s]
  BY OutStays
<1> QED
  BY <1>1, <1>2, <1>3

LEMMA BlockedStays ==
  ASSUME Relaying, IInv, WInv, OInv, Waiting, Next, NEW s \in Stub, Blocked(s)
  PROVE  Blocked(s)'
<1>1. st[s].closed => st'[s].closed
  BY StaysPut
<1>2. st[s].pc = "reset" => out[s] # s
  BY Active DEF OInv, Unused
<1>3. st[s].pc = "reset" => st'[s].pc = "reset" \/ st'[s].closed
  BY StaysPut
<1>4. out'[s] = out[s]
  BY StaysPut DEF Blocked
<1> QED
  BY <1>1, <1>2, <1>3, <1>4 DEF Blocked

LEMMA NextAlive == Next => Alive
<1>1. Ends \/ Flow => Alive
  BY DEF Ends, ReadSource, SourceEof, WriteDest, WriteFail, WriterEof, CloseDest,
         RemoveLink, Flow, ReaderToStub, StubToStub, StubToBuffer, BufferToStub,
         StubToWriter, StubEof, StubTimer, StubDeadline
<1>2. Begin \/ Finish => Alive
  BY DEF Begin, AddToxicBegin, UpdateToxicBegin, RemoveToxicBegin, UpdateToxicRejected,
         Finish, Interrupt, InterruptClosed, AddDone, UpdateDone, RemoveCleanup, RemovePump,
         HelperInterrupt, HelperReturns, RemoveSplice, RemoveClosed
<1> QED
  BY <1>1, <1>2 DEF Next

LEMMA CutStays ==
  ASSUME Relaying, IInv, WInv, OInv, Waiting, Next, CutShort
  PROVE  CutShort'
<1>1. lost \cap {"toxic", "dest"} # {} => lost' \cap {"toxic", "dest"} # {}
  BY LostStays
<1>2. ASSUME NEW s \in Stub, st[s].closed
      PROVE  st'[s].closed /\ st'[s].pipe = st[s].pipe /\ st'[s].toxic = st[s].toxic
  BY <1>2, ClosedStays
<1> QED
  BY <1>1, <1>2, NextAlive DEF CutShort

(* What the stubs and the calls do to the two ends.                        *)
LEMMA InnerEnds ==
  ASSUME IInv, Flow \/ Begin \/ Finish
  PROVE  /\ dest' = dest /\ reader'.taken = reader.taken
         /\ reader.pc = "done" => reader' = reader
         /\ reader'.pc = "done" => reader.pc = "done"
         /\ writer' = writer \/ (writer.pc = "read" /\ writer'.pc = "write")
<1>1. CASE Begin \/ Finish
  BY <1>1 DEF Begin, AddToxicBegin, UpdateToxicBegin, RemoveToxicBegin, UpdateToxicRejected,
         Finish, Interrupt, InterruptClosed, AddDone, UpdateDone, RemoveCleanup, RemovePump,
         HelperInterrupt, HelperReturns, RemoveSplice, RemoveClosed, ends
<1>2. CASE ReaderToStub
  BY <1>2 DEF ReaderToStub, IInv, TypeOK
<1>3. ASSUME NEW s \in Stub, StubToWriter(s)
      PROVE  /\ UNCHANGED <<reader, dest>>
             /\ writer' = writer \/ (writer.pc = "read" /\ writer'.pc = "write")
  BY <1>3 DEF StubToWriter, Ready
<1>4. ASSUME NEW s \in Stub, \/ StubToStub(s) \/ StubToBuffer(s) \/ BufferToStub(s)
                             \/ StubEof(s) \/ StubTimer(s) \/ StubDeadline(s)
      PROVE  UNCHANGED <<reader, writer, dest>>
  BY <1>4 DEF StubToStub, StubToBuffer, BufferToStub, StubEof, StubTimer, StubDeadline, ends
<1> QED
  BY <1>1, <1>2, <1>3, <1>4 DEF Flow

LEMMA EndsStay ==
  ASSUME IInv, Next
  PROVE  /\ reader.pc = "done" => reader' = reader
         /\ Giving' => Giving
<1>1. CASE Ends
  BY <1>1 DEF Ends, ReadSource, SourceEof, WriteDest, WriteFail, WriterEof, CloseDest,
     RemoveLink, Giving, IInv, TypeOK
<1>2. CASE Flow \/ Begin \/ Finish
  BY <1>2, InnerEnds DEF Giving
<1> QED
  BY <1>1, <1>2 DEF Next

(* Nothing comes out of a channel that has been closed and drained.        *)
LEMMA AtEndStays ==
  ASSUME Relaying, IInv, WInv, OInv, Waiting, Next, NEW s \in Stub, AtEnd(s)
  PROVE  AtEnd(s)'
<1>1. ChanClosed(s)'
  <2>1. CASE s = Entry /\ reader.pc = "done"
    BY <2>1, EndsStay DEF ChanClosed
  <2>2. ASSUME NEW d \in Stub, st[d].closed, out[d] = s PROVE ChanClosed(s)'
    <3>1. st'[d].closed /\ out'[d] = s
      BY <2>2, StaysPut
    <3> QED
      BY <3>1 DEF ChanClosed
  <2> QED
    BY <2>1, <2>2 DEF AtEnd, ChanClosed
<1>2. queue'[s] = <<>>
  <2>0. /\ queue[s] = <<>> /\ queue \in [Stub -> Seq(Chunk)] /\ Entry \notin buffered
        /\ out \in [Stub -> Stub \cup {Sink}]
    BY DEF AtEnd, IInv, TypeOK, MovedStubsStopped
  <2>1. ASSUME NEW r \in Stub, StubToBuffer(r), out[r] = s PROVE FALSE
    <3>1. st[r].pc # "off" /\ out[r] \in buffered
      BY <2>1 DEF StubToBuffer, Sending
    <3>2. PICK d \in Stub : st[d].closed /\ out[d] = s
      BY <2>0, <2>1, <3>1 DEF AtEnd, ChanClosed
    <3>3. r # d
      BY <3>1, <3>2 DEF WInv, StubsOK, StubOK
    <3> QED
      BY <2>1, <3>1, <3>2, <3>3, OneOwner DEF OneOwnerPerChannel, Owns
  <2>2. ASSUME NEW r \in Stub, StubToBuffer(r) PROVE queue'[s] = <<>>
    <3>1. PICK q : queue' = [queue EXCEPT ![out[r]] = q]
      BY <2>2 DEF StubToBuffer
    <3> QED
      BY <2>0, <2>1, <2>2, <3>1
  <2>3. ASSUME NEW r \in Stub, BufferToStub(r) PROVE queue'[s] = <<>>
    BY <2>0, <2>3 DEF BufferToStub
  <2>4. ASSUME NEW r \in Stub, StubToStub(r) \/ StubToWriter(r) \/ StubEof(r) \/ StubTimer(r)
                               \/ StubDeadline(r)
        PROVE  queue'[s] = <<>>
    BY <2>0, <2>4 DEF StubToStub, StubToWriter, StubEof, StubTimer, StubDeadline
  <2>5. CASE Ends \/ ReaderToStub
    BY <2>0, <2>5 DEF Ends, ReadSource, SourceEof, WriteDest, WriteFail, WriterEof, CloseDest,
           RemoveLink, ReaderToStub
  <2>6. CASE Begin \/ Finish
    BY <2>0, <2>6 DEF Begin, AddToxicBegin, UpdateToxicBegin, RemoveToxicBegin, UpdateToxicRejected,
           Finish, Interrupt, InterruptClosed, AddDone, UpdateDone, RemoveCleanup, RemovePump,
           HelperInterrupt, HelperReturns, RemoveSplice, RemoveClosed
  <2> QED
    BY <2>2, <2>3, <2>4, <2>5, <2>6 DEF Next, Flow
<1> QED
  BY <1>1, <1>2 DEF AtEnd

LEMMA WaitingStays ==
  ASSUME Relaying, IInv, WInv, OInv, Waiting, Next
  PROVE  Waiting'
<1> SUFFICES ASSUME NEW s \in Stub
             PROVE  WaitsFor(st'[s]) /\ (Closing(st'[s]) => AtEnd(s)')
  BY DEF Waiting
<1>1. WaitsFor(st'[s])
  BY AllTouches DEF TouchedBy, Waiting
<1>2. ASSUME Closing(st'[s]) PROVE AtEnd(s)
  <2>1. CASE st'[s] = st[s]
    BY <1>2, <2>1 DEF Waiting
  <2>2. CASE StubEof(s)
    BY <2>2 DEF StubEof, AtEnd
  <2>3. CASE StubTimer(s) /\ st'[s] = OnTimer(st[s], AttrOf(st[s].toxic))
    <3>1. TimerArmed(st[s]) /\ st[s] \in Local /\ WaitsFor(st[s])
      BY <2>3 DEF StubTimer, Waiting, IInv, TypeOK
    <3> QED
      BY <1>2, <2>3, <3>1, EventsWait
  <2> QED
    BY <1>2, <2>1, <2>2, <2>3, AllTouches DEF TouchedBy
<1> QED
  BY <1>1, <1>2, AtEndStays
-----------------------------------------------------------------------------
(* A link drains from its source on.                                       *)

LEMMA HoldStays ==
  ASSUME IInv, WInv, OInv, Ends \/ Begin \/ Finish, NEW s \in Stub
  PROVE  Held(s)' = Held(s)
<1>1. CASE Ends
  BY <1>1 DEF Ends, ReadSource, SourceEof, WriteDest, WriteFail, WriterEof, CloseDest,
     RemoveLink, Held
<1>2. CASE Begin
  BY <1>2, BeginInPlaceKeeps, AddBeginKeeps DEF Begin
<1>3. CASE Finish
  BY <1>3, InterruptKeeps, AddTooLateKeeps, AddedKeeps, StartAgainKeeps, ReturnKeeps,
     SplicedKeeps DEF Finish
<1> QED
  BY <1>1, <1>2, <1>3

LEMMA FlowDrains ==
  ASSUME IInv, WInv, OInv, Flow, "rate" \notin lost', NEW i \in 1 .. Len(stubs), DrainedTo(i)
  PROVE  DrainedTo(i)'
<1>1. reader.pc = "done" /\ \A j \in 1 .. i : Held(stubs[j]) = {}
  BY DEF DrainedTo
<1>2. /\ stubs' = stubs /\ i \in Int /\ Len(stubs) \in Nat
      /\ \A j \in 1 .. i : j \in 1 .. Len(stubs) /\ stubs[j] \in Stub
  <2>1. \A j \in 1 .. i : j \in 1 .. Len(stubs)
    BY Shape
  <2>2. stubs' = stubs
    BY DEF Flow, ReaderToStub, StubToStub, StubToBuffer, BufferToStub,
             StubToWriter, StubEof, StubTimer, StubDeadline, wiring
  <2> QED
    BY <2>1, <2>2, Shape
<1>3. SUFFICES ASSUME NEW j \in 1 .. i, NEW s \in Stub, s = stubs[j], Held(s) = {}
               PROVE  Held(s)' = {}
  <2>1. reader'.pc = "done"
    BY <1>1, EndsStay DEF Next
  <2>2. \A s : \A j : s = stubs[j] => Held(stubs[j])' = Held(s)'
    BY <1>2 DEF Held
  <2>3. \A j \in 1 .. i : Held(stubs[j])' = {}
    BY <1>1, <1>2, <1>3, <2>2
  <2> QED
    BY <2>1, <2>3 DEF DrainedTo
<1>4. ASSUME NEW r \in Stub, NEW d \in Stub, NEW F, HandsOver(r, d, F),
             NEW k \in 1 .. Len(stubs), stubs[k] = r, k + 1 \in 1 .. Len(stubs),
             stubs[k + 1] = d
      PROVE  Held(s)' = {}
  <2>1. CASE s = d
    <3>1. j = k + 1
      BY <1>2, <1>3, <1>4, <2>1, Shape
    <3>2. k \in 1 .. i
      BY <1>2, <1>4, <3>1
    <3>3. F = {}
      BY <1>1, <1>4, <3>2 DEF HandsOver
    <3> QED
      BY <1>3, <1>4, <2>1, <3>3 DEF HandsOver
  <2>2. CASE s # d
    BY <1>3, <1>4, <2>2 DEF HandsOver
  <2> QED
    BY <2>1, <2>2
<1>5. ASSUME NEW r \in Stub, StubToStub(r) PROVE Held(s)' = {}
  <2>1. PICK d \in Stub, c \in Chunk, k \in 1 .. Len(stubs) : HandsToStub(r, d, c, k)
    BY <1>5, StubToStubMoves
  <2> QED
    BY <1>4, <2>1 DEF HandsToStub
<1>6. ASSUME NEW r \in Stub, StubToBuffer(r) PROVE Held(s)' = {}
  <2>1. PICK d \in Stub, c \in Chunk, k \in 1 .. Len(stubs) : HandsToBuffer(r, d, c, k)
    BY <1>6, StubToBufferMoves
  <2> QED
    BY <1>4, <2>1 DEF HandsToBuffer
<1>7. ASSUME NEW r \in Stub, BufferToStub(r) PROVE Held(s)' = {}
  <2>1. PICK c \in Chunk : TakesFromBuffer(r, c)
    BY <1>7, BufferToStubMoves
  <2> QED
    BY <1>3, <2>1 DEF TakesFromBuffer
<1>8. ASSUME NEW r \in Stub, StubToWriter(r) PROVE Held(s)' = {}
  <2>1. PICK c \in Chunk, k \in 1 .. Len(stubs) : GivesToWriter(r, c, k)
    BY <1>8, StubToWriterMoves
  <2> QED
    BY <1>3, <2>1 DEF GivesToWriter
<1>9. ASSUME NEW r \in Stub, StubEof(r) \/ StubTimer(r) \/ StubDeadline(r)
      PROVE Held(s)' = {}
  BY <1>3, <1>9, StubAloneKeeps
<1>10. ~ReaderToStub
  BY <1>1 DEF ReaderToStub
<1> QED
  BY <1>5, <1>6, <1>7, <1>8, <1>9, <1>10 DEF Flow

(* A stub that runs, has nothing and has met the end of its input has      *)
(* nothing in front of it either.                                          *)
LEMMA UpstreamDrained ==
  ASSUME IInv, WInv, Drained, ~CutShort, NEW i \in 1 .. Len(stubs), NEW s \in Stub, s = stubs[i],
         AtEnd(s), ~st[s].closed, Bytes(st[s].chunk) = {}
  PROVE  DrainedTo(i)
<1>1. Held(s) = {}
  <2>1. BytesIn(queue[s]) = {}
    BY DEF AtEnd, BytesIn
  <2> QED
    BY <2>1 DEF Held
<1>2. CASE s = Entry /\ reader.pc = "done"
  <2>1. i = 1
    <3>1. 1 \in 1 .. Len(stubs) /\ stubs[1] = s
      BY <1>2, Shape DEF WInv, Frontier
    <3> QED
      BY <3>1, Shape
  <2>2. \A k \in 1 .. i : k = i
    BY <2>1
  <2> QED
    BY <1>1, <1>2, <2>2 DEF DrainedTo
<1>3. ASSUME NEW d \in Stub, st[d].closed, out[d] = s
      PROVE  DrainedTo(i)
  <2>1. PICK m \in 1 .. Settled : WiredTo(m)
    BY DEF WInv, Frontier
  <2>2. PICK j \in 1 .. Settled : stubs[j] = d
    BY <1>3 DEF WInv, StubsOK, StubOK, Owns
  <2>3. /\ j \in Int /\ m \in Int /\ Settled \in Int /\ Settled <= Len(stubs) /\ Len(stubs) \in Nat
        /\ j \in 1 .. Len(stubs) /\ s # Sink
    BY <2>1, <2>2, Shape DEF Stub
  <2>4. j < m /\ stubs[j + 1] = s
    <3>1. j # m /\ ~(j > m)
      BY <1>3, <2>1, <2>2, <2>3 DEF WiredTo
    <3> QED
      BY <1>3, <2>1, <2>2, <2>3, <3>1 DEF WiredTo
  <2>5. i = j + 1
    <3>1. j + 1 \in 1 .. Len(stubs)
      BY <2>1, <2>3, <2>4
    <3> QED
      BY <2>4, <3>1, Shape
  <2>6. DrainedTo(j)
    BY <1>3, <2>2, <2>3 DEF Drained
  <2>7. \A k \in 1 .. i : k \in 1 .. j \/ k = i
    BY <2>3, <2>5
  <2> QED
    BY <1>1, <2>6, <2>7 DEF DrainedTo
<1> QED
  BY <1>2, <1>3 DEF AtEnd, ChanClosed

(* While link.stubs stays as it is, no stub closes before those in front.  *)
LEMMA DrainedInPlace ==
  ASSUME Relaying, IInv, WInv, OInv, Waiting, Drained, Next, "rate" \notin lost',
         ~CutShort', stubs' = stubs, NEW i \in 1 .. Len(stubs), st'[stubs[i]].closed
  PROVE  DrainedTo(i)'
<1>0. ~CutShort
  BY CutStays
<1>1. ASSUME DrainedTo(i) PROVE DrainedTo(i)'
  <2>1. CASE Flow
    BY <1>1, <2>1, FlowDrains
  <2>2. CASE Ends \/ Begin \/ Finish
    <3>1. \A j \in 1 .. i : stubs[j] \in Stub
      BY Shape
    <3>2. ASSUME NEW j \in 1 .. i PROVE Held(stubs[j])' = {}
      <4>1. PICK s \in Stub : s = stubs[j]
        BY <3>1
      <4>2. Held(s)' = {}
        BY <1>1, <2>2, <4>1, HoldStays DEF DrainedTo
      <4>3. Held(stubs[j])' = Held(s)'
        BY <4>1 DEF Held
      <4> QED
        BY <4>2, <4>3
    <3>3. reader'.pc = "done"
      BY <1>1, EndsStay DEF DrainedTo
    <3> QED
      BY <3>2, <3>3 DEF DrainedTo
  <2> QED
    BY <2>1, <2>2 DEF Next
<1>2. PICK s \in Stub : s = stubs[i]
  BY Shape
<1>3. /\ st[s] \in Local /\ HandsOK(st[s]) /\ WaitsFor(st[s])
      /\ Closing(st[s]) => AtEnd(s)
  BY DEF IInv, TypeOK, OInv, Hands, Waiting
<1>4. CASE st[s].closed
  BY <1>0, <1>1, <1>2, <1>4 DEF Drained
<1>5. CASE ~st[s].closed /\ StubEof(s)
  <2>1. AtEnd(s) /\ Bytes(st[s].chunk) = {}
    BY <1>3, <1>5 DEF StubEof, AtEnd, HandsOK
  <2> QED
    BY <1>0, <1>1, <1>2, <1>5, <2>1, UpstreamDrained
<1>6. CASE ~st[s].closed /\ StubTimer(s) /\ st'[s] = OnTimer(st[s], AttrOf(st[s].toxic))
  <2>1. \/ st[s].pc \in {"timed", "reset"}
        \/ st[s].pc \in {"delay", "test", "pace"} /\ st[s].pipe = "bandwidth"
    BY <1>3, <1>6 DEF StubTimer, TimerArmed, WaitsFor, HandsOK
  <2>2. CASE st[s].pipe = "slow_close"
    <3>1. Closing(st[s])
      BY <1>3, <2>1, <2>2 DEF Closing, WaitsFor
    <3>2. AtEnd(s) /\ Bytes(st[s].chunk) = {}
      BY <1>3, <3>1 DEF Closing, HandsOK
    <3> QED
      BY <1>0, <1>1, <1>2, <1>6, <3>2, UpstreamDrained
  <2>3. CASE st[s].pipe = "reset_peer"
    <3>1. OnTimer(st[s], AttrOf(st[s].toxic)) = Close(st[s])
      BY <2>3 DEF OnTimer
    <3>2. st'[s].closed /\ st'[s].pipe = "reset_peer"
      BY <1>3, <1>6, <2>3, <3>1 DEF Close, Local
    <3> QED
      BY <3>2 DEF CutShort
  <2>4. CASE st[s].pipe \in {"latency", "bandwidth", "slicer"}
    <3>1. ~OnTimer(st[s], AttrOf(st[s].toxic)).closed
      <4>1. Size(st[s].chunk) > 0 \/ Size(st[s].chunk) <= 0
        BY <1>3 DEF Local, Chunk, Size
      <4>2. CASE st[s].pipe # "bandwidth"
        BY <1>3, <1>6, <2>4, <4>1, <4>2 DEF OnTimer, Await, Local
      <4>3. CASE st[s].pipe = "bandwidth"
        <5>1. OnTimer(st[s], AttrOf(st[s].toxic)) = Paced(st[s], AttrOf(st[s].toxic))
          BY <4>3 DEF OnTimer
        <5>2. \A b : Paced(st[s], b).closed = st[s].closed
          BY <1>3 DEF Paced, Panic, Local
        <5> QED
          BY <1>6, <5>1, <5>2
      <4> QED
        BY <4>2, <4>3
    <3> QED
      BY <1>2, <1>6, <3>1
  <2> QED
    BY <1>3, <2>1, <2>2, <2>3, <2>4 DEF WaitsFor
<1>7. CASE InterruptClosed /\ op.call = "add" /\ s = Last(stubs)
  <2>1. /\ Alive /\ st[Target].closed /\ op.phase = "interrupt"
    BY <1>7 DEF InterruptClosed
  <2>2. /\ Settled = Len(stubs) - 1 /\ op.idx = Settled /\ op.idx \in 1 .. Settled
        /\ s = stubs[Len(stubs)] /\ Len(stubs) \in Nat
    BY <1>7, <2>1, CallFacts, Shape
  <2>3. i = Len(stubs) /\ op.idx \in 1 .. Len(stubs) /\ op.idx = i - 1
    <3>1. Len(stubs) \in 1 .. Len(stubs) /\ op.idx \in 1 .. Len(stubs)
          /\ op.idx = Len(stubs) - 1
      BY <2>2
    <3>2. i = Len(stubs)
      BY <1>2, <2>2, <3>1, Shape
    <3> QED
      BY <3>1, <3>2
  <2>4. DrainedTo(i - 1)
    BY <1>0, <2>1, <2>3 DEF Drained, Target
  <2>5. Held(s) = {}
    BY <1>7, <2>2 DEF OInv, Hands, Unused
  <2>6. \A k \in 1 .. i : k \in 1 .. i - 1 \/ k = i
    BY <2>3
  <2> QED
    BY <1>1, <1>2, <2>4, <2>5, <2>6 DEF DrainedTo
<1> QED
  BY <1>2, <1>4, <1>5, <1>6, <1>7, AllTouches DEF TouchedBy
-----------------------------------------------------------------------------
(* No byte arrives before those in front of it.                            *)

(* What is open after a step was open before.                              *)
LEMMA OpenBefore ==
  ASSUME IInv, stubs' = stubs, Giving' => Giving, \A s \in Stub : Blocked(s) => Blocked(s)',
         NEW i \in 1 .. Len(stubs), OpenFrom(i)'
  PROVE  OpenFrom(i)
<1>1. Giving /\ \A k \in i .. Len(stubs) : ~Blocked(stubs[k])'
  BY DEF OpenFrom
<1>2. \A s : \A k : s = stubs[k] => (Blocked(s)' <=> Blocked(stubs[k])')
  BY DEF Blocked
<1>3. \A k \in i .. Len(stubs) : k \in 1 .. Len(stubs)
  BY Shape
<1>4. ASSUME NEW k \in i .. Len(stubs) PROVE ~Blocked(stubs[k])
  <2>1. PICK s \in Stub : s = stubs[k]
    BY <1>3, Shape
  <2>2. ~Blocked(s)'
    BY <1>1, <1>2, <2>1
  <2> QED
    BY <2>1, <2>2
<1> QED
  BY <1>1, <1>4 DEF OpenFrom

(* A step that loses nothing: what comes to a place comes from one that was*)
(* open as well, or from the reader.                                       *)
LEMMA NothingDropped ==
  ASSUME IInv, NoGap, stubs' = stubs, Giving' => Giving,
         \A s \in Stub : Blocked(s) => Blocked(s)',
         \A x : Present(x) => Present(x)',
         \A i \in 1 .. Len(stubs) : \A x \in Held(stubs[i])' :
            \/ \E j \in 1 .. Len(stubs) :
                 x \in Held(stubs[j]) /\ (OpenFrom(i) => OpenFrom(j))
            \/ i = 1 /\ x \in ReadTo + 1 .. ReadTo',
         \A x \in Arrived' :
            x \in Arrived \/ \E j \in 1 .. Len(stubs) :
                               x \in Held(stubs[j]) /\ (Giving => OpenFrom(j)),
         ReadTo \in Nat, ReadTo' \in Nat, \A y \in ReadTo + 1 .. ReadTo' : Present(y)',
         1 \in 1 .. Len(stubs)
  PROVE  NoGap'
<1> DEFINE n == Len(stubs)
           H(k) == Held(stubs[k])
           G(k) == Held(stubs[k])'
           P(x) == Present(x)
           Q(x) == Present(x)'
           O(k) == OpenFrom(k)
           R(k) == OpenFrom(k)'
<1>1. \A k \in 1 .. n : R(k) => O(k)
  BY OpenBefore
<1>2. /\ Giving => \A x \in Arrived : \A y \in 1 .. x : P(y)
      /\ \A i \in 1 .. n : O(i) => \A x \in H(i) : \A y \in 1 .. x : P(y)
      /\ O(1) => \A y \in 1 .. ReadTo : P(y)
  BY DEF NoGap
<1>3. /\ \A x : P(x) => Q(x)
      /\ \A i \in 1 .. n : \A x \in G(i) :
            \/ \E j \in 1 .. n : x \in H(j) /\ (O(i) => O(j))
            \/ i = 1 /\ x \in ReadTo + 1 .. ReadTo'
      /\ \A x \in Arrived' :
            x \in Arrived \/ \E j \in 1 .. n : x \in H(j) /\ (Giving => O(j))
      /\ \A y \in ReadTo + 1 .. ReadTo' : Q(y)
      /\ 1 \in 1 .. n
  OBVIOUS
<1>4. NoGap' <=> /\ Giving' => \A x \in Arrived' : \A y \in 1 .. x : Q(y)
                 /\ \A i \in 1 .. n : R(i) => \A x \in G(i) : \A y \in 1 .. x : Q(y)
                 /\ R(1) => \A y \in 1 .. ReadTo' : Q(y)
  BY DEF NoGap
<1> HIDE DEF n, H, G, P, Q, O, R
<1>5. ASSUME Giving', NEW x \in Arrived', NEW y \in 1 .. x PROVE Q(y)
  BY <1>2, <1>3, <1>5
<1>6. ASSUME R(1), NEW y \in 1 .. ReadTo' PROVE Q(y)
  <2>1. y \in 1 .. ReadTo \/ y \in ReadTo + 1 .. ReadTo'
    OBVIOUS
  <2> QED
    BY <1>1, <1>2, <1>3, <1>6, <2>1
<1>7. ASSUME NEW i \in 1 .. n, R(i), NEW x \in G(i), NEW y \in 1 .. x PROVE Q(y)
  <2>1. CASE \E j \in 1 .. n : x \in H(j) /\ (O(i) => O(j))
    BY <1>1, <1>2, <1>3, <1>7, <2>1
  <2>2. CASE i = 1 /\ x \in ReadTo + 1 .. ReadTo'
    <3>1. y \in 1 .. ReadTo'
      BY <2>2
    <3> QED
      BY <1>6, <1>7, <2>2, <3>1
  <2> QED
    BY <1>3, <1>7, <2>1, <2>2
<1> QED
  BY <1>4, <1>5, <1>6, <1>7

(* A step that drops a chunk at place k, which lets nothing pass any more. *)
LEMMA SomeDropped ==
  ASSUME IInv, OInv, NoGap, stubs' = stubs, Giving' => Giving,
         \A s \in Stub : Blocked(s) => Blocked(s)',
         NEW k \in 1 .. Len(stubs), NEW s \in Stub, s = stubs[k], Blocked(s)',
         Arrived' = Arrived,
         \A i \in 1 .. Len(stubs) : i > k => Held(stubs[i])' \subseteq Held(stubs[i]),
         \A x : Present(x) => Present(x)' \/ \E j \in 1 .. k : x \in Held(stubs[j])
  PROVE  NoGap'
<1> DEFINE n == Len(stubs)
           H(i) == Held(stubs[i])
           G(i) == Held(stubs[i])'
           P(x) == Present(x)
           Q(x) == Present(x)'
           O(i) == OpenFrom(i)
           R(i) == OpenFrom(i)'
<1>1. \A i \in 1 .. n : R(i) => O(i)
  BY OpenBefore
<1>2. ASSUME NEW i \in 1 .. n, i <= k PROVE ~R(i)
  <2>1. k \in i .. Len(stubs) /\ Blocked(stubs[k])' 
    <3>1. Blocked(stubs[k])'
      BY DEF Blocked
    <3> QED
      BY <1>2, <3>1, Shape
  <2> QED
    BY <2>1 DEF OpenFrom
<1>3. /\ Giving => \A x \in Arrived : \A y \in 1 .. x : P(y)
      /\ \A i \in 1 .. n : O(i) => \A x \in H(i) : \A y \in 1 .. x : P(y)
  BY DEF NoGap
<1>4. /\ \A i \in 1 .. n : i > k => G(i) \subseteq H(i)
      /\ \A x : P(x) => Q(x) \/ \E j \in 1 .. k : x \in H(j)
      /\ \A i \in 1 .. n : Below(Arrived, H(i)) /\ H(i) \subseteq Nat
      /\ \A i, j \in 1 .. n : i < j => Below(H(j), H(i))
      /\ n \in Nat /\ k \in 1 .. n /\ Arrived \subseteq Nat
  <2>1. SortedStubs /\ SortedEnds
    BY DEF OInv
  <2>2. \A i \in 1 .. n : Below(Arrived, H(i)) /\ H(i) \subseteq Nat
    BY <2>1 DEF SortedStubs
  <2>3. \A i, j \in 1 .. n : i < j => Below(H(j), H(i))
    BY <2>1 DEF SortedStubs
  <2>4. Arrived \subseteq Nat
    BY <2>1 DEF SortedEnds
  <2> QED
    BY <2>2, <2>3, <2>4, Shape
<1>5. NoGap' <=> /\ Giving' => \A x \in Arrived' : \A y \in 1 .. x : Q(y)
                 /\ \A i \in 1 .. n : R(i) => \A x \in G(i) : \A y \in 1 .. x : Q(y)
                 /\ R(1) => \A y \in 1 .. ReadTo' : Q(y)
  BY DEF NoGap
<1> HIDE DEF n, H, G, P, Q, O, R
<1>6. ASSUME Giving', NEW x \in Arrived, NEW y \in 1 .. x PROVE Q(y)
  <2>1. x \in Nat /\ y <= x /\ y \in Nat
    BY <1>4, <1>6
  <2>2. \A j \in 1 .. k : y \notin H(j)
    <3>1. \A j \in 1 .. k : j \in 1 .. n
      BY <1>4
    <3> QED
      BY <1>4, <1>6, <2>1, <3>1 DEF Below
  <2> QED
    BY <1>3, <1>4, <1>6, <2>2
<1>7. ASSUME NEW i \in 1 .. n, R(i), NEW x \in G(i), NEW y \in 1 .. x PROVE Q(y)
  <2>1. i > k
    BY <1>2, <1>4, <1>7
  <2>2. x \in H(i) /\ x \in Nat /\ y \in Nat /\ y <= x
    BY <1>4, <1>7, <2>1
  <2>3. \A j \in 1 .. k : y \notin H(j)
    <3>1. \A j \in 1 .. k : j \in 1 .. n /\ j < i
      BY <1>4, <2>1
    <3> QED
      BY <1>4, <2>2, <3>1 DEF Below
  <2> QED
    BY <1>1, <1>3, <1>4, <1>7, <2>2, <2>3
<1>8. ~R(1)
  BY <1>2, <1>4
<1> QED
  BY <1>5, <1>6, <1>7, <1>8

LEMMA Standing ==
  ASSUME Relaying, IInv, WInv, OInv, Waiting, Next
  PROVE  /\ Giving' => Giving
         /\ \A s \in Stub : Blocked(s) => Blocked(s)'
         /\ ReadTo \in Nat /\ 1 \in 1 .. Len(stubs) /\ Len(stubs) \in Nat
         /\ \A k \in 1 .. Len(stubs) : stubs[k] \in Stub
         /\ \A k, j \in 1 .. Len(stubs) : stubs[k] = stubs[j] => k = j
<1>1. 1 \in 1 .. Len(stubs)
  <2>1. \E m \in 1 .. Settled : TRUE
    BY DEF WInv, Frontier
  <2> QED
    BY <2>1, Shape
<1> QED
  BY <1>1, EndsStay, BlockedStays, LastRead, Shape

(* The bytes of the stubs before and after, place by place.                *)
LEMMA HeldInPlace ==
  ASSUME stubs' = stubs
  PROVE  /\ \A r : \A k : r = stubs[k] => Held(stubs[k])' = Held(r)'
         /\ \A x : Present(x)' <=>
                     x \in Arrived' \/ \E k \in 1 .. Len(stubs) : x \in Held(stubs[k])'
  BY DEF Held, Present

LEMMA StillNoGap ==
  ASSUME Relaying, IInv, WInv, OInv, Waiting, NoGap, Next, stubs' = stubs,
         \A s \in Stub : Held(s)' = Held(s), Arrived' = Arrived, ReadTo' = ReadTo
  PROVE  NoGap'
<1> DEFINE G(k) == Held(stubs[k])'
<1>1. \A k \in 1 .. Len(stubs) : G(k) = Held(stubs[k])
  <2>1. \A r : \A k : r = stubs[k] => G(k) = Held(r)'
    BY HeldInPlace
  <2> HIDE DEF G
  <2> QED
    BY <2>1, Standing
<1>2. \A x : Present(x) => Present(x)'
  <2>1. \A x : Present(x)' <=> x \in Arrived' \/ \E k \in 1 .. Len(stubs) : x \in G(k)
    BY HeldInPlace
  <2> HIDE DEF G
  <2> QED
    BY <1>1, <2>1 DEF Present
<1>3. \A i \in 1 .. Len(stubs) : \A x \in G(i) :
         \E j \in 1 .. Len(stubs) : x \in Held(stubs[j]) /\ (OpenFrom(i) => OpenFrom(j))
  <2> HIDE DEF G
  <2> QED
    BY <1>1
<1>4. ReadTo + 1 .. ReadTo = {}
  BY Standing
<1> QED
  BY <1>2, <1>3, <1>4, Standing, NothingDropped

LEMMA HandOverNoGap ==
  ASSUME Relaying, IInv, WInv, OInv, Waiting, NoGap, Next, stubs' = stubs,
         NEW s \in Stub, NEW d \in Stub, NEW F, NEW i \in 1 .. Len(stubs), stubs[i] = s,
         i + 1 \in 1 .. Len(stubs), stubs[i + 1] = d, HandsOver(s, d, F), Sending(st[s]),
         Held(d)' = Held(d) \cup F, Arrived' = Arrived, ReadTo' = ReadTo
  PROVE  NoGap'
<1> DEFINE n == Len(stubs)
           H(k) == Held(stubs[k])
           G(k) == Held(stubs[k])'
<1>1. /\ F \subseteq H(i) /\ G(i) \subseteq H(i) /\ H(i) \subseteq G(i) \cup F
      /\ G(i + 1) = H(i + 1) \cup F
      /\ \A k \in 1 .. n : k # i /\ k # i + 1 => G(k) = H(k)
  <2>1. \A r : \A k : r = stubs[k] => G(k) = Held(r)'
    BY HeldInPlace
  <2>2. \A k \in 1 .. n : k # i /\ k # i + 1 => stubs[k] # s /\ stubs[k] # d
    BY Standing
  <2> HIDE DEF G
  <2>3. \A k \in 1 .. n : k # i /\ k # i + 1 => G(k) = H(k)
    BY <2>1, <2>2, Standing DEF HandsOver
  <2> QED
    BY <2>1, <2>3 DEF HandsOver
<1>2. \A x : Present(x) => Present(x)'
  <2>1. \A x : Present(x)' <=> x \in Arrived' \/ \E k \in 1 .. n : x \in G(k)
    BY HeldInPlace
  <2>2. \A x : Present(x) <=> x \in Arrived \/ \E k \in 1 .. n : x \in H(k)
    BY DEF Present
  <2> HIDE DEF G, H, n
  <2>3. ASSUME NEW k \in 1 .. n, NEW x \in H(k) PROVE \E j \in 1 .. n : x \in G(j)
    <3>1. i \in 1 .. n /\ i + 1 \in 1 .. n
      BY DEF n
    <3>2. CASE k = i
      BY <1>1, <2>3, <3>1, <3>2
    <3>3. CASE k = i + 1
      BY <1>1, <2>3, <3>1, <3>3
    <3>4. CASE k # i /\ k # i + 1
      BY <1>1, <2>3, <3>4
    <3> QED
      BY <3>2, <3>3, <3>4
  <2> QED
    BY <2>1, <2>2, <2>3
<1>3. OpenFrom(i + 1) => OpenFrom(i)
  <2>1. ~Blocked(s)
    BY DEF Blocked, Sending, WInv, StubsOK, StubOK
  <2>2. \A k \in i .. n : k = i \/ k \in i + 1 .. n
    BY Standing
  <2> QED
    BY <2>1, <2>2 DEF OpenFrom
<1>4. \A k \in 1 .. n : \A x \in G(k) :
         \E j \in 1 .. n : x \in H(j) /\ (OpenFrom(k) => OpenFrom(j))
  <2> SUFFICES ASSUME NEW k \in 1 .. n, NEW x \in G(k)
               PROVE  \E j \in 1 .. n : x \in H(j) /\ (OpenFrom(k) => OpenFrom(j))
    OBVIOUS
  <2>1. i \in 1 .. n /\ i + 1 \in 1 .. n
    OBVIOUS
  <2> HIDE DEF G, H, n
  <2>2. CASE k = i + 1
    <3>1. x \in H(i + 1) \/ x \in H(i)
      BY <1>1, <2>2
    <3> QED
      BY <1>3, <2>1, <2>2, <3>1
  <2>3. CASE k # i + 1
    <3>1. x \in H(k)
      BY <1>1, <2>3
    <3> QED
      BY <3>1
  <2> QED
    BY <2>2, <2>3
<1>5. ReadTo + 1 .. ReadTo = {}
  BY Standing
<1> QED
  BY <1>2, <1>4, <1>5, Standing, NothingDropped

(* A chunk that is dropped leaves its stub resetting.                      *)
LEMMA DropBlocks ==
  ASSUME IInv, WInv, Waiting, NEW s \in Stub, NEW c, st[s].pc = "select",
         st'[s] = Taken(s, c), Discards(st[s], c)
  PROVE  Blocked(s)'
<1>1. st'[s].pc = "reset"
  BY TakenTouches
<1> QED
  BY <1>1 DEF Blocked

LEMMA StubToStubNoGap ==
  ASSUME Relaying, IInv, WInv, OInv, Waiting, NoGap, "rate" \notin lost',
         NEW s \in Stub, StubToStub(s)
  PROVE  NoGap'
<1>0. Next
  BY DEF Next, Flow
<1>1. UNCHANGED <<stubs, reader, writer, dest>> /\ Sending(st[s])
  BY DEF StubToStub, wiring, ends
<1>2. Arrived' = Arrived /\ ReadTo' = ReadTo
  BY <1>1 DEF Arrived, ReadTo
<1>3. PICK d \in Stub, c \in Chunk, i \in 1 .. Len(stubs) : HandsToStub(s, d, c, i)
  BY StubToStubMoves
<1>4. /\ stubs[i] = s /\ i + 1 \in 1 .. Len(stubs) /\ stubs[i + 1] = d
      /\ HandsOver(s, d, Bytes(c)) /\ st[d].pc = "select" /\ st'[d] = Taken(d, c)
      /\ Discards(st[d], c) \/ Held(d)' = Held(d) \cup Bytes(c)
  BY <1>3 DEF HandsToStub
<1>5. CASE Held(d)' = Held(d) \cup Bytes(c)
  BY <1>0, <1>1, <1>2, <1>4, <1>5, HandOverNoGap
<1>6. CASE Discards(st[d], c)
  <2> DEFINE n == Len(stubs)
             H(k) == Held(stubs[k])
             G(k) == Held(stubs[k])'
  <2>1. \A k \in 1 .. n : k # i /\ k # i + 1 => G(k) = H(k)
    <3>1. \A r : \A k : r = stubs[k] => G(k) = Held(r)'
      BY <1>1, HeldInPlace
    <3>2. \A k \in 1 .. n : k # i /\ k # i + 1 => stubs[k] # s /\ stubs[k] # d
      BY <1>0, <1>4, Standing
    <3> HIDE DEF G
    <3> QED
      BY <1>0, <1>4, <3>1, <3>2, Standing DEF HandsOver
  <2>2. \A x : Present(x)' <=> x \in Arrived' \/ \E k \in 1 .. n : x \in G(k)
    BY <1>1, HeldInPlace
  <2>3. \A x : Present(x) <=> x \in Arrived \/ \E k \in 1 .. n : x \in H(k)
    BY DEF Present
  <2>4. \A k \in 1 .. n : k > i + 1 => G(k) \subseteq H(k)
    <3> HIDE DEF G, H
    <3> QED
      BY <2>1
  <2>5. \A x : Present(x) => Present(x)' \/ \E j \in 1 .. i + 1 : x \in H(j)
    <3>1. \A k \in 1 .. n : k \in 1 .. i + 1 \/ (k # i /\ k # i + 1)
      BY <1>0, Standing
    <3> HIDE DEF G, H, n
    <3> QED
      BY <1>2, <2>1, <2>2, <2>3, <3>1
  <2>6. Blocked(d)'
    BY <1>4, <1>6, DropBlocks
  <2>7. PICK k \in 1 .. Len(stubs) : k = i + 1
    BY <1>4
  <2> QED
    BY <1>0, <1>1, <1>2, <1>4, <2>4, <2>5, <2>6, <2>7, Standing, SomeDropped
<1> QED
  BY <1>4, <1>5, <1>6

LEMMA StubToBufferNoGap ==
  ASSUME Relaying, IInv, WInv, OInv, Waiting, NoGap, "rate" \notin lost',
         NEW s \in Stub, StubToBuffer(s)
  PROVE  NoGap'
<1>0. Next
  BY DEF Next, Flow
<1>1. UNCHANGED <<stubs, reader, writer, dest>> /\ Sending(st[s])
  BY DEF StubToBuffer, wiring, ends
<1>2. Arrived' = Arrived /\ ReadTo' = ReadTo
  BY <1>1 DEF Arrived, ReadTo
<1>3. PICK d \in Stub, c \in Chunk, i \in 1 .. Len(stubs) : HandsToBuffer(s, d, c, i)
  BY StubToBufferMoves
<1>4. /\ stubs[i] = s /\ i + 1 \in 1 .. Len(stubs) /\ stubs[i + 1] = d
      /\ HandsOver(s, d, Bytes(c)) /\ Held(d)' = Held(d) \cup Bytes(c)
  BY <1>3 DEF HandsToBuffer
<1> QED
  BY <1>0, <1>1, <1>2, <1>4, HandOverNoGap

LEMMA BufferToStubNoGap ==
  ASSUME Relaying, IInv, WInv, OInv, Waiting, NoGap, NEW s \in Stub, BufferToStub(s)
  PROVE  NoGap'
<1>0. Next
  BY DEF Next, Flow
<1>1. UNCHANGED <<stubs, reader, writer, dest>>
  BY DEF BufferToStub, wiring, ends
<1>2. Arrived' = Arrived /\ ReadTo' = ReadTo
  BY <1>1 DEF Arrived, ReadTo
<1>3. PICK c \in Chunk : TakesFromBuffer(s, c)
  BY BufferToStubMoves
<1>4. /\ st[s].pc = "select" /\ st'[s] = Taken(s, c)
      /\ \A r \in Stub : r # s => Held(r)' = Held(r)
      /\ Discards(st[s], c) \/ Held(s)' = Held(s)
  BY <1>3 DEF TakesFromBuffer
<1>5. CASE Held(s)' = Held(s)
  BY <1>0, <1>1, <1>2, <1>4, <1>5, StillNoGap
<1>6. CASE Discards(st[s], c)
  <2>1. PICK k \in 1 .. Len(stubs) : stubs[k] = s
    BY <1>4, Active DEF OInv
  <2> DEFINE n == Len(stubs)
             H(j) == Held(stubs[j])
             G(j) == Held(stubs[j])'
  <2>2. \A j \in 1 .. n : j # k => G(j) = H(j)
    <3>1. \A r : \A j : r = stubs[j] => G(j) = Held(r)'
      BY <1>1, HeldInPlace
    <3>2. \A j \in 1 .. n : j # k => stubs[j] # s
      BY <1>0, <2>1, Standing
    <3> HIDE DEF G
    <3> QED
      BY <1>0, <1>4, <3>1, <3>2, Standing
  <2>3. \A x : Present(x)' <=> x \in Arrived' \/ \E j \in 1 .. n : x \in G(j)
    BY <1>1, HeldInPlace
  <2>4. \A x : Present(x) <=> x \in Arrived \/ \E j \in 1 .. n : x \in H(j)
    BY DEF Present
  <2>5. \A j \in 1 .. n : j > k => G(j) \subseteq H(j)
    <3> HIDE DEF G, H
    <3> QED
      BY <2>2
  <2>6. \A x : Present(x) => Present(x)' \/ \E j \in 1 .. k : x \in H(j)
    <3>1. k \in 1 .. k
      OBVIOUS
    <3> HIDE DEF G, H, n
    <3> QED
      BY <1>2, <2>2, <2>3, <2>4, <3>1
  <2>7. Blocked(s)'
    BY <1>4, <1>6, DropBlocks
  <2> QED
    BY <1>0, <1>1, <1>2, <2>1, <2>5, <2>6, <2>7, Standing, SomeDropped
<1> QED
  BY <1>4, <1>5, <1>6

LEMMA ReaderToStubNoGap ==
  ASSUME Relaying, IInv, WInv, OInv, Waiting, NoGap, ReaderToStub
  PROVE  NoGap'
<1>0. Next
  BY DEF Next, Flow
<1>1. UNCHANGED <<stubs, writer, dest>>
  BY DEF ReaderToStub, wiring
<1>2. Arrived' = Arrived
  BY <1>1 DEF Arrived
<1>3. PICK e \in Stub, c \in Chunk : ReaderHands(e, c)
  BY ReaderToStubMoves
<1>4. /\ e = stubs[1] /\ 1 \in 1 .. Len(stubs)
      /\ st[e].pc = "select" /\ st'[e] = Taken(e, c)
      /\ \A r \in Stub : r # e => Held(r)' = Held(r)
      /\ Held(e) = {} /\ (Discards(st[e], c) \/ Held(e)' = Bytes(c))
      /\ Bytes(c) = ReadTo + 1 .. ReadTo' /\ ReadTo \in Nat /\ ReadTo' \in Nat
  BY <1>3 DEF ReaderHands
<1> DEFINE n == Len(stubs)
           H(j) == Held(stubs[j])
           G(j) == Held(stubs[j])'
<1>5. /\ \A j \in 1 .. n : j # 1 => G(j) = H(j)
      /\ H(1) = {} /\ (Discards(st[e], c) \/ G(1) = Bytes(c))
  <2>1. \A r : \A j : r = stubs[j] => G(j) = Held(r)'
    BY <1>1, HeldInPlace
  <2>2. \A j \in 1 .. n : j # 1 => stubs[j] # e
    BY <1>0, <1>4, Standing
  <2> HIDE DEF G
  <2> QED
    BY <1>0, <1>4, <2>1, <2>2, Standing
<1>6. \A x : Present(x)' <=> x \in Arrived' \/ \E j \in 1 .. n : x \in G(j)
  BY <1>1, HeldInPlace
<1>7. \A x : Present(x) <=> x \in Arrived \/ \E j \in 1 .. n : x \in H(j)
  BY DEF Present
<1>8. \A x : Present(x) => Present(x)'
  <2> HIDE DEF G, H, n
  <2> QED
    BY <1>2, <1>5, <1>6, <1>7
<1>9. CASE G(1) = Bytes(c)
  <2>1. \A j \in 1 .. n : \A x \in G(j) :
          \/ \E k \in 1 .. n : x \in H(k) /\ (OpenFrom(j) => OpenFrom(k))
          \/ j = 1 /\ x \in ReadTo + 1 .. ReadTo'
    <3> HIDE DEF G, H, n
    <3> QED
      BY <1>4, <1>5, <1>9
  <2>2. \A y \in ReadTo + 1 .. ReadTo' : Present(y)'
    <3>1. 1 \in 1 .. n
      BY <1>4
    <3> HIDE DEF G, H, n
    <3> QED
      BY <1>4, <1>6, <1>9, <3>1
  <2> QED
    BY <1>0, <1>1, <1>2, <1>4, <1>8, <2>1, <2>2, Standing, NothingDropped
<1>10. CASE Discards(st[e], c)
  <2>1. Blocked(e)'
    BY <1>4, <1>10, DropBlocks
  <2>2. \A j \in 1 .. n : j > 1 => G(j) \subseteq H(j)
    <3> HIDE DEF G, H, n
    <3> QED
      BY <1>5
  <2>3. \A x : Present(x) => Present(x)' \/ \E j \in 1 .. 1 : x \in H(j)
    BY <1>8
  <2> QED
    BY <1>0, <1>1, <1>2, <1>4, <2>1, <2>2, <2>3, Standing, SomeDropped
<1> QED
  BY <1>5, <1>9, <1>10

(* Nothing behind the stub that sends to the writer is in its way.         *)
LEMMA LastOpen ==
  ASSUME IInv, WInv, NEW s \in Stub, st[s].pc \notin {"off", "reset"}, out[s] = Sink,
         NEW i \in 1 .. Len(stubs), stubs[i] = s, NEW k \in i .. Len(stubs)
  PROVE  ~Blocked(stubs[k])
<1>1. PICK m \in 1 .. Settled : WiredTo(m)
  BY DEF WInv, Frontier
<1>2. PICK j \in 1 .. Settled : stubs[j] = s
  BY DEF WInv, StubsOK, StubOK, Owns
<1>3. /\ m \in Int /\ j \in Int /\ Settled \in Int /\ Settled <= Len(stubs) /\ Len(stubs) \in Nat
      /\ j \in 1 .. Len(stubs) /\ i = j /\ k \in 1 .. Len(stubs) /\ stubs[k] \in Stub
  BY <1>1, <1>2, Shape
<1>4. ~st[s].closed
  BY DEF WInv, StubsOK, StubOK
<1>5. i = m
  <2>1. ~(i > m)
    BY <1>1, <1>2, <1>3, <1>4 DEF WiredTo
  <2>2. ~(i < m)
    <3>1. i < m => out[s] = stubs[i + 1] /\ i + 1 \in 1 .. Len(stubs)
      BY <1>1, <1>2, <1>3 DEF WiredTo
    <3>2. \A h \in 1 .. Len(stubs) : stubs[h] # Sink
      BY Shape DEF Stub
    <3> QED
      BY <3>1, <3>2
  <2> QED
    BY <1>3, <2>1, <2>2
<1>6. CASE k = i
  BY <1>4, <1>6 DEF Blocked
<1>7. CASE k > i /\ k <= Settled
  <2>1. out[stubs[k]] = stubs[k] /\ st[stubs[k]].closed
    BY <1>1, <1>3, <1>5, <1>7 DEF WiredTo
  <2>2. st[stubs[k]].pc = "off"
    BY <1>3, <2>1 DEF WInv, StubsOK, StubOK
  <2> QED
    BY <2>1, <2>2 DEF Blocked
<1>8. CASE k > Settled
  <2>1. \A l \in 1 .. Settled : stubs[l] # stubs[k]
    <3>1. \A l \in 1 .. Settled : l \in 1 .. Len(stubs) /\ l # k
      BY <1>3, <1>8
    <3> QED
      BY <1>3, <3>1, Shape
  <2>2. ~Owns(stubs[k])
    BY <1>3, <2>1 DEF WInv, StubsOK, StubOK
  <2> QED
    BY <2>2 DEF Owns, Blocked
<1> QED
  BY <1>3, <1>6, <1>7, <1>8

LEMMA StubToWriterNoGap ==
  ASSUME Relaying, IInv, WInv, OInv, Waiting, NoGap, "rate" \notin lost',
         NEW s \in Stub, StubToWriter(s)
  PROVE  NoGap'
<1>0. Next
  BY DEF Next, Flow
<1>1. /\ UNCHANGED <<stubs, reader, dest>> /\ out[s] = Sink
      /\ st[s].pc \in {"send", "piece", "flush"}
  BY DEF StubToWriter, wiring, Sending
<1>2. ReadTo' = ReadTo
  BY <1>1 DEF ReadTo
<1>3. PICK c \in Chunk, i \in 1 .. Len(stubs) : GivesToWriter(s, c, i)
  BY StubToWriterMoves
<1>4. /\ stubs[i] = s /\ Held(s) = Bytes(c) \cup Held(s)'
      /\ \A r \in Stub : r # s => Held(r)' = Held(r)
      /\ Arrived' = Arrived \cup Bytes(c)
  BY <1>3 DEF GivesToWriter
<1> DEFINE n == Len(stubs)
           H(j) == Held(stubs[j])
           G(j) == Held(stubs[j])'
<1>5. /\ \A j \in 1 .. n : j # i => G(j) = H(j)
      /\ H(i) = Bytes(c) \cup G(i) /\ i \in 1 .. n
  <2>1. \A r : \A j : r = stubs[j] => G(j) = Held(r)'
    BY <1>1, HeldInPlace
  <2>2. \A j \in 1 .. n : j # i => stubs[j] # s
    BY <1>0, <1>4, Standing
  <2> HIDE DEF G
  <2> QED
    BY <1>0, <1>4, <2>1, <2>2, Standing
<1>6. \A x : Present(x)' <=> x \in Arrived' \/ \E j \in 1 .. n : x \in G(j)
  BY <1>1, HeldInPlace
<1>7. \A x : Present(x) <=> x \in Arrived \/ \E j \in 1 .. n : x \in H(j)
  BY DEF Present
<1>8. Giving => OpenFrom(i)
  BY <1>1, <1>4, LastOpen DEF OpenFrom
<1>9. \A x : Present(x) => Present(x)'
  <2> HIDE DEF G, H, n
  <2> QED
    BY <1>4, <1>5, <1>6, <1>7
<1>10. /\ \A j \in 1 .. n : \A x \in G(j) :
            \E k \in 1 .. n : x \in H(k) /\ (OpenFrom(j) => OpenFrom(k))
       /\ \A x \in Arrived' :
            x \in Arrived \/ \E k \in 1 .. n : x \in H(k) /\ (Giving => OpenFrom(k))
  <2> HIDE DEF G, H, n
  <2>1. \A j \in 1 .. n : G(j) \subseteq H(j)
    BY <1>5
  <2> QED
    BY <1>4, <1>5, <1>8, <2>1
<1>11. ReadTo + 1 .. ReadTo = {}
  BY <1>0, Standing
<1> QED
  BY <1>0, <1>1, <1>2, <1>9, <1>10, <1>11, Standing, NothingDropped

LEMMA StubAloneNoGap ==
  ASSUME Relaying, IInv, WInv, OInv, Waiting, NoGap, "deadline" \notin lost', NEW s \in Stub,
         StubEof(s) \/ StubTimer(s) \/ StubDeadline(s)
  PROVE  NoGap'
<1>0. Next
  BY DEF Next, Flow
<1>1. UNCHANGED <<stubs, queue, reader, writer, dest>>
  BY DEF StubEof, StubTimer, StubDeadline, wiring, ends
<1>2. Arrived' = Arrived /\ ReadTo' = ReadTo
  BY <1>1 DEF Arrived, ReadTo
<1>3. st \in [Stub -> Local] /\ st[s] \in Local /\ HandsOK(st[s])
  BY DEF IInv, TypeOK, OInv, Hands
<1>4. Bytes(st'[s].chunk) = Bytes(st[s].chunk) /\ \A r \in Stub : r # s => st'[r] = st[r]
  <2>1. CASE StubEof(s)
    <3>1. st[s].pc = "select" /\ st' = [st EXCEPT ![s] = OnNil(st[s])]
      BY <1>3, <2>1 DEF StubEof
    <3> QED
      BY <1>3, <3>1, OnNilBytes
  <2>2. CASE StubTimer(s)
    <3>1. TimerArmed(st[s]) /\ st' = [st EXCEPT ![s] = OnTimer(st[s], AttrOf(st[s].toxic))]
      BY <1>3, <2>2 DEF StubTimer
    <3> QED
      BY <1>3, <3>1, OnTimerBytes
  <2>3. CASE StubDeadline(s)
    <3>1. /\ st' = [st EXCEPT ![s] = Sent(s, Size(st[s].chunk))] /\ HasDeadline(st[s])
          /\ ~(Size(st[s].chunk) > 0)
      BY <1>3, <2>3 DEF StubDeadline, Because
    <3>2. /\ Sending(st[s]) /\ Size(st[s].chunk) \in PieceSizes(st[s])
          /\ "rate" \notin Miscut(s)
      BY <3>1 DEF HasDeadline, Sending, PieceSizes, Miscut, Miscuts, Because
    <3>3. Bytes(Sent(s, Size(st[s].chunk)).chunk) = {}
      BY <3>1, <3>2, <1>3, SendFacts
    <3>4. Bytes(st[s].chunk) = {}
      BY <1>3, <3>1, EmptyBytes DEF Local
    <3> QED
      BY <1>3, <3>1, <3>3, <3>4
  <2> QED
    BY <2>1, <2>2, <2>3
<1>5. \A r \in Stub : Held(r)' = Held(r)
  BY <1>1, <1>4 DEF Held
<1> QED
  BY <1>0, <1>1, <1>2, <1>5, StillNoGap

(* The two ends, and the calls that leave link.stubs as it is.             *)
LEMMA EndsNoGap ==
  ASSUME Relaying, IInv, WInv, OInv, Waiting, NoGap, Ends
  PROVE  NoGap'
<1>0. Next
  BY DEF Next
<1>1. UNCHANGED <<stubs, queue, st>>
  BY DEF Ends, ReadSource, SourceEof, WriteDest, WriteFail, WriterEof, CloseDest, RemoveLink,
         wiring
<1>2. \A r \in Stub : Held(r)' = Held(r)
  BY <1>0, HoldStays
<1>3. CASE ~Giving'
  BY <1>3 DEF NoGap, OpenFrom
<1>4. ASSUME Giving' PROVE ReadTo' = ReadTo /\ Arrived' = Arrived
  <2>1. /\ writer.chunk \in Chunk /\ dest \in Seq(Nat) /\ Hands
        /\ reader \in [pc : {"read", "offer", "done"}, chunk : Chunk, taken : Nat]
        /\ writer \in [pc : {"read", "write", "close", "unlink", "done"}, chunk : Chunk]
    BY DEF IInv, TypeOK, OInv
  <2>2. CASE ReadSource
    <3>1. PICK n \in 1 .. MaxChunk :
            reader' = [pc |-> "offer", taken |-> reader.taken + n,
                       chunk |-> [lo |-> reader.taken, hi |-> reader.taken + n,
                                  cap |-> reader.taken + n]]
      BY <2>2 DEF ReadSource
    <3>2. reader.pc = "read" /\ UNCHANGED <<writer, dest>>
      BY <2>2 DEF ReadSource
    <3> QED
      BY <3>1, <3>2 DEF ReadTo, Arrived
  <2>3. CASE SourceEof
    <3>1. reader' = [reader EXCEPT !.pc = "done"] /\ reader.pc = "read" /\ UNCHANGED <<writer, dest>>
      BY <2>3 DEF SourceEof
    <3> QED
      BY <2>1, <3>1 DEF ReadTo, Arrived
  <2>4. CASE WriteDest
    <3>1. /\ dest' = dest \o Offsets(writer.chunk) /\ writer'.chunk = Empty /\ reader' = reader
      BY <2>4 DEF WriteDest, Offsets
    <3>2. /\ Offsets(writer.chunk) \in Seq(Nat)
          /\ Range(Offsets(writer.chunk)) = Bytes(writer.chunk)
      BY <2>1, OffsetsFacts
    <3>3. Range(dest') = Range(dest) \cup Bytes(writer.chunk) /\ Bytes(writer'.chunk) = {}
      BY <2>1, <3>1, <3>2, RangeConcat, EmptyBytes
    <3> QED
      BY <3>1, <3>3 DEF ReadTo, Arrived
  <2>5. ~WriteFail /\ ~WriterEof /\ ~CloseDest /\ ~RemoveLink
    BY <1>4, <2>1 DEF WriteFail, WriterEof, CloseDest, RemoveLink, Giving
  <2> QED
    BY <2>2, <2>3, <2>4, <2>5 DEF Ends
<1>5. CASE Giving'
  BY <1>0, <1>1, <1>2, <1>4, <1>5, StillNoGap
<1> QED
  BY <1>3, <1>5

LEMMA InPlaceNoGap ==
  ASSUME Relaying, IInv, WInv, OInv, Waiting, NoGap, Begin \/ Finish, stubs' = stubs
  PROVE  NoGap'
<1>0. Next
  BY DEF Next
<1>1. UNCHANGED <<reader, writer, dest>>
  BY DEF Begin, AddToxicBegin, UpdateToxicBegin, RemoveToxicBegin, UpdateToxicRejected,
         Finish, Interrupt, InterruptClosed, AddDone, UpdateDone, RemoveCleanup, RemovePump,
         HelperInterrupt, HelperReturns, RemoveSplice, RemoveClosed, ends
<1>2. Arrived' = Arrived /\ ReadTo' = ReadTo
  BY <1>1 DEF Arrived, ReadTo
<1>3. \A r \in Stub : Held(r)' = Held(r)
  BY HoldStays
<1> QED
  BY <1>0, <1>2, <1>3, StillNoGap
-----------------------------------------------------------------------------
(* The calls that put a stub on the link or take one off.  What has bytes, *)
(* is blocked or has closed stays, in the same order.                      *)
Relists(t) ==
  /\ \A k \in 1 .. Len(t) :
       \/ Held(t[k]) = {} /\ ~st[t[k]].closed
       \/ \E i \in 1 .. Len(stubs) :
            /\ t[k] = stubs[i]
            /\ \A l \in 1 .. k : \E j \in 1 .. i : t[l] = stubs[j]
            /\ \A j \in i .. Len(stubs) :
                 Blocked(stubs[j]) => \E l \in k .. Len(t) : t[l] = stubs[j]
  /\ \A i \in 1 .. Len(stubs) :
       Held(stubs[i]) # {} \/ Blocked(stubs[i]) => \E k \in 1 .. Len(t) : t[k] = stubs[i]

LEMMA RelistNoGap ==
  ASSUME Relaying, IInv, WInv, OInv, Waiting, NoGap, Begin \/ Finish,
         NEW t \in Seq(Stub), stubs' = t, Relists(t)
  PROVE  NoGap'
<1>0. Next
  BY DEF Next
<1>1. UNCHANGED <<reader, writer, dest>>
  BY DEF Begin, AddToxicBegin, UpdateToxicBegin, RemoveToxicBegin, UpdateToxicRejected,
         Finish, Interrupt, InterruptClosed, AddDone, UpdateDone, RemoveCleanup, RemovePump,
         HelperInterrupt, HelperReturns, RemoveSplice, RemoveClosed, ends
<1>2. Arrived' = Arrived /\ ReadTo' = ReadTo /\ (Giving' <=> Giving)
  BY <1>1 DEF Arrived, ReadTo, Giving
<1> DEFINE n == Len(t)
           H(k) == Held(stubs[k])
           G(k) == Held(stubs[k])'
           P(x) == Present(x)
           Q(x) == Present(x)'
           O(k) == OpenFrom(k)
           R(k) == OpenFrom(k)'
<1>3. \A k \in 1 .. n : G(k) = Held(t[k])
  <2>1. \A r : \A k : r = t[k] => G(k) = Held(r)'
    BY DEF Held
  <2>2. \A k \in 1 .. n : t[k] \in Stub
    OBVIOUS
  <2> HIDE DEF G
  <2> QED
    BY <2>1, <2>2, HoldStays
<1>4. /\ \A x : Q(x) <=> x \in Arrived \/ \E k \in 1 .. n : x \in G(k)
      /\ \A x : P(x) <=> x \in Arrived \/ \E k \in 1 .. Len(stubs) : x \in H(k)
  BY <1>2 DEF Present
<1>5. \A x : P(x) => Q(x)
  <2>1. \A i \in 1 .. Len(stubs) : H(i) = {} \/ \E k \in 1 .. n : t[k] = stubs[i]
    BY DEF Relists
  <2>2. ASSUME NEW i \in 1 .. Len(stubs), NEW x \in H(i) PROVE \E k \in 1 .. n : x \in G(k)
    <3>1. PICK k \in 1 .. n : t[k] = stubs[i]
      BY <2>1, <2>2
    <3>2. Held(t[k]) = H(i)
      BY <3>1
    <3> HIDE DEF G, H
    <3> QED
      BY <1>3, <2>2, <3>2
  <2> HIDE DEF G, H, P, Q, n
  <2> QED
    BY <1>4, <2>2
<1>6. \A k, l \in 1 .. n : l >= k /\ R(k) => ~Blocked(t[l])
  <2> SUFFICES ASSUME NEW k \in 1 .. n, NEW l \in 1 .. n, l >= k, R(k)
               PROVE  ~Blocked(t[l])
    OBVIOUS
  <2>1. l \in k .. n /\ t[l] \in Stub
    OBVIOUS
  <2>2. ~Blocked(stubs[l])'
    BY <2>1 DEF OpenFrom
  <2>3. PICK s \in Stub : s = t[l]
    BY <2>1
  <2>4. Blocked(s)' <=> Blocked(stubs[l])'
    BY <2>3 DEF Blocked
  <2>5. Blocked(s) => Blocked(s)'
    BY <1>0, Standing
  <2> QED
    BY <2>2, <2>3, <2>4, <2>5
<1>7. \A k \in 1 .. n : R(k) => Giving
  BY <1>2 DEF OpenFrom
<1>8. ASSUME NEW k \in 1 .. n, R(k), NEW x \in G(k), NEW y \in 1 .. x PROVE Q(y)
  <2>1. x \in Held(t[k])
    BY <1>3, <1>8
  <2>2. PICK i \in 1 .. Len(stubs) :
          /\ t[k] = stubs[i]
          /\ \A j \in i .. Len(stubs) :
               Blocked(stubs[j]) => \E l \in k .. Len(t) : t[l] = stubs[j]
    BY <2>1 DEF Relists
  <2>3. ASSUME NEW j \in i .. Len(stubs) PROVE ~Blocked(stubs[j])
    <3>1. \A l \in k .. Len(t) : l \in 1 .. n /\ l >= k
      OBVIOUS
    <3> HIDE DEF R
    <3> QED
      BY <1>6, <1>8, <2>2, <3>1
  <2>4. O(i)
    BY <1>7, <1>8, <2>3 DEF OpenFrom
  <2>5. x \in H(i)
    BY <2>1, <2>2
  <2>6. P(y)
    BY <2>4, <2>5 DEF NoGap
  <2> QED
    BY <1>5, <2>6
<1>9. ASSUME OpenFrom(1)' PROVE OpenFrom(1)
  <2>1. Giving /\ \A k \in 1 .. n : R(1) => ~Blocked(t[k])
    <3>1. \A k \in 1 .. n : 1 \in 1 .. n /\ k >= 1
      OBVIOUS
    <3>2. Giving
      BY <1>2, <1>9 DEF OpenFrom
    <3> HIDE DEF R
    <3> QED
      BY <1>6, <3>1, <3>2
  <2>2. ASSUME NEW j \in 1 .. Len(stubs) PROVE ~Blocked(stubs[j])
    <3>1. Blocked(stubs[j]) => \E k \in 1 .. n : t[k] = stubs[j]
      BY DEF Relists
    <3> QED
      BY <1>9, <2>1, <3>1
  <2> QED
    BY <2>1, <2>2 DEF OpenFrom
<1>10. /\ Giving => \A x \in Arrived : \A y \in 1 .. x : P(y)
       /\ O(1) => \A y \in 1 .. ReadTo : P(y)
  BY DEF NoGap
<1>11. NoGap' <=> /\ Giving' => \A x \in Arrived' : \A y \in 1 .. x : Q(y)
                  /\ \A i \in 1 .. n : R(i) => \A x \in G(i) : \A y \in 1 .. x : Q(y)
                  /\ R(1) => \A y \in 1 .. ReadTo' : Q(y)
  BY DEF NoGap
<1>12. R(1) => O(1)
  BY <1>9
<1> HIDE DEF n, H, G, P, Q, O, R
<1> QED
  BY <1>2, <1>5, <1>8, <1>10, <1>11, <1>12

LEMMA RelistDrained ==
  ASSUME IInv, WInv, OInv, Drained, Begin \/ Finish, ~CutShort,
         NEW t \in Seq(Stub), stubs' = t, Relists(t),
         \A s \in Stub : st'[s].closed => st[s].closed
  PROVE  Drained'
<1>1. \A k \in 1 .. Len(t) : t[k] \in Stub
  OBVIOUS
<1>2. \A s : \A k : s = t[k] => Held(stubs[k])' = Held(s)'
  BY DEF Held
<1>3. ASSUME NEW k \in 1 .. Len(t), st'[t[k]].closed PROVE DrainedTo(k)'
  <2>1. st[t[k]].closed
    BY <1>1, <1>3
  <2>2. PICK i \in 1 .. Len(stubs) : /\ t[k] = stubs[i]
                                     /\ \A l \in 1 .. k : \E j \in 1 .. i : t[l] = stubs[j]
    BY <2>1 DEF Relists
  <2>3. reader.pc = "done" /\ \A j \in 1 .. i : Held(stubs[j]) = {}
    BY <2>1, <2>2 DEF Drained, DrainedTo
  <2>4. ASSUME NEW l \in 1 .. k PROVE Held(stubs[l])' = {}
    <3>1. PICK s \in Stub : s = t[l]
      BY <1>1
    <3>2. PICK j \in 1 .. i : s = stubs[j]
      BY <2>2, <3>1
    <3>3. Held(s) = {}
      BY <2>3, <3>2
    <3>4. Held(s)' = {}
      BY <3>3, HoldStays
    <3> QED
      BY <1>2, <3>1, <3>4
  <2>5. reader'.pc = "done"
    BY <2>3, InnerEnds
  <2> QED
    BY <2>4, <2>5 DEF DrainedTo
<1>4. Drained' <=> (~CutShort' => \A k \in 1 .. Len(t) : st'[t[k]].closed => DrainedTo(k)')
  BY DEF Drained
<1> QED
  BY <1>3, <1>4

LEMMA AddRelists ==
  ASSUME IInv, WInv, OInv, NEW t \in Toxics, AddToxicBegin(t)
  PROVE  st' = st /\ \E u \in Seq(Stub) : stubs' = u /\ Relists(u)
<1>1. st' = st /\ fresh \in Stub /\ stubs' = Append(stubs, fresh) /\ Alive
  BY DEF AddToxicBegin
<1>2. stubs \in Seq(Stub) /\ Len(stubs) \in Nat
  BY DEF IInv, TypeOK
<1>3. PICK u \in Seq(Stub) : u = Append(stubs, fresh)
  BY <1>1, <1>2
<1>4. /\ Len(u) = Len(stubs) + 1 /\ u[Len(stubs) + 1] = fresh
      /\ \A k \in 1 .. Len(stubs) : u[k] = stubs[k] /\ k \in 1 .. Len(u)
      /\ \A k \in 1 .. Len(u) : k \in 1 .. Len(stubs) \/ k = Len(stubs) + 1
  BY <1>1, <1>2, <1>3
<1>5. Held(fresh) = {} /\ ~st[fresh].closed
  <2>1. Unused(fresh)
    BY <1>1 DEF Unused, Stub
  <2> QED
    BY <1>1, <2>1, CallStops DEF OInv, Hands
<1>6. ASSUME NEW k \in 1 .. Len(stubs)
      PROVE  /\ u[k] = stubs[k]
             /\ \A l \in 1 .. k : \E j \in 1 .. k : u[l] = stubs[j]
             /\ \A j \in k .. Len(stubs) :
                  Blocked(stubs[j]) => \E l \in k .. Len(u) : u[l] = stubs[j]
  <2>1. \A l \in 1 .. k : l \in 1 .. Len(stubs)
    BY <1>2
  <2>2. \A j \in k .. Len(stubs) : j \in 1 .. Len(stubs) /\ j \in k .. Len(u)
    BY <1>2, <1>4
  <2> QED
    BY <1>4, <2>1, <2>2
<1>7. Relists(u)
  <2>1. ASSUME NEW k \in 1 .. Len(u)
        PROVE  \/ Held(u[k]) = {} /\ ~st[u[k]].closed
               \/ \E i \in 1 .. Len(stubs) :
                    /\ u[k] = stubs[i]
                    /\ \A l \in 1 .. k : \E j \in 1 .. i : u[l] = stubs[j]
                    /\ \A j \in i .. Len(stubs) :
                         Blocked(stubs[j]) => \E l \in k .. Len(u) : u[l] = stubs[j]
    <3>1. CASE k = Len(stubs) + 1
      BY <1>4, <1>5, <3>1
    <3>2. CASE k \in 1 .. Len(stubs)
      BY <1>6, <3>2
    <3> QED
      BY <1>4, <3>1, <3>2
  <2>2. \A i \in 1 .. Len(stubs) : \E k \in 1 .. Len(u) : u[k] = stubs[i]
    BY <1>4
  <2> QED
    BY <2>1, <2>2 DEF Relists
<1> QED
  BY <1>1, <1>3, <1>7

LEMMA SpliceRelists ==
  ASSUME IInv, WInv, OInv, RemoveSplice
  PROVE  /\ \A r \in Stub : st'[r].closed => st[r].closed
         /\ \E u \in Seq(Stub) : stubs' = u /\ Relists(u)
<1>1. /\ Alive /\ op.phase = "pump" /\ st[Target].pc = "select" /\ queue[Target] = <<>>
      /\ stubs' = RemoveAt(stubs, op.idx)
  BY DEF RemoveSplice
<1>2. st \in [Stub -> Local] /\ stubs \in Seq(Stub)
  BY DEF IInv, TypeOK
<1>3. PICK d \in Stub, s \in Stub : d = Target /\ s = Previous /\ s # d
  BY <1>1, CallFacts
<1>4. PICK n \in Nat, k \in Int : n = Len(stubs) /\ k = op.idx /\ k \in 2 .. n /\ d = stubs[k]
  <2>1. op.idx \in 2 .. Settled /\ Settled <= Len(stubs) /\ Settled \in Int
    BY <1>1, CallFacts, Shape
  <2> QED
    BY <1>3, <2>1, Shape DEF Target
<1>5. Held(d) = {} /\ ~Blocked(d)
  <2>0. st[d].pc = "select" /\ queue[d] = <<>> /\ HandsOK(st[d])
    BY <1>1, <1>3 DEF OInv, Hands
  <2>1. Bytes(st[d].chunk) = {} /\ BytesIn(queue[d]) = {}
    BY <2>0 DEF HandsOK, BytesIn
  <2>2. ~st[d].closed
    BY <1>1, <1>3 DEF WInv, StubsOK, StubOK
  <2> QED
    BY <1>1, <1>3, <2>1, <2>2 DEF Held, Blocked
<1>6. ASSUME NEW r \in Stub PROVE st'[r].closed => st[r].closed
  <2>1. Neighbour \in Wrappers
    BY <1>1, CallStubs DEF IInv
  <2>2. PICK p \in Pipes(Neighbour) :
          st' = [st EXCEPT ![d] = Exit(st[d]),
                           ![s] = Run(st[s], Neighbour, p, AttrOf(Neighbour))]
    BY <1>2, <1>3 DEF RemoveSplice
  <2>3. Run(st[s], Neighbour, p, AttrOf(Neighbour)).closed = st[s].closed
    BY <1>2, <2>1, RunFacts
  <2>4. Exit(st[d]).closed = st[d].closed
    BY <1>2, StoppedFacts
  <2> QED
    BY <1>2, <1>3, <2>2, <2>3, <2>4
<1>7. k \in 1 .. Len(stubs)
  BY <1>4
<1>8. PICK u \in Seq(Stub) : u = RemoveAt(stubs, k)
  BY <1>2, <1>7, RemoveAtFacts
<1>9. /\ Len(u) = n - 1
      /\ \A i \in 1 .. n - 1 : u[i] = IF i < k THEN stubs[i] ELSE stubs[i + 1]
  <2>1. /\ Len(u) = Len(stubs) - 1
        /\ \A i \in 1 .. Len(stubs) - 1 : u[i] = IF i < k THEN stubs[i] ELSE stubs[i + 1]
    BY <1>2, <1>8, <1>7, RemoveAtFacts
  <2> QED
    BY <1>4, <2>1
<1>10. ASSUME NEW j \in 1 .. n, j # k
       PROVE  \E l \in 1 .. n - 1 : u[l] = stubs[j] /\ l = IF j < k THEN j ELSE j - 1
  <2>1. CASE j < k
    <3>1. j \in 1 .. n - 1
      BY <1>4, <2>1
    <3> QED
      BY <1>9, <2>1, <3>1
  <2>2. CASE j > k
    <3>1. j - 1 \in 1 .. n - 1 /\ ~(j - 1 < k) /\ (j - 1) + 1 = j /\ ~(j < k)
      BY <1>4, <2>2
    <3> QED
      BY <1>9, <3>1
  <2> QED
    BY <1>4, <1>10, <2>1, <2>2
<1>11. ASSUME NEW i \in 1 .. Len(u)
       PROVE  \E a \in 1 .. Len(stubs) :
                /\ u[i] = stubs[a]
                /\ \A l \in 1 .. i : \E j \in 1 .. a : u[l] = stubs[j]
                /\ \A j \in a .. Len(stubs) :
                     Blocked(stubs[j]) => \E l \in i .. Len(u) : u[l] = stubs[j]
  <2> DEFINE a == IF i < k THEN i ELSE i + 1
  <2>1. /\ a \in 1 .. Len(stubs) /\ u[i] = stubs[a] /\ a \in Int
        /\ i \in 1 .. n - 1 /\ a \in 1 .. n
    BY <1>4, <1>9
  <2>2. ASSUME NEW l \in 1 .. i PROVE \E j \in 1 .. a : u[l] = stubs[j]
    <3>1. l \in 1 .. n - 1
      BY <1>4, <2>1
    <3>2. CASE l < k
      <4>1. l \in 1 .. a
        BY <1>4, <2>1, <3>2
      <4> QED
        BY <1>9, <3>1, <3>2, <4>1
    <3>3. CASE ~(l < k)
      <4>1. l + 1 \in 1 .. a
        BY <1>4, <2>1, <3>3
      <4> QED
        BY <1>9, <3>1, <3>3, <4>1
    <3> QED
      BY <3>2, <3>3
  <2>3. ASSUME NEW j \in a .. Len(stubs), Blocked(stubs[j])
        PROVE  \E l \in i .. Len(u) : u[l] = stubs[j]
    <3>1. j # k /\ j \in 1 .. n
      BY <1>4, <1>5, <2>1, <2>3
    <3>2. PICK l \in 1 .. n - 1 : u[l] = stubs[j] /\ l = IF j < k THEN j ELSE j - 1
      BY <1>10, <3>1
    <3>3. l \in i .. Len(u)
      BY <1>4, <1>9, <2>1, <2>3, <3>1, <3>2
    <3> QED
      BY <3>2, <3>3
  <2> HIDE DEF a
  <2> QED
    BY <2>1, <2>2, <2>3
<1>12. Relists(u)
  <2>1. \A i \in 1 .. Len(stubs) :
          Held(stubs[i]) # {} \/ Blocked(stubs[i]) => \E l \in 1 .. Len(u) : u[l] = stubs[i]
    BY <1>4, <1>5, <1>9, <1>10
  <2>2. \A i \in 1 .. Len(u) :
          \E a \in 1 .. Len(stubs) :
            /\ u[i] = stubs[a]
            /\ \A l \in 1 .. i : \E j \in 1 .. a : u[l] = stubs[j]
            /\ \A j \in a .. Len(stubs) :
                 Blocked(stubs[j]) => \E l \in i .. Len(u) : u[l] = stubs[j]
    BY <1>11
  <2> QED
    BY <2>1, <2>2 DEF Relists
<1>13. stubs' = u
  BY <1>1, <1>4, <1>8
<1> QED
  BY <1>6, <1>12, <1>13

LEMMA StubsChange ==
  ASSUME Next
  PROVE  stubs' = stubs \/ (\E t \in Toxics : AddToxicBegin(t)) \/ RemoveSplice
<1>1. CASE Ends \/ Flow
  BY <1>1 DEF Ends, ReadSource, SourceEof, WriteDest, WriteFail, WriterEof, CloseDest,
         RemoveLink, Flow, ReaderToStub, StubToStub, StubToBuffer, BufferToStub,
         StubToWriter, StubEof, StubTimer, StubDeadline, wiring
<1>2. CASE Begin
  BY <1>2 DEF Begin, UpdateToxicBegin, RemoveToxicBegin, UpdateToxicRejected, wiring
<1>3. CASE Finish
  BY <1>3 DEF Finish, Interrupt, InterruptClosed, AddDone, UpdateDone, RemoveCleanup, RemovePump,
         HelperInterrupt, HelperReturns, RemoveClosed, wiring
<1> QED
  BY <1>1, <1>2, <1>3 DEF Next

LEMMA DrainedStays ==
  ASSUME Relaying, IInv, WInv, OInv, Waiting, Drained, Next, ~Broken'
  PROVE  Drained'
<1>1. CASE CutShort'
  BY <1>1 DEF Drained
<1>2. CASE ~CutShort' /\ stubs' = stubs
  <2>1. \A i \in 1 .. Len(stubs) : st'[stubs[i]].closed => DrainedTo(i)'
    BY <1>2, DrainedInPlace DEF Broken
  <2> QED
    BY <1>2, <2>1 DEF Drained
<1>3. ASSUME ~CutShort', NEW t \in Toxics, AddToxicBegin(t) PROVE Drained'
  <2>1. ~CutShort /\ Begin
    BY <1>3, CutStays DEF Begin
  <2>2. st' = st
    BY <1>3, AddRelists
  <2>3. PICK u \in Seq(Stub) : stubs' = u /\ Relists(u)
    BY <1>3, AddRelists
  <2> QED
    BY <2>1, <2>2, <2>3, RelistDrained
<1>4. CASE ~CutShort' /\ RemoveSplice
  <2>1. ~CutShort /\ Finish
    BY <1>4, CutStays DEF Finish
  <2>2. \A r \in Stub : st'[r].closed => st[r].closed
    BY <1>4, SpliceRelists
  <2>3. PICK u \in Seq(Stub) : stubs' = u /\ Relists(u)
    BY <1>4, SpliceRelists
  <2> QED
    BY <2>1, <2>2, <2>3, RelistDrained
<1> QED
  BY <1>1, <1>2, <1>3, <1>4, StubsChange

LEMMA NoGapStays ==
  ASSUME Relaying, IInv, WInv, OInv, Waiting, NoGap, Next, ~Broken'
  PROVE  NoGap'
<1>1. CASE Ends
  BY <1>1, EndsNoGap
<1>2. CASE Flow
  BY <1>2, ReaderToStubNoGap, StubToStubNoGap, StubToBufferNoGap, BufferToStubNoGap,
     StubToWriterNoGap, StubAloneNoGap DEF Flow, Broken
<1>3. CASE (Begin \/ Finish) /\ stubs' = stubs
  BY <1>3, InPlaceNoGap
<1>4. ASSUME NEW t \in Toxics, AddToxicBegin(t) PROVE NoGap'
  <2>1. Begin
    BY <1>4 DEF Begin
  <2>2. PICK u \in Seq(Stub) : stubs' = u /\ Relists(u)
    BY <1>4, AddRelists
  <2> QED
    BY <2>1, <2>2, RelistNoGap
<1>5. CASE RemoveSplice
  <2>1. Finish
    BY <1>5 DEF Finish
  <2>2. PICK u \in Seq(Stub) : stubs' = u /\ Relists(u)
    BY <1>5, SpliceRelists
  <2> QED
    BY <2>1, <2>2, RelistNoGap
<1> QED
  BY <1>1, <1>2, <1>3, <1>4, <1>5, StubsChange DEF Next
-----------------------------------------------------------------------------
(* The destination sees the end of the stream after all of it.             *)

LEMMA EofComesLast ==
  ASSUME IInv, WInv, OInv, Drained, ~CutShort, ~Broken, ChanClosed(Sink), writer.pc = "read"
  PROVE  GivenAll
<1>1. PICK d \in Stub : st[d].closed /\ out[d] = Sink
  BY DEF ChanClosed
<1>2. PICK m \in 1 .. Settled : WiredTo(m)
  BY DEF WInv, Frontier
<1>3. PICK j \in 1 .. Settled : stubs[j] = d
  BY <1>1 DEF WInv, StubsOK, StubOK, Owns
<1>4. /\ m \in Int /\ j \in Int /\ Settled \in Int /\ Settled <= Len(stubs) /\ Len(stubs) \in Nat
      /\ j \in 1 .. Len(stubs) /\ Sink \notin Stub
  BY <1>2, <1>3, Shape DEF Stub
<1>5. j = m
  <2>1. ~(j > m)
    BY <1>1, <1>2, <1>3, <1>4 DEF WiredTo
  <2>2. ~(j < m)
    <3>1. j < m => out[d] = stubs[j + 1] /\ j + 1 \in 1 .. Len(stubs)
      BY <1>2, <1>3, <1>4 DEF WiredTo
    <3> QED
      BY <1>1, <1>4, <3>1, Shape
  <2> QED
    BY <1>4, <2>1, <2>2
<1>6. reader.pc = "done" /\ \A k \in 1 .. m : Held(stubs[k]) = {}
  BY <1>1, <1>3, <1>4, <1>5 DEF Drained, DrainedTo
<1>7. ASSUME NEW k \in 1 .. Len(stubs) PROVE Held(stubs[k]) = {}
  <2>1. stubs[k] \in Stub
    BY Shape
  <2>2. CASE k <= m
    <3>1. k \in 1 .. m
      BY <1>4, <2>2
    <3> QED
      BY <1>6, <3>1
  <2>3. CASE k > m /\ k <= Settled
    <3>1. out[stubs[k]] = stubs[k]
      BY <1>2, <1>4, <2>3 DEF WiredTo
    <3> QED
      BY <2>1, <3>1 DEF Unused, OInv, Hands
  <2>4. CASE k > Settled
    <3>1. op.call = "add" /\ k = Len(stubs)
      BY <1>4, <2>4 DEF Settled
    <3> QED
      BY <2>1, <3>1 DEF Unused, OInv, Hands
  <2> QED
    BY <1>4, <2>2, <2>3, <2>4
<1>8. lost = {}
  BY DEF IInv, TypeOK, Reasons, CutShort, Broken
<1>9. Arrived = Range(dest) /\ ReadTo = reader.taken /\ reader.taken \in Nat
  <2>1. writer.chunk = Empty /\ reader.taken \in Nat
    BY DEF OInv, Hands, IInv, TypeOK
  <2> QED
    BY <1>6, <2>1, EmptyBytes DEF Arrived, ReadTo
<1>10. Range(dest) = 1 .. reader.taken
  <2>1. Range(dest) \subseteq 1 .. reader.taken
    BY <1>9 DEF OInv, SortedEnds
  <2>2. \A x \in 1 .. reader.taken : x \in Range(dest)
    BY <1>7, <1>8, <1>9 DEF OInv, Complete
  <2> QED
    BY <2>1, <2>2
<1>11. dest \in Seq(Nat) /\ Increasing(dest)
  BY DEF IInv, TypeOK, OInv, SortedEnds
<1> QED
  BY <1>6, <1>9, <1>10, <1>11, IncreasingLength DEF GivenAll

LEMMA EndStays ==
  ASSUME Relaying, IInv, WInv, OInv, Waiting, Drained, EndOK, Next, ~Broken'
  PROVE  EndOK'
<1>1. ~Broken
  BY LostStays DEF Broken
<1>2. ASSUME writer'.pc = "close", ~CutShort' PROVE GivenAll'
  <2>0. ~CutShort /\ writer \in [pc : {"read", "write", "close", "unlink", "done"}, chunk : Chunk]
    BY <1>2, CutStays DEF IInv, TypeOK
  <2>1. CASE ReadSource \/ SourceEof
    <3>1. writer' = writer /\ reader.pc = "read"
      BY <2>1 DEF ReadSource, SourceEof
    <3> QED
      BY <1>2, <2>0, <3>1 DEF EndOK, GivenAll
  <2>2. ~WriteDest
    BY <1>2 DEF WriteDest
  <2>3. ~WriteFail
    BY <1>2 DEF WriteFail, CutShort
  <2>4. CASE WriterEof
    <3>1. writer.pc = "read" /\ ChanClosed(Sink) /\ UNCHANGED <<reader, dest>>
      BY <2>4 DEF WriterEof
    <3>2. GivenAll
      BY <1>1, <2>0, <3>1, EofComesLast
    <3> QED
      BY <3>1, <3>2 DEF GivenAll
  <2>5. ~CloseDest /\ ~RemoveLink
    BY <1>2, <2>0 DEF CloseDest, RemoveLink
  <2>6. CASE Flow \/ Begin \/ Finish
    <3>1. writer.pc = "close"
      BY <1>2, <2>6, InnerEnds
    <3>2. GivenAll
      BY <2>0, <3>1 DEF EndOK
    <3> QED
      BY <2>6, <3>2, InnerEnds DEF GivenAll
  <2> QED
    BY <2>1, <2>2, <2>3, <2>4, <2>5, <2>6 DEF Next, Ends
<1> QED
  BY <1>2 DEF EndOK

LEMMA PInvStays ==
  ASSUME Relaying, IInv, WInv, OInv, PInv, [Next]_vars, ~Broken'
  PROVE  PInv'
<1>1. CASE Next
  BY <1>1, WaitingStays, DrainedStays, NoGapStays, EndStays DEF PInv
<1>2. CASE UNCHANGED vars
  <2>1. UNCHANGED <<stubs, out, queue, st, reader, writer, dest, op, lost>>
    BY <1>2 DEF vars, config, wiring, ends, api
  <2>2. /\ CutShort' <=> CutShort
        /\ \A x : Present(x)' <=> Present(x)
        /\ \A i : (OpenFrom(i)' <=> OpenFrom(i)) /\ (DrainedTo(i)' <=> DrainedTo(i))
        /\ \A i : Held(stubs[i])' = Held(stubs[i])
        /\ Arrived' = Arrived /\ ReadTo' = ReadTo
    BY <2>1 DEF CutShort, Alive, Present, OpenFrom, Giving, Blocked, DrainedTo, Held, Arrived,
       ReadTo
  <2>3. Waiting'
    BY <2>1 DEF PInv, Waiting, AtEnd, ChanClosed
  <2>4. Drained'
    BY <2>1, <2>2 DEF PInv, Drained
  <2>5. NoGap'
    BY <2>1, <2>2 DEF PInv, NoGap, Giving
  <2>6. EndOK'
    BY <2>1, <2>2 DEF PInv, EndOK, GivenAll
  <2> QED
    BY <2>3, <2>4, <2>5, <2>6 DEF PInv
<1> QED
  BY <1>1, <1>2

LEMMA InitPInv ==
  ASSUME Relaying, Init
  PROVE  PInv /\ Pipe!Init
<1>1. IInv /\ OInv
  BY TypeInit, IndicesInit, MovedInit, InitOInv DEF IInv
<1>2. PICK n \in Nat : n = Len(chain) /\ \A s \in 1 .. n : chain[s] \in Wrappers
  BY <1>1 DEF IInv, TypeOK
<1>3. PICK pipe \in [1 .. n -> Kinds] :
        /\ \A s \in 1 .. n : pipe[s] \in Pipes(chain[s])
        /\ st = [s \in Stub |->
                   IF s <= n
                     THEN Run(WithState(Fresh, chain[s]), chain[s], pipe[s],
                              AttrOf(chain[s]))
                     ELSE Fresh]
  BY <1>2 DEF Init
<1>4. /\ reader.pc = "read" /\ reader.taken = 0 /\ writer.pc = "read" /\ dest = <<>> /\ lost = {}
      /\ op = Idle
  BY DEF Init
<1>5. Fresh \in Local /\ WaitsFor(Fresh) /\ ~Closing(Fresh) /\ ~Fresh.closed /\ Fresh.pc = "off"
  BY EmptyChunk DEF Fresh, Local, Places, Kinds, Wrappers, WaitsFor, Closing
<1>6. ASSUME NEW s \in Stub
      PROVE  /\ WaitsFor(st[s]) /\ ~Closing(st[s]) /\ ~st[s].closed
             /\ st[s].pc \in {"off", "select"}
  <2>1. CASE s <= n
    <3>1. s \in 1 .. n
      BY <2>1 DEF Stub
    <3>2. PICK t \in Wrappers : t = chain[s]
      BY <1>2, <3>1
    <3>3. PICK p \in Pipes(t) : p = pipe[s]
      BY <1>3, <3>1, <3>2
    <3>0. WithState(Fresh, t) \in Local /\ ~WithState(Fresh, t).closed
      BY <1>5 DEF WithState, Local
    <3>4. PICK l \in Local : l = WithState(Fresh, t) /\ ~l.closed
      BY <3>0
    <3>5. st[s] = Run(l, t, p, AttrOf(t))
      BY <1>3, <2>1, <3>2, <3>3, <3>4
    <3>6. p \notin {"timeout", "limit_data"}
      BY PipesRelay
    <3>7. Run(l, t, p, AttrOf(t)).pc # "panic"
      BY <3>6 DEF Run, Local
    <3> QED
      BY <3>4, <3>5, <3>7, RunWaits, RunFacts
  <2>2. CASE ~(s <= n)
    <3>1. st[s] = Fresh
      BY <1>3, <2>2
    <3> QED
      BY <1>5, <3>1
  <2> QED
    BY <2>1, <2>2
<1>7. ~CutShort
  BY <1>4, <1>6 DEF CutShort, Alive, Idle
<1>8. \A i \in 1 .. Len(stubs) : stubs[i] \in Stub
  BY <1>1, Shape
<1>9. ReadTo = 0 /\ Arrived = {} /\ \A i \in 1 .. Len(stubs) : Held(stubs[i]) = {}
  <2>1. ReadTo = 0 /\ 1 .. ReadTo = {}
    BY <1>4 DEF ReadTo
  <2> QED
    BY <1>1, <2>1 DEF OInv, SortedEnds, SortedStubs
<1>10. Waiting
  BY <1>6 DEF Waiting
<1>11. Drained
  BY <1>6, <1>8 DEF Drained
<1>12. NoGap
  BY <1>9 DEF NoGap
<1>13. EndOK
  BY <1>4 DEF EndOK
<1>14. Pipe!Init
  BY <1>4, <1>7 DEF Pipe!Init, Broken
<1> QED
  BY <1>10, <1>11, <1>12, <1>13, <1>14 DEF PInv
-----------------------------------------------------------------------------
(* Each step of the link is one of the pipe, or none.                      *)

(* What the writer has comes just after what the destination has.          *)
LEMMA WriterGives ==
  ASSUME IInv, OInv, NoGap, writer.pc = "write", Size(writer.chunk) > 0
  PROVE  /\ Len(dest) = writer.chunk.lo /\ writer.chunk.hi <= reader.taken
         /\ Size(writer.chunk) \in 1 .. reader.taken - Len(dest)
<1> DEFINE lo == writer.chunk.lo
           hi == writer.chunk.hi
<1>1. lo \in Nat /\ hi \in Nat /\ lo < hi /\ Size(writer.chunk) = hi - lo
  BY DEF IInv, TypeOK, Chunk, Size
<1>2. Bytes(writer.chunk) = lo + 1 .. hi
  BY DEF Bytes
<1>3. ReadTo \in Nat /\ reader.taken \in Nat /\ ReadTo <= reader.taken
  BY LastRead
<1>4. /\ Arrived = Range(dest) \cup (lo + 1 .. hi) /\ Arrived \subseteq 1 .. ReadTo
      /\ Below(Range(dest), lo + 1 .. hi) /\ Increasing(dest) /\ dest \in Seq(Nat)
  BY <1>2 DEF Arrived, OInv, SortedEnds, IInv, TypeOK
<1>5. \A i \in 1 .. Len(stubs) : Below(Arrived, Held(stubs[i]))
  BY DEF OInv, SortedStubs
<1>6. \A x \in Arrived : \A y \in 1 .. x :
         y \in Arrived \/ \E k \in 1 .. Len(stubs) : y \in Held(stubs[k])
  BY DEF NoGap, Giving, Present
<1> HIDE DEF lo, hi
<1>7. hi \in Arrived /\ hi <= reader.taken
  <2>1. hi \in lo + 1 .. hi
    BY <1>1
  <2>2. hi \in 1 .. ReadTo
    BY <1>4, <2>1
  <2> QED
    BY <1>1, <1>3, <1>4, <2>1, <2>2
<1>8. Range(dest) = 1 .. lo
  <2>1. ASSUME NEW y \in 1 .. lo PROVE y \in Range(dest)
    <3>1. y \in 1 .. hi /\ y < hi /\ y \notin lo + 1 .. hi
      BY <1>1
    <3>2. \A k \in 1 .. Len(stubs) : y \notin Held(stubs[k])
      <4>1. ASSUME NEW k \in 1 .. Len(stubs), y \in Held(stubs[k]) PROVE FALSE
        <5>1. hi < y
          BY <1>5, <1>7, <4>1 DEF Below
        <5> QED
          BY <1>1, <3>1, <5>1
      <4> QED
        BY <4>1
    <3>3. y \in Arrived
      BY <1>6, <1>7, <3>1, <3>2
    <3> QED
      BY <1>4, <3>1, <3>3
  <2>2. ASSUME NEW x \in Range(dest) PROVE x \in 1 .. lo
    <3>1. x \in 1 .. ReadTo
      BY <1>4
    <3>2. lo + 1 \in lo + 1 .. hi
      BY <1>1
    <3>3. x < lo + 1
      BY <1>4, <3>2 DEF Below
    <3> QED
      BY <1>1, <1>3, <3>1, <3>3
  <2> QED
    BY <2>1, <2>2
<1>9. Len(dest) = lo
  BY <1>1, <1>4, <1>8, IncreasingLength
<1>10. Size(writer.chunk) \in 1 .. reader.taken - Len(dest)
  BY <1>1, <1>3, <1>7, <1>9
<1> QED
  BY <1>7, <1>9, <1>10 DEF lo, hi

(* The two ends move as the pipe does.                                     *)
LEMMA EndsArePipe ==
  ASSUME Relaying, IInv, WInv, OInv, PInv, Ends, ~Broken, ~Broken'
  PROVE  [Pipe!Next]_(Pipe!vars)
<1>0. Broken' = Broken
  <2>1. Broken \in BOOLEAN /\ Broken' \in BOOLEAN
    BY DEF Broken
  <2> QED
    BY <2>1
<1>1. /\ UNCHANGED <<st, op>>
      /\ reader \in [pc : {"read", "offer", "done"}, chunk : Chunk, taken : Nat]
      /\ writer \in [pc : {"read", "write", "close", "unlink", "done"}, chunk : Chunk]
      /\ dest \in Seq(Nat)
  <2>1. UNCHANGED <<st, op>>
    BY DEF Ends, ReadSource, SourceEof, WriteDest, WriteFail, WriterEof, CloseDest, RemoveLink,
           api
  <2> QED
    BY <2>1 DEF IInv, TypeOK
<1>2. lost' = lost => CutShort' = CutShort
  BY <1>1 DEF CutShort, Alive
<1>3. CASE ReadSource
  <2>1. PICK n \in 1 .. MaxChunk : reader'.taken = reader.taken + n /\ reader'.pc = "offer"
    BY <1>3 DEF ReadSource
  <2>2. UNCHANGED <<writer, dest, lost>> /\ reader.pc = "read"
    BY <1>3 DEF ReadSource
  <2>3. reader'.taken \in Nat /\ reader'.taken > reader.taken
    BY <1>1, <2>1, LinkAssumption
  <2>4. Pipe!Take
    BY <1>0, <1>2, <2>1, <2>2, <2>3 DEF Pipe!Take
  <2> QED
    BY <2>4 DEF Pipe!Next
<1>4. CASE SourceEof
  <2>1. Pipe!End
    BY <1>0, <1>1, <1>2, <1>4 DEF SourceEof, Pipe!End
  <2> QED
    BY <2>1 DEF Pipe!Next
<1>5. CASE WriteDest
  <2>1. /\ writer.pc = "write" /\ writer'.pc = "read" /\ UNCHANGED <<reader, lost>>
        /\ dest' = dest \o [i \in 1 .. Size(writer.chunk) |-> writer.chunk.lo + i]
    BY <1>5 DEF WriteDest
  <2>2. CASE Size(writer.chunk) > 0
    <3>1. /\ Len(dest) = writer.chunk.lo
          /\ Size(writer.chunk) \in 1 .. reader.taken - Len(dest)
      BY <2>1, <2>2, WriterGives DEF PInv
    <3>2. Len(dest) + Size(writer.chunk) <= reader.taken
      BY <1>1, <3>1
    <3>3. Pipe!Give(Size(writer.chunk))
      BY <1>0, <1>2, <2>1, <3>1, <3>2 DEF Pipe!Give
    <3> QED
      BY <3>1, <3>3 DEF Pipe!GiveSome, Pipe!Next
  <2>3. CASE ~(Size(writer.chunk) > 0)
    <3>1. [i \in 1 .. Size(writer.chunk) |-> writer.chunk.lo + i] = <<>>
      <4>1. Size(writer.chunk) \in Int /\ ~(Size(writer.chunk) > 0)
        BY <1>1, <2>3 DEF Size, Chunk
      <4> QED
        BY <4>1
    <3>2. dest \o <<>> = dest
      BY <1>1
    <3>3. dest' = dest
      BY <2>1, <3>1, <3>2
    <3>4. /\ (writer'.pc \in {"unlink", "done"}) = (writer.pc \in {"unlink", "done"})
          /\ CutShort' = CutShort /\ reader' = reader
      BY <1>2, <2>1
    <3> QED
      BY <1>0, <3>3, <3>4 DEF Pipe!vars
  <2> QED
    BY <2>2, <2>3
<1>6. CASE WriteFail
  <2>1. CutShort' /\ UNCHANGED <<reader, dest>> /\ writer.pc = "write" /\ writer'.pc = "close"
    BY <1>6 DEF WriteFail, CutShort
  <2>2. Pipe!Cut
    BY <1>0, <2>1 DEF Pipe!Cut
  <2> QED
    BY <2>2 DEF Pipe!Next
<1>7. CASE WriterEof \/ RemoveLink
  <2>1. /\ UNCHANGED <<reader, dest, lost>>
        /\ (writer'.pc \in {"unlink", "done"}) = (writer.pc \in {"unlink", "done"})
    BY <1>1, <1>7 DEF WriterEof, RemoveLink
  <2> QED
    BY <1>0, <1>2, <2>1 DEF Pipe!vars
<1>8. CASE CloseDest
  <2>1. /\ UNCHANGED <<reader, dest, lost>> /\ writer.pc = "close" /\ writer'.pc = "unlink"
    BY <1>1, <1>8 DEF CloseDest
  <2>2. CutShort \/ (reader.pc = "done" /\ Len(dest) = reader.taken)
    BY <2>1 DEF PInv, EndOK, GivenAll
  <2>3. Pipe!Close
    BY <1>0, <1>2, <2>1, <2>2 DEF Pipe!Close
  <2> QED
    BY <2>3 DEF Pipe!Next
<1> QED
  BY <1>3, <1>4, <1>5, <1>6, <1>7, <1>8 DEF Ends

(* The stubs and the calls do nothing the pipe sees, but cut it short or   *)
(* break it.                                                               *)
LEMMA UnbrokenIsPipe ==
  ASSUME Relaying, IInv, WInv, OInv, PInv, [Next]_vars, ~Broken, ~Broken'
  PROVE  [Pipe!Next]_(Pipe!vars)
<1>0. Broken' = Broken
  <2>1. Broken \in BOOLEAN /\ Broken' \in BOOLEAN
    BY DEF Broken
  <2> QED
    BY <2>1
<1>1. CASE Ends
  BY <1>1, EndsArePipe
<1>2. CASE Flow \/ Begin \/ Finish
  <2>1. /\ dest' = dest /\ reader'.taken = reader.taken
        /\ (reader'.pc = "done") = (reader.pc = "done")
        /\ (writer'.pc \in {"unlink", "done"}) = (writer.pc \in {"unlink", "done"})
    BY <1>2, InnerEnds
  <2>2. CutShort' = TRUE \/ CutShort' = CutShort
    <3>1. CutShort => CutShort'
      BY <1>2, CutStays DEF PInv, Next
    <3>2. CutShort \in BOOLEAN /\ CutShort' \in BOOLEAN
      BY DEF CutShort
    <3> QED
      BY <3>1, <3>2
  <2>3. CASE CutShort' = TRUE
    <3>1. Pipe!Cut
      BY <1>0, <2>1, <2>3 DEF Pipe!Cut
    <3> QED
      BY <3>1 DEF Pipe!Next
  <2>4. CASE CutShort' = CutShort
    BY <1>0, <2>1, <2>4 DEF Pipe!vars
  <2> QED
    BY <2>2, <2>3, <2>4
<1>3. CASE UNCHANGED vars
  <2>1. UNCHANGED <<st, reader, writer, dest, op, lost>>
    BY <1>3 DEF vars, ends, api
  <2>2. CutShort' = CutShort
    BY <2>1 DEF CutShort, Alive
  <2> QED
    BY <1>0, <2>1, <2>2 DEF Pipe!vars
<1> QED
  BY <1>1, <1>2, <1>3 DEF Next

Unbroken == ~Broken => PInv

LEMMA NextIsPipe ==
  ASSUME Relaying, IInv, WInv, Ordered, Unbroken, [Next]_vars
  PROVE  Unbroken' /\ [Pipe!Next]_(Pipe!vars)
<1>1. CASE Broken'
  <2>1. Broken' = TRUE
    <3>1. Broken' \in BOOLEAN
      BY DEF Broken
    <3> QED
      BY <1>1, <3>1
  <2>2. Pipe!Next
    BY <2>1 DEF Pipe!Next, Pipe!Break
  <2> QED
    BY <1>1, <2>2 DEF Unbroken
<1>2. CASE ~Broken'
  <2>1. ~Broken
    BY <1>2, LostStays DEF Broken
  <2>2. OInv /\ PInv
    BY <2>1 DEF Ordered, Unbroken, Broken
  <2> QED
    BY <1>2, <2>1, <2>2, PInvStays, UnbrokenIsPipe DEF Unbroken
<1> QED
  BY <1>1, <1>2

(* A link is a byte pipe as long as it is not Broken, whatever latency,    *)
(* bandwidth, slicer, slow_close and reset_peer toxics API calls add,      *)
(* update and remove in it: it gives its destination the bytes its source  *)
(* sent, each once, in order and without a gap, and closes the destination *)
(* only after the last of them, unless a reset, a failing destination or a *)
(* panic has cut the stream short.  It is Broken, and nothing more is said *)
(* of it, from the first step in which a flush meets its deadline, an      *)
(* update of bandwidth's rate changes a cut, or a call takes the stub of   *)
(* one toxic for another's.                                                *)
THEOREM ImplementsBytePipe ==
  Relaying => (Spec => Pipe!Init /\ [][Pipe!Next]_(Pipe!vars))
<1> SUFFICES ASSUME Relaying
             PROVE  Spec => Pipe!Init /\ [][Pipe!Next]_(Pipe!vars)
  OBVIOUS
<1>1. Init => Unbroken /\ Pipe!Init
  BY InitPInv DEF Unbroken
<1>2. IInv /\ WInv /\ Ordered /\ Unbroken /\ [Next]_vars => Unbroken'
  BY NextIsPipe
<1>3. IInv /\ WInv /\ Ordered /\ Unbroken /\ [Next]_vars => [Pipe!Next]_(Pipe!vars)
  BY NextIsPipe
<1>4. Spec => [](IInv /\ WInv /\ Ordered)
  BY SpecOrdered
<1> QED
  BY <1>1, <1>2, <1>3, <1>4, PTL DEF Spec
=============================================================================
