------------------------------- MODULE Stream -------------------------------
(***************************************************************************)
(* The byte arithmetic at the end of a link: a slicer toxic (slicer.go)    *)
(* cuts every chunk and sends the pieces on an unbuffered channel, which a *)
(* ChanReader (io_chan.go) turns back into a stream of bytes for whoever   *)
(* reads from it with buffers of any length.                               *)
(*                                                                         *)
(* A chunk is the range of the stream's offsets it stands for.  The slices *)
(* are those chunk() has to return, in order: the first `final` are as     *)
(* they will be, the others are calls still to be made.                    *)
(***************************************************************************)
EXTENDS Integers, Sequences

CONSTANTS
  AverageSize, SizeVariation,  \* the attributes of the slicer
  OutSizes,                    \* the lengths of the buffers given to Read
  MaxChunk,                    \* bound on the bytes of one Write
  MaxBytes                     \* bound on the bytes of the stream

ASSUME StreamAssumption ==
  /\ AverageSize \in Nat /\ SizeVariation \in Nat
  /\ SizeVariation < AverageSize  \* "Must be less than the average size"
  /\ OutSizes \subseteq Nat \ {0}
  /\ MaxChunk \in Nat /\ MaxBytes \in Nat

VARIABLES
  written,  \* the bytes given to ChanWriter.Write so far
  slices,   \* what the slicer has to send
  final,    \* how many of them are cut
  pausing,  \* whether the slicer waits before the next piece
  closed,   \* whether the channel is closed
  buffer,   \* ChanReader.buffer
  nil,      \* whether it is nil: the end of the stream was met
  out,      \* the length asked for by a Read that blocks, or 0
  upto,     \* history: the offset the bytes read so far end at
  skipped,  \* history: whether bytes were left out or read twice
  short     \* history: whether a Read was given less room than the buffer
            \* held at the time

slicer == <<written, slices, final, pausing, closed>>
reader == <<buffer, nil, out, upto, skipped, short>>
vars   == <<slicer, reader>>

Range == [from : Nat, to : Nat]
Size(r) == r.to - r.from

TypeOK ==
  /\ written \in Nat /\ slices \in Seq(Range) /\ final \in 0 .. Len(slices)
  /\ pausing \in BOOLEAN /\ closed \in BOOLEAN
  /\ buffer \in Range /\ nil \in BOOLEAN
  /\ out \in OutSizes \cup {0}
  /\ upto \in Nat /\ skipped \in BOOLEAN /\ short \in BOOLEAN

Init ==
  /\ written = 0 /\ slices = <<>> /\ final = 0 /\ pausing = FALSE /\ closed = FALSE
  /\ buffer = [from |-> 0, to |-> 0] /\ nil = FALSE /\ out = 0
  /\ upto = 0 /\ skipped = FALSE /\ short = FALSE
-----------------------------------------------------------------------------
(* The slicer.                                                             *)

(* A chunk comes in: chunk(0, len(c.Data)) is called.                      *)
Write ==
  /\ slices = <<>> /\ ~pausing /\ ~closed
  /\ \E n \in 1 .. MaxChunk :
       /\ written + n <= MaxBytes
       /\ written' = written + n
       /\ slices' = <<[from |-> written, to |-> written + n]>>
  /\ UNCHANGED <<final, pausing, closed, reader>>

(* One call of chunk: the range is returned, or halved, give or take a     *)
(* random variation, and the halves are cut in turn, the left one first.   *)
Call == slices[final + 1]
SmallEnough(r) == Size(r) - AverageSize <= SizeVariation

MiddlesAfter(r) ==
  LET half == r.from + Size(r) \div 2 IN half .. (half + 2 * SizeVariation - 1)
Middles(r) ==
  LET half == r.from + Size(r) \div 2 IN
  IF SizeVariation > 0 THEN (half - SizeVariation) .. (half + SizeVariation - 1) ELSE {half}

Halved(mid) ==
  [i \in 1 .. Len(slices) + 1 |->
     IF i <= final THEN slices[i]
     ELSE IF i = final + 1 THEN [from |-> Call.from, to |-> mid]
     ELSE IF i = final + 2 THEN [from |-> mid, to |-> Call.to]
     ELSE slices[i - 1]]

Cut ==
  /\ final < Len(slices)
  /\ \/ SmallEnough(Call) /\ final' = final + 1 /\ UNCHANGED slices
     \/ ~SmallEnough(Call) /\ UNCHANGED final /\ \E mid \in Middles(Call) : slices' = Halved(mid)
  /\ UNCHANGED <<written, pausing, closed, reader>>

(* The piece the slicer is about to send, if it is; sending it.            *)
Sends == slices # <<>> /\ final = Len(slices) /\ ~pausing
Piece == Head(slices)
SentUncounted ==
  /\ slices' = Tail(slices) /\ pausing' = TRUE
  /\ UNCHANGED <<written, closed, final>>
Sent ==
  /\ slices' = Tail(slices) /\ final' = final - 1 /\ pausing' = TRUE
  /\ UNCHANGED <<written, closed>>

Resume == pausing /\ pausing' = FALSE /\ UNCHANGED <<written, slices, final, closed, reader>>

CloseForgotten == slices = <<>> /\ ~pausing /\ ~closed /\ UNCHANGED vars
Close ==
  /\ slices = <<>> /\ ~pausing /\ ~closed
  /\ closed' = TRUE
  /\ UNCHANGED <<written, slices, final, pausing, reader>>
-----------------------------------------------------------------------------
(* ChanReader.Read(out), with len(out) = m.                                *)
Least(a, b) == IF a < b THEN a ELSE b

(* The first n bytes of r go to the reader, what is left stays.            *)
Give(r, n) == upto' = r.from + n /\ skipped' = (skipped \/ r.from # upto)
KeepNothing(r, n) == [r EXCEPT !.from = r.to]
Keep(r, n) == [r EXCEPT !.from = @ + n]

Fits(m) == Least(m, Size(buffer))
Rest(m) == Size(buffer) - Fits(m)
Begins == out = 0 /\ ~nil
Measured(m) == short' = (short \/ (m < Size(buffer) /\ Size(buffer) < 2 * m))

(* The buffer holds data, so the read of the channel is optional.  There   *)
(* is none if the buffer still holds as much as was asked for.             *)
ReadBuffer(m) ==
  /\ Begins /\ Size(buffer) > 0
  /\ m <= Rest(m) \/ (~Sends /\ ~closed)
  /\ Give(buffer, Fits(m)) /\ buffer' = [buffer EXCEPT !.from = @ + Fits(m)]
  /\ Measured(m)
  /\ UNCHANGED <<slicer, nil, out>>

(* A piece follows in what room there is, and takes the buffer's place.    *)
ReadBoth(m) ==
  LET n == Least(m - Fits(m), Size(Piece))
      end == buffer.from + Fits(m) IN
  /\ Begins /\ Size(buffer) > 0 /\ m > Rest(m)
  /\ Sends /\ Sent
  /\ upto' = IF n = 0 THEN end ELSE Piece.from + n
  /\ skipped' = (skipped \/ buffer.from # upto \/ (n > 0 /\ Piece.from # end))
  /\ buffer' = Keep(Piece, n)
  /\ Measured(m)
  /\ UNCHANGED <<nil, out>>

(* The channel is closed: io.EOF is for the next Read.                     *)
ReadLast(m) ==
  /\ Begins /\ Size(buffer) > 0 /\ m > Rest(m)
  /\ closed /\ nil' = TRUE
  /\ Give(buffer, Fits(m)) /\ buffer' = [buffer EXCEPT !.from = @ + Fits(m)]
  /\ Measured(m)
  /\ UNCHANGED <<slicer, out>>

(* The buffer is empty: Read blocks until there is a piece, the end of the *)
(* stream, or an interrupt.                                                *)
Block(m) ==
  /\ Begins /\ Size(buffer) = 0
  /\ out' = m
  /\ UNCHANGED <<slicer, buffer, nil, upto, skipped, short>>

ReadPiece ==
  LET n == Least(out, Size(Piece)) IN
  /\ out # 0 /\ out' = 0
  /\ Sends /\ Sent
  /\ Give(Piece, n) /\ buffer' = Keep(Piece, n)
  /\ UNCHANGED <<nil, short>>

ReadEnd ==
  /\ out # 0 /\ out' = 0
  /\ closed /\ nil' = TRUE
  /\ UNCHANGED <<slicer, buffer, upto, skipped, short>>

Interrupted ==
  /\ out # 0 /\ out' = 0
  /\ buffer' = [buffer EXCEPT !.to = buffer.from]
  /\ UNCHANGED <<slicer, nil, upto, skipped, short>>
-----------------------------------------------------------------------------
Slices == Write \/ Cut \/ Resume
Reads ==
  \/ \E m \in OutSizes : ReadBuffer(m) \/ ReadBoth(m) \/ ReadLast(m) \/ Block(m)
  \/ ReadPiece \/ ReadEnd

Next == Slices \/ Close \/ Reads \/ Interrupted

Spec == Init /\ [][Next]_vars

(* The goroutines go on, the source ends its stream one day (it closes the *)
(* writer once MaxBytes are written at the latest), and an interrupt does  *)
(* not come between a reader and what is ready for it for ever.            *)
Fairness == WF_vars(Cut \/ Resume) /\ WF_vars(Close) /\ SF_vars(ReadPiece \/ ReadEnd)
  /\ WF_vars(Reads)

FairSpec == Spec /\ Fairness
-----------------------------------------------------------------------------
(* Properties.                                                             *)

(* The slices are a partition of what is left of the chunk, in order and   *)
(* without an empty or a negative piece, however the variations are drawn  *)
(* (chunk(); Pipe sends c.Data[chunks[i-1]:chunks[i]]).                    *)
Partition ==
  slices # <<>> =>
    /\ slices[Len(slices)].to = written
    /\ \A i \in DOMAIN slices : slices[i].from < slices[i].to
    /\ \A i \in 1 .. Len(slices) - 1 : slices[i].to = slices[i + 1].from

(* Who reads gets every byte once and in order, and the end of the stream  *)
(* after the last of them, through reads that are interrupted, that leave  *)
(* a part of a piece in the buffer, or that end one piece and begin the    *)
(* next ("as you would a normal data stream", CREATING_TOXICS.md:142),     *)
(* with one exception: a Read with less room than the buffer holds, but    *)
(* more than half of that, replaces what it leaves (io_chan.go:72-84).     *)
ReadsStream == ~short => ~skipped /\ (nil => upto = written)

(* The end of the stream is reached: the recursion of chunk() ends and     *)
(* the bytes do not get stuck between the channel and the buffer.          *)
EndIsRead == <>nil
=============================================================================
