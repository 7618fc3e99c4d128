---------------------------- MODULE StreamProofs ----------------------------
(***************************************************************************)
(* Proofs about Stream for every size of slices, chunks and buffers: the   *)
(* slices always partition the chunk, and a reader misses nothing.         *)
(***************************************************************************)
EXTENDS Stream, TLAPS

(* Where what has been sent on the channel ends.                           *)
SentUpto == IF slices = <<>> THEN written ELSE slices[1].from

(* What ReadsStream needs to be inductive: the buffer begins where the     *)
(* reader is and ends where the channel goes on, and a Read blocks only    *)
(* with an empty buffer.                                                   *)
Positions ==
  /\ closed => slices = <<>>
  /\ nil => closed
  /\ buffer.from <= buffer.to
  /\ out # 0 => buffer.from = buffer.to
  /\ ~short => /\ ~skipped
               /\ upto = buffer.from
               /\ buffer.to = SentUpto
               /\ nil => buffer.from = buffer.to

Inv == TypeOK /\ Partition /\ Positions

USE DEF StreamAssumption
USE StreamAssumption

LEMMA InitInv == Init => Inv
<1> SUFFICES ASSUME Init PROVE Inv OBVIOUS
<1>1. Len(slices) = 0 /\ slices \in Seq(Range) BY DEF Init
<1>2. TypeOK
  <2>1. written \in Nat /\ upto \in Nat /\ out \in OutSizes \cup {0} BY DEF Init
  <2>2. final \in 0 .. Len(slices)
    <3>1. final = 0 BY DEF Init
    <3> QED BY <3>1, <1>1
  <2>3. buffer \in Range
    <3>1. buffer = [from |-> 0, to |-> 0] BY DEF Init
    <3> QED BY <3>1 DEF Range
  <2>4. pausing \in BOOLEAN /\ closed \in BOOLEAN /\ nil \in BOOLEAN
        /\ skipped \in BOOLEAN /\ short \in BOOLEAN
    BY DEF Init
  <2> QED BY <1>1, <2>1, <2>2, <2>3, <2>4 DEF TypeOK
<1>3. Partition BY DEF Init, Partition
<1>4. Positions BY DEF Init, Positions, SentUpto
<1> QED BY <1>2, <1>3, <1>4 DEF Inv

(* A middle is strictly inside a range that is too long to be returned:    *)
(* this is where the variation has to be less than the average.            *)
LEMMA MiddleInside ==
  ASSUME NEW r \in Range, ~SmallEnough(r), NEW mid \in Middles(r)
  PROVE  mid \in Nat /\ r.from < mid /\ mid < r.to
<1> DEFINE half == r.from + Size(r) \div 2
<1>1. r.from \in Nat /\ r.to \in Nat BY DEF Range
<1>2. Size(r) \in Int /\ Size(r) > AverageSize + SizeVariation
  BY <1>1 DEF SmallEnough, Size
<1>3. /\ Size(r) \div 2 \in Int
      /\ 2 * (Size(r) \div 2) <= Size(r) /\ Size(r) <= 2 * (Size(r) \div 2) + 1
  BY <1>2
<1>4. mid \in Int /\ half - SizeVariation <= mid
      /\ (mid <= half + SizeVariation - 1 \/ (SizeVariation = 0 /\ mid = half))
  BY <1>1, <1>3 DEF Middles
<1>5. Size(r) = r.to - r.from BY DEF Size
<1> QED BY <1>1, <1>2, <1>3, <1>4, <1>5

(* Sending the first piece leaves a partition that begins where it ended.  *)
LEMMA SentKeeps ==
  ASSUME TypeOK, Partition, Sends, Sent
  PROVE  /\ slices' \in Seq(Range) /\ final' \in 0 .. Len(slices')
         /\ Partition' /\ SentUpto' = Piece.to /\ SentUpto = Piece.from
         /\ Piece \in Range /\ Piece.from < Piece.to
<1>1. /\ slices \in Seq(Range) /\ Len(slices) \in Nat \ {0} /\ final = Len(slices)
      /\ slices' = Tail(slices) /\ written' = written
  BY DEF TypeOK, Sends, Sent
<1>2. /\ slices' \in Seq(Range) /\ Len(slices') = Len(slices) - 1
      /\ \A i \in 1 .. Len(slices') : slices'[i] = slices[i + 1]
  BY <1>1
<1>3. Piece = slices[1] /\ Piece \in Range BY <1>1 DEF Piece
<1>4. /\ slices[Len(slices)].to = written
      /\ \A i \in 1 .. Len(slices) : slices[i].from < slices[i].to
      /\ \A i \in 1 .. Len(slices) - 1 : slices[i].to = slices[i + 1].from
  BY <1>1 DEF Partition
<1>5. Partition' BY <1>1, <1>2, <1>4 DEF Partition
<1>6. SentUpto = Piece.from BY <1>1, <1>3 DEF SentUpto
<1>7. SentUpto' = Piece.to
  <2>1. CASE Len(slices) = 1 BY <2>1, <1>1, <1>2, <1>3, <1>4 DEF SentUpto
  <2>2. CASE Len(slices) > 1
    <3>0. slices' # <<>> 
      <4>1. Len(slices') > 0 BY <2>2, <1>1, <1>2
      <4> QED BY <4>1
    <3>1. slices'[1] = slices[2] BY <2>2, <1>1, <1>2
    <3>2. slices[2].from = slices[1].to BY <2>2, <1>1, <1>4
    <3> QED BY <3>0, <3>1, <3>2, <1>3 DEF SentUpto
  <2> QED BY <2>1, <2>2, <1>1
<1>8. final' \in 0 .. Len(slices') BY <1>1, <1>2 DEF Sent
<1> QED BY <1>1, <1>2, <1>3, <1>4, <1>5, <1>6, <1>7, <1>8

(* One call of chunk keeps the partition.                                  *)
LEMMA CutKeeps ==
  ASSUME TypeOK, Partition, Cut
  PROVE  /\ slices' \in Seq(Range) /\ final' \in 0 .. Len(slices')
         /\ Partition' /\ SentUpto' = SentUpto /\ (slices = <<>> <=> slices' = <<>>)
<1>1. /\ slices \in Seq(Range) /\ Len(slices) \in Nat /\ final \in Nat
      /\ final < Len(slices) /\ written' = written /\ written \in Nat
  BY DEF TypeOK, Cut
<1>2. CASE SmallEnough(Call) /\ final' = final + 1 /\ UNCHANGED slices
  BY <1>1, <1>2 DEF Partition, SentUpto
<1>3. CASE /\ ~SmallEnough(Call) /\ UNCHANGED final
           /\ \E mid \in Middles(Call) : slices' = Halved(mid)
  <2>1. PICK mid \in Middles(Call) : slices' = Halved(mid) BY <1>3
  <2>2. Call = slices[final + 1] /\ Call \in Range BY <1>1 DEF Call
  <2>3. mid \in Nat /\ Call.from < mid /\ mid < Call.to
    BY <1>3, <2>1, <2>2, MiddleInside
  <2>4. [from |-> Call.from, to |-> mid] \in Range /\ [from |-> mid, to |-> Call.to] \in Range
    BY <2>2, <2>3 DEF Range
  <2>5. /\ slices' \in [1 .. Len(slices) + 1 -> Range]
        /\ \A i \in 1 .. final : slices'[i] = slices[i]
        /\ slices'[final + 1] = [from |-> Call.from, to |-> mid]
        /\ slices'[final + 2] = [from |-> mid, to |-> Call.to]
        /\ \A i \in final + 3 .. Len(slices) + 1 : slices'[i] = slices[i - 1]
    <3>1. \A i \in 1 .. Len(slices) : slices[i] \in Range BY <1>1
    <3> QED BY <1>1, <2>1, <2>4, <3>1 DEF Halved
  <2>6. slices' \in Seq(Range) /\ Len(slices') = Len(slices) + 1 BY <1>1, <2>5
  <2>7. /\ slices[Len(slices)].to = written
        /\ \A i \in 1 .. Len(slices) : slices[i].from < slices[i].to
        /\ \A i \in 1 .. Len(slices) - 1 : slices[i].to = slices[i + 1].from
    BY <1>1 DEF Partition
  <2>8. slices'[Len(slices')].to = written'
    <3>1. CASE final + 1 = Len(slices) BY <3>1, <1>1, <2>2, <2>5, <2>6, <2>7
    <3>2. CASE final + 1 < Len(slices) BY <3>2, <1>1, <2>5, <2>6, <2>7
    <3> QED BY <3>1, <3>2, <1>1
  <2>9. ASSUME NEW i \in 1 .. Len(slices') PROVE slices'[i].from < slices'[i].to
    <3>1. CASE i <= final
      <4>1. i \in 1 .. final /\ i \in 1 .. Len(slices) BY <3>1, <1>1, <2>6
      <4> QED BY <4>1, <2>5, <2>7
    <3>2. CASE i = final + 1
      <4>1. slices'[i].from = Call.from /\ slices'[i].to = mid BY <3>2, <2>5
      <4> QED BY <4>1, <2>3
    <3>4. CASE i = final + 2
      <4>1. slices'[i].from = mid /\ slices'[i].to = Call.to BY <3>4, <2>5
      <4> QED BY <4>1, <2>3
    <3>3. CASE i > final + 2
      <4>1. slices'[i] = slices[i - 1] /\ i - 1 \in 1 .. Len(slices)
        <5>1. i \in final + 3 .. Len(slices) + 1 BY <3>3, <1>1, <2>6
        <5>2. i - 1 \in 1 .. Len(slices) BY <5>1, <1>1
        <5> QED BY <5>1, <5>2, <2>5
      <4> QED BY <4>1, <2>7
    <3> QED BY <3>1, <3>2, <3>3, <3>4, <1>1
  <2>10. ASSUME NEW i \in 1 .. Len(slices') - 1 PROVE slices'[i].to = slices'[i + 1].from
    <3>1. CASE i < final BY <3>1, <1>1, <2>5, <2>6, <2>7
    <3>2. CASE i = final
      <4>1. slices'[i] = slices[i] /\ slices'[i + 1].from = slices[i + 1].from
        BY <3>2, <1>1, <2>2, <2>5
      <4> QED BY <4>1, <3>2, <1>1, <2>7
    <3>3. CASE i = final + 1 BY <3>3, <1>1, <2>5
    <3>4. CASE i = final + 2
      <4>1. slices'[i].to = slices[final + 1].to /\ slices'[i + 1] = slices[final + 2]
        BY <3>4, <1>1, <2>2, <2>5, <2>6
      <4> QED BY <4>1, <3>4, <1>1, <2>6, <2>7
    <3>5. CASE i > final + 2
      <4>1. slices'[i] = slices[i - 1] /\ slices'[i + 1] = slices[i]
        BY <3>5, <1>1, <2>5, <2>6
      <4> QED BY <4>1, <3>5, <1>1, <2>6, <2>7
    <3> QED BY <3>1, <3>2, <3>3, <3>4, <3>5, <1>1
  <2>11. Partition' BY <2>6, <2>8, <2>9, <2>10, <1>1 DEF Partition
  <2>12. slices'[1].from = slices[1].from
    <3>1. CASE final = 0 BY <3>1, <2>2, <2>5
    <3>2. CASE final > 0 BY <3>2, <1>1, <2>5
    <3> QED BY <3>1, <3>2, <1>1
  <2>13. SentUpto' = SentUpto /\ slices # <<>> /\ slices' # <<>>
    BY <2>6, <2>12, <1>1 DEF SentUpto
  <2> QED BY <1>1, <1>3, <2>6, <2>11, <2>13
<1> QED BY <1>2, <1>3 DEF Cut

(* What a Read takes from the buffer is no more than there is.             *)
LEMMA FitsBounded ==
  ASSUME buffer \in Range, buffer.from <= buffer.to, NEW m \in OutSizes
  PROVE  /\ Fits(m) \in Nat /\ Fits(m) <= Size(buffer) /\ Fits(m) <= m
         /\ Rest(m) = Size(buffer) - Fits(m) /\ (m >= Size(buffer) => Rest(m) = 0)
         /\ Size(buffer) = buffer.to - buffer.from
         /\ buffer.from \in Nat /\ buffer.to \in Nat
<1>1. buffer.from \in Nat /\ buffer.to \in Nat BY DEF Range
<1>2. Size(buffer) = buffer.to - buffer.from BY DEF Size
<1>3. m \in Nat OBVIOUS
<1> QED BY <1>1, <1>2, <1>3 DEF Fits, Rest, Least

(* The slicer's steps do not move what has been sent.                      *)
LEMMA SlicerKeeps ==
  ASSUME Inv, Slices \/ Close
  PROVE  Inv'
<1>1. TypeOK /\ Partition /\ Positions BY DEF Inv
<1>2. UNCHANGED reader BY DEF Slices, Close, Write, Cut, Resume
<1>3. CASE Write
  <2>1. PICK n \in 1 .. MaxChunk :
          /\ written' = written + n
          /\ slices' = <<[from |-> written, to |-> written + n]>>
    BY <1>3 DEF Write
  <2>2. slices = <<>> /\ UNCHANGED <<final, pausing, closed>> /\ ~closed BY <1>3 DEF Write
  <2>3. written \in Nat /\ written' \in Nat /\ n \in Nat /\ n > 0 BY <1>1, <2>1 DEF TypeOK
  <2>4. [from |-> written, to |-> written + n] \in Range BY <2>1, <2>3 DEF Range
  <2>5. /\ slices' \in Seq(Range) /\ Len(slices') = 1 /\ slices' # <<>>
        /\ slices'[1] = [from |-> written, to |-> written + n]
    BY <2>1, <2>4
  <2>6. final' \in 0 .. Len(slices')
    <3>1. Len(slices) = 0 BY <2>2
    <3> QED BY <3>1, <2>2, <2>5, <1>1 DEF TypeOK
  <2>7. TypeOK' BY <1>1, <1>2, <2>2, <2>3, <2>5, <2>6 DEF TypeOK, reader
  <2>8. Partition' BY <2>1, <2>3, <2>5 DEF Partition
  <2>9. SentUpto' = SentUpto BY <2>2, <2>5 DEF SentUpto
  <2>10. Positions' BY <1>1, <1>2, <2>2, <2>9 DEF Positions, reader
  <2> QED BY <2>7, <2>8, <2>10 DEF Inv
<1>4. CASE Cut
  <2>1. UNCHANGED <<written, pausing, closed>> BY <1>4 DEF Cut
  <2>2. TypeOK' BY <1>1, <1>2, <1>4, <2>1, CutKeeps DEF TypeOK, reader
  <2>3. Positions' BY <1>1, <1>2, <1>4, <2>1, CutKeeps DEF Positions, reader
  <2> QED BY <1>1, <1>4, <2>2, <2>3, CutKeeps DEF Inv
<1>5. CASE Resume \/ Close
  <2>1. UNCHANGED <<written, slices, final>> BY <1>5 DEF Resume, Close
  <2>2. (closed' => slices' = <<>>) /\ (closed => closed')
    BY <1>1, <1>5, <2>1 DEF Resume, Close, Positions
  <2>3. TypeOK' BY <1>1, <1>2, <1>5, <2>1 DEF TypeOK, reader, Resume, Close
  <2>4. Partition' BY <1>1, <2>1 DEF Partition
  <2>5. Positions' BY <1>1, <1>2, <2>1, <2>2 DEF Positions, reader, SentUpto
  <2> QED BY <2>3, <2>4, <2>5 DEF Inv
<1> QED BY <1>3, <1>4, <1>5 DEF Slices

(* The reads that take nothing from the channel.                           *)
LEMMA ReadAloneKeeps ==
  ASSUME Inv, NEW m \in OutSizes, ReadBuffer(m) \/ ReadLast(m)
  PROVE  Inv'
<1>1. TypeOK /\ Partition /\ Positions BY DEF Inv
<1>2. /\ UNCHANGED slicer /\ UNCHANGED out
      /\ out = 0 /\ ~nil
      /\ nil' \in BOOLEAN /\ (nil' => closed /\ m > Rest(m))
      /\ Give(buffer, Fits(m)) /\ buffer' = [buffer EXCEPT !.from = @ + Fits(m)]
      /\ Measured(m)
  <2>1. CASE ReadBuffer(m)
    <3>1. nil \in BOOLEAN BY <1>1 DEF TypeOK
    <3> QED BY <2>1, <3>1 DEF ReadBuffer, Begins
  <2>2. CASE ReadLast(m) BY <2>2 DEF ReadLast, Begins, slicer
  <2> QED BY <2>1, <2>2
<1>3. buffer \in Range /\ buffer.from <= buffer.to BY <1>1 DEF TypeOK, Positions
<1>4. /\ Fits(m) \in Nat /\ Fits(m) <= Size(buffer) /\ Fits(m) <= m
      /\ Rest(m) = Size(buffer) - Fits(m) /\ (m >= Size(buffer) => Rest(m) = 0)
      /\ Size(buffer) = buffer.to - buffer.from
      /\ buffer.from \in Nat /\ buffer.to \in Nat
  BY <1>3, FitsBounded
<1>5. /\ buffer' \in Range
      /\ buffer'.from = buffer.from + Fits(m) /\ buffer'.to = buffer.to
      /\ buffer'.from <= buffer'.to
  BY <1>2, <1>3, <1>4 DEF Range
<1>6. upto' = buffer.from + Fits(m) /\ skipped' = (skipped \/ buffer.from # upto)
  BY <1>2 DEF Give
<1>7. UNCHANGED <<written, slices, final, pausing, closed>> BY <1>2 DEF slicer
<1>8. TypeOK'
  <2>1. short' \in BOOLEAN /\ skipped' \in BOOLEAN BY <1>1, <1>2, <1>6 DEF Measured, TypeOK
  <2> QED BY <1>1, <1>2, <1>4, <1>5, <1>6, <1>7, <2>1 DEF TypeOK
<1>9. Partition' BY <1>1, <1>7 DEF Partition
<1>10. Positions'
  <2>1. ASSUME ~short'
        PROVE  ~skipped' /\ upto' = buffer'.from /\ buffer'.to = SentUpto'
               /\ (nil' => buffer'.from = buffer'.to)
    <3>1. ~short /\ ~(m < Size(buffer) /\ Size(buffer) < 2 * m)
      BY <1>2, <2>1 DEF Measured
    <3>2. ~skipped /\ upto = buffer.from /\ buffer.to = SentUpto
      BY <1>1, <3>1 DEF Positions
    <3>3. SentUpto' = SentUpto BY <1>7 DEF SentUpto
    <3>4. ~skipped' /\ upto' = buffer'.from /\ buffer'.to = SentUpto'
      BY <1>5, <1>6, <3>2, <3>3
    <3>5. ASSUME m < Size(buffer) PROVE m <= Rest(m)
      <4>1. m \in Nat /\ Fits(m) = m BY <1>4, <3>5 DEF Fits, Least
      <4>2. Size(buffer) >= 2 * m BY <1>4, <3>1, <3>5, <4>1
      <4> QED BY <1>4, <4>1, <4>2
    <3>6. nil' => buffer'.from = buffer'.to
      <4>1. m \in Nat OBVIOUS
      <4> QED BY <1>2, <1>4, <1>5, <3>5, <4>1
    <3> QED BY <3>4, <3>6
  <2>2. (closed' => slices' = <<>>) /\ (nil' => closed') /\ (out' # 0 => FALSE)
    BY <1>1, <1>2, <1>7 DEF Positions
  <2> QED BY <1>5, <2>1, <2>2 DEF Positions
<1> QED BY <1>8, <1>9, <1>10 DEF Inv

(* A read that takes a piece from the channel, after what the buffer held. *)
LEMMA ReadBothKeeps ==
  ASSUME Inv, NEW m \in OutSizes, ReadBoth(m)
  PROVE  Inv'
<1> DEFINE n == Least(m - Fits(m), Size(Piece))
           end == buffer.from + Fits(m)
<1>1. TypeOK /\ Partition /\ Positions BY DEF Inv
<1>2. /\ Sends /\ Sent /\ UNCHANGED <<nil, out>> /\ out = 0 /\ ~nil /\ m > Rest(m)
      /\ upto' = IF n = 0 THEN end ELSE Piece.from + n
      /\ skipped' = (skipped \/ buffer.from # upto \/ (n > 0 /\ Piece.from # end))
      /\ buffer' = Keep(Piece, n)
      /\ Measured(m)
  BY DEF ReadBoth, Begins
<1>3. /\ slices' \in Seq(Range) /\ final' \in 0 .. Len(slices')
      /\ Partition' /\ SentUpto' = Piece.to /\ SentUpto = Piece.from
      /\ Piece \in Range /\ Piece.from < Piece.to
  BY <1>1, <1>2, SentKeeps
<1>4. buffer \in Range /\ buffer.from <= buffer.to BY <1>1 DEF TypeOK, Positions
<1>5. /\ Fits(m) \in Nat /\ Fits(m) <= Size(buffer) /\ Fits(m) <= m
      /\ Rest(m) = Size(buffer) - Fits(m) /\ (m >= Size(buffer) => Rest(m) = 0)
      /\ Size(buffer) = buffer.to - buffer.from
      /\ buffer.from \in Nat /\ buffer.to \in Nat
  BY <1>4, FitsBounded
<1>6. m \in Nat /\ Piece.from \in Nat /\ Piece.to \in Nat
      /\ Size(Piece) = Piece.to - Piece.from
  BY <1>3 DEF Range, Size
<1>7. n \in Nat /\ n <= Size(Piece)
  <2>1. ASSUME NEW a \in Nat, NEW b \in Nat PROVE Least(a, b) \in Nat /\ Least(a, b) <= b
    BY DEF Least
  <2>2. m - Fits(m) \in Nat /\ Size(Piece) \in Nat BY <1>3, <1>5, <1>6
  <2> QED BY <2>1, <2>2
<1>8. /\ buffer' \in Range
      /\ buffer'.from = Piece.from + n /\ buffer'.to = Piece.to
      /\ buffer'.from <= buffer'.to
  <2>1. buffer' = [from |-> Piece.from + n, to |-> Piece.to]
    BY <1>2, <1>3 DEF Keep, Range
  <2> QED BY <2>1, <1>3, <1>6, <1>7 DEF Range
<1>9. UNCHANGED <<written, closed>> /\ pausing' \in BOOLEAN BY <1>2 DEF Sent
<1>10. TypeOK'
  <2>1. short' \in BOOLEAN
    <3>1. short' = (short \/ (m < Size(buffer) /\ Size(buffer) < 2 * m))
      BY <1>2 DEF Measured
    <3> QED BY <3>1
  <2>2. skipped' \in BOOLEAN
    <3> HIDE DEF n, end
    <3>1. skipped' = (skipped \/ buffer.from # upto \/ (n > 0 /\ Piece.from # end))
      BY <1>2
    <3> QED BY <3>1
  <2>3. upto' \in Nat
    <3> HIDE DEF n
    <3>1. upto' = end \/ upto' = Piece.from + n BY <1>2
    <3> QED BY <3>1, <1>5, <1>6, <1>7
  <2> QED BY <1>1, <1>2, <1>3, <1>8, <1>9, <2>1, <2>2, <2>3 DEF TypeOK
<1>11. Positions'
  <2>1. ASSUME ~short' PROVE ~skipped' /\ upto' = buffer'.from /\ buffer'.to = SentUpto'
    <3>1. ~short /\ ~(m < Size(buffer) /\ Size(buffer) < 2 * m)
      BY <1>2, <2>1 DEF Measured
    <3>2. ~skipped /\ upto = buffer.from /\ buffer.to = Piece.from
      BY <1>1, <1>3, <3>1 DEF Positions
    <3>3. ASSUME m < Size(buffer) PROVE FALSE
      <4>1. Fits(m) = m BY <3>3, <1>5 DEF Fits, Least
      <4> QED BY <1>2, <1>5, <1>6, <3>1, <3>3, <4>1
    <3>4. end = buffer.to BY <1>5, <1>6, <3>3
    <3>5. ~skipped' BY <1>2, <3>2, <3>4
    <3>6. upto' = Piece.from + n
      <4>1. end = Piece.from BY <3>2, <3>4
      <4>2. CASE n = 0 BY <1>2, <1>6, <4>1, <4>2
      <4>3. CASE n # 0 BY <1>2, <4>3
      <4> QED BY <4>2, <4>3
    <3> QED BY <1>3, <1>8, <3>5, <3>6
  <2>2. ~closed
    BY <1>1, <1>2 DEF Positions, Sends
  <2> QED BY <1>1, <1>2, <1>8, <1>9, <2>1, <2>2 DEF Positions
<1> QED BY <1>3, <1>10, <1>11 DEF Inv

(* The ways a Read that blocks begins and ends.                            *)
LEMMA BlockedKeeps ==
  ASSUME Inv, (\E m \in OutSizes : Block(m)) \/ ReadEnd \/ Interrupted
  PROVE  Inv'
<1>1. TypeOK /\ Partition /\ Positions BY DEF Inv
<1>2. UNCHANGED <<written, slices, final, pausing, closed, upto, skipped, short>>
  BY DEF Block, ReadEnd, Interrupted, slicer
<1>3. /\ out' \in OutSizes \cup {0} /\ (nil => nil') /\ nil' \in BOOLEAN
      /\ (nil' => closed) /\ buffer.from = buffer.to
  <2>1. CASE \E m \in OutSizes : Block(m)
    <3>1. buffer.from = buffer.to
      BY <2>1, <1>1 DEF Block, Size, TypeOK, Range
    <3> QED BY <2>1, <1>1, <3>1 DEF Block, TypeOK, Positions
  <2>2. CASE ReadEnd BY <2>2, <1>1 DEF ReadEnd, Positions, TypeOK
  <2>3. CASE Interrupted BY <2>3, <1>1 DEF Interrupted, Positions, TypeOK
  <2> QED BY <2>1, <2>2, <2>3
<1>4. buffer' = buffer
  <2>1. CASE Interrupted
    <3>1. buffer' = [buffer EXCEPT !.to = buffer.from] BY <2>1 DEF Interrupted
    <3> QED BY <3>1, <1>1, <1>3 DEF TypeOK, Range
  <2> QED BY <2>1 DEF Block, ReadEnd
<1>5. TypeOK' BY <1>1, <1>2, <1>3, <1>4 DEF TypeOK
<1>6. Partition' BY <1>1, <1>2 DEF Partition
<1>7. Positions' BY <1>1, <1>2, <1>3, <1>4 DEF Positions, SentUpto
<1> QED BY <1>5, <1>6, <1>7 DEF Inv

LEMMA ReadPieceKeeps ==
  ASSUME Inv, ReadPiece
  PROVE  Inv'
<1> DEFINE n == Least(out, Size(Piece))
<1>1. TypeOK /\ Partition /\ Positions BY DEF Inv
<1>2. /\ Sends /\ Sent /\ UNCHANGED <<nil, short>> /\ out # 0 /\ out' = 0
      /\ upto' = Piece.from + n /\ skipped' = (skipped \/ Piece.from # upto)
      /\ buffer' = Keep(Piece, n)
  BY DEF ReadPiece, Give
<1>3. /\ slices' \in Seq(Range) /\ final' \in 0 .. Len(slices')
      /\ Partition' /\ SentUpto' = Piece.to /\ SentUpto = Piece.from
      /\ Piece \in Range /\ Piece.from < Piece.to
  BY <1>1, <1>2, SentKeeps
<1>4. Piece.from \in Nat /\ Piece.to \in Nat /\ Size(Piece) = Piece.to - Piece.from
  BY <1>3 DEF Range, Size
<1>5. n \in Nat /\ n <= Size(Piece)
  <2>1. out \in Nat BY <1>1 DEF TypeOK
  <2> QED BY <1>3, <1>4, <2>1 DEF Least
<1>6. /\ buffer' \in Range
      /\ buffer'.from = Piece.from + n /\ buffer'.to = Piece.to
      /\ buffer'.from <= buffer'.to
  <2>1. buffer' = [from |-> Piece.from + n, to |-> Piece.to]
    BY <1>2, <1>3 DEF Keep, Range
  <2> QED BY <2>1, <1>3, <1>4, <1>5 DEF Range
<1>7. UNCHANGED <<written, closed>> /\ pausing' \in BOOLEAN BY <1>2 DEF Sent
<1>8. TypeOK'
  <2>1. skipped' \in BOOLEAN /\ upto' \in Nat BY <1>1, <1>2, <1>4, <1>5 DEF TypeOK
  <2> QED BY <1>1, <1>2, <1>3, <1>6, <1>7, <2>1 DEF TypeOK
<1>9. ~closed BY <1>1, <1>2 DEF Positions, Sends
<1>10. Positions'
  <2>1. buffer.from = buffer.to BY <1>1, <1>2 DEF Positions
  <2>2. ASSUME ~short' PROVE ~skipped' /\ upto' = buffer'.from /\ buffer'.to = SentUpto'
    BY <1>1, <1>2, <1>3, <1>6, <2>1, <2>2 DEF Positions
  <2> QED BY <1>1, <1>2, <1>6, <1>7, <1>9, <2>2 DEF Positions
<1> QED BY <1>3, <1>8, <1>10 DEF Inv

LEMMA NextInv == Inv /\ [Next]_vars => Inv'
<1> SUFFICES ASSUME Inv, [Next]_vars PROVE Inv' OBVIOUS
<1>1. CASE Slices \/ Close BY <1>1, SlicerKeeps
<1>2. CASE \E m \in OutSizes : ReadBuffer(m) \/ ReadLast(m) BY <1>2, ReadAloneKeeps
<1>3. CASE \E m \in OutSizes : ReadBoth(m) BY <1>3, ReadBothKeeps
<1>4. CASE (\E m \in OutSizes : Block(m)) \/ ReadEnd \/ Interrupted BY <1>4, BlockedKeeps
<1>5. CASE ReadPiece BY <1>5, ReadPieceKeeps
<1>6. CASE UNCHANGED vars
  BY <1>6 DEF Inv, vars, slicer, reader, TypeOK, Partition, Positions, SentUpto
<1> QED BY <1>1, <1>2, <1>3, <1>4, <1>5, <1>6 DEF Next, Reads

LEMMA InvHolds == Spec => []Inv
  BY InitInv, NextInv, PTL DEF Spec

(* The types of the variables, for every size of slices and buffers.       *)
THEOREM StreamTypeCorrect == Spec => []TypeOK
<1>1. Inv => TypeOK BY DEF Inv
<1> QED BY <1>1, InvHolds, PTL

(* chunk() never returns an empty or a negative piece, and its pieces are  *)
(* a partition of the chunk, for every average and every variation that is *)
(* less than the average, and every length of a chunk (slicer.go:31-49).   *)
THEOREM PartitionCorrect == Spec => []Partition
<1>1. Inv => Partition BY DEF Inv
<1> QED BY <1>1, InvHolds, PTL

(* A reader gets every byte once, in order, and the end after the last,    *)
(* for every sequence of buffer lengths but those named in ReadsStream.    *)
THEOREM ReadsCorrect == Spec => []ReadsStream
<1>1. Inv => ReadsStream
  BY DEF Inv, Positions, SentUpto, ReadsStream
<1> QED BY <1>1, InvHolds, PTL
=============================================================================
