--------------------------- MODULE SequenceLemmas ---------------------------
(***************************************************************************)
(* What the operators on sequences do that the models use for Go's slices. *)
(***************************************************************************)
EXTENDS SequencesExt, SequenceTheorems, FiniteSetTheorems, WellFoundedInduction, TLAPS

(* Taking one element out of a sequence (append(s[:i], s[i+1:]...)).       *)
LEMMA RemoveAtFacts ==
  ASSUME NEW S, NEW q \in Seq(S), NEW i \in 1 .. Len(q)
  PROVE  /\ RemoveAt(q, i) \in Seq(S)
         /\ Len(RemoveAt(q, i)) = Len(q) - 1
         /\ \A j \in 1 .. Len(q) - 1 :
              RemoveAt(q, i)[j] = IF j < i THEN q[j] ELSE q[j + 1]
<1> DEFINE a == SubSeq(q, 1, i - 1)
           b == SubSeq(q, i + 1, Len(q))
<1>1. /\ a \in Seq(S) /\ Len(a) = i - 1
      /\ \A j \in 1 .. i - 1 : a[j] = q[j]
  BY SubSeqProperties
<1>2. /\ b \in Seq(S) /\ Len(b) = Len(q) - i
      /\ \A j \in 1 .. Len(q) - i : b[j] = q[i + j]
  <2>1. \A j \in i + 1 .. Len(q) : q[j] \in S
    OBVIOUS
  <2>2. /\ b \in Seq(S) /\ Len(b) = IF i + 1 <= Len(q) THEN Len(q) - (i + 1) + 1 ELSE 0
        /\ \A j \in 1 .. Len(q) - (i + 1) + 1 : b[j] = q[(i + 1) + j - 1]
    BY <2>1, SubSeqProperties
  <2> QED
    BY <2>2
<1>3. RemoveAt(q, i) = a \o b
  BY DEF RemoveAt
<1> HIDE DEF a, b
<1>4. /\ a \o b \in Seq(S) /\ Len(a \o b) = Len(q) - 1
      /\ \A j \in 1 .. Len(q) - 1 :
           (a \o b)[j] = IF j <= i - 1 THEN a[j] ELSE b[j - (i - 1)]
  <2>1. /\ a \o b \in Seq(S) /\ Len(a \o b) = Len(a) + Len(b)
        /\ \A j \in 1 .. Len(a) + Len(b) :
             (a \o b)[j] = IF j <= Len(a) THEN a[j] ELSE b[j - Len(a)]
    BY <1>1, <1>2, ConcatProperties
  <2>2. Len(a) + Len(b) = Len(q) - 1 /\ Len(a) = i - 1
    BY <1>1, <1>2
  <2> QED
    BY <2>1, <2>2
<1>5. ASSUME NEW j \in 1 .. Len(q) - 1
      PROVE  (a \o b)[j] = IF j < i THEN q[j] ELSE q[j + 1]
  <2>1. CASE j < i
    BY <1>1, <1>4, <2>1
  <2>2. CASE ~(j < i)
    <3>1. j - (i - 1) \in 1 .. Len(q) - i /\ i + (j - (i - 1)) = j + 1
      BY <2>2
    <3> QED
      BY <1>2, <1>4, <2>2, <3>1
  <2> QED
    BY <2>1, <2>2
<1> QED
  BY <1>3, <1>4, <1>5
-----------------------------------------------------------------------------
(* Induction, by the least number without the property.                    *)
LEMMA AllNumbers ==
  ASSUME NEW T \in SUBSET Nat, 0 \in T, \A n \in T : n + 1 \in T
  PROVE  T = Nat
<1> SUFFICES ASSUME Nat \ T # {} PROVE FALSE
  OBVIOUS
<1>1. PICK x \in Nat \ T : \A y \in Nat \ T : ~(y < x)
  <2>1. IsWellFoundedOn(OpToRel(<, Nat), Nat)
    BY NatLessThanWellFounded
  <2>2. \E x \in Nat \ T : \A y \in Nat \ T : ~(<<y, x>> \in OpToRel(<, Nat))
    BY <2>1, WFMin
  <2> QED
    BY <2>2 DEF OpToRel
<1>2. x # 0 /\ x - 1 \in Nat /\ x - 1 < x
  BY <1>1
<1>3. x - 1 \in T
  BY <1>1, <1>2
<1> QED
  BY <1>1, <1>2, <1>3

(* The sequences FlattenSeq runs through, from the first of ss to all.     *)
Partial(g, ss, S, n) ==
  /\ g \in [1 .. n -> Seq(S)]
  /\ \A i \in 1 .. n : g[i] = IF i = 1 THEN ss[i] ELSE g[i - 1] \o ss[i]

LEMMA PartialExists ==
  ASSUME NEW S, NEW ss \in Seq(Seq(S))
  PROVE  \E g : Partial(g, ss, S, Len(ss))
<1> DEFINE T == {n \in Nat : n <= Len(ss) => \E g : Partial(g, ss, S, n)}
<1>1. 0 \in T
  <2>1. Partial([i \in 1 .. 0 |-> <<>>], ss, S, 0)
    BY DEF Partial
  <2> QED
    BY <2>1
<1>2. ASSUME NEW n \in T, n + 1 <= Len(ss)
      PROVE  \E g : Partial(g, ss, S, n + 1)
  <2>1. PICK g : Partial(g, ss, S, n)
    BY <1>2
  <2> DEFINE last == IF n = 0 THEN ss[1] ELSE g[n] \o ss[n + 1]
             h == [i \in 1 .. n + 1 |-> IF i = n + 1 THEN last ELSE g[i]]
  <2>2. last \in Seq(S)
    <3>1. n \in Nat /\ n + 1 \in 1 .. Len(ss) /\ ss[n + 1] \in Seq(S)
      BY <1>2
    <3>2. n # 0 => g[n] \in Seq(S)
      BY <2>1, <3>1 DEF Partial
    <3> QED
      BY <3>1, <3>2, ConcatProperties
  <2> HIDE DEF last
  <2>3. h \in [1 .. n + 1 -> Seq(S)]
    BY <2>1, <2>2 DEF Partial
  <2>4. ASSUME NEW i \in 1 .. n + 1
        PROVE  h[i] = IF i = 1 THEN ss[i] ELSE h[i - 1] \o ss[i]
    <3>1. CASE i = n + 1
      BY <3>1 DEF last
    <3>2. CASE i # n + 1
      <4>1. i \in 1 .. n /\ n \in Nat
        BY <3>2
      <4>2. g[i] = IF i = 1 THEN ss[i] ELSE g[i - 1] \o ss[i]
        BY <2>1, <4>1 DEF Partial
      <4>3. h[i] = g[i]
        BY <3>2
      <4>4. i # 1 => h[i - 1] = g[i - 1]
        BY <4>1
      <4> QED
        BY <4>2, <4>3, <4>4
    <3> QED
      BY <3>1, <3>2
  <2> HIDE DEF h
  <2>5. Partial(h, ss, S, n + 1)
    BY <2>3, <2>4 DEF Partial
  <2> QED
    BY <2>5
<1>3. ASSUME NEW n \in T PROVE n + 1 \in T
  <2>1. ASSUME n + 1 <= Len(ss) PROVE \E g : Partial(g, ss, S, n + 1)
    BY <1>2, <2>1
  <2> QED
    BY <2>1
<1> HIDE DEF T
<1>4. Len(ss) \in T
  <2>1. T \in SUBSET Nat
    BY DEF T
  <2>2. T = Nat
    BY <1>1, <1>3, <2>1, AllNumbers
  <2> QED
    BY <2>2
<1> QED
  BY <1>4 DEF T

LEMMA FlattenIsPartial ==
  ASSUME NEW S, NEW ss \in Seq(Seq(S)), Len(ss) # 0
  PROVE  \E g : Partial(g, ss, S, Len(ss)) /\ FlattenSeq(ss) = g[Len(ss)]
<1> DEFINE Step(g) == [i \in 1 .. Len(ss) |-> IF i = 1 THEN ss[i] ELSE g[i - 1] \o ss[i]]
           g == CHOOSE h : h = Step(h)
<1>1. \E h : h = Step(h)
  <2>1. PICK h : Partial(h, ss, S, Len(ss))
    BY PartialExists
  <2>2. h = Step(h)
    BY <2>1 DEF Partial
  <2> QED
    BY <2>2
<1>2. g = Step(g)
  BY <1>1
<1>3. FlattenSeq(ss) = g[Len(ss)]
  BY DEF FlattenSeq
<1> HIDE DEF g
<1>4. \A i \in 1 .. Len(ss) : g[i] = IF i = 1 THEN ss[i] ELSE g[i - 1] \o ss[i]
  BY <1>2
<1> DEFINE T == {n \in Nat : n \in 1 .. Len(ss) => g[n] \in Seq(S)}
<1>5. 0 \in T
  OBVIOUS
<1>6. ASSUME NEW n \in T, n + 1 \in 1 .. Len(ss)
      PROVE  g[n + 1] \in Seq(S)
  <2>1. ss[n + 1] \in Seq(S) /\ n \in Nat
    BY <1>6
  <2>2. CASE n = 0
    BY <1>4, <1>6, <2>1, <2>2
  <2>3. CASE n # 0
    <3>1. n \in 1 .. Len(ss) /\ g[n + 1] = g[n] \o ss[n + 1]
      <4>1. n \in 1 .. Len(ss) /\ n + 1 # 1 /\ (n + 1) - 1 = n
        BY <1>6, <2>1, <2>3
      <4>2. g[n + 1] = g[(n + 1) - 1] \o ss[n + 1]
        BY <1>4, <1>6, <4>1
      <4> QED
        BY <4>1, <4>2
    <3>2. g[n] \in Seq(S)
      BY <1>6, <3>1
    <3> QED
      BY <2>1, <3>1, <3>2, ConcatProperties
  <2> QED
    BY <2>2, <2>3
<1>7. \A n \in T : n + 1 \in T
  BY <1>6
<1> HIDE DEF T
<1>8. T = Nat
  <2>1. T \in SUBSET Nat
    BY DEF T
  <2> QED
    BY <1>5, <1>7, <2>1, AllNumbers
<1>9. g \in [1 .. Len(ss) -> Seq(S)]
  <2>1. \A n \in 1 .. Len(ss) : g[n] \in Seq(S)
    <3>1. \A n \in 1 .. Len(ss) : n \in Nat
      OBVIOUS
    <3> QED
      BY <1>8, <3>1 DEF T
  <2>2. g = [n \in 1 .. Len(ss) |-> g[n]]
    BY <1>2
  <2> QED
    BY <2>1, <2>2
<1> QED
  BY <1>3, <1>4, <1>9 DEF Partial

-----------------------------------------------------------------------------
(* Sequences of numbers in their order.                                    *)
Increasing(s) == \A i, j \in 1 .. Len(s) : i < j => s[i] < s[j]
Below(A, B) == \A a \in A, b \in B : a < b

LEMMA RangeConcat ==
  ASSUME NEW S, NEW s \in Seq(S), NEW t \in Seq(S)
  PROVE  Range(s \o t) = Range(s) \cup Range(t)
<1>1. /\ s \o t \in Seq(S) /\ Len(s \o t) = Len(s) + Len(t)
      /\ \A i \in 1 .. Len(s) + Len(t) :
           (s \o t)[i] = IF i <= Len(s) THEN s[i] ELSE t[i - Len(s)]
  BY ConcatProperties
<1>2. /\ Range(s) = {s[i] : i \in 1 .. Len(s)} /\ Range(t) = {t[i] : i \in 1 .. Len(t)}
      /\ Range(s \o t) = {(s \o t)[i] : i \in 1 .. Len(s) + Len(t)}
  BY <1>1 DEF Range
<1>3. ASSUME NEW i \in 1 .. Len(s) PROVE s[i] \in Range(s \o t)
  <2>1. i \in 1 .. Len(s) + Len(t) /\ (s \o t)[i] = s[i]
    BY <1>1
  <2> QED
    BY <1>2, <2>1
<1>4. ASSUME NEW i \in 1 .. Len(t) PROVE t[i] \in Range(s \o t)
  <2>1. /\ i + Len(s) \in 1 .. Len(s) + Len(t) /\ ~(i + Len(s) <= Len(s))
        /\ (i + Len(s)) - Len(s) = i
    OBVIOUS
  <2>2. (s \o t)[i + Len(s)] = t[i]
    BY <1>1, <2>1
  <2> QED
    BY <1>2, <2>1, <2>2
<1>5. ASSUME NEW i \in 1 .. Len(s) + Len(t) PROVE (s \o t)[i] \in Range(s) \cup Range(t)
  <2>1. CASE i <= Len(s)
    <3>1. i \in 1 .. Len(s) /\ (s \o t)[i] = s[i]
      BY <1>1, <2>1
    <3> QED
      BY <1>2, <3>1
  <2>2. CASE ~(i <= Len(s))
    <3>1. i - Len(s) \in 1 .. Len(t) /\ (s \o t)[i] = t[i - Len(s)]
      BY <1>1, <2>2
    <3> QED
      BY <1>2, <3>1
  <2> QED
    BY <2>1, <2>2
<1> QED
  BY <1>2, <1>3, <1>4, <1>5

LEMMA IncreasingConcat ==
  ASSUME NEW s \in Seq(Nat), NEW t \in Seq(Nat), Increasing(s), Increasing(t),
         Below(Range(s), Range(t))
  PROVE  Increasing(s \o t)
<1>1. /\ Len(s \o t) = Len(s) + Len(t)
      /\ \A i \in 1 .. Len(s) + Len(t) :
           (s \o t)[i] = IF i <= Len(s) THEN s[i] ELSE t[i - Len(s)]
  BY ConcatProperties
<1>2. \A i \in 1 .. Len(s), j \in 1 .. Len(t) : s[i] < t[j]
  BY DEF Below, Range
<1> SUFFICES ASSUME NEW i \in 1 .. Len(s) + Len(t), NEW j \in 1 .. Len(s) + Len(t), i < j
             PROVE  (s \o t)[i] < (s \o t)[j]
  BY <1>1 DEF Increasing
<1>3. CASE j <= Len(s)
  <2>1. i \in 1 .. Len(s) /\ j \in 1 .. Len(s) /\ i <= Len(s)
    BY <1>3
  <2> QED
    BY <1>1, <1>3, <2>1 DEF Increasing
<1>4. CASE i <= Len(s) /\ ~(j <= Len(s))
  <2>1. i \in 1 .. Len(s) /\ j - Len(s) \in 1 .. Len(t)
    BY <1>4
  <2> QED
    BY <1>1, <1>2, <1>4, <2>1
<1>5. CASE ~(i <= Len(s)) /\ ~(j <= Len(s))
  <2>1. i - Len(s) \in 1 .. Len(t) /\ j - Len(s) \in 1 .. Len(t) /\ i - Len(s) < j - Len(s)
    BY <1>5
  <2> QED
    BY <1>1, <1>5, <2>1 DEF Increasing
<1> QED
  BY <1>3, <1>4, <1>5

(* FlattenSeq appends sequences in their order: nothing is added or left  *)
(* out, and what was sorted stays so.                                      *)
LEMMA FlattenFacts ==
  ASSUME NEW ss \in Seq(Seq(Nat))
  PROVE  /\ FlattenSeq(ss) \in Seq(Nat)
         /\ Range(FlattenSeq(ss)) = UNION {Range(ss[k]) : k \in 1 .. Len(ss)}
         /\ (/\ \A k \in 1 .. Len(ss) : Increasing(ss[k])
             /\ \A k, l \in 1 .. Len(ss) : k < l => Below(Range(ss[k]), Range(ss[l])))
            => Increasing(FlattenSeq(ss))
<1>1. CASE Len(ss) = 0
  <2>1. FlattenSeq(ss) = <<>>
    BY <1>1, EmptySeq DEF FlattenSeq
  <2> QED
    BY <1>1, <2>1 DEF Increasing, Range
<1>2. CASE Len(ss) # 0
  <2>1. PICK g : Partial(g, ss, Nat, Len(ss)) /\ FlattenSeq(ss) = g[Len(ss)]
    BY <1>2, FlattenIsPartial
  <2> DEFINE Sorted == /\ \A k \in 1 .. Len(ss) : Increasing(ss[k])
                       /\ \A k, l \in 1 .. Len(ss) :
                            k < l => Below(Range(ss[k]), Range(ss[l]))
             Upto(n) == UNION {Range(ss[k]) : k \in 1 .. n}
             Good(n) == Range(g[n]) = Upto(n) /\ (Sorted => Increasing(g[n]))
             T == {n \in Nat : n \in 1 .. Len(ss) => Good(n)}
  <2>2. 0 \in T
    OBVIOUS
  <2>3. ASSUME NEW n \in Nat, n \in 1 .. Len(ss) => Good(n), n + 1 \in 1 .. Len(ss)
        PROVE  Good(n + 1)
    <3>1. CASE n = 0
      <4>1. g[1] = ss[1]
        <5>1. 1 \in 1 .. Len(ss)
          BY <2>3, <3>1
        <5> QED
          BY <2>1, <5>1 DEF Partial
      <4>2. Upto(1) = Range(ss[1])
        OBVIOUS
      <4> QED
        BY <2>3, <3>1, <4>1, <4>2
    <3>2. CASE n # 0
      <4>1. /\ n \in 1 .. Len(ss) /\ n + 1 # 1 /\ (n + 1) - 1 = n
            /\ \A k \in 1 .. n + 1 : k \in 1 .. n \/ k = n + 1
            /\ \A k \in 1 .. n : k \in 1 .. Len(ss) /\ k < n + 1
        BY <2>3, <3>2
      <4>2. g[n + 1] = g[n] \o ss[n + 1]
        <5>1. g[n + 1] = g[(n + 1) - 1] \o ss[n + 1]
          BY <2>1, <2>3, <4>1 DEF Partial
        <5> QED
          BY <4>1, <5>1
      <4>3. g[n] \in Seq(Nat) /\ ss[n + 1] \in Seq(Nat)
        BY <2>1, <2>3, <4>1 DEF Partial
      <4>4. Range(g[n + 1]) = Upto(n) \cup Range(ss[n + 1])
        BY <2>3, <4>1, <4>2, <4>3, RangeConcat
      <4>5. Upto(n + 1) = Upto(n) \cup Range(ss[n + 1])
        <5>1. n + 1 \in 1 .. n + 1 /\ \A k \in 1 .. n : k \in 1 .. n + 1
          BY <4>1
        <5>2. ASSUME NEW x \in Upto(n + 1) PROVE x \in Upto(n) \cup Range(ss[n + 1])
          <6>1. PICK k \in 1 .. n + 1 : x \in Range(ss[k])
            BY <5>2
          <6> QED
            BY <4>1, <6>1
        <5> QED
          BY <5>1, <5>2
      <4>6. ASSUME Sorted PROVE Increasing(g[n + 1])
        <5>1. Below(Range(g[n]), Range(ss[n + 1]))
          BY <2>3, <4>1, <4>6 DEF Below
        <5> QED
          BY <2>3, <4>1, <4>2, <4>3, <4>6, <5>1, IncreasingConcat
      <4> QED
        BY <4>4, <4>5, <4>6
    <3> QED
      BY <3>1, <3>2
  <2> HIDE DEF Good
  <2>4. ASSUME NEW n \in T PROVE n + 1 \in T
    <3>1. ASSUME n + 1 \in 1 .. Len(ss) PROVE Good(n + 1)
      BY <2>3, <3>1
    <3> QED
      BY <3>1
  <2>5. T = Nat
    <3>1. T \in SUBSET Nat
      OBVIOUS
    <3> HIDE DEF T
    <3> QED
      BY <2>2, <2>4, <3>1, AllNumbers
  <2>6. Good(Len(ss)) /\ Len(ss) \in 1 .. Len(ss)
    BY <1>2, <2>5
  <2> QED
    BY <2>1, <2>6 DEF Good, Partial
<1> QED
  BY <1>1, <1>2

(* An increasing sequence of the numbers from 1 to n has n elements.       *)
LEMMA IncreasingLength ==
  ASSUME NEW s \in Seq(Nat), NEW n \in Nat, Increasing(s), Range(s) = 1 .. n
  PROVE  Len(s) = n
<1>1. Len(s) \in Nat /\ DOMAIN s = 1 .. Len(s) /\ \A i \in 1 .. Len(s) : s[i] \in Nat
  OBVIOUS
<1>2. s \in [1 .. Len(s) -> 1 .. n]
  BY <1>1 DEF Range
<1>3. \A i, j \in 1 .. Len(s) : s[i] = s[j] => i = j
  BY <1>1 DEF Increasing
<1>4. s \in Injection(1 .. Len(s), 1 .. n)
  BY <1>2, <1>3 DEF Injection, IsInjective
<1>5. s \in Surjection(1 .. Len(s), 1 .. n)
  BY <1>1, <1>2 DEF Surjection, Range
<1>6. IsFiniteSet(1 .. n) /\ Cardinality(1 .. n) = n /\ Cardinality(1 .. Len(s)) = Len(s)
  <2>1. ASSUME NEW k \in Nat PROVE IsFiniteSet(1 .. k) /\ Cardinality(1 .. k) = k
    BY FS_Interval
  <2> QED
    BY <1>1, <2>1
<1> QED
  BY <1>4, <1>5, <1>6, FS_Injection
=============================================================================
