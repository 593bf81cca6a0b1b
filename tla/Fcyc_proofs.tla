---------------------------- MODULE Fcyc_proofs ----------------------------
(***************************************************************************)
(* Proofs about fcyc.c: values are the kbest smallest samples in order,    *)
(* and what fcyc returns is the least sample; for every set of samples and *)
(* of parameters.                                                          *)
(***************************************************************************)
EXTENDS Fcyc, FiniteSetTheorems, WellFoundedInduction, TLAPS

-----------------------------------------------------------------------------
(* Counting samples.                                                       *)

Indices(s) == 1 .. Len(s)
CountBelow(s, x) == Cardinality({k \in Indices(s) : s[k] < x})
CountUpTo(s, x) == Cardinality({k \in Indices(s) : s[k] <= x})

\* The two counts are numbers up to that of the samples, and grow with x.
LEMMA CountsBounded ==
    ASSUME NEW s \in Seq(Int), NEW x \in Int
    PROVE  /\ CountBelow(s, x) \in Nat /\ CountBelow(s, x) <= Len(s)
           /\ CountUpTo(s, x) \in Nat
           /\ IsFiniteSet(Indices(s))
<1>1. IsFiniteSet(Indices(s)) /\ Cardinality(Indices(s)) = Len(s)
  <2>1. Len(s) \in Nat /\ 1 \in Int /\ Len(s) \in Int
    OBVIOUS
  <2>2. /\ IsFiniteSet(1 .. Len(s))
        /\ Cardinality(1 .. Len(s)) =
              IF 1 > Len(s) THEN 0 ELSE Len(s) - 1 + 1
    BY <2>1, FS_Interval, Zenon
  <2> QED
    BY <2>1, <2>2 DEF Indices
<1>2. ASSUME NEW S, S \subseteq Indices(s)
      PROVE  /\ Cardinality(S) \in Nat
             /\ Cardinality(S) <= Len(s)
  BY <1>1, <1>2, FS_Subset, FS_CardinalityType
<1> QED
  BY <1>1, <1>2 DEF CountBelow, CountUpTo

LEMMA CountsMonotone ==
    ASSUME NEW s \in Seq(Int), NEW x \in Int, NEW y \in Int, x <= y
    PROVE  /\ CountBelow(s, x) <= CountBelow(s, y)
           /\ CountUpTo(s, x) <= CountUpTo(s, y)
<1>1. IsFiniteSet(Indices(s))
  BY CountsBounded
<1>2. \A k \in Indices(s) : s[k] \in Int
  BY DEF Indices
<1>3. /\ {k \in Indices(s) : s[k] < x} \subseteq {k \in Indices(s) : s[k] < y}
      /\ {k \in Indices(s) : s[k] <= x} \subseteq {k \in Indices(s) : s[k] <= y}
  BY <1>2
<1>4. ASSUME NEW S, S \subseteq Indices(s) PROVE IsFiniteSet(S)
  BY <1>1, <1>4, FS_Subset
<1>5. /\ IsFiniteSet({k \in Indices(s) : s[k] < y})
      /\ IsFiniteSet({k \in Indices(s) : s[k] <= y})
  BY <1>4
<1> QED
  BY <1>3, <1>5, FS_Subset DEF CountBelow, CountUpTo

\* A further sample c counts once where it is below x, or up to x.
LEMMA CountsAppend ==
    ASSUME NEW s \in Seq(Int), NEW c \in Int, NEW x \in Int
    PROVE  /\ CountBelow(Append(s, c), x) =
                  IF c < x THEN CountBelow(s, x) + 1 ELSE CountBelow(s, x)
           /\ CountUpTo(Append(s, c), x) =
                  IF c <= x THEN CountUpTo(s, x) + 1 ELSE CountUpTo(s, x)
<1> DEFINE n == Len(s)
           t == Append(s, c)
<1>1. n \in Nat /\ Len(t) = n + 1
  OBVIOUS
<1>2. t[n + 1] = c /\ \A k \in 1 .. n : t[k] = s[k]
  OBVIOUS
<1>3. n + 1 \notin Indices(s) /\ Indices(t) = Indices(s) \cup {n + 1}
  BY <1>1 DEF Indices
<1>4. IsFiniteSet(Indices(s))
  BY CountsBounded
<1>5. ASSUME NEW S, S \subseteq Indices(s)
      PROVE  Cardinality(S \cup {n + 1}) = Cardinality(S) + 1
  <2>1. IsFiniteSet(S) /\ n + 1 \notin S
    BY <1>3, <1>4, <1>5, FS_Subset
  <2> QED
    BY <2>1, FS_AddElement
<1>6. {k \in Indices(t) : t[k] < x} =
        IF c < x THEN {k \in Indices(s) : s[k] < x} \cup {n + 1}
        ELSE {k \in Indices(s) : s[k] < x}
  <2> HIDE DEF t
  <2> QED
    BY <1>1, <1>2, <1>3 DEF Indices
<1>7. {k \in Indices(t) : t[k] <= x} =
        IF c <= x THEN {k \in Indices(s) : s[k] <= x} \cup {n + 1}
        ELSE {k \in Indices(s) : s[k] <= x}
  <2> HIDE DEF t
  <2> QED
    BY <1>1, <1>2, <1>3 DEF Indices
<1>8. CASE c < x
  <2>1. Cardinality({k \in Indices(s) : s[k] < x} \cup {n + 1})
          = CountBelow(s, x) + 1
    BY <1>5 DEF CountBelow
  <2>2. Cardinality({k \in Indices(s) : s[k] <= x} \cup {n + 1})
          = CountUpTo(s, x) + 1
    BY <1>5 DEF CountUpTo
  <2> QED
    BY <1>6, <1>7, <1>8, <2>1, <2>2 DEF CountBelow, CountUpTo
<1>9. CASE ~(c < x)
  <2>1. Cardinality({k \in Indices(s) : s[k] <= x} \cup {n + 1})
          = CountUpTo(s, x) + 1
    BY <1>5 DEF CountUpTo
  <2> QED
    BY <1>6, <1>7, <1>9, <2>1 DEF CountBelow, CountUpTo
<1> QED
  BY <1>8, <1>9

-----------------------------------------------------------------------------
(* The insertion sort.                                                     *)

\* The place at which the loop of add_sample stops.
Stops(v, pos, i) ==
    /\ \A j \in i .. pos - 1 : v[j] > v[pos]
    /\ i = 1 \/ v[i - 1] <= v[pos]

\* There is one.
LEMMA LoopStops ==
    ASSUME NEW K \in Nat, NEW v \in [1 .. K -> Int], NEW pos \in 1 .. K
    PROVE  \E i \in 1 .. pos : Stops(v, pos, i)
<1> DEFINE T == {i \in 1 .. pos : \A j \in i .. pos - 1 : v[j] > v[pos]}
<1>1. pos \in T /\ T \subseteq Nat
  OBVIOUS
<1>2. PICK i \in T : \A j \in T : ~(j < i)
  <2>1. PICK i \in T : \A j \in T : ~(<<j, i>> \in OpToRel(<, Nat))
    BY <1>1, NatLessThanWellFounded, WFMin
  <2> QED
    BY <1>1, <2>1 DEF OpToRel
<1>3. ASSUME i # 1 PROVE v[i - 1] <= v[pos]
  <2>1. i - 1 \in 1 .. pos /\ i - 1 < i
    BY <1>1, <1>3
  <2>2. i - 1 \notin T
    BY <1>2, <2>1
  <2>3. PICK j \in i - 1 .. pos - 1 : ~(v[j] > v[pos])
    BY <2>1, <2>2
  <2>4. j = i - 1
    BY <2>3
  <2> QED
    BY <2>1, <2>3, <2>4
<1> QED
  BY <1>2, <1>3 DEF Stops

\* The first m values are in order, and each is of its rank among the samples.
Sorted(v, m) == \A i, j \in 1 .. m : i <= j => v[i] <= v[j]
Ranked(v, m, s) ==
    \A i \in 1 .. m : CountBelow(s, v[i]) < i /\ i <= CountUpTo(s, v[i])

\* The sort puts c at its rank, when m values are in order and c belongs
\* among the first m + 1.
LEMMA SinkRanks ==
    ASSUME NEW K \in Nat, NEW v \in [1 .. K -> Int], NEW m \in Nat, m < K,
           NEW s \in Seq(Int), NEW c \in Int,
           Sorted(v, m), Ranked(v, m, s), CountBelow(s, c) <= m
    PROVE  LET w == Sink([v EXCEPT ![m + 1] = c], m + 1)
           IN  /\ w \in [1 .. K -> Int]
               /\ Sorted(w, m + 1)
               /\ Ranked(w, m + 1, Append(s, c))
<1> DEFINE pos == m + 1
           u == [v EXCEPT ![pos] = c]
           w == Sink(u, pos)
           to == CHOOSE i \in 1 .. pos : Stops(u, pos, i)
<1>1. /\ pos \in 1 .. K
      /\ u \in [1 .. K -> Int]
      /\ u[pos] = c
      /\ \A i \in 1 .. m : u[i] = v[i] /\ v[i] \in Int
  OBVIOUS
<1>2. to \in 1 .. pos /\ Stops(u, pos, to)
  <2> HIDE DEF u, pos
  <2> QED
    BY <1>1, LoopStops
<1>3. /\ \A j \in to .. m : v[j] > c
      /\ to = 1 \/ v[to - 1] <= c
  BY <1>1, <1>2 DEF Stops
<1>4. w = [i \in 1 .. K |-> IF i = to THEN u[pos]
                            ELSE IF to < i /\ i <= pos THEN u[i - 1] ELSE u[i]]
  BY <1>1 DEF Sink, Stops
<1>5. /\ w \in [1 .. K -> Int]
      /\ w[to] = c
      /\ \A i \in 1 .. to - 1 : w[i] = v[i]
      /\ \A i \in to + 1 .. pos : w[i] = v[i - 1]
  <2> HIDE DEF u, w, to
  <2> QED
    BY <1>1, <1>2, <1>4
<1> HIDE DEF u, w, to
<1>6. \A i \in 1 .. to - 1 : w[i] <= c
  BY <1>2, <1>3, <1>5 DEF Sorted
<1>7. \A i \in to + 1 .. pos : w[i] > c
  BY <1>2, <1>3, <1>5
<1>8. Sorted(w, pos)
  <2> SUFFICES ASSUME NEW i \in 1 .. pos, NEW j \in 1 .. pos, i < j
               PROVE  w[i] <= w[j]
    <3>1. \A i \in 1 .. pos : w[i] \in Int
      BY <1>1, <1>5
    <3>2. \A i, j \in 1 .. pos : i = j \/ i < j \/ j < i
      OBVIOUS
    <3> QED
      BY <3>1, <3>2 DEF Sorted
  <2>1. CASE j < to
    <3>1. /\ i \in 1 .. to - 1 /\ j \in 1 .. to - 1
          /\ i \in 1 .. m /\ j \in 1 .. m
      BY <1>2, <2>1
    <3>2. w[i] = v[i] /\ w[j] = v[j]
      BY <1>5, <3>1
    <3> QED
      BY <3>1, <3>2 DEF Sorted
  <2>2. CASE i > to
    <3>1. /\ i \in to + 1 .. pos /\ j \in to + 1 .. pos
          /\ i - 1 \in 1 .. m /\ j - 1 \in 1 .. m
          /\ i - 1 <= j - 1
      BY <1>2, <2>2
    <3>2. w[i] = v[i - 1] /\ w[j] = v[j - 1]
      BY <1>5, <3>1
    <3>3. v[i - 1] <= v[j - 1]
      BY <3>1 DEF Sorted
    <3> QED
      BY <3>2, <3>3
  <2>3. CASE i <= to /\ to <= j
    <3>1. w[i] <= c
      BY <1>2, <1>5, <1>6, <2>3
    <3>2. c <= w[j]
      <4>1. CASE j = to
        BY <1>5, <4>1
      <4>2. CASE j # to
        <5>1. j \in to + 1 .. pos /\ w[j] \in Int
          BY <1>1, <1>2, <1>5, <2>3, <4>2
        <5> QED
          BY <1>7, <5>1
      <4> QED
        BY <4>1, <4>2
    <3>3. w[i] \in Int /\ w[j] \in Int
      BY <1>1, <1>5
    <3> QED
      BY <3>1, <3>2, <3>3
  <2> QED
    BY <1>2, <2>1, <2>2, <2>3
<1>9. ASSUME NEW i \in 1 .. pos
      PROVE  /\ CountBelow(Append(s, c), w[i]) < i
             /\ i <= CountUpTo(Append(s, c), w[i])
  <2>1. w[i] \in Int
    BY <1>1, <1>5
  <2>2. /\ CountBelow(s, w[i]) \in Nat /\ CountUpTo(s, w[i]) \in Nat
        /\ CountBelow(s, c) \in Nat /\ CountUpTo(s, c) \in Nat
    BY <2>1, CountsBounded
  <2>3. /\ CountBelow(Append(s, c), w[i]) =
              IF c < w[i] THEN CountBelow(s, w[i]) + 1 ELSE CountBelow(s, w[i])
        /\ CountUpTo(Append(s, c), w[i]) =
              IF c <= w[i] THEN CountUpTo(s, w[i]) + 1 ELSE CountUpTo(s, w[i])
    BY <2>1, CountsAppend
  <2>4. CASE i < to
    <3>1. w[i] = v[i] /\ i \in 1 .. m /\ w[i] <= c
      BY <1>2, <1>5, <1>6, <2>4
    <3>2. CountBelow(s, w[i]) < i /\ i <= CountUpTo(s, w[i])
      BY <3>1 DEF Ranked
    <3> QED
      BY <2>1, <2>2, <2>3, <3>1, <3>2
  <2>5. CASE i = to
    <3>1. w[i] = c
      BY <1>5, <2>5
    <3>2. CountBelow(s, c) < i
      <4>1. CASE to = pos
        BY <2>2, <2>5, <4>1
      <4>2. CASE to # pos
        <5>1. to \in 1 .. m /\ v[to] > c /\ v[to] \in Int
          BY <1>1, <1>2, <1>3, <4>2
        <5>2. CountBelow(s, c) <= CountBelow(s, v[to])
          BY <5>1, CountsMonotone
        <5>3. CountBelow(s, v[to]) < to
          BY <5>1 DEF Ranked
        <5>4. CountBelow(s, v[to]) \in Nat
          BY <5>1, CountsBounded
        <5> QED
          BY <2>2, <2>5, <5>1, <5>2, <5>3, <5>4
      <4> QED
        BY <4>1, <4>2
    <3>3. i - 1 <= CountUpTo(s, c)
      <4>1. CASE to = 1
        BY <2>2, <2>5, <4>1
      <4>2. CASE to # 1
        <5>1. to - 1 \in 1 .. m /\ v[to - 1] <= c /\ v[to - 1] \in Int
          BY <1>1, <1>2, <1>3, <4>2
        <5>2. CountUpTo(s, v[to - 1]) <= CountUpTo(s, c)
          BY <5>1, CountsMonotone
        <5>3. to - 1 <= CountUpTo(s, v[to - 1])
          BY <5>1 DEF Ranked
        <5>4. CountUpTo(s, v[to - 1]) \in Nat
          BY <5>1, CountsBounded
        <5> QED
          BY <2>2, <2>5, <5>1, <5>2, <5>3, <5>4
      <4> QED
        BY <4>1, <4>2
    <3> QED
      BY <2>1, <2>2, <2>5, <2>3, <3>1, <3>2, <3>3
  <2>6. CASE i > to
    <3>1. w[i] = v[i - 1] /\ i - 1 \in 1 .. m /\ w[i] > c
      BY <1>2, <1>5, <1>7, <2>6
    <3>2. CountBelow(s, w[i]) < i - 1 /\ i - 1 <= CountUpTo(s, w[i])
      BY <3>1 DEF Ranked
    <3> QED
      BY <2>1, <2>2, <2>6, <2>3, <3>1, <3>2
  <2> QED
    BY <1>2, <2>4, <2>5, <2>6
<1>10. Ranked(w, pos, Append(s, c))
  BY <1>9 DEF Ranked
<1> QED
  BY <1>5, <1>8, <1>10 DEF w, u

-----------------------------------------------------------------------------
(* The measurement.                                                        *)

Measuring == loc \in {"loop", "ready", "done"}

\* values[1 .. Kept] are samples, the others what calloc left.
Kept == Lesser(samplecount, kbest)

SampleInv ==
    /\ kbest \in Nat \ {0}
    /\ samples \in Seq(Int)
    /\ samplecount = Len(samples)
    /\ Measuring =>
          /\ values \in [1 .. kbest -> Int]
          /\ Sorted(values, Kept)
          /\ Ranked(values, Kept, samples)
    /\ loc = "done" => samplecount > 0
    /\ ResultIsLeast

LEMMA SampleInit ==
    ASSUME FcycAssumption, Init
    PROVE  SampleInv
BY DEF Init, SampleInv, Measuring, FcycAssumption, ResultIsLeast

\* add_sample keeps the values the smallest, in order.
LEMMA AddSample ==
    ASSUME SampleInv, loc = "ready", NEW cyc \in Int
    PROVE  /\ WithSample(cyc) \in [1 .. kbest -> Int]
           /\ Sorted(WithSample(cyc), Lesser(samplecount + 1, kbest))
           /\ Ranked(WithSample(cyc), Lesser(samplecount + 1, kbest),
                     Append(samples, cyc))
<1>1. /\ kbest \in Nat \ {0} /\ samplecount \in Nat
      /\ samplecount = Len(samples) /\ samples \in Seq(Int)
      /\ values \in [1 .. kbest -> Int]
      /\ Sorted(values, Kept)
      /\ Ranked(values, Kept, samples)
  BY DEF SampleInv, Measuring
<1>2. CountBelow(samples, cyc) \in Nat /\ CountBelow(samples, cyc) <= samplecount
  BY <1>1, CountsBounded
<1>3. CASE samplecount < kbest
  <2>1. Kept = samplecount /\ Lesser(samplecount + 1, kbest) = samplecount + 1
    BY <1>1, <1>3 DEF Kept, Lesser
  <2>2. WithSample(cyc) = Sink([values EXCEPT ![samplecount + 1] = cyc], samplecount + 1)
    BY <1>3 DEF WithSample
  <2> DEFINE w == Sink([values EXCEPT ![samplecount + 1] = cyc], samplecount + 1)
  <2>3. /\ w \in [1 .. kbest -> Int]
        /\ Sorted(w, samplecount + 1)
        /\ Ranked(w, samplecount + 1, Append(samples, cyc))
    <3>1. kbest \in Nat /\ Sorted(values, samplecount) /\ Ranked(values, samplecount, samples)
      BY <1>1, <2>1
    <3> HIDE DEF w
    <3> QED
      BY <1>1, <1>2, <1>3, <3>1, SinkRanks DEF w
  <2> HIDE DEF w
  <2> QED
    BY <2>1, <2>2, <2>3 DEF w
<1>4. CASE ~(samplecount < kbest) /\ cyc < values[kbest]
  <2> DEFINE m == kbest - 1
  <2>1. /\ Kept = kbest /\ Lesser(samplecount + 1, kbest) = m + 1
        /\ m \in Nat /\ m < kbest /\ m + 1 = kbest
    BY <1>1, <1>4 DEF Kept, Lesser
  <2>2. Sorted(values, m) /\ Ranked(values, m, samples)
    BY <1>1, <2>1 DEF Sorted, Ranked
  <2>3. CountBelow(samples, cyc) <= m
    <3>1. values[kbest] \in Int /\ cyc <= values[kbest]
      BY <1>1, <1>4
    <3>2. CountBelow(samples, cyc) <= CountBelow(samples, values[kbest])
      BY <1>1, <3>1, CountsMonotone
    <3>3. CountBelow(samples, values[kbest]) < kbest
      BY <1>1, <2>1 DEF Ranked
    <3>4. CountBelow(samples, values[kbest]) \in Nat
      BY <1>1, <3>1, CountsBounded
    <3> QED
      BY <1>1, <1>2, <3>2, <3>3, <3>4
  <2>4. WithSample(cyc) = Sink([values EXCEPT ![m + 1] = cyc], m + 1)
    BY <1>1, <1>4, <2>1 DEF WithSample
  <2> DEFINE w == Sink([values EXCEPT ![m + 1] = cyc], m + 1)
  <2> HIDE DEF m, w
  <2>5. /\ w \in [1 .. kbest -> Int]
        /\ Sorted(w, m + 1)
        /\ Ranked(w, m + 1, Append(samples, cyc))
    <3>1. kbest \in Nat
      BY <1>1
    <3> QED
      BY <1>1, <2>1, <2>2, <2>3, <3>1, SinkRanks DEF w
  <2> QED
    BY <2>1, <2>4, <2>5 DEF w
<1>5. CASE ~(samplecount < kbest) /\ ~(cyc < values[kbest])
  <2>1. /\ WithSample(cyc) = values
        /\ Kept = kbest /\ Lesser(samplecount + 1, kbest) = kbest
    BY <1>1, <1>5 DEF WithSample, Kept, Lesser
  <2>2. ASSUME NEW i \in 1 .. kbest
        PROVE  /\ CountBelow(Append(samples, cyc), values[i]) < i
               /\ i <= CountUpTo(Append(samples, cyc), values[i])
    <3>1. values[i] \in Int /\ values[kbest] \in Int /\ values[i] <= values[kbest]
      BY <1>1, <2>1 DEF Sorted
    <3>2. ~(cyc < values[i])
      BY <1>5, <3>1
    <3>3. CountBelow(samples, values[i]) < i /\ i <= CountUpTo(samples, values[i])
      BY <1>1, <2>1 DEF Ranked
    <3>4. CountUpTo(samples, values[i]) \in Nat
      BY <1>1, <3>1, CountsBounded
    <3> QED
      BY <1>1, <3>1, <3>2, <3>3, <3>4, CountsAppend
  <2> QED
    BY <1>1, <2>1, <2>2 DEF Ranked
<1> QED
  BY <1>3, <1>4, <1>5

\* The first value is of rank one: the least sample.
LEMMA FirstIsLeast ==
    ASSUME SampleInv, loc = "done"
    PROVE  /\ \E k \in 1 .. samplecount : values[1] = samples[k]
           /\ \A k \in 1 .. samplecount : values[1] <= samples[k]
           /\ values[1] \in Int
<1>1. /\ kbest \in Nat \ {0} /\ samplecount \in Nat \ {0}
      /\ samplecount = Len(samples) /\ samples \in Seq(Int)
      /\ values[1] \in Int
      /\ Ranked(values, Kept, samples)
  BY DEF SampleInv, Measuring
<1>2. 1 \in 1 .. Kept
  BY <1>1 DEF Kept, Lesser
<1>3. CountBelow(samples, values[1]) < 1 /\ 1 <= CountUpTo(samples, values[1])
  BY <1>1, <1>2 DEF Ranked
<1>4. \A k \in 1 .. samplecount : samples[k] \in Int
  BY <1>1
<1> DEFINE Less == {k \in Indices(samples) : samples[k] < values[1]}
           NotMore == {k \in Indices(samples) : samples[k] <= values[1]}
<1>5. IsFiniteSet(Less) /\ IsFiniteSet(NotMore)
  BY <1>1, CountsBounded, FS_Subset
<1>6. Less = {}
  <2>1. Cardinality(Less) \in Nat /\ Cardinality(Less) < 1
    BY <1>3, <1>5, FS_CardinalityType DEF CountBelow
  <2>2. Cardinality(Less) = 0
    BY <2>1
  <2> QED
    BY <1>5, <2>2, FS_EmptySet
<1>7. NotMore # {}
  <2>1. 1 <= Cardinality(NotMore)
    BY <1>3 DEF CountUpTo
  <2>2. Cardinality({}) = 0
    BY FS_EmptySet
  <2> QED
    BY <2>1, <2>2
<1>8. \A k \in 1 .. samplecount : ~(samples[k] < values[1])
  BY <1>1, <1>6 DEF Indices
<1>9. PICK k \in 1 .. samplecount : samples[k] <= values[1]
  BY <1>1, <1>7 DEF Indices
<1>10. values[1] = samples[k]
  BY <1>1, <1>4, <1>8, <1>9
<1> QED
  BY <1>1, <1>4, <1>8, <1>10

LEMMA SampleNext ==
    ASSUME FcycAssumption, SampleInv, [Next]_vars
    PROVE  SampleInv'
<1>1. CASE init_sampler
  <2>1. /\ loc = "idle" /\ loc' = "loop"
        /\ values' = [i \in 1 .. kbest |-> 0]
        /\ samplecount' = 0 /\ samples' = << >>
        /\ kbest' = kbest /\ result' = result
    BY <1>1 DEF init_sampler, parameters
  <2>2. Kept' = 0
    BY <2>1 DEF Kept, Lesser, SampleInv
  <2> QED
    BY <2>1, <2>2 DEF SampleInv, Measuring, Sorted, Ranked, ResultIsLeast
<1>2. CASE clear_fails
  BY <1>2 DEF clear_fails, parameters, SampleInv, Measuring, ResultIsLeast
<1>3. CASE sample
  <2>1. PICK cyc \in Counted :
          /\ values' = WithSample(cyc)
          /\ samples' = Append(samples, cyc)
          /\ Sample(cyc)
    BY <1>3 DEF sample, Sample
  <2>2. cyc \in Int
    BY <2>1 DEF Counted, FcycAssumption
  <2>3. /\ loc = "ready" /\ loc' \in {"loop", "done"}
        /\ samplecount' = samplecount + 1
        /\ kbest' = kbest
    BY <2>1 DEF Sample, parameters
  <2>4. Kept' = Lesser(samplecount + 1, kbest)
    BY <2>3 DEF Kept, Lesser
  <2>5. /\ values' \in [1 .. kbest' -> Int]
        /\ Sorted(values', Kept')
        /\ Ranked(values', Kept', samples')
    BY <2>1, <2>2, <2>3, <2>4, AddSample
  <2>6. /\ samples' \in Seq(Int) /\ samplecount' = Len(samples')
        /\ samplecount' > 0
    BY <2>1, <2>2, <2>3 DEF SampleInv
  <2> QED
    BY <2>3, <2>5, <2>6 DEF SampleInv, ResultIsLeast
<1>4. CASE fcyc_return
  <2>1. /\ loc = "done" /\ loc' = "idle"
        /\ result' = values[1]
        /\ kbest' = kbest /\ UNCHANGED <<samplecount, samples>>
    BY <1>4 DEF fcyc_return, return_best, parameters
  <2>2. ResultIsLeast'
    BY <2>1, FirstIsLeast DEF ResultIsLeast
  <2> QED
    BY <2>1, <2>2 DEF SampleInv, Measuring
<1>5. CASE set_parameters
  <2>1. /\ loc = "idle"
        /\ kbest' \in Ks \/ kbest' = kbest
        /\ UNCHANGED <<loc, samplecount, samples, result>>
    BY <1>5 DEF set_parameters
  <2> QED
    BY <2>1 DEF SampleInv, Measuring, ResultIsLeast, FcycAssumption
<1>6. CASE set_cache_size
  BY <1>6 DEF set_cache_size, parameters, SampleInv, Measuring, ResultIsLeast
<1>7. CASE Ended \/ UNCHANGED vars
  <2>1. UNCHANGED <<loc, kbest, values, samplecount, samples, result>>
    BY <1>7 DEF Ended, vars, parameters
  <2> QED
    BY <2>1 DEF SampleInv, Measuring, Kept, ResultIsLeast
<1>8. CASE clear
  <2>1. /\ loc = "loop" /\ loc' = "ready"
        /\ UNCHANGED <<kbest, values, samplecount, samples, result>>
    BY <1>8 DEF clear, parameters
  <2> QED
    BY <2>1 DEF SampleInv, Measuring, Kept, ResultIsLeast
<1> QED
  BY <1>1, <1>2, <1>3, <1>4, <1>5, <1>6, <1>7, <1>8 DEF Next, Measure

\* For every kbest and every run of samples, values are the smallest ones
\* taken so far, each at its rank.
THEOREM ValuesAreSmallest ==
    ASSUME FcycAssumption
    PROVE  Spec => []KBest
<1>1. Init => SampleInv
  BY SampleInit
<1>2. SampleInv /\ [Next]_vars => SampleInv'
  BY SampleNext
<1>3. SampleInv => KBest
  BY DEF SampleInv, KBest, Measuring, Kept, Ranked, CountBelow, CountUpTo,
     Below, UpTo, Indices
<1> QED
  BY <1>1, <1>2, <1>3, PTL DEF Spec

\* fcyc returns the least sample of the call, converged or not.
THEOREM LeastIsReturned ==
    ASSUME FcycAssumption
    PROVE  Spec => []ResultIsLeast
<1>1. Init => SampleInv
  BY SampleInit
<1>2. SampleInv /\ [Next]_vars => SampleInv'
  BY SampleNext
<1>3. SampleInv => ResultIsLeast
  BY DEF SampleInv
<1> QED
  BY <1>1, <1>2, <1>3, PTL DEF Spec

-----------------------------------------------------------------------------
(* The parameters and the cache buffer.                                    *)

ParametersOK ==
    /\ kbest \in Ks /\ maxsamples \in MaxSamples /\ epsilon \in Epsilons
    /\ compensate \in BOOLEAN /\ clear_cache \in BOOLEAN
    /\ cache_bytes \in CacheSizes
    /\ CacheBufFits

\* Only the setters write parameters; each new size drops the old buffer.
LEMMA ParametersNext ==
    ASSUME ParametersOK, [Next]_vars
    PROVE  ParametersOK'
<1>1. CASE UNCHANGED <<parameters, cache>>
  BY <1>1 DEF parameters, cache, ParametersOK, CacheBufFits
<1>2. CASE clear
  BY <1>2 DEF clear, parameters, ParametersOK, CacheBufFits
<1>3. CASE set_parameters
  <2>1. UNCHANGED cache
    BY <1>3 DEF set_parameters
  <2>2. /\ kbest' \in Ks /\ maxsamples' \in MaxSamples /\ epsilon' \in Epsilons
        /\ compensate' \in BOOLEAN /\ clear_cache' \in BOOLEAN
    BY <1>3 DEF set_parameters, ParametersOK
  <2> QED
    BY <2>1, <2>2 DEF cache, ParametersOK, CacheBufFits
<1>4. CASE set_cache_size
  BY <1>4 DEF set_cache_size, set_fcyc_cache_size, parameters, ParametersOK,
              CacheBufFits
<1>5. init_sampler \/ clear_fails \/ sample \/ fcyc_return \/ Ended \/ UNCHANGED vars
        => UNCHANGED <<parameters, cache>>
  BY DEF init_sampler, clear_fails, sample, Sample, fcyc_return, Ended, vars
<1> QED
  BY <1>1, <1>2, <1>3, <1>4, <1>5 DEF Next, Measure

\* Whenever clear reads the buffer it is as large as cache_bytes says, for
\* every sequence of sizes set between the measurements.
THEOREM BufferAlwaysFits ==
    ASSUME FcycAssumption
    PROVE  Spec => []CacheBufFits
<1>1. Init => ParametersOK
  BY DEF Init, ParametersOK, CacheBufFits
<1>2. ParametersOK /\ [Next]_vars => ParametersOK'
  BY ParametersNext
<1>3. ParametersOK => CacheBufFits
  BY DEF ParametersOK
<1> QED
  BY <1>1, <1>2, <1>3, PTL DEF Spec

RecordOK ==
    /\ loc \in {"idle", "loop", "ready", "done", "exit"}
    /\ samples \in Seq(Cycles)
    /\ result \in Int

\* A sample is one of Cycles, and fcyc returns a value, which is a number.
LEMMA RecordNext ==
    ASSUME FcycAssumption, SampleInv, RecordOK, [Next]_vars
    PROVE  RecordOK'
<1>1. CASE init_sampler
  BY <1>1 DEF init_sampler, RecordOK
<1>2. CASE clear_fails \/ clear
  BY <1>2 DEF clear_fails, clear, RecordOK
<1>3. CASE sample
  <2>1. PICK cyc \in Counted : Sample(cyc)
    BY <1>3 DEF sample
  <2>2. cyc \in Cycles
    BY DEF Counted
  <2>3. /\ samples' = Append(samples, cyc)
        /\ loc' \in {"loop", "done"}
        /\ result' = result
    BY <2>1 DEF Sample
  <2> QED
    BY <2>2, <2>3 DEF RecordOK
<1>4. CASE fcyc_return
  <2>1. loc = "done" /\ loc' = "idle" /\ result' = values[1] /\ samples' = samples
    BY <1>4 DEF fcyc_return, return_best
  <2>2. values[1] \in Int
    BY <2>1, FirstIsLeast
  <2> QED
    BY <2>1, <2>2 DEF RecordOK
<1>5. CASE set_parameters \/ set_cache_size \/ Ended \/ UNCHANGED vars
  BY <1>5 DEF set_parameters, set_cache_size, Ended, vars, RecordOK
<1> QED
  BY <1>1, <1>2, <1>3, <1>4, <1>5 DEF Next, Measure

\* Every variable of fcyc keeps its type; values are numbers, never what
\* calloc or free left, while it measures.
THEOREM FcycTypeCorrect ==
    ASSUME FcycAssumption
    PROVE  Spec => []TypeOK
<1>1. Init => SampleInv /\ ParametersOK /\ RecordOK
  <2>1. ASSUME Init PROVE ParametersOK
    BY <2>1 DEF Init, ParametersOK, CacheBufFits
  <2>2. ASSUME Init PROVE RecordOK
    BY <2>2 DEF Init, RecordOK
  <2> QED
    BY <2>1, <2>2, SampleInit
<1>2. SampleInv /\ ParametersOK /\ RecordOK /\ [Next]_vars
        => (SampleInv /\ ParametersOK /\ RecordOK)'
  <2>1. SampleInv /\ [Next]_vars => SampleInv'
    BY SampleNext
  <2>2. ParametersOK /\ [Next]_vars => ParametersOK'
    BY ParametersNext
  <2>3. SampleInv /\ RecordOK /\ [Next]_vars => RecordOK'
    BY RecordNext
  <2> QED
    BY <2>1, <2>2, <2>3
<1>3. SampleInv /\ ParametersOK /\ RecordOK => TypeOK
  BY DEF SampleInv, ParametersOK, RecordOK, TypeOK, Measuring
<1> QED
  BY <1>1, <1>2, <1>3, PTL DEF Spec

=============================================================================
