------------------------------ MODULE MM_proofs ------------------------------
(***************************************************************************)
(* The words of mm.c, proved to implement the blocks of MMBlocks.          *)
(***************************************************************************)
EXTENDS MMClient, MMBlocks_proofs, Sequences, FiniteSets, FiniteSetTheorems,
        WellFoundedInduction

-----------------------------------------------------------------------------
(* Numbers.                                                                *)

\* A set of numbers has a least one.
LEMMA Least ==
    ASSUME NEW S, S \subseteq Nat, S # {}
    PROVE  \E m \in S : \A k \in S : m <= k
<1>1. PICK m \in S : \A k \in S : ~(<<k, m>> \in OpToRel(<, Nat))
  BY NatLessThanWellFounded, WFMin
<1>2. ASSUME NEW k \in S PROVE ~(k < m)
  BY <1>1 DEF OpToRel
<1> QED
  BY <1>2

\* Induction over a set of numbers.
LEMMA Induction ==
    ASSUME NEW S, S \subseteq Nat, 0 \in S, \A n \in S : n + 1 \in S
    PROVE  S = Nat
<1> SUFFICES ASSUME Nat \ S # {} PROVE FALSE
  OBVIOUS
<1>1. PICK m \in Nat \ S : \A k \in Nat \ S : m <= k
  BY Least
<1>2. m - 1 \in Nat /\ m - 1 \in S
  BY <1>1
<1> QED
  BY <1>1, <1>2

\* Induction over the places of a list.
LEMMA Upto ==
    ASSUME NEW n \in Nat, NEW S, 1 \in S,
           \A i \in 1 .. n : i \in S /\ i + 1 \in 1 .. n => i + 1 \in S
    PROVE  \A i \in 1 .. n : i \in S
<1> DEFINE T == {k \in Nat : k + 1 \in 1 .. n => k + 1 \in S}
<1>1. T \subseteq Nat /\ 0 \in T
  OBVIOUS
<1>2. ASSUME NEW k \in T PROVE k + 1 \in T
  <2>1. k + 1 \in Nat
    OBVIOUS
  <2>2. ASSUME (k + 1) + 1 \in 1 .. n PROVE (k + 1) + 1 \in S
    <3>1. k + 1 \in 1 .. n
      BY <2>2
    <3> QED
      BY <2>2, <3>1
  <2> QED
    BY <2>1, <2>2
<1> HIDE DEF T
<1>3. T = Nat
  BY <1>1, <1>2, Induction
<1>4. ASSUME NEW i \in 1 .. n PROVE i \in S
  <2>1. i - 1 \in T /\ (i - 1) + 1 = i
    BY <1>3
  <2> QED
    BY <2>1 DEF T
<1> QED
  BY <1>4

-----------------------------------------------------------------------------
(* Walks.                                                                  *)

\* One step of a walk: the k nodes from bp on, by the k - 1 nodes of g.
StepOf(next, g, k) ==
    [bp \in Int |-> IF k = 0 \/ bp = NULL THEN << >> ELSE <<bp>> \o g[k - 1][next[bp]]]

\* A table of the walks of up to m nodes.
Table(next, g, m) == g = [k \in 0 .. m |-> StepOf(next, g, k)]

LEMMA WalkTables ==
    ASSUME NEW next, NEW m \in Nat
    PROVE  \E g : Table(next, g, m)
<1> DEFINE S == {n \in Nat : \E g : Table(next, g, n)}
<1>1. 0 \in S
  <2> DEFINE g == [k \in 0 .. 0 |-> [bp \in Int |-> << >>]]
  <2>1. g = [k \in 0 .. 0 |-> StepOf(next, g, k)]
    BY DEF StepOf
  <2> QED
    BY <2>1 DEF Table
<1>2. ASSUME NEW n \in S PROVE n + 1 \in S
  <2>1. PICK g : Table(next, g, n)
    OBVIOUS
  <2> DEFINE h == [k \in 0 .. n + 1 |-> IF k = n + 1 THEN StepOf(next, g, k) ELSE g[k]]
  <2>2. ASSUME NEW k \in 0 .. n + 1
        PROVE  StepOf(next, h, k) = h[k]
    <3>1. k = 0 \/ h[k - 1] = g[k - 1]
      OBVIOUS
    <3>2. StepOf(next, h, k) = StepOf(next, g, k)
      <4>1. CASE k = 0
        BY <4>1 DEF StepOf
      <4>2. CASE k # 0
        BY <3>1, <4>2 DEF StepOf
      <4> QED
        BY <4>1, <4>2
    <3>3. CASE k = n + 1
      BY <3>2, <3>3
    <3>4. CASE k # n + 1
      <4>1. g = [j \in 0 .. n |-> StepOf(next, g, j)] /\ k \in 0 .. n
        BY <2>1, <3>4 DEF Table
      <4>2. g[k] = StepOf(next, g, k)
        BY <4>1
      <4> QED
        BY <3>2, <3>4, <4>2
    <3> QED
      BY <3>3, <3>4
  <2>3. Table(next, h, n + 1)
    BY <2>2 DEF Table
  <2>4. n + 1 \in Nat
    OBVIOUS
  <2> QED
    BY <2>3, <2>4
<1> HIDE DEF S
<1>3. S \subseteq Nat
  BY DEF S
<1>4. m \in S
  BY <1>1, <1>2, <1>3, Induction
<1> QED
  BY <1>4 DEF S

LEMMA NumWords == W!NumWords \in Nat /\ W!NumWords * WSIZE <= MAX_HEAP
BY GeometryAssumption DEF W!NumWords

\* The recursive definition of a walk is one.
LEMMA WalkIs ==
    ASSUME NEW next
    PROVE  Table(next, W!Walk(next), W!NumWords)
<1> DEFINE F(g) == g = [k \in 0 .. W!NumWords |->
                          [bp \in Int |-> IF k = 0 \/ bp = NULL THEN << >>
                                          ELSE <<bp>> \o g[k - 1][next[bp]]]]
<1>1. \E g : F(g)
  BY NumWords, WalkTables DEF Table, StepOf
<1>2. F(CHOOSE g : F(g))
  BY <1>1
<1>3. W!Walk(next) = CHOOSE g : F(g)
  BY DEF W!Walk, W!NULL, NULL
<1> QED
  BY <1>2, <1>3 DEF Table, StepOf

LEMMA WalkStep ==
    ASSUME NEW next, NEW k \in 0 .. W!NumWords, NEW bp \in Int
    PROVE  W!Walk(next)[k][bp] =
              IF k = 0 \/ bp = NULL THEN << >>
              ELSE <<bp>> \o W!Walk(next)[k - 1][next[bp]]
<1> DEFINE g == W!Walk(next)
<1>1. g = [j \in 0 .. W!NumWords |-> StepOf(next, g, j)]
  BY WalkIs DEF Table
<1> HIDE DEF g
<1>2. g[k] = StepOf(next, g, k)
  BY <1>1
<1> QED
  BY <1>2 DEF StepOf, g

\* Each of the n nodes c is next of the one before.
Path(next, n, c) ==
    \A i \in 1 .. n : c[i] # NULL /\ (i < n => c[i + 1] = next[c[i]])

\* What a walk of up to k nodes from bp on is.
IsWalk(next, k, bp, c) ==
    /\ c \in Seq(Int) /\ Len(c) <= k
    /\ bp = NULL => Len(c) = 0
    /\ bp # NULL /\ k > 0 => Len(c) > 0 /\ c[1] = bp
    /\ Path(next, Len(c), c)
    /\ 0 < Len(c) /\ Len(c) < k => next[c[Len(c)]] = NULL

\* The first of n + 1 nodes, and the rest of them.
LEMMA NodesCons ==
    ASSUME NEW next, NEW n \in Nat, NEW d, Path(next, n, d),
           NEW b, b # NULL, n > 0 => d[1] = next[b],
           NEW c, c[1] = b, \A i \in 1 .. n : c[i + 1] = d[i]
    PROVE  Path(next, n + 1, c)
<1>0. \A i \in 1 .. n : d[i] # NULL /\ (i < n => d[i + 1] = next[d[i]])
  BY DEF Path
<1>1. c[1] # NULL /\ (1 < n + 1 => c[1 + 1] = next[c[1]])
  <2>1. ASSUME 1 < n + 1 PROVE c[1 + 1] = next[c[1]]
    <3>1. 1 \in 1 .. n
      BY <2>1
    <3> QED
      BY <3>1
  <2> QED
    BY <2>1
<1>2. ASSUME NEW j \in 1 .. n
      PROVE  c[j + 1] # NULL /\ (j + 1 < n + 1 => c[j + 1 + 1] = next[c[j + 1]])
  <2>1. c[j + 1] = d[j] /\ d[j] # NULL
    BY <1>0
  <2>2. ASSUME j + 1 < n + 1 PROVE c[j + 1 + 1] = next[c[j + 1]]
    <3>1. j + 1 \in 1 .. n /\ j < n
      BY <2>2
    <3> QED
      BY <1>0, <2>1, <3>1
  <2> QED
    BY <2>1, <2>2
<1>3. ASSUME NEW i \in 1 .. n + 1
      PROVE  i = 1 \/ \E j \in 1 .. n : i = j + 1
  <2>1. i = 1 \/ (i - 1 \in 1 .. n /\ i = (i - 1) + 1)
    OBVIOUS
  <2> QED
    BY <2>1
<1> QED
  BY <1>1, <1>2, <1>3 DEF Path

\* The first node of a walk, and the rest of it.
LEMMA WalkCons ==
    ASSUME NEW next \in [Int -> Int], NEW k \in Nat, NEW b \in Int, b # NULL,
           NEW d, IsWalk(next, k, next[b], d)
    PROVE  IsWalk(next, k + 1, b, <<b>> \o d)
<1> DEFINE c == <<b>> \o d
           n == Len(d)
<1>1. /\ d \in Seq(Int) /\ n \in Nat /\ n <= k
      /\ next[b] = NULL => n = 0
      /\ next[b] # NULL /\ k > 0 => n > 0 /\ d[1] = next[b]
      /\ Path(next, n, d)
      /\ 0 < n /\ n < k => next[d[n]] = NULL
  BY DEF IsWalk
<1>2. /\ c \in Seq(Int) /\ Len(c) = n + 1 /\ c[1] = b
      /\ \A i \in 1 .. n : c[i + 1] = d[i]
  BY <1>1
<1> HIDE DEF c, n
<1>3. Path(next, n + 1, c)
  <2>1. n > 0 => d[1] = next[b]
    BY <1>1
  <2>2. n \in Nat /\ Path(next, n, d)
    BY <1>1
  <2>3. c[1] = b /\ \A i \in 1 .. n : c[i + 1] = d[i]
    BY <1>2
  <2> QED
    BY <2>1, <2>2, <2>3, NodesCons
<1>4. n + 1 < k + 1 => next[c[n + 1]] = NULL
  <2>1. CASE n = 0
    BY <1>1, <1>2, <2>1
  <2>2. CASE n > 0
    <3>1. n \in 1 .. n
      BY <1>1, <2>2
    <3>2. c[n + 1] = d[n]
      BY <1>2, <3>1
    <3> QED
      BY <1>1, <2>2, <3>2
  <2> QED
    BY <1>1, <2>1, <2>2
<1>5. IsWalk(next, k + 1, b, c)
  <2>1. Len(c) <= k + 1 /\ Len(c) > 0
    BY <1>1, <1>2
  <2>2. /\ Path(next, Len(c), c)
        /\ Len(c) < k + 1 => next[c[Len(c)]] = NULL
    BY <1>2, <1>3, <1>4
  <2> QED
    BY <1>2, <2>1, <2>2 DEF IsWalk
<1> QED
  BY <1>5 DEF c

\* No node at all.
LEMMA WalkEmpty ==
    ASSUME NEW next, NEW k \in Nat, NEW b, k = 0 \/ b = NULL
    PROVE  IsWalk(next, k, b, << >>)
BY DEF IsWalk, Path

LEMMA WalkNodes ==
    ASSUME NEW next \in [Int -> Int], NEW bp \in Int
    PROVE  IsWalk(next, W!NumWords, bp, W!Walk(next)[W!NumWords][bp])
<1> DEFINE w == W!Walk(next)
           S == {k \in Nat : k <= W!NumWords => \A b \in Int : IsWalk(next, k, b, w[k][b])}
<1>0. ASSUME NEW k \in 0 .. W!NumWords, NEW b \in Int
      PROVE  w[k][b] = IF k = 0 \/ b = NULL THEN << >> ELSE <<b>> \o w[k - 1][next[b]]
  BY WalkStep
<1> HIDE DEF w
<1>1. 0 \in S
  <2>1. 0 \in 0 .. W!NumWords
    BY NumWords
  <2>2. ASSUME NEW b \in Int PROVE w[0][b] = << >>
    BY <1>0, <2>1
  <2> QED
    BY <2>2, WalkEmpty
<1>2. ASSUME NEW k \in S PROVE k + 1 \in S
  <2> SUFFICES ASSUME k + 1 <= W!NumWords, NEW b \in Int
               PROVE  IsWalk(next, k + 1, b, w[k + 1][b])
    OBVIOUS
  <2>1. k \in Nat /\ k + 1 \in 0 .. W!NumWords /\ k + 1 # 0 /\ (k + 1) - 1 = k
    BY NumWords
  <2>2. w[k + 1][b] = IF b = NULL THEN << >> ELSE <<b>> \o w[k][next[b]]
    BY <1>0, <2>1
  <2>3. \A x \in Int : IsWalk(next, k, x, w[k][x])
    BY <2>1, NumWords
  <2>4. CASE b = NULL
    BY <2>1, <2>2, <2>4, WalkEmpty
  <2>5. CASE b # NULL
    BY <2>1, <2>2, <2>3, <2>5, WalkCons
  <2> QED
    BY <2>4, <2>5
<1>3. S \subseteq Nat
  OBVIOUS
<1> HIDE DEF S
<1>4. W!NumWords \in S
  BY <1>1, <1>2, <1>3, NumWords, Induction
<1> QED
  BY <1>4, NumWords DEF S, w

\* Places a walk can go through: above the first two words.
Places(L) ==
    \A a \in L : a \in Nat /\ BASE + 2 * WSIZE <= a /\ a <= MAX_ADDR /\ a % WSIZE = 0

\* next leads from each place of L to another of a greater rank, or to NULL.
Upward(next, L, r) ==
    \A a \in L : next[a] # NULL => next[a] \in L /\ r[a] < r[next[a]]

\* Places at different addresses are at different words.
LEMMA PlaceIndex ==
    ASSUME NEW L, Places(L), NEW a \in L, NEW b \in L,
           (a - BASE) \div WSIZE = (b - BASE) \div WSIZE
    PROVE  a = b
<1>1. WSIZE \in {4, 8} /\ BASE \in Nat /\ BASE % 8 = 0
  BY GeometryAssumption, BlocksAssumption
<1>2. a \in Nat /\ b \in Nat /\ a % WSIZE = 0 /\ b % WSIZE = 0
  BY DEF Places
<1>3. CASE WSIZE = 4
  BY <1>1, <1>2, <1>3
<1>4. CASE WSIZE = 8
  BY <1>1, <1>2, <1>4
<1> QED
  BY <1>1, <1>3, <1>4

LEMMA PlaceNumber ==
    ASSUME NEW L, Places(L), NEW a \in L
    PROVE  (a - BASE) \div WSIZE - 1 \in 1 .. W!NumWords - 1
<1>1. WSIZE \in {4, 8} /\ BASE \in Nat /\ MAX_HEAP \in Nat /\ MAX_ADDR = BASE + MAX_HEAP
  BY GeometryAssumption, BlocksAssumption DEF MAX_ADDR
<1>2. a \in Nat /\ BASE + 2 * WSIZE <= a /\ a <= MAX_ADDR
  BY DEF Places
<1>3. W!NumWords = MAX_HEAP \div WSIZE
  BY DEF W!NumWords
<1>4. CASE WSIZE = 4
  BY <1>1, <1>2, <1>3, <1>4
<1>5. CASE WSIZE = 8
  BY <1>1, <1>2, <1>3, <1>5
<1> QED
  BY <1>1, <1>4, <1>5

\* A list of different places is shorter than the memory.
LEMMA FewPlaces ==
    ASSUME NEW L, Places(L), NEW c \in Seq(Int),
           \A i \in 1 .. Len(c) : c[i] \in L,
           \A i, j \in 1 .. Len(c) : i < j => c[i] # c[j],
           Len(c) <= W!NumWords
    PROVE  Len(c) < W!NumWords \/ Len(c) = 0
<1> DEFINE N == W!NumWords
           f == [i \in 1 .. Len(c) |-> (c[i] - BASE) \div WSIZE - 1]
<1>0. N \in Nat /\ Len(c) \in Nat
  BY NumWords
<1> SUFFICES ASSUME Len(c) = N, N > 0 PROVE FALSE
  BY <1>0
<1>1. f \in [1 .. N -> 1 .. N - 1]
  BY PlaceNumber
<1>2. /\ IsFiniteSet(1 .. N) /\ Cardinality(1 .. N) = N
      /\ IsFiniteSet(1 .. N - 1) /\ Cardinality(1 .. N - 1) = N - 1
  BY <1>0, FS_Interval
<1> HIDE DEF f
<1>3. PICK i \in 1 .. N, j \in 1 .. N : i # j /\ f[i] = f[j]
  <2>1. Cardinality(1 .. N - 1) < Cardinality(1 .. N)
    BY <1>0, <1>2
  <2> DEFINE S == 1 .. N
             T == 1 .. N - 1
  <2>2. IsFiniteSet(S) /\ IsFiniteSet(T) /\ Cardinality(T) < Cardinality(S) /\ f \in [S -> T]
    BY <1>1, <1>2, <2>1
  <2> HIDE DEF S, T
  <2>3. \E x, y \in S : x # y /\ f[x] = f[y]
    BY <2>2, FS_PigeonHole
  <2> QED
    BY <2>3 DEF S
<1>4. (c[i] - BASE) \div WSIZE = (c[j] - BASE) \div WSIZE
  <2>1. c[i] \in Int /\ c[j] \in Int /\ BASE \in Int /\ WSIZE \in {4, 8}
    BY GeometryAssumption, BlocksAssumption
  <2>2. (c[i] - BASE) \div WSIZE \in Int /\ (c[j] - BASE) \div WSIZE \in Int
    BY <2>1
  <2> QED
    BY <1>3, <2>2 DEF f
<1>5. c[i] = c[j]
  BY <1>4, PlaceIndex
<1>6. i < j \/ j < i
  BY <1>0, <1>3
<1> QED
  BY <1>5, <1>6

\* Nodes that next leads upward through L, by their number n.
LEMMA NodesUpward ==
    ASSUME NEW next, NEW L, NEW r \in [L -> Nat], Upward(next, L, r),
           NEW n \in Nat, NEW c, n > 0 => c[1] \in L, Path(next, n, c)
    PROVE  /\ \A i \in 1 .. n : c[i] \in L
           /\ \A i, j \in 1 .. n : i < j => c[i] # c[j]
<1>1. \A i \in 1 .. n : i + 1 \in 1 .. n => c[i + 1] = next[c[i]] /\ c[i + 1] # NULL
  BY DEF Path
<1>2. \A i \in 1 .. n : c[i] \in L
  <2> DEFINE S == {i \in Nat : n > 0 => c[i] \in L}
  <2>1. ASSUME NEW i \in 1 .. n, i \in S, i + 1 \in 1 .. n PROVE i + 1 \in S
    <3>1. c[i] \in L
      BY <2>1
    <3> QED
      BY <1>1, <2>1, <3>1 DEF Upward
  <2>2. 1 \in S
    OBVIOUS
  <2> HIDE DEF S
  <2>3. \A i \in 1 .. n : i \in S
    BY <2>1, <2>2, Upto
  <2> QED
    BY <2>3 DEF S
<1>3. \A i \in 1 .. n : i + 1 \in 1 .. n => r[c[i]] < r[c[i + 1]]
  BY <1>1, <1>2 DEF Upward
<1>4. \A i \in 1 .. n : r[c[i]] \in Nat
  BY <1>2
<1>5. \A j \in 1 .. n : \A i \in 1 .. n : i < j => r[c[i]] < r[c[j]]
  <2> DEFINE S == {j \in Nat : \A i \in 1 .. n : i < j => r[c[i]] < r[c[j]]}
  <2>1. ASSUME NEW j \in 1 .. n, j \in S, j + 1 \in 1 .. n PROVE j + 1 \in S
    <3>1. ASSUME NEW i \in 1 .. n, i < j + 1 PROVE r[c[i]] < r[c[j + 1]]
      <4>1. r[c[j]] < r[c[j + 1]] /\ r[c[j]] \in Nat /\ r[c[j + 1]] \in Nat /\ r[c[i]] \in Nat
        BY <1>3, <1>4, <2>1
      <4>2. i = j \/ i < j
        BY <3>1
      <4>3. i < j => r[c[i]] < r[c[j]]
        BY <2>1
      <4> QED
        BY <4>1, <4>2, <4>3
    <3>2. j + 1 \in Nat
      OBVIOUS
    <3> QED
      BY <3>1, <3>2
  <2>2. 1 \in S
    OBVIOUS
  <2> HIDE DEF S
  <2>3. \A i \in 1 .. n : i \in S
    BY <2>1, <2>2, Upto
  <2> QED
    BY <2>3 DEF S
<1>6. ASSUME NEW i \in 1 .. n, NEW j \in 1 .. n, i < j PROVE c[i] # c[j]
  <2>1. r[c[i]] < r[c[j]] /\ r[c[i]] \in Nat
    BY <1>4, <1>5, <1>6
  <2> QED
    BY <2>1
<1> QED
  BY <1>2, <1>6

\* The walk c, of n nodes, goes through L from first on, each time to the next
\* of a node, and does not end before there is none.
Goes(next, L, first, n, c) ==
    /\ n \in Nat
    /\ first = NULL => n = 0
    /\ first # NULL => n > 0 /\ c[1] = first
    /\ Path(next, n, c)
    /\ \A i \in 1 .. n : c[i] \in L /\ c[i] # NULL
    /\ \A i \in 1 .. n : next[c[i]] # NULL => i + 1 \in 1 .. n /\ c[i + 1] = next[c[i]]

\* A walk upward through L ends in NULL before it is cut off.
LEMMA WalkUpward ==
    ASSUME NEW next, NEW L, Places(L), NEW r \in [L -> Nat],
           Upward(next, L, r), NEW first \in L \cup {NULL},
           NEW c, IsWalk(next, W!NumWords, first, c)
    PROVE  /\ c \in Seq(Int)
           /\ Len(c) < W!NumWords \/ Len(c) = 0
           /\ Goes(next, L, first, Len(c), c)
<1> DEFINE N == W!NumWords
           n == Len(c)
<1>2. /\ c \in Seq(Int) /\ n \in Nat /\ n <= N
      /\ first = NULL => n = 0
      /\ first # NULL /\ N > 0 => n > 0 /\ c[1] = first
      /\ 0 < n /\ n < N => next[c[n]] = NULL
  BY DEF IsWalk
<1>1. Path(next, n, c)
  BY DEF IsWalk
<1>3. N \in Nat
  BY NumWords
<1> HIDE DEF n, N
<1>4. first # NULL => N > 0
  <2>1. ASSUME first # NULL PROVE (first - BASE) \div WSIZE - 1 \in 1 .. N - 1
    BY <2>1, PlaceNumber DEF N
  <2> DEFINE k == (first - BASE) \div WSIZE - 1
  <2> HIDE DEF k
  <2>2. ASSUME k \in 1 .. N - 1 PROVE N > 0
    BY <2>2, <1>3
  <2> QED
    BY <2>1, <2>2 DEF k
<1>5. n > 0 => c[1] \in L
  BY <1>2, <1>4, <1>3
<1>6. /\ \A i \in 1 .. n : c[i] \in L
      /\ \A i, j \in 1 .. n : i < j => c[i] # c[j]
  <2>1. n \in Nat
    BY <1>2
  <2> QED
    BY <1>1, <2>1, <1>5, NodesUpward
<1>7. n < N \/ n = 0
  BY <1>2, <1>6, FewPlaces DEF n, N
<1>8. ASSUME NEW i \in 1 .. n, next[c[i]] # NULL
      PROVE  i + 1 \in 1 .. n /\ c[i + 1] = next[c[i]]
  <2>1. i \in Nat /\ 1 <= i /\ i <= n /\ n \in Nat
    BY <1>2
  <2>2. i # n
    <3>1. ASSUME i = n PROVE FALSE
      <4>1. 0 < n /\ n < N
        BY <1>7, <2>1
      <4>2. next[c[n]] # NULL
        BY <1>8, <3>1
      <4> QED
        BY <1>2, <4>1, <4>2
    <3> QED
      BY <3>1
  <2>3. i < n /\ i + 1 \in 1 .. n
    BY <2>1, <2>2
  <2> QED
    BY <1>1, <2>3 DEF Path
<1>9. Goes(next, L, first, n, c)
  BY <1>1, <1>2, <1>3, <1>4, <1>6, <1>8 DEF Goes, Path
<1> QED
  BY <1>2, <1>7, <1>9 DEF n, N

\* It goes through all of L if each place of L has one before it.
LEMMA GoesThrough ==
    ASSUME NEW next, NEW L, NULL \notin L, NEW r \in [L -> Nat], NEW first,
           \A a \in L : a = first \/ \E p \in L : next[p] = a /\ r[p] < r[a],
           NEW n, NEW c, Goes(next, L, first, n, c)
    PROVE  \A a \in L : \E i \in 1 .. n : c[i] = a
<1> DEFINE M == {a \in L : \A i \in 1 .. n : c[i] # a}
           R == {r[a] : a \in M}
<1> SUFFICES ASSUME M # {} PROVE FALSE
  OBVIOUS
<1>1. R # {} /\ R \subseteq Nat
  <2>1. \A a \in L : r[a] \in Nat
    OBVIOUS
  <2> QED
    BY <2>1
<1>2. PICK m \in R : \A k \in R : m <= k
  <2> HIDE DEF R
  <2> QED
    BY <1>1, Least
<1>3. PICK a \in M : m = r[a]
  OBVIOUS
<1>4. \A p \in M : r[a] <= r[p]
  BY <1>2, <1>3
<1>5. a \in L /\ a # NULL /\ \A i \in 1 .. n : c[i] # a
  OBVIOUS
<1> HIDE DEF R
<1>6. a # first
  BY <1>5 DEF Goes
<1>7. PICK p \in L : next[p] = a /\ r[p] < r[a]
  BY <1>5, <1>6
<1>8. p \notin M
  <2>1. r[a] \in Nat /\ r[p] \in Nat
    BY <1>5
  <2> HIDE DEF M
  <2> QED
    BY <1>4, <1>7, <2>1
<1>9. PICK i \in 1 .. n : c[i] = p
  BY <1>8
<1>10. i + 1 \in 1 .. n /\ c[i + 1] = a
  BY <1>5, <1>7, <1>9 DEF Goes
<1> QED
  BY <1>5, <1>10

LEMMA RangeOf ==
    ASSUME NEW S, NEW c \in Seq(S)
    PROVE  W!Range(c) = {c[i] : i \in 1 .. Len(c)}
<1>1. DOMAIN c = 1 .. Len(c)
  OBVIOUS
<1> QED
  BY <1>1 DEF W!Range

-----------------------------------------------------------------------------
(* Memory.                                                                 *)

\* A state in which nothing has failed.
Good(t) ==
    t \in [mem : [W!Words -> Int], brk : Int, status : {"ok"}, head : Int, rover : Int]

\* The constants and functions of Geometry are those of the words.
LEMMA SameNumbers ==
    /\ W!MAX_ADDR = MAX_ADDR /\ W!NULL = NULL
    /\ W!DSIZE = DSIZE /\ W!PTR_SIZE = WSIZE /\ W!MIN_BLOCK_SIZE = MIN_BLOCK_SIZE
    /\ W!heap_listp = BASE + 2 * WSIZE
BY DEF W!MAX_ADDR, MAX_ADDR, W!NULL, NULL, W!DSIZE, DSIZE, W!PTR_SIZE, PTR_SIZE,
       W!MIN_BLOCK_SIZE, MIN_BLOCK_SIZE, W!heap_listp

LEMMA SameFunctions ==
    ASSUME NEW n
    PROVE  /\ W!adjust_block(n) = adjust_block(n)
           /\ W!ExtendBytes(n) = ExtendBytes(n)
           /\ W!ToInt(n) = ToInt(n) /\ W!Wrap(n) = Wrap(n)
           /\ \A m : W!MaxOf(n, m) = MaxOf(n, m)
           /\ \A m, a : W!sbrk_refuses(n, m, a) = sbrk_refuses(n, m, a)
BY DEF W!adjust_block, adjust_block, W!ExtendBytes, ExtendBytes, W!ToInt, ToInt,
       W!Wrap, Wrap, W!MaxOf, MaxOf, W!sbrk_refuses, sbrk_refuses, W!MIN_BLOCK_SIZE,
       MIN_BLOCK_SIZE, W!DSIZE, DSIZE, W!PTR_SIZE, PTR_SIZE

LEMMA IsWord ==
    ASSUME NEW a
    PROVE  a \in W!Words <=> a \in Int /\ BASE <= a /\ a < MAX_ADDR /\ a % WSIZE = 0
<1>1. BASE \in Int /\ MAX_ADDR \in Int
  BY GeometryAssumption, BlocksAssumption DEF MAX_ADDR
<1>2. a \in W!Words <=> a \in BASE .. MAX_ADDR - 1 /\ a % WSIZE = 0
  BY SameNumbers DEF W!Words
<1> QED
  BY <1>1, <1>2

LEMMA GetInt ==
    ASSUME NEW t, Good(t), NEW a \in Int
    PROVE  W!GET(t, a) \in Int
<1>1. CASE a \in W!Words
  <2>1. W!GET(t, a) = t.mem[a]
    BY <1>1, IsWord, SameNumbers DEF W!GET
  <2> QED
    BY <1>1, <2>1 DEF Good
<1>2. CASE a \notin W!Words
  BY <1>2, IsWord, SameNumbers DEF W!GET
<1> QED
  BY <1>1, <1>2

\* What is in memory does not depend on the statics.
LEMMA SameMemory ==
    ASSUME NEW t, NEW u, u.mem = t.mem
    PROVE  \A a : W!GET(u, a) = W!GET(t, a)
BY DEF W!GET

\* A store in the region changes one word.
LEMMA PutWord ==
    ASSUME NEW t, Good(t), NEW a \in W!Words, NEW v \in Int,
           NEW u, u = W!PUT(t, a, v)
    PROVE  /\ Good(u)
           /\ u.brk = t.brk /\ u.head = t.head /\ u.rover = t.rover
           /\ W!GET(u, a) = v
           /\ \A x \in Int : x # a => W!GET(u, x) = W!GET(t, x)
<1>1. u = [t EXCEPT !.mem[a] = v]
  BY IsWord, SameNumbers DEF W!PUT
<1>2. /\ Good(u)
      /\ u.mem = [t.mem EXCEPT ![a] = v]
      /\ u.brk = t.brk /\ u.head = t.head /\ u.rover = t.rover
  BY <1>1 DEF Good
<1>3. W!GET(u, a) = v
  <2>1. W!GET(u, a) = u.mem[a]
    BY IsWord, SameNumbers DEF W!GET
  <2> QED
    BY <1>2, <2>1 DEF Good
<1>4. ASSUME NEW x \in Int, x # a PROVE W!GET(u, x) = W!GET(t, x)
  <2>1. CASE x \in W!Words
    <3>1. u.mem[x] = t.mem[x]
      BY <1>2, <1>4, <2>1 DEF Good
    <3>2. W!GET(u, x) = u.mem[x] /\ W!GET(t, x) = t.mem[x]
      BY <2>1, IsWord, SameNumbers DEF W!GET
    <3> QED
      BY <3>1, <3>2
  <2>2. CASE x \notin W!Words
    BY <1>4, <2>2, IsWord, SameNumbers DEF W!GET
  <2> QED
    BY <2>1, <2>2
<1> QED
  BY <1>2, <1>3, <1>4

\* Assignments to the statics.
LEMMA SetHead ==
    ASSUME NEW t, Good(t), NEW v \in Int, NEW u, u = [t EXCEPT !.head = v]
    PROVE  /\ Good(u)
           /\ u.brk = t.brk /\ u.head = v /\ u.rover = t.rover /\ u.mem = t.mem
           /\ \A a : W!GET(u, a) = W!GET(t, a)
<1>1. /\ Good(u)
      /\ u.brk = t.brk /\ u.head = v /\ u.rover = t.rover /\ u.mem = t.mem
  BY DEF Good
<1> QED
  BY <1>1, SameMemory

LEMMA SetRover ==
    ASSUME NEW t, Good(t), NEW v \in Int, NEW u, u = [t EXCEPT !.rover = v]
    PROVE  /\ Good(u)
           /\ u.brk = t.brk /\ u.head = t.head /\ u.rover = v /\ u.mem = t.mem
           /\ \A a : W!GET(u, a) = W!GET(t, a)
<1>1. /\ Good(u)
      /\ u.brk = t.brk /\ u.head = t.head /\ u.rover = v /\ u.mem = t.mem
  BY DEF Good
<1> QED
  BY <1>1, SameMemory

LEMMA SetBrk ==
    ASSUME NEW t, Good(t), NEW v \in Int, NEW u, u = [t EXCEPT !.brk = v]
    PROVE  /\ Good(u)
           /\ u.brk = v /\ u.head = t.head /\ u.rover = t.rover /\ u.mem = t.mem
           /\ \A a : W!GET(u, a) = W!GET(t, a)
<1>1. /\ Good(u)
      /\ u.brk = v /\ u.head = t.head /\ u.rover = t.rover /\ u.mem = t.mem
  BY DEF Good
<1> QED
  BY <1>1, SameMemory

-----------------------------------------------------------------------------
(* The free list.                                                          *)

\* The links of different nodes are different words.
Spaced(L) ==
    /\ Places(L)
    /\ \A b \in L : b \in W!Words /\ b + WSIZE \in W!Words
    /\ \A b, c \in L : b + WSIZE # c

\* L is what the list holds: from the head on, the links go up in rank, and
\* the links back are the inverse of the links forward.
Ranked(t, L, r) ==
    /\ t.head \in L \cup {NULL} /\ t.rover \in L \cup {NULL}
    /\ t.head = NULL => L = {}
    /\ \A b \in L :
          /\ W!GET_PRED(t, b) \in L \cup {NULL} /\ W!GET_SUCC(t, b) \in L \cup {NULL}
          /\ W!GET_PRED(t, b) = NULL <=> b = t.head
          /\ W!GET_PRED(t, b) # NULL => W!GET_SUCC(t, W!GET_PRED(t, b)) = b
          /\ W!GET_SUCC(t, b) # NULL => /\ W!GET_PRED(t, W!GET_SUCC(t, b)) = b
                                        /\ r[b] < r[W!GET_SUCC(t, b)]

Linked(t, L) == \E r \in [L -> Nat] : Ranked(t, L, r)

\* u has the memory of t but for links of nodes of L.
LinksOnly(t, u, L) ==
    /\ Good(u) /\ u.brk = t.brk
    /\ \A a \in Int : (\A x \in L : a # x /\ a # x + WSIZE) => W!GET(u, a) = W!GET(t, a)

LEMMA SpacedFacts ==
    ASSUME NEW L, Spaced(L)
    PROVE  /\ NULL \notin L
           /\ \A b \in L : /\ b \in Nat /\ b + WSIZE \in Nat /\ b # b + WSIZE
                           /\ b \in W!Words /\ b + WSIZE \in W!Words
           /\ \A b, c \in L : b + WSIZE # c /\ (b + WSIZE = c + WSIZE => b = c)
<1>1. WSIZE \in Nat /\ WSIZE > 0 /\ BASE \in Nat /\ BASE > 0
  BY GeometryAssumption, BlocksAssumption
<1>2. \A b \in L : b \in Nat /\ BASE <= b
  BY <1>1 DEF Spaced, Places
<1> QED
  BY <1>1, <1>2 DEF Spaced, NULL

\* The links, and the places of a list, that the words of t hold.
LEMMA LinkWords ==
    ASSUME NEW t, NEW b
    PROVE  W!GET_PRED(t, b) = W!GET(t, b) /\ W!GET_SUCC(t, b) = W!GET(t, b + WSIZE)
BY SameNumbers DEF W!GET_PRED, W!GET_SUCC

\* A store of a link.
LEMMA SetPred ==
    ASSUME NEW L, Spaced(L), NEW t, Good(t), NEW b \in L, NEW p \in Int,
           NEW u, u = W!SET_PRED(t, b, p)
    PROVE  /\ LinksOnly(t, u, L) /\ u.head = t.head /\ u.rover = t.rover
           /\ W!GET_PRED(u, b) = p
           /\ \A c \in L : c # b => W!GET_PRED(u, c) = W!GET_PRED(t, c)
           /\ \A c \in L : W!GET_SUCC(u, c) = W!GET_SUCC(t, c)
<1>1. /\ b \in W!Words
      /\ \A c \in L : c \in Int /\ c + WSIZE \in Int /\ c + WSIZE # b
  BY SpacedFacts
<1>2. u = W!PUT(t, b, p)
  BY DEF W!SET_PRED
<1>3. /\ Good(u)
      /\ u.brk = t.brk /\ u.head = t.head /\ u.rover = t.rover
      /\ W!GET(u, b) = p
      /\ \A x \in Int : x # b => W!GET(u, x) = W!GET(t, x)
  BY <1>1, <1>2, PutWord
<1> QED
  BY <1>1, <1>3, LinkWords DEF LinksOnly

LEMMA SetSucc ==
    ASSUME NEW L, Spaced(L), NEW t, Good(t), NEW b \in L, NEW q \in Int,
           NEW u, u = W!SET_SUCC(t, b, q)
    PROVE  /\ LinksOnly(t, u, L) /\ u.head = t.head /\ u.rover = t.rover
           /\ W!GET_SUCC(u, b) = q
           /\ \A c \in L : c # b => W!GET_SUCC(u, c) = W!GET_SUCC(t, c)
           /\ \A c \in L : W!GET_PRED(u, c) = W!GET_PRED(t, c)
<1>1. /\ b + WSIZE \in W!Words
      /\ \A c \in L : /\ c \in Int /\ c + WSIZE \in Int /\ b + WSIZE # c
                      /\ c + WSIZE = b + WSIZE => c = b
  BY SpacedFacts
<1>2. u = W!PUT(t, b + WSIZE, q)
  BY SameNumbers DEF W!SET_SUCC
<1>3. /\ Good(u)
      /\ u.brk = t.brk /\ u.head = t.head /\ u.rover = t.rover
      /\ W!GET(u, b + WSIZE) = q
      /\ \A x \in Int : x # b + WSIZE => W!GET(u, x) = W!GET(t, x)
  BY <1>1, <1>2, PutWord
<1> QED
  BY <1>1, <1>3, LinkWords DEF LinksOnly

LEMMA LinksOnlyTrans ==
    ASSUME NEW t, NEW u, NEW v, NEW L, LinksOnly(t, u, L), LinksOnly(u, v, L)
    PROVE  LinksOnly(t, v, L)
BY DEF LinksOnly

\* The first node is ranked below all others.
LEMMA RankInsert ==
    ASSUME NEW L, NULL \notin L, NEW t, Linked(t, L), NEW b, b \notin L, b # NULL,
           NEW u, u.head = b, u.rover = IF t.rover = NULL THEN b ELSE t.rover,
           W!GET_PRED(u, b) = NULL, W!GET_SUCC(u, b) = t.head,
           \A c \in L : /\ W!GET_SUCC(u, c) = W!GET_SUCC(t, c)
                        /\ W!GET_PRED(u, c) = IF c = t.head THEN b ELSE W!GET_PRED(t, c)
    PROVE  Linked(u, L \cup {b})
<1> DEFINE M == L \cup {b}
<1>1. PICK r \in [L -> Nat] : Ranked(t, L, r)
  BY DEF Linked
<1>2. /\ t.head \in L \cup {NULL} /\ t.rover \in L \cup {NULL}
      /\ t.head = NULL => L = {}
      /\ \A c \in L :
          /\ W!GET_PRED(t, c) \in L \cup {NULL} /\ W!GET_SUCC(t, c) \in L \cup {NULL}
          /\ W!GET_PRED(t, c) = NULL <=> c = t.head
          /\ W!GET_PRED(t, c) # NULL => W!GET_SUCC(t, W!GET_PRED(t, c)) = c
          /\ W!GET_SUCC(t, c) # NULL => /\ W!GET_PRED(t, W!GET_SUCC(t, c)) = c
                                        /\ r[c] < r[W!GET_SUCC(t, c)]
  BY <1>1 DEF Ranked
<1> DEFINE q == [x \in M |-> IF x = b THEN 0 ELSE r[x] + 1]
<1>3. /\ q \in [M -> Nat] /\ q[b] = 0
      /\ \A x \in L : q[x] = r[x] + 1 /\ r[x] \in Nat
  OBVIOUS
<1> HIDE DEF q
<1>4. u.head \in M \cup {NULL} /\ u.rover \in M \cup {NULL} /\ u.head # NULL
  BY <1>2
<1>5. ASSUME NEW c \in L
      PROVE  /\ W!GET_PRED(u, c) \in M \cup {NULL} /\ W!GET_SUCC(u, c) \in M \cup {NULL}
             /\ W!GET_PRED(u, c) # NULL /\ c # u.head
             /\ W!GET_SUCC(u, W!GET_PRED(u, c)) = c
             /\ W!GET_SUCC(u, c) # NULL => /\ W!GET_PRED(u, W!GET_SUCC(u, c)) = c
                                           /\ q[c] < q[W!GET_SUCC(u, c)]
  <2>1. W!GET_SUCC(u, c) = W!GET_SUCC(t, c) /\ c # b
    OBVIOUS
  <2>4. ASSUME W!GET_SUCC(u, c) # NULL
        PROVE  /\ W!GET_PRED(u, W!GET_SUCC(u, c)) = c
               /\ q[c] < q[W!GET_SUCC(u, c)]
    <3> DEFINE d == W!GET_SUCC(t, c)
    <3>1. d \in L /\ W!GET_PRED(t, d) = c /\ r[c] < r[d]
      BY <1>2, <2>1, <2>4
    <3>2. d # t.head
      BY <1>2, <3>1
    <3>3. q[c] < q[d]
      BY <1>3, <3>1
    <3> QED
      BY <2>1, <3>1, <3>2, <3>3
  <2>5. /\ W!GET_PRED(u, c) \in M \cup {NULL} /\ W!GET_SUCC(u, c) \in M \cup {NULL}
        /\ W!GET_PRED(u, c) # NULL /\ c # u.head
    BY <1>2, <2>1
  <2>6. W!GET_SUCC(u, W!GET_PRED(u, c)) = c
    BY <1>2, <2>1
  <2> QED
    BY <2>4, <2>5, <2>6
<1>6. /\ W!GET_SUCC(u, b) \in M \cup {NULL}
      /\ W!GET_SUCC(u, b) # NULL => /\ W!GET_PRED(u, W!GET_SUCC(u, b)) = b
                                    /\ q[b] < q[W!GET_SUCC(u, b)]
  <2>1. ASSUME t.head # NULL PROVE W!GET_PRED(u, t.head) = b /\ q[b] < q[t.head]
    BY <1>2, <1>3, <2>1
  <2> QED
    BY <1>2, <2>1
<1>7. Ranked(u, M, q)
  <2>1. ASSUME NEW c \in M
        PROVE  /\ W!GET_PRED(u, c) \in M \cup {NULL} /\ W!GET_SUCC(u, c) \in M \cup {NULL}
               /\ W!GET_PRED(u, c) = NULL <=> c = u.head
               /\ W!GET_PRED(u, c) # NULL => W!GET_SUCC(u, W!GET_PRED(u, c)) = c
               /\ W!GET_SUCC(u, c) # NULL => /\ W!GET_PRED(u, W!GET_SUCC(u, c)) = c
                                             /\ q[c] < q[W!GET_SUCC(u, c)]
    <3>1. CASE c = b
      BY <1>6, <3>1
    <3>2. CASE c # b
      BY <1>5, <3>2
    <3> QED
      BY <3>1, <3>2
  <2> QED
    BY <1>4, <2>1 DEF Ranked
<1> QED
  BY <1>3, <1>7 DEF Linked

\* insert_node puts a node on the list.
LEMMA InsertLinked ==
    ASSUME NEW L, NEW b, b \notin L, Spaced(L \cup {b}),
           NEW t, Good(t), Linked(t, L),
           NEW u, u = W!insert_node(t, b)
    PROVE  LinksOnly(t, u, L \cup {b}) /\ Linked(u, L \cup {b})
<1> DEFINE M == L \cup {b}
           h == t.head
           t1 == W!SET_SUCC(t, b, h)
           t2 == W!SET_PRED(t1, b, NULL)
           t3 == W!LinkBack(t2, h, b)
<1> HIDE DEF t1, t2, t3, M
<1>1. Spaced(M) /\ b \in M /\ M = L \cup {b} /\ NULL \notin M /\ b \in Int /\ NULL \in Int
  BY SpacedFacts DEF M, NULL
<1>2. h \in L \cup {NULL} /\ h \in Int
  BY DEF Linked, Ranked, Good
<1>3. /\ LinksOnly(t, t1, M) /\ t1.head = h /\ t1.rover = t.rover
      /\ W!GET_SUCC(t1, b) = h
      /\ \A c \in M : c # b => W!GET_SUCC(t1, c) = W!GET_SUCC(t, c)
      /\ \A c \in M : W!GET_PRED(t1, c) = W!GET_PRED(t, c)
  BY <1>1, <1>2, SetSucc DEF t1
<1>4. /\ LinksOnly(t1, t2, M) /\ t2.head = h /\ t2.rover = t.rover
      /\ W!GET_PRED(t2, b) = NULL
      /\ \A c \in M : c # b => W!GET_PRED(t2, c) = W!GET_PRED(t1, c)
      /\ \A c \in M : W!GET_SUCC(t2, c) = W!GET_SUCC(t1, c)
  <2>1. Good(t1)
    BY <1>3 DEF LinksOnly
  <2> QED
    BY <1>1, <1>3, <2>1, SetPred DEF t2
<1>5. /\ LinksOnly(t2, t3, M) /\ t3.head = h /\ t3.rover = t.rover
      /\ W!GET_PRED(t3, b) = NULL
      /\ \A c \in L : W!GET_PRED(t3, c) = IF c = h THEN b ELSE W!GET_PRED(t2, c)
      /\ \A c \in M : W!GET_SUCC(t3, c) = W!GET_SUCC(t2, c)
  <2>1. Good(t2)
    BY <1>4 DEF LinksOnly
  <2>2. CASE h = NULL
    <3>1. t3 = t2
      BY <2>2, SameNumbers DEF t3, W!LinkBack
    <3>2. LinksOnly(t2, t2, M)
      BY <2>1 DEF LinksOnly
    <3> QED
      BY <1>1, <1>4, <2>2, <3>1, <3>2
  <2>3. CASE h # NULL
    <3>1. t3 = W!SET_PRED(t2, h, b)
      BY <2>3, SameNumbers DEF t3, W!LinkBack
    <3>2. h \in M /\ h # b
      BY <1>1, <1>2, <2>3
    <3>3. /\ LinksOnly(t2, t3, M) /\ t3.head = t2.head /\ t3.rover = t2.rover
          /\ W!GET_PRED(t3, h) = b
          /\ \A c \in M : c # h => W!GET_PRED(t3, c) = W!GET_PRED(t2, c)
          /\ \A c \in M : W!GET_SUCC(t3, c) = W!GET_SUCC(t2, c)
      BY <1>1, <2>1, <3>1, <3>2, SetPred
    <3> QED
      BY <1>1, <1>4, <3>2, <3>3
  <2> QED
    BY <2>2, <2>3
<1>6. u = [t3 EXCEPT !.rover = IF @ = NULL THEN b ELSE @, !.head = b]
  BY SameNumbers DEF t3, t2, t1, W!insert_node
<1>7. LinksOnly(t, t3, M) /\ Good(t3)
  BY <1>3, <1>4, <1>5, LinksOnlyTrans DEF LinksOnly
<1>8. /\ Good(u) /\ u.brk = t3.brk /\ u.mem = t3.mem
      /\ u.head = b /\ u.rover = IF t.rover = NULL THEN b ELSE t.rover
  <2>1. b \in Int /\ t3.rover = t.rover
    BY <1>1, <1>5
  <2> QED
    BY <1>6, <1>7, <2>1 DEF Good
<1>9. \A a : W!GET(u, a) = W!GET(t3, a)
  BY <1>8, SameMemory
<1>10. LinksOnly(t, u, M)
  BY <1>7, <1>8, <1>9 DEF LinksOnly
<1>11. \A c : W!GET_PRED(u, c) = W!GET_PRED(t3, c) /\ W!GET_SUCC(u, c) = W!GET_SUCC(t3, c)
  BY <1>9, LinkWords
<1>12. Linked(u, L \cup {b})
  <2>1. W!GET_PRED(u, b) = NULL /\ W!GET_SUCC(u, b) = t.head
    BY <1>1, <1>3, <1>4, <1>5, <1>11
  <2>2. \A c \in L : /\ W!GET_SUCC(u, c) = W!GET_SUCC(t, c)
                     /\ W!GET_PRED(u, c) = IF c = t.head THEN b ELSE W!GET_PRED(t, c)
    BY <1>1, <1>3, <1>4, <1>5, <1>11
  <2>3. NULL \notin L /\ b # NULL
    BY <1>1
  <2> QED
    BY <1>8, <2>1, <2>2, <2>3, RankInsert
<1> QED
  BY <1>10, <1>12 DEF M

\* The nodes around the one that leaves meet each other.
LEMMA RankRemove ==
    ASSUME NEW L, NULL \notin L, NEW t, Linked(t, L), NEW b \in L,
           NEW p, p = W!GET_PRED(t, b), NEW s0, s0 = W!GET_SUCC(t, b),
           NEW u, u.head = IF p = NULL THEN s0 ELSE t.head,
           u.rover = IF t.rover # b THEN t.rover
                     ELSE IF s0 # NULL THEN s0 ELSE IF p # NULL THEN p ELSE u.head,
           \A c \in L \ {b} :
              /\ W!GET_PRED(u, c) = IF c = s0 THEN p ELSE W!GET_PRED(t, c)
              /\ W!GET_SUCC(u, c) = IF c = p THEN s0 ELSE W!GET_SUCC(t, c)
    PROVE  Linked(u, L \ {b})
<1> DEFINE M == L \ {b}
<1>1. PICK r \in [L -> Nat] : Ranked(t, L, r)
  BY DEF Linked
<1>2. /\ t.head \in L \cup {NULL} /\ t.rover \in L \cup {NULL}
      /\ t.head = NULL => L = {}
      /\ \A c \in L :
          /\ W!GET_PRED(t, c) \in L \cup {NULL} /\ W!GET_SUCC(t, c) \in L \cup {NULL}
          /\ W!GET_PRED(t, c) = NULL <=> c = t.head
          /\ W!GET_PRED(t, c) # NULL => W!GET_SUCC(t, W!GET_PRED(t, c)) = c
          /\ W!GET_SUCC(t, c) # NULL => /\ W!GET_PRED(t, W!GET_SUCC(t, c)) = c
                                        /\ r[c] < r[W!GET_SUCC(t, c)]
  BY <1>1 DEF Ranked
<1>3. \A c \in L : r[c] \in Nat
  OBVIOUS
<1>4. /\ p \in L \cup {NULL} /\ s0 \in L \cup {NULL}
      /\ p = NULL <=> b = t.head
      /\ p # NULL => W!GET_SUCC(t, p) = b /\ r[p] < r[b]
      /\ s0 # NULL => W!GET_PRED(t, s0) = b /\ r[b] < r[s0]
  BY <1>2
<1>5. /\ p # b /\ s0 # b
      /\ p # NULL /\ s0 # NULL => r[p] < r[s0] /\ p # s0
  BY <1>3, <1>4
<1> DEFINE q == [x \in M |-> r[x]]
<1>6. q \in [M -> Nat] /\ \A x \in M : q[x] = r[x]
  OBVIOUS
<1> HIDE DEF q
<1>7. ASSUME NEW c \in M
      PROVE  /\ W!GET_PRED(u, c) \in M \cup {NULL} /\ W!GET_SUCC(u, c) \in M \cup {NULL}
             /\ W!GET_PRED(u, c) = NULL <=> c = u.head
             /\ W!GET_PRED(u, c) # NULL => W!GET_SUCC(u, W!GET_PRED(u, c)) = c
             /\ W!GET_SUCC(u, c) # NULL => /\ W!GET_PRED(u, W!GET_SUCC(u, c)) = c
                                           /\ q[c] < q[W!GET_SUCC(u, c)]
  <2>1. /\ W!GET_PRED(u, c) = IF c = s0 THEN p ELSE W!GET_PRED(t, c)
        /\ W!GET_SUCC(u, c) = IF c = p THEN s0 ELSE W!GET_SUCC(t, c)
        /\ c \in L /\ c # b /\ c # NULL
    OBVIOUS
  <2>2. c # s0 => W!GET_PRED(t, c) # b
    BY <1>2, <2>1
  <2>3. c # p => W!GET_SUCC(t, c) # b
    BY <1>2, <2>1
  <2>4. W!GET_PRED(u, c) \in M \cup {NULL} /\ W!GET_SUCC(u, c) \in M \cup {NULL}
    BY <1>2, <1>4, <1>5, <2>1, <2>2, <2>3
  <2>5. W!GET_PRED(u, c) = NULL <=> c = u.head
    BY <1>2, <1>4, <1>5, <2>1
  <2>6. ASSUME W!GET_PRED(u, c) # NULL
        PROVE  W!GET_SUCC(u, W!GET_PRED(u, c)) = c
    <3>1. CASE c = s0
      BY <1>4, <1>5, <2>1, <2>4, <2>6, <3>1
    <3>2. CASE c # s0
      <4> DEFINE d == W!GET_PRED(t, c)
      <4>1. d \in M /\ W!GET_SUCC(t, d) = c /\ W!GET_PRED(u, c) = d
        BY <1>2, <2>1, <2>2, <2>6, <3>2
      <4>2. d # p
        BY <1>4, <2>1, <4>1
      <4> QED
        BY <4>1, <4>2
    <3> QED
      BY <3>1, <3>2
  <2>7. ASSUME W!GET_SUCC(u, c) # NULL
        PROVE  /\ W!GET_PRED(u, W!GET_SUCC(u, c)) = c
               /\ q[c] < q[W!GET_SUCC(u, c)]
    <3>1. CASE c = p
      <4>1. W!GET_SUCC(u, c) = s0 /\ s0 \in M /\ p \in M
        BY <1>4, <1>5, <2>1, <2>7, <3>1
      <4>2. W!GET_PRED(u, s0) = p
        BY <4>1
      <4>3. q[p] < q[s0]
        BY <1>5, <1>6, <2>1, <2>7, <3>1, <4>1
      <4> QED
        BY <3>1, <4>1, <4>2, <4>3
    <3>2. CASE c # p
      <4> DEFINE d == W!GET_SUCC(t, c)
      <4>1. d \in M /\ W!GET_PRED(t, d) = c /\ W!GET_SUCC(u, c) = d /\ r[c] < r[d]
        BY <1>2, <2>1, <2>3, <2>7, <3>2
      <4>2. d # s0
        BY <1>4, <2>1, <4>1
      <4>3. q[c] < q[d]
        BY <1>6, <4>1
      <4> QED
        BY <4>1, <4>2, <4>3
    <3> QED
      BY <3>1, <3>2
  <2> QED
    BY <2>4, <2>5, <2>6, <2>7
<1>8. /\ u.head \in M \cup {NULL} /\ u.rover \in M \cup {NULL}
      /\ u.head = NULL => M = {}
  <2>1. u.head \in M \cup {NULL}
    BY <1>2, <1>4, <1>5
  <2>2. u.rover \in M \cup {NULL}
    BY <1>2, <1>4, <1>5, <2>1
  <2>3. ASSUME u.head = NULL, NEW c \in M PROVE FALSE
    <3>1. p = NULL /\ s0 = NULL /\ b = t.head
      BY <1>2, <1>4, <2>3
    <3> DEFINE R == {r[x] : x \in M}
    <3>2. R # {} /\ R \subseteq Nat
      BY <1>3, <2>3
    <3> HIDE DEF R
    <3>3. PICK m \in R : \A k \in R : m <= k
      BY <3>2, Least
    <3>4. PICK x \in M : m = r[x]
      BY DEF R
    <3>5. W!GET_PRED(u, x) # NULL /\ W!GET_PRED(u, x) = W!GET_PRED(t, x)
      BY <1>2, <3>1
    <3> DEFINE y == W!GET_PRED(t, x)
    <3>6. y \in L /\ W!GET_SUCC(t, y) = x /\ r[y] < r[x]
      BY <1>2, <3>5
    <3>7. y # b
      BY <3>1, <3>6
    <3>8. r[x] <= r[y]
      BY <3>3, <3>4, <3>6, <3>7 DEF R
    <3> QED
      BY <1>3, <3>6, <3>8
  <2> QED
    BY <2>1, <2>2, <2>3
<1>9. Ranked(u, M, q)
  BY <1>7, <1>8 DEF Ranked
<1> QED
  BY <1>6, <1>9 DEF Linked

\* remove_node takes a node off the list; the rover is not on it any more.
LEMMA RemoveLinked ==
    ASSUME NEW L, Spaced(L), NEW b \in L, NEW t, Good(t), Linked(t, L),
           NEW u, u = W!remove_node(t, b)
    PROVE  /\ LinksOnly(t, u, L) /\ Linked(u, L \ {b})
           /\ \A x : W!Unlink(t, b, x) = u
           /\ W!GET(u, b) = W!GET(t, b) /\ W!GET(u, b + WSIZE) = W!GET(t, b + WSIZE)
<1> DEFINE p == W!GET_PRED(t, b)
           q == W!GET_SUCC(t, b)
           t1 == W!LinkForward(t, p, q)
           t2 == W!LinkBack(t1, q, p)
<1>1. PICK r \in [L -> Nat] : Ranked(t, L, r)
  BY DEF Linked
<1>2. /\ p \in L \cup {NULL} /\ q \in L \cup {NULL}
      /\ p = NULL <=> b = t.head
      /\ p # NULL => W!GET_SUCC(t, p) = b
      /\ q # NULL => W!GET_PRED(t, q) = b /\ r[b] < r[q]
      /\ r[b] \in Nat
  BY <1>1 DEF Ranked
<1>3. NULL \notin L /\ p # b /\ q # b /\ p \in Int /\ q \in Int
  <2>1. NULL \notin L /\ \A x \in L : x \in Int
    BY SpacedFacts
  <2>2. q # b
    BY <1>2, <2>1
  <2>3. p # b
    <3>1. ASSUME p = b PROVE FALSE
      BY <1>2, <2>1, <2>2, <3>1
    <3> QED
      BY <3>1
  <2> QED
    BY <1>2, <2>1, <2>2, <2>3 DEF NULL
<1>4. u = W!MoveRover(t2, b, p, q)
  BY DEF W!remove_node
<1> HIDE DEF t1, t2, p, q
<1>5. /\ LinksOnly(t, t1, L)
      /\ t1.head = (IF p = NULL THEN q ELSE t.head) /\ t1.rover = t.rover
      /\ \A c \in L : W!GET_SUCC(t1, c) = IF c = p THEN q ELSE W!GET_SUCC(t, c)
      /\ \A c \in L : W!GET_PRED(t1, c) = W!GET_PRED(t, c)
  <2>1. CASE p = NULL
    <3>1. t1 = [t EXCEPT !.head = q]
      BY <2>1, SameNumbers DEF t1, W!LinkForward
    <3>2. /\ Good(t1) /\ t1.brk = t.brk /\ t1.head = q /\ t1.rover = t.rover
          /\ \A a : W!GET(t1, a) = W!GET(t, a)
      BY <1>3, <3>1, SetHead
    <3>3. LinksOnly(t, t1, L)
      BY <3>2 DEF LinksOnly
    <3> QED
      BY <1>3, <2>1, <3>2, <3>3, LinkWords
  <2>2. CASE p # NULL
    <3>1. t1 = W!SET_SUCC(t, p, q) /\ p \in L
      BY <1>2, <2>2, SameNumbers DEF t1, W!LinkForward
    <3>2. /\ LinksOnly(t, t1, L) /\ t1.head = t.head /\ t1.rover = t.rover
          /\ W!GET_SUCC(t1, p) = q
          /\ \A c \in L : c # p => W!GET_SUCC(t1, c) = W!GET_SUCC(t, c)
          /\ \A c \in L : W!GET_PRED(t1, c) = W!GET_PRED(t, c)
      BY <1>3, <3>1, SetSucc
    <3> QED
      BY <2>2, <3>2
  <2> QED
    BY <2>1, <2>2
<1>6. /\ LinksOnly(t1, t2, L)
      /\ t2.head = t1.head /\ t2.rover = t1.rover
      /\ \A c \in L : W!GET_PRED(t2, c) = IF c = q THEN p ELSE W!GET_PRED(t1, c)
      /\ \A c \in L : W!GET_SUCC(t2, c) = W!GET_SUCC(t1, c)
  <2>0. Good(t1)
    BY <1>5 DEF LinksOnly
  <2>1. CASE q = NULL
    <3>1. t2 = t1
      BY <2>1, SameNumbers DEF t2, W!LinkBack
    <3> QED
      BY <1>3, <2>0, <2>1, <3>1 DEF LinksOnly
  <2>2. CASE q # NULL
    <3>1. t2 = W!SET_PRED(t1, q, p) /\ q \in L
      BY <1>2, <2>2, SameNumbers DEF t2, W!LinkBack
    <3>2. /\ LinksOnly(t1, t2, L) /\ t2.head = t1.head /\ t2.rover = t1.rover
          /\ W!GET_PRED(t2, q) = p
          /\ \A c \in L : c # q => W!GET_PRED(t2, c) = W!GET_PRED(t1, c)
          /\ \A c \in L : W!GET_SUCC(t2, c) = W!GET_SUCC(t1, c)
      BY <1>3, <2>0, <3>1, SetPred
    <3> QED
      BY <3>2
  <2> QED
    BY <2>1, <2>2
<1>7. LinksOnly(t, t2, L) /\ Good(t2)
  BY <1>5, <1>6, LinksOnlyTrans DEF LinksOnly
<1> DEFINE v == IF t.rover # b THEN t.rover
                ELSE IF q # NULL THEN q ELSE IF p # NULL THEN p ELSE t1.head
<1>8. v \in Int
  BY <1>3, <1>7, <1>5 DEF Good
<1>9. u = [t2 EXCEPT !.rover = v]
  <2>1. CASE t2.rover # b
    <3>1. u = t2 /\ v = t2.rover
      BY <1>4, <1>5, <1>6, <2>1 DEF W!MoveRover
    <3>2. t2 = [t2 EXCEPT !.rover = t2.rover]
      BY <1>7 DEF Good
    <3> QED
      BY <3>1, <3>2
  <2>2. CASE t2.rover = b
    BY <1>4, <1>5, <1>6, <2>2, SameNumbers DEF W!MoveRover
  <2> QED
    BY <2>1, <2>2
<1> HIDE DEF v
<1>10. /\ Good(u) /\ u.brk = t2.brk /\ u.head = t2.head /\ u.rover = v
       /\ \A a : W!GET(u, a) = W!GET(t2, a)
  BY <1>7, <1>8, <1>9, SetRover
<1>11. LinksOnly(t, u, L)
  BY <1>7, <1>10 DEF LinksOnly
<1>12. Linked(u, L \ {b})
  <2>1. \A c \in L \ {b} :
           /\ W!GET_PRED(u, c) = IF c = q THEN p ELSE W!GET_PRED(t, c)
           /\ W!GET_SUCC(u, c) = IF c = p THEN q ELSE W!GET_SUCC(t, c)
    BY <1>5, <1>6, <1>10, LinkWords
  <2>2. /\ u.head = IF p = NULL THEN q ELSE t.head
        /\ u.rover = IF t.rover # b THEN t.rover
                     ELSE IF q # NULL THEN q ELSE IF p # NULL THEN p ELSE u.head
    BY <1>5, <1>6, <1>10 DEF v
  <2>3. p = W!GET_PRED(t, b) /\ q = W!GET_SUCC(t, b)
    BY DEF p, q
  <2> QED
    BY <1>3, <2>1, <2>2, <2>3, RankRemove
<1>13. ASSUME NEW x PROVE W!Unlink(t, b, x) = u
  <2>1. u.rover # b
    BY <1>3, <1>12 DEF Linked, Ranked
  <2>2. W!Unlink(t, b, x) = [u EXCEPT !.rover = u.rover]
    BY <2>1 DEF W!Unlink
  <2> QED
    BY <1>10, <2>2 DEF Good
<1>14. W!GET(u, b) = W!GET(t, b) /\ W!GET(u, b + WSIZE) = W!GET(t, b + WSIZE)
  <2>1. W!GET_PRED(u, b) = W!GET_PRED(t, b) /\ W!GET_SUCC(u, b) = W!GET_SUCC(t, b)
    BY <1>3, <1>5, <1>6, <1>10, LinkWords
  <2> QED
    BY <2>1, LinkWords
<1> QED
  BY <1>11, <1>12, <1>13, <1>14

\* A block that mm_init left off the list, which is empty: nothing changes.
LEMMA RemoveUnlisted ==
    ASSUME NEW t, Good(t), Linked(t, {}), NEW b \in Int, b # NULL,
           W!GET(t, b) = NULL, W!GET(t, b + WSIZE) = NULL,
           NEW u, u = W!remove_node(t, b)
    PROVE  u = t /\ \A x : W!Unlink(t, b, x) = t
<1>1. t.head = NULL /\ t.rover = NULL
  BY DEF Linked, Ranked
<1>2. W!GET_PRED(t, b) = NULL /\ W!GET_SUCC(t, b) = NULL
  BY LinkWords
<1>3. W!LinkForward(t, NULL, NULL) = t
  <2>1. W!LinkForward(t, NULL, NULL) = [t EXCEPT !.head = NULL]
    BY SameNumbers DEF W!LinkForward
  <2> QED
    BY <1>1, <2>1 DEF Good
<1>4. W!LinkBack(t, NULL, NULL) = t /\ W!MoveRover(t, b, NULL, NULL) = t
  BY <1>1, SameNumbers DEF W!LinkBack, W!MoveRover
<1>5. u = t
  BY <1>2, <1>3, <1>4 DEF W!remove_node
<1>6. ASSUME NEW x PROVE W!Unlink(t, b, x) = t
  <2>1. W!Unlink(t, b, x) = [t EXCEPT !.rover = t.rover]
    BY <1>1, <1>5 DEF W!Unlink
  <2> QED
    BY <2>1 DEF Good
<1> QED
  BY <1>5, <1>6

\* The list is in the links and the statics.
LEMMA LinkedSame ==
    ASSUME NEW L, NEW t, Linked(t, L),
           NEW u, u.head = t.head, u.rover \in L \cup {NULL, t.rover},
           \A x \in L : W!GET(u, x) = W!GET(t, x) /\ W!GET(u, x + WSIZE) = W!GET(t, x + WSIZE)
    PROVE  Linked(u, L)
<1>1. PICK r \in [L -> Nat] : Ranked(t, L, r)
  BY DEF Linked
<1>2. \A x \in L : W!GET_PRED(u, x) = W!GET_PRED(t, x) /\ W!GET_SUCC(u, x) = W!GET_SUCC(t, x)
  BY LinkWords
<1>3. Ranked(u, L, r)
  BY <1>1, <1>2 DEF Ranked
<1> QED
  BY <1>3 DEF Linked

-----------------------------------------------------------------------------
(* The walk through the free list, and the search.                         *)

\* The list as a function of its nodes, and the walk along it.
SuccOf(t) == [bp \in Int |-> W!GET_SUCC(t, bp)]

LEMMA SuccUpward ==
    ASSUME NEW t, Good(t), NEW L, NEW r, Ranked(t, L, r), L \subseteq Int
    PROVE  SuccOf(t) \in [Int -> Int] /\ Upward(SuccOf(t), L, r)
<1>1. \A b \in Int : W!GET_SUCC(t, b) \in Int
  <2>1. \A b \in Int : b + WSIZE \in Int
    BY GeometryAssumption
  <2> QED
    BY <2>1, GetInt, LinkWords
<1>2. SuccOf(t) \in [Int -> Int] /\ \A b \in L : SuccOf(t)[b] = W!GET_SUCC(t, b)
  BY <1>1 DEF SuccOf
<1>3. ASSUME NEW b \in L
      PROVE  SuccOf(t)[b] # NULL => SuccOf(t)[b] \in L /\ r[b] < r[SuccOf(t)[b]]
  <2>1. W!GET_SUCC(t, b) # NULL => W!GET_SUCC(t, b) \in L /\ r[b] < r[W!GET_SUCC(t, b)]
    BY DEF Ranked
  <2> QED
    BY <1>2, <2>1
<1> QED
  BY <1>2, <1>3 DEF Upward

\* A loop over the list is a walk.
LEMMA ListChain ==
    ASSUME NEW t, NEW first
    PROVE  W!Chain(first, LAMBDA bp : W!GET_SUCC(t, bp)) = W!Walk(SuccOf(t))[W!NumWords][first]
BY DEF W!Chain, SuccOf

\* From any node, or none, the list goes on to its end.
LEMMA ListWalk ==
    ASSUME NEW L, Spaced(L), NEW t, Good(t), Linked(t, L), NEW first \in L \cup {NULL},
           NEW c, c = W!Walk(SuccOf(t))[W!NumWords][first]
    PROVE  /\ c \in Seq(Int)
           /\ Len(c) < W!NumWords \/ Len(c) = 0
           /\ Goes(SuccOf(t), L, first, Len(c), c)
<1>1. PICK r \in [L -> Nat] : Ranked(t, L, r)
  BY DEF Linked
<1>2. Places(L) /\ L \subseteq Int /\ first \in Int
  BY SpacedFacts DEF Spaced, NULL
<1>3. SuccOf(t) \in [Int -> Int] /\ Upward(SuccOf(t), L, r)
  BY <1>1, <1>2, SuccUpward
<1>5. IsWalk(SuccOf(t), W!NumWords, first, c)
  BY <1>2, <1>3, WalkNodes
<1> QED
  BY <1>2, <1>3, <1>5, WalkUpward

\* FreeList is the whole list, without a repetition.
LEMMA FreeListWalk ==
    ASSUME NEW L, Spaced(L), NEW t, Good(t), Linked(t, L)
    PROVE  /\ W!FreeList(t) \in Seq(Int)
           /\ Len(W!FreeList(t)) < W!NumWords \/ Len(W!FreeList(t)) = 0
           /\ Goes(SuccOf(t), L, t.head, Len(W!FreeList(t)), W!FreeList(t))
           /\ W!Range(W!FreeList(t)) = L
           /\ \A a \in L : \E i \in 1 .. Len(W!FreeList(t)) : W!FreeList(t)[i] = a
<1> DEFINE c == W!FreeList(t)
<1>1. PICK r \in [L -> Nat] : Ranked(t, L, r)
  BY DEF Linked
<1>2. t.head \in L \cup {NULL} /\ NULL \notin L
  BY <1>1, SpacedFacts DEF Ranked
<1>3. c = W!Walk(SuccOf(t))[W!NumWords][t.head]
  BY DEF W!FreeList, W!Chain, SuccOf
<1> HIDE DEF c
<1>4. /\ c \in Seq(Int)
      /\ Len(c) < W!NumWords \/ Len(c) = 0
      /\ Goes(SuccOf(t), L, t.head, Len(c), c)
  BY <1>2, <1>3, ListWalk
<1>5. ASSUME NEW a \in L, a # t.head
      PROVE  \E p \in L : SuccOf(t)[p] = a /\ r[p] < r[a]
  <2> DEFINE p == W!GET_PRED(t, a)
  <2>1. p \in L /\ W!GET_SUCC(t, p) = a
    BY <1>1, <1>5 DEF Ranked
  <2>2. r[p] < r[a]
    BY <1>1, <1>2, <2>1 DEF Ranked
  <2>3. SuccOf(t)[p] = a
    BY <2>1, SpacedFacts DEF SuccOf
  <2> QED
    BY <2>1, <2>2, <2>3
<1>6. \A a \in L : \E i \in 1 .. Len(c) : c[i] = a
  BY <1>2, <1>4, <1>5, GoesThrough
<1>7. W!Range(c) = L
  <2>1. W!Range(c) = {c[i] : i \in 1 .. Len(c)}
    BY <1>4, RangeOf
  <2>2. \A i \in 1 .. Len(c) : c[i] \in L
    BY <1>4 DEF Goes
  <2> QED
    BY <1>6, <2>1, <2>2
<1> QED
  BY <1>4, <1>6, <1>7 DEF c

LEMMA SomeWords == W!NumWords > 0
<1>1. ExtendBytes(CHUNKSIZE) \in Nat
  BY Extension, GeometryAssumption
<1>2. MAX_HEAP >= 8 * WSIZE /\ MAX_HEAP \in Nat
  BY <1>1, GeometryAssumption, BlocksAssumption
<1>3. CASE WSIZE = 4
  BY <1>2, <1>3 DEF W!NumWords
<1>4. CASE WSIZE = 8
  BY <1>2, <1>4 DEF W!NumWords
<1> QED
  BY <1>3, <1>4, GeometryAssumption

Fits(t, asize, bp) == W!GET_SIZE(t, W!HDRP(bp)) >= asize

\* A loop of find_fit returns a node that fits, or NULL, and then passed all
\* nodes up to the stop, if that is among them.
LEMMA ScanFinds ==
    ASSUME NEW L, Spaced(L), NEW t, Good(t), Linked(t, L), NEW first \in L \cup {NULL},
           NEW asize, NEW stop,
           NEW c, c = W!Walk(SuccOf(t))[W!NumWords][first],
           NEW p, p = W!Scan(t, asize, first, stop)
    PROVE  \/ p \in L /\ Fits(t, asize, p)
           \/ /\ p = NULL
              /\ \A i \in 1 .. Len(c) :
                    Fits(t, asize, c[i]) => \E k \in 1 .. Len(c) : k <= i /\ c[k] = stop
<1> DEFINE n == Len(c)
           S == {k \in 1 .. n : c[k] = stop \/ c[k] \notin W!Words \/ Fits(t, asize, c[k])}
           m == CHOOSE k \in S : \A j \in S : k <= j
<1>1. p = CASE S = {} /\ n = W!NumWords -> W!HANG
            [] S = {} /\ n < W!NumWords -> NULL
            [] S # {} -> IF c[m] = stop THEN NULL
                         ELSE IF c[m] \notin W!Words THEN W!FAULT ELSE c[m]
  BY SameNumbers DEF W!Scan, W!FirstFit, W!Chain, SuccOf, Fits
<1>2. /\ n < W!NumWords
      /\ n \in Nat
      /\ \A i \in 1 .. n : c[i] \in L
  BY ListWalk, SomeWords DEF Goes
<1>3. \A i \in 1 .. n : c[i] \in W!Words
  BY <1>2, SpacedFacts
<1>4. W!NumWords \in Nat
  BY NumWords
<1>5. S # {} => m \in S /\ \A j \in S : m <= j
  <2>1. S \subseteq Nat
    BY <1>2
  <2> HIDE DEF S
  <2>2. S # {} => \E k \in S : \A j \in S : k <= j
    BY <2>1, Least
  <2> QED
    BY <2>2
<1>6. \A i \in 1 .. n : Fits(t, asize, c[i]) => i \in S
  OBVIOUS
<1>7. m \in S => m \in 1 .. n /\ (c[m] = stop \/ Fits(t, asize, c[m]))
  BY <1>3
<1> HIDE DEF S, m, n
<1>8. CASE S = {}
  <2>1. p = NULL
    BY <1>1, <1>2, <1>4, <1>8
  <2> QED
    BY <1>6, <1>8, <2>1 DEF n
<1>9. CASE S # {}
  <2>1. p = IF c[m] = stop THEN NULL
            ELSE IF c[m] \notin W!Words THEN W!FAULT ELSE c[m]
    BY <1>1, <1>9
  <2>2. m \in 1 .. n /\ c[m] \in L /\ c[m] \in W!Words
    BY <1>2, <1>3, <1>5, <1>7, <1>9
  <2>3. CASE c[m] = stop
    BY <1>5, <1>6, <1>9, <2>1, <2>2, <2>3 DEF n
  <2>4. CASE c[m] # stop
    BY <1>5, <1>7, <1>9, <2>1, <2>2, <2>4
  <2> QED
    BY <2>3, <2>4
<1> QED
  BY <1>8, <1>9

\* find_fit returns a listed block that fits, if there is one, else NULL; the
\* rover stays on the list, and nothing else changes.
LEMMA FindFit ==
    ASSUME NEW L, Spaced(L), NEW t, Good(t), Linked(t, L), NEW asize,
           NEW f, f = W!find_fit(t, asize)
    PROVE  /\ Good(f.s) /\ f.s.mem = t.mem /\ f.s.brk = t.brk
           /\ \A a : W!GET(f.s, a) = W!GET(t, a)
           /\ Linked(f.s, L)
           /\ IF \E b \in L : Fits(t, asize, b) THEN f.p \in L /\ Fits(t, asize, f.p)
                                                ELSE f.p = NULL
<1> DEFINE g == W!RoverSet(t)
           tail == W!Scan(t, asize, g.rover, NULL)
           p == IF tail # NULL THEN tail ELSE W!Scan(t, asize, t.head, g.rover)
<1>1. t.head \in L \cup {NULL} /\ t.rover \in L \cup {NULL} /\ (t.head = NULL => L = {})
  BY DEF Linked, Ranked
<1>2. NULL \notin L /\ L \subseteq Int /\ t.head \in Int /\ t.rover \in Int
  BY <1>1, SpacedFacts DEF Good
<1>3. /\ Good(g) /\ g.brk = t.brk /\ g.head = t.head /\ g.mem = t.mem
      /\ g.rover = IF t.rover = NULL THEN t.head ELSE t.rover
      /\ \A a : W!GET(g, a) = W!GET(t, a)
  <2>1. g = [t EXCEPT !.rover = IF t.rover = NULL THEN t.head ELSE t.rover]
    BY SameNumbers DEF W!RoverSet
  <2> QED
    BY <1>2, <2>1, SetRover
<1>5. f = W!Found(g, p)
  BY SameNumbers DEF W!find_fit
<1> HIDE DEF g
<1> DEFINE c == W!FreeList(t)
           d == W!Walk(SuccOf(t))[W!NumWords][g.rover]
<1>6. g.rover \in L \cup {NULL} /\ (g.rover = NULL => L = {})
  BY <1>1, <1>3
<1>7. /\ Goes(SuccOf(t), L, t.head, Len(c), c)
      /\ \A a \in L : \E i \in 1 .. Len(c) : c[i] = a
      /\ c = W!Walk(SuccOf(t))[W!NumWords][t.head]
  BY FreeListWalk DEF W!FreeList, W!Chain, SuccOf
<1>8. Goes(SuccOf(t), L, g.rover, Len(d), d)
  BY <1>6, ListWalk
<1>9. \/ tail \in L /\ Fits(t, asize, tail)
      \/ /\ tail = NULL
         /\ \A i \in 1 .. Len(d) :
               Fits(t, asize, d[i]) => \E k \in 1 .. Len(d) : k <= i /\ d[k] = NULL
  BY <1>6, ScanFinds
<1>10. \/ W!Scan(t, asize, t.head, g.rover) \in L
          /\ Fits(t, asize, W!Scan(t, asize, t.head, g.rover))
       \/ /\ W!Scan(t, asize, t.head, g.rover) = NULL
          /\ \A i \in 1 .. Len(c) :
                Fits(t, asize, c[i]) => \E k \in 1 .. Len(c) : k <= i /\ c[k] = g.rover
  BY <1>1, <1>7, ScanFinds
<1> HIDE DEF c, d, tail
<1>11. \/ p \in L /\ Fits(t, asize, p)
       \/ p = NULL /\ ~\E b \in L : Fits(t, asize, b)
  <2> SUFFICES ASSUME p = NULL, tail = NULL, W!Scan(t, asize, t.head, g.rover) = NULL,
                      NEW b \in L, Fits(t, asize, b)
               PROVE  FALSE
    BY <1>2, <1>9, <1>10
  <2>1. \A i \in 1 .. Len(d) : ~Fits(t, asize, d[i])
    BY <1>2, <1>8, <1>9 DEF Goes
  <2>2. PICK i \in 1 .. Len(c) : c[i] = b
    BY <1>7
  <2>3. PICK k \in 1 .. Len(c) : k <= i /\ c[k] = g.rover
    BY <1>2, <1>10, <2>2
\* From the rover on, both walks meet the same nodes.
  <2>4. \A j \in 1 .. Len(c) : k <= j => \E e \in 1 .. Len(d) : d[e] = c[j]
    <3> DEFINE S == {j \in Nat : k <= j => \E e \in 1 .. Len(d) : d[e] = c[j]}
    <3>0. Len(c) \in Nat /\ Len(d) \in Nat /\ k \in Nat
      BY <1>7, <1>8 DEF Goes
    <3>1. \E e \in 1 .. Len(d) : d[e] = c[k]
      <4>1. g.rover # NULL
        BY <1>6, <2>2
      <4> QED
        BY <1>8, <2>3, <3>0, <4>1 DEF Goes
    <3>2. 1 \in S
      BY <3>0, <3>1
    <3>3. ASSUME NEW j \in 1 .. Len(c), j \in S, j + 1 \in 1 .. Len(c)
          PROVE  j + 1 \in S
      <4>1. CASE k = j + 1
        BY <3>1, <4>1
      <4>2. CASE k > j + 1
        BY <3>0, <4>2
      <4>3. CASE k < j + 1
        <5>1. k <= j
          BY <3>0, <4>3
        <5>2. PICK e \in 1 .. Len(d) : d[e] = c[j]
          BY <3>3, <5>1
        <5>3. SuccOf(t)[c[j]] = c[j + 1] /\ c[j + 1] # NULL
          <6>1. c[j] \in L /\ c[j + 1] # NULL
            BY <1>7, <3>3 DEF Goes
          <6>2. SuccOf(t)[c[j]] = c[j + 1]
            <7>1. j < Len(c)
              BY <3>0, <3>3
            <7> QED
              BY <1>7, <7>1 DEF Goes, Path
          <6> QED
            BY <6>1, <6>2
        <5>4. e + 1 \in 1 .. Len(d) /\ d[e + 1] = c[j + 1]
          BY <1>8, <5>2, <5>3 DEF Goes
        <5> QED
          BY <3>0, <5>4
      <4> QED
        BY <3>0, <4>1, <4>2, <4>3
    <3> HIDE DEF S
    <3>4. \A j \in 1 .. Len(c) : j \in S
      BY <3>0, <3>2, <3>3, Upto
    <3> QED
      BY <3>4 DEF S
  <2> QED
    BY <2>1, <2>2, <2>3, <2>4
<1> HIDE DEF p
<1>12. /\ f.p = p
       /\ f.s = [g EXCEPT !.rover = IF p = NULL THEN g.rover ELSE p]
  <2>1. f.p = p /\ f.s = [W!LoopEnds(g, p) EXCEPT !.rover = IF p \in W!NoBlock THEN @ ELSE p]
    BY <1>5 DEF W!Found
  <2>2. p = NULL \/ (p \in W!Words /\ p # NULL)
    BY <1>2, <1>11, SpacedFacts
  <2>3. p # W!HANG /\ p # W!FAULT /\ (p \in W!NoBlock <=> p = NULL)
    <3>1. p \in W!Words => p > 0 /\ p \in Int
      BY IsWord, BlocksAssumption
    <3> QED
      BY <2>2, <3>1, SameNumbers DEF W!NoBlock, W!HANG, W!FAULT, NULL
  <2>4. W!LoopEnds(g, p) = g
    BY <2>3 DEF W!LoopEnds
  <2> QED
    BY <2>1, <2>3, <2>4
<1> DEFINE v == IF p = NULL THEN g.rover ELSE p
<1>13. v \in L \cup {NULL} /\ v \in Int
  <2>1. g.rover \in Int
    BY <1>3 DEF Good
  <2> QED
    BY <2>1, <1>2, <1>6, <1>11 DEF NULL
<1> HIDE DEF v
<1>14. /\ Good(f.s) /\ f.s.brk = t.brk /\ f.s.head = t.head /\ f.s.rover = v
       /\ f.s.mem = t.mem
  <2>1. f.s = [g EXCEPT !.rover = v]
    BY <1>12 DEF v
  <2> QED
    BY <1>3, <1>13, <2>1, SetRover
<1>15. \A a : W!GET(f.s, a) = W!GET(t, a)
  BY <1>14, SameMemory
<1>16. Linked(f.s, L)
  BY <1>13, <1>14, <1>15, LinkedSame
<1> QED
  BY <1>2, <1>11, <1>12, <1>14, <1>15, <1>16

-----------------------------------------------------------------------------
(* The tags of the blocks.                                                 *)

Alloc(h, b) == IF b \in h.used THEN 1 ELSE 0
Tag(h, b) == h.size[b] + Alloc(h, b)

\* Header and footer of b hold its size and whether it is allocated.
Tagged(t, h, b) ==
    W!GET(t, b - WSIZE) = Tag(h, b) /\ W!GET(t, EndOf(h, b) - DSIZE) = Tag(h, b)

\* The two tags of the prologue and the header of the epilogue.
Edges(t, h) ==
    /\ W!GET(t, BASE + WSIZE) = DSIZE + 1 /\ W!GET(t, BASE + 2 * WSIZE) = DSIZE + 1
    /\ W!GET(t, h.brk - WSIZE) = 1

Tags(t, h) == Edges(t, h) /\ \A b \in Blocks(h) : Tagged(t, h, b)

\* The payload of no allocated block changes.
Kept(t, u, h) ==
    \A x \in h.used : \A a \in Int :
        x <= a /\ a < EndOf(h, x) - DSIZE => W!GET(u, a) = W!GET(t, a)

\* What GET_SIZE and GET_ALLOC find in a tag.
LEMMA ReadTag ==
    ASSUME NEW t, NEW a, NEW size \in Nat, size % 8 = 0, NEW alloc \in {0, 1},
           W!GET(t, a) = size + alloc
    PROVE  W!GET_SIZE(t, a) = size /\ W!GET_ALLOC(t, a) = alloc
<1>1. ((size + alloc) \div 8) * 8 = size
  OBVIOUS
<1>2. (size + alloc) % 2 = alloc
  OBVIOUS
<1> QED
  BY <1>1, <1>2 DEF W!GET_SIZE, W!GET_ALLOC

LEMMA WordSizes ==
    /\ WSIZE \in Nat /\ WSIZE > 0 /\ DSIZE = 2 * WSIZE /\ DSIZE \in Nat
    /\ MIN_BLOCK_SIZE \in Nat /\ MIN_BLOCK_SIZE >= 4 * WSIZE
    /\ BASE \in Nat /\ BASE > 0 /\ BASE % 8 = 0 /\ MAX_ADDR \in Nat
    /\ FIRST = BASE + 4 * WSIZE /\ FIRST \in Nat
BY GeometryAssumption, BlocksAssumption, MinBlockSize DEF DSIZE, MAX_ADDR, FIRST

\* Multiples of 8, and what is some words beside them, are words.
LEMMA WordsBeside ==
    ASSUME NEW a \in Nat, a % 8 = 0, NEW k \in {-2, -1, 0, 1, 2, 3},
           BASE <= a + k * WSIZE, a + k * WSIZE < MAX_ADDR
    PROVE  a + k * WSIZE \in W!Words
<1>1. (a + k * WSIZE) % WSIZE = 0
  <2>1. CASE WSIZE = 4
    BY <2>1
  <2>2. CASE WSIZE = 8
    BY <2>2
  <2> QED
    BY <2>1, <2>2, GeometryAssumption
<1>2. a + k * WSIZE \in Int
  BY WordSizes
<1> QED
  BY <1>1, <1>2, IsWord

\* The words of a block that the allocator uses.
LEMMA BlockWords ==
    ASSUME NEW h, Sound(h), NEW b \in Blocks(h)
    PROVE  /\ b \in Nat /\ h.size[b] \in Nat /\ EndOf(h, b) \in Nat
           /\ EndOf(h, b) = b + h.size[b] /\ h.size[b] % 8 = 0
           /\ FIRST <= b /\ b + 4 * WSIZE <= EndOf(h, b) /\ EndOf(h, b) <= h.brk
           /\ h.brk \in Nat /\ h.brk <= MAX_ADDR
           /\ b - WSIZE \in W!Words /\ b \in W!Words /\ b + WSIZE \in W!Words
           /\ EndOf(h, b) - DSIZE \in W!Words /\ EndOf(h, b) - WSIZE \in W!Words
<1> DEFINE e == EndOf(h, b)
<1>1. /\ b \in Nat /\ h.size[b] \in Nat /\ h.brk \in Nat
      /\ b % 8 = 0 /\ h.size[b] % 8 = 0 /\ h.size[b] >= MIN_BLOCK_SIZE
      /\ e = b + h.size[b] /\ e <= h.brk
      /\ FIRST <= b /\ h.brk <= MAX_ADDR
  BY BlockFacts
<1> HIDE DEF e
<1>2. e \in Nat /\ e % 8 = 0 /\ b + 4 * WSIZE <= e
  BY <1>1, WordSizes
<1>3. b + (-1) * WSIZE \in W!Words /\ b + 0 * WSIZE \in W!Words /\ b + 1 * WSIZE \in W!Words
  <2>1. /\ BASE <= b + (-1) * WSIZE /\ b + 1 * WSIZE < MAX_ADDR
        /\ b + (-1) * WSIZE < MAX_ADDR /\ b + 0 * WSIZE < MAX_ADDR
        /\ BASE <= b + 0 * WSIZE /\ BASE <= b + 1 * WSIZE
    BY <1>1, <1>2, WordSizes
  <2> QED
    BY <1>1, <2>1, WordsBeside
<1>4. e + (-2) * WSIZE \in W!Words /\ e + (-1) * WSIZE \in W!Words
  <2>1. /\ BASE <= e + (-2) * WSIZE /\ e + (-2) * WSIZE < MAX_ADDR
        /\ BASE <= e + (-1) * WSIZE /\ e + (-1) * WSIZE < MAX_ADDR
    BY <1>1, <1>2, WordSizes
  <2> QED
    BY <1>2, <2>1, WordsBeside
<1>5. /\ b + (-1) * WSIZE = b - WSIZE /\ b + 0 * WSIZE = b /\ b + 1 * WSIZE = b + WSIZE
      /\ e + (-2) * WSIZE = e - DSIZE /\ e + (-1) * WSIZE = e - WSIZE
  BY <1>1, <1>2, WordSizes
<1> QED
  BY <1>1, <1>2, <1>3, <1>4, <1>5 DEF e

\* One block ends before the other starts.
LEMMA InOrder ==
    ASSUME NEW h, Sound(h), NEW b \in Blocks(h), NEW c \in Blocks(h), b # c
    PROVE  EndOf(h, b) <= c \/ EndOf(h, c) <= b
<1>1. b \in Nat /\ c \in Nat
  BY BlockFacts
<1>2. b < c \/ c < b
  BY <1>1
<1> QED
  BY <1>2, BlockFacts

\* Blocks can be nodes of a list.
LEMMA BlocksSpaced ==
    ASSUME NEW h, Sound(h), NEW L, L \subseteq Blocks(h)
    PROVE  Spaced(L)
<1>1. ASSUME NEW b \in L
      PROVE  /\ b \in Nat /\ BASE + 2 * WSIZE <= b /\ b <= MAX_ADDR /\ b % WSIZE = 0
             /\ b \in W!Words /\ b + WSIZE \in W!Words
  <2>1. b \in W!Words /\ b + WSIZE \in W!Words /\ b \in Nat /\ FIRST <= b
    BY BlockWords
  <2> QED
    BY <2>1, IsWord, WordSizes
<1>2. ASSUME NEW b \in L, NEW c \in L PROVE b + WSIZE # c
  <2>1. CASE b = c
    BY <1>1, <2>1, WordSizes
  <2>2. CASE b # c
    <3>1. EndOf(h, b) <= c \/ EndOf(h, c) <= b
      BY <2>2, InOrder
    <3>2. /\ b \in Nat /\ c \in Nat /\ EndOf(h, b) \in Nat /\ EndOf(h, c) \in Nat
          /\ b + 4 * WSIZE <= EndOf(h, b) /\ c + 4 * WSIZE <= EndOf(h, c)
      BY BlockWords
    <3> QED
      BY <3>1, <3>2, WordSizes
  <2> QED
    BY <2>1, <2>2
<1> QED
  BY <1>1, <1>2 DEF Spaced, Places

\* What one write does, as a predicate.
Wrote(t, u, a, v) ==
    /\ Good(u)
    /\ u.brk = t.brk /\ u.head = t.head /\ u.rover = t.rover
    /\ W!GET(u, a) = v
    /\ \A x \in Int : x # a => W!GET(u, x) = W!GET(t, x)

LEMMA PutWrote ==
    ASSUME NEW t, Good(t), NEW a \in W!Words, NEW v \in Int
    PROVE  Wrote(t, W!PUT(t, a, v), a, v)
<1> DEFINE u == W!PUT(t, a, v)
<1>1. u = W!PUT(t, a, v)
  OBVIOUS
<1> HIDE DEF u
<1>2. /\ Good(u)
      /\ u.brk = t.brk /\ u.head = t.head /\ u.rover = t.rover
      /\ W!GET(u, a) = v
      /\ \A x \in Int : x # a => W!GET(u, x) = W!GET(t, x)
  BY <1>1, PutWord
<1>3. Wrote(t, u, a, v)
  BY <1>2 DEF Wrote
<1> QED
  BY <1>1, <1>3

\* SetTags writes the two tags, and nothing else.
LEMMA SetTagsWords ==
    ASSUME NEW t, Good(t), NEW b \in Int, NEW size \in Nat, size % 8 = 0, size >= 4 * WSIZE,
           NEW alloc \in {0, 1},
           b - WSIZE \in W!Words, b + size - DSIZE \in W!Words,
           NEW u, u = W!SetTags(t, b, size, alloc)
    PROVE  /\ Good(u)
           /\ u.brk = t.brk /\ u.head = t.head /\ u.rover = t.rover
           /\ W!GET(u, b - WSIZE) = size + alloc
           /\ W!GET(u, b + size - DSIZE) = size + alloc
           /\ \A a \in Int : a # b - WSIZE /\ a # b + size - DSIZE => W!GET(u, a) = W!GET(t, a)
<1> DEFINE hd == b - WSIZE
           ft == b + size - DSIZE
           v == size + alloc
           t1 == W!PUT(t, hd, v)
<1>1. /\ W!HDRP(b) = hd /\ v \in Int
      /\ hd \in Int /\ ft \in Int /\ hd # ft /\ hd \in W!Words /\ ft \in W!Words
  BY WordSizes DEF W!HDRP
<1>3. u = W!PUT(t1, ft, v)
  <2>1. W!SET_HEADER(t, b, size, alloc) = t1
    BY <1>1 DEF W!SET_HEADER, W!PACK
  <2>2. W!GET(t1, hd) = v
    <3> HIDE DEF hd, v
    <3> QED
      BY <1>1, PutWord
  <2>3. W!GET_SIZE(t1, hd) = size
    BY <2>2, ReadTag
  <2>4. W!FTRP(t1, b) = ft
    BY <1>1, <2>3, SameNumbers DEF W!FTRP
  <2> QED
    BY <2>1, <2>4 DEF W!SetTags, W!SET_FOOTER, W!PACK
<1> HIDE DEF hd, ft, v
<1>2. Wrote(t, t1, hd, v)
  <2>1. hd \in W!Words /\ v \in Int /\ Good(t)
    BY <1>1
  <2> QED
    BY <2>1, PutWrote DEF t1
<1> HIDE DEF t1
<1>4. Wrote(t1, u, ft, v)
  <2>1. ft \in W!Words /\ v \in Int /\ Good(t1)
    BY <1>1, <1>2 DEF Wrote
  <2> QED
    BY <2>1, <1>3, PutWrote
<1>5. /\ Good(u)
      /\ u.brk = t.brk /\ u.head = t.head /\ u.rover = t.rover
      /\ W!GET(u, hd) = v /\ W!GET(u, ft) = v
      /\ \A x \in Int : x # hd /\ x # ft => W!GET(u, x) = W!GET(t, x)
  BY <1>1, <1>2, <1>4 DEF Wrote
<1> QED
  BY <1>5 DEF hd, ft, v

LEMMA AllocBit ==
    ASSUME NEW h, NEW b
    PROVE  Alloc(h, b) \in {0, 1} /\ (Alloc(h, b) = 1 <=> b \in h.used)
BY DEF Alloc

\* u is t with the tags of q written.
TagsOf(t, u, g, q) ==
    /\ Good(u)
    /\ u.brk = t.brk /\ u.head = t.head /\ u.rover = t.rover
    /\ Tagged(u, g, q)
    /\ \A x \in Blocks(g) : Tagged(t, g, x) => Tagged(u, g, x)
    /\ Edges(t, g) => Edges(u, g)
    /\ \A a \in Int : a < q - WSIZE => W!GET(u, a) = W!GET(t, a)
    /\ Kept(t, u, g)
    /\ \A x \in Blocks(g) : /\ W!GET(u, x) = W!GET(t, x)
                            /\ W!GET(u, x + WSIZE) = W!GET(t, x + WSIZE)

\* Writing the tags of a block touches nothing else that the heap needs.
LEMMA TagBlock ==
    ASSUME NEW g, Sound(g), NEW q \in Blocks(g), NEW t, Good(t)
    PROVE  TagsOf(t, W!SetTags(t, q, g.size[q], Alloc(g, q)), g, q)
<1> DEFINE u == W!SetTags(t, q, g.size[q], Alloc(g, q))
<1>0. u = W!SetTags(t, q, g.size[q], Alloc(g, q))
  OBVIOUS
<1> HIDE DEF u
<1> DEFINE e == EndOf(g, q)
           size == g.size[q]
           alloc == Alloc(g, q)
<1>1. /\ q \in Nat /\ size \in Nat /\ e \in Nat
      /\ e = q + size /\ size % 8 = 0
      /\ FIRST <= q /\ q + 4 * WSIZE <= e /\ e <= g.brk
      /\ g.brk \in Nat
      /\ q - WSIZE \in W!Words /\ e - DSIZE \in W!Words
  BY BlockWords
<1>2. /\ Good(u)
      /\ u.brk = t.brk /\ u.head = t.head /\ u.rover = t.rover
      /\ W!GET(u, q - WSIZE) = Tag(g, q)
      /\ W!GET(u, e - DSIZE) = Tag(g, q)
      /\ \A a \in Int : a # q - WSIZE /\ a # e - DSIZE => W!GET(u, a) = W!GET(t, a)
  <2>1. q + size - DSIZE = e - DSIZE /\ size >= 4 * WSIZE /\ alloc \in {0, 1}
    BY <1>1, WordSizes, AllocBit
  <2>2. Tag(g, q) = size + alloc
    BY DEF Tag
  <2> HIDE DEF e, size, alloc
  <2>3. u = W!SetTags(t, q, size, alloc)
    BY <1>0 DEF size, alloc
  <2>4. q \in Int /\ q + size - DSIZE \in W!Words
    BY <1>1, <2>1
  <2> QED
    BY <1>1, <2>1, <2>2, <2>3, <2>4, SetTagsWords
<1> HIDE DEF size, alloc
\* Outside of q nothing changes, and inside only the tags do.
<1>3. \A a \in Int : a < q - WSIZE \/ e - DSIZE < a \/ (q <= a /\ a < e - DSIZE)
                     => W!GET(u, a) = W!GET(t, a)
  BY <1>1, <1>2, WordSizes
<1>4. ASSUME NEW x \in Blocks(g), x # q, NEW a \in Int, x - WSIZE <= a, a < EndOf(g, x) - WSIZE
      PROVE  W!GET(u, a) = W!GET(t, a)
  <2>1. e <= x \/ EndOf(g, x) <= q
    BY <1>4, InOrder
  <2>2. x \in Nat /\ EndOf(g, x) \in Nat
    BY BlockWords
  <2>3. e - DSIZE < a \/ a < q - WSIZE
    BY <1>1, <1>4, <2>1, <2>2, WordSizes
  <2> QED
    BY <1>3, <2>3
<1>5. /\ Edges(t, g) => Edges(u, g)
      /\ Tagged(u, g, q)
      /\ \A x \in Blocks(g) : Tagged(t, g, x) => Tagged(u, g, x)
  <2>1. Edges(t, g) => Edges(u, g)
    <3>1. BASE + WSIZE < q - WSIZE /\ BASE + 2 * WSIZE < q - WSIZE /\ e - DSIZE < g.brk - WSIZE
      BY <1>1, WordSizes
    <3>2. BASE + WSIZE \in Int /\ BASE + 2 * WSIZE \in Int /\ g.brk - WSIZE \in Int
      BY <1>1, WordSizes
    <3> QED
      BY <1>3, <3>1, <3>2 DEF Edges
  <2>2. Tagged(u, g, q)
    BY <1>2 DEF Tagged, e
  <2>3. ASSUME NEW x \in Blocks(g), x # q, Tagged(t, g, x) PROVE Tagged(u, g, x)
    <3>1. /\ x - WSIZE \in Int /\ EndOf(g, x) - DSIZE \in Int
          /\ x - WSIZE < EndOf(g, x) - WSIZE
          /\ x - WSIZE <= EndOf(g, x) - DSIZE /\ EndOf(g, x) - DSIZE < EndOf(g, x) - WSIZE
      BY BlockWords, WordSizes
    <3>2. W!GET(u, x - WSIZE) = W!GET(t, x - WSIZE)
      BY <1>4, <2>3, <3>1
    <3>3. W!GET(u, EndOf(g, x) - DSIZE) = W!GET(t, EndOf(g, x) - DSIZE)
      BY <1>4, <2>3, <3>1
    <3> QED
      BY <2>3, <3>2, <3>3 DEF Tagged
  <2> QED
    BY <2>1, <2>2, <2>3
\* The words of a block between its tags stay.
<1>6. ASSUME NEW x \in Blocks(g), NEW a \in Int, x <= a, a < EndOf(g, x) - DSIZE
      PROVE  W!GET(u, a) = W!GET(t, a)
  <2>1. x \in Nat /\ EndOf(g, x) \in Nat
    BY BlockWords
  <2>2. x - WSIZE <= a /\ a < EndOf(g, x) - WSIZE
    BY <1>6, <2>1, WordSizes
  <2>3. CASE x = q
    BY <1>3, <1>6, <2>3 DEF e
  <2>4. CASE x # q
    BY <1>4, <2>2, <2>4
  <2> QED
    BY <2>3, <2>4
<1>7. Kept(t, u, g)
  <2>1. g.used \subseteq Blocks(g)
    BY DEF Sound, HeapType
  <2> QED
    BY <1>6, <2>1 DEF Kept
<1>8. ASSUME NEW x \in Blocks(g)
      PROVE  W!GET(u, x) = W!GET(t, x) /\ W!GET(u, x + WSIZE) = W!GET(t, x + WSIZE)
  <2>1. /\ x \in Int /\ x + WSIZE \in Int
        /\ x <= x + WSIZE /\ x + WSIZE < EndOf(g, x) - DSIZE /\ x < EndOf(g, x) - DSIZE
    BY BlockWords, WordSizes
  <2> QED
    BY <1>6, <2>1
<1>9. TagsOf(t, u, g, q)
  BY <1>2, <1>3, <1>5, <1>7, <1>8 DEF TagsOf
<1> QED
  BY <1>9 DEF u

\* The tags of one block complete those of the heap.
LEMMA Retag ==
    ASSUME NEW g, Sound(g), NEW q \in Blocks(g), NEW t, Good(t), Edges(t, g),
           \A x \in Blocks(g) \ {q} : Tagged(t, g, x),
           NEW u, u = W!SetTags(t, q, g.size[q], Alloc(g, q))
    PROVE  /\ Good(u)
           /\ u.brk = t.brk /\ u.head = t.head /\ u.rover = t.rover
           /\ Tags(u, g)
           /\ Kept(t, u, g)
           /\ \A x \in Blocks(g) : /\ W!GET(u, x) = W!GET(t, x)
                                   /\ W!GET(u, x + WSIZE) = W!GET(t, x + WSIZE)
<1>1. TagsOf(t, u, g, q)
  BY TagBlock
<1> QED
  BY <1>1 DEF TagsOf, Tags

\* Links are not tags, and not in the payload of an allocated block.
LEMMA LinksAside ==
    ASSUME NEW h, Sound(h), NEW t, Tags(t, h), NEW L, L \subseteq Blocks(h),
           NEW u, LinksOnly(t, u, L)
    PROVE  /\ Tags(u, h)
           /\ L \cap h.used = {} => Kept(t, u, h)
<1>1. \A x \in L : /\ x \in Nat /\ FIRST <= x /\ EndOf(h, x) \in Nat
                   /\ x + 4 * WSIZE <= EndOf(h, x) /\ EndOf(h, x) <= h.brk
  BY BlockWords
<1>2. h.brk \in Nat
  BY DEF Sound, HeapType
<1>3. Edges(u, h)
  <2>1. /\ BASE + WSIZE \in Int /\ BASE + 2 * WSIZE \in Int /\ h.brk - WSIZE \in Int
        /\ \A x \in L : /\ BASE + WSIZE # x /\ BASE + WSIZE # x + WSIZE
                        /\ BASE + 2 * WSIZE # x /\ BASE + 2 * WSIZE # x + WSIZE
                        /\ h.brk - WSIZE # x /\ h.brk - WSIZE # x + WSIZE
    BY <1>1, <1>2, WordSizes
  <2> QED
    BY <2>1 DEF Tags, Edges, LinksOnly
<1>4. ASSUME NEW b \in Blocks(h) PROVE Tagged(u, h, b)
  <2>1. /\ b \in Nat /\ EndOf(h, b) \in Nat /\ b + 4 * WSIZE <= EndOf(h, b)
    BY BlockWords
  <2>2. ASSUME NEW x \in L
        PROVE  /\ b - WSIZE # x /\ b - WSIZE # x + WSIZE
               /\ EndOf(h, b) - DSIZE # x /\ EndOf(h, b) - DSIZE # x + WSIZE
    <3>1. x = b \/ EndOf(h, x) <= b \/ EndOf(h, b) <= x
      BY InOrder
    <3> QED
      BY <1>1, <2>1, <3>1, WordSizes
  <2>3. b - WSIZE \in Int /\ EndOf(h, b) - DSIZE \in Int
    BY <2>1, WordSizes
  <2> QED
    BY <2>2, <2>3 DEF Tags, Tagged, LinksOnly
<1>5. ASSUME L \cap h.used = {} PROVE Kept(t, u, h)
  <2> SUFFICES ASSUME NEW x \in h.used, NEW a \in Int, x <= a, a < EndOf(h, x) - DSIZE
               PROVE  W!GET(u, a) = W!GET(t, a)
    BY DEF Kept
  <2>1. x \in Blocks(h)
    BY DEF Sound, HeapType
  <2>2. x \in Nat /\ EndOf(h, x) \in Nat
    BY <2>1, BlockWords
  <2>3. ASSUME NEW y \in L PROVE a # y /\ a # y + WSIZE
    <3>1. EndOf(h, x) <= y \/ EndOf(h, y) <= x
      BY <1>5, <2>1, InOrder
    <3> QED
      BY <1>1, <2>2, <3>1, WordSizes
  <2> QED
    BY <2>3 DEF LinksOnly
<1> QED
  BY <1>3, <1>4, <1>5 DEF Tags

-----------------------------------------------------------------------------
(* coalesce.                                                               *)

\* g is h with other alloc bits and another list.
Relabeled(h, g, U, L) ==
    /\ Sound(g) /\ Blocks(g) = Blocks(h) /\ g.size = h.size
    /\ g.used = U /\ g.listed = L /\ g.brk = h.brk
    /\ \A x : EndOf(g, x) = EndOf(h, x)

LEMMA RelabelHeap ==
    ASSUME NEW h, Sound(h), NEW U, U \subseteq Blocks(h), NEW L, L \subseteq Blocks(h)
    PROVE  Relabeled(h, Heap(h.size, U, L, h.brk), U, L)
<1> DEFINE g == Heap(h.size, U, L, h.brk)
<1>1. /\ g.size = h.size /\ g.used = U /\ g.listed = L /\ g.brk = h.brk
      /\ g = Heap(g.size, g.used, g.listed, g.brk)
  BY DEF Heap
<1> HIDE DEF g
<1>2. Blocks(g) = Blocks(h) /\ \A x : EndOf(g, x) = EndOf(h, x)
  BY <1>1 DEF Blocks, EndOf
<1>3. HeapType(g)
  BY <1>1, <1>2 DEF Sound, HeapType
<1>4. WellSized(g)
  BY <1>1, <1>2 DEF Sound, WellSized
<1>5. Tiled(g)
  BY <1>1, <1>2 DEF Sound, Tiled
<1>6. Relabeled(h, g, U, L)
  BY <1>1, <1>2, <1>3, <1>4, <1>5 DEF Sound, Relabeled
<1> QED
  BY <1>6 DEF g

\* g is h with the blocks in gone, and others, in the one free block q.
Coalesced(h, g, q, size, gone) ==
    /\ Sound(g)
    /\ g.used = h.used /\ g.brk = h.brk
    /\ Blocks(g) \subseteq Blocks(h) /\ q \in Blocks(g) /\ q \notin g.used
    /\ \A x \in Blocks(g) : x # q => g.size[x] = h.size[x]
    /\ g.size[q] = size
    /\ g.listed = h.listed \ gone

LEMMA CoalesceForward ==
    ASSUME NEW h, Sound(h), NEW b \in Free(h), b \notin h.listed,
           NEW n, n = EndOf(h, b),
           NEW k, k = IF n \in Free(h) THEN Absorb(h, b) ELSE h
    PROVE  /\ n \notin Free(h) => Coalesced(h, k, b, h.size[b], {})
           /\ n \in Free(h) => Coalesced(h, k, b, h.size[b] + h.size[n], {n})
           /\ \A x \in Blocks(k) : x # b => EndOf(k, x) = EndOf(h, x)
           /\ n # b
           /\ \A x \in Free(h) : x # n => x \in Free(k)
<1>1. b \in Blocks(h) /\ b \notin h.used
  BY DEF Free
<1>0. n # b
  BY <1>1, BlockFacts
<1>2. CASE n \notin Free(h)
  <2>1. k = h
    BY <1>2
  <2> QED
    BY <1>0, <1>1, <1>2, <2>1 DEF Coalesced
<1>3. CASE n \in Free(h)
  <2>1. k = Absorb(h, b)
    BY <1>3
  <2>2. /\ Sound(k)
        /\ Blocks(k) = Blocks(h) \ {n}
        /\ b \in Blocks(k)
        /\ Free(k) = Free(h) \ {n}
        /\ k.listed = h.listed \ {n}
        /\ SameUsedBut(h, k, b) /\ k.brk = h.brk
        /\ \A x \in Blocks(k) :
              x # b => k.size[x] = h.size[x] /\ EndOf(k, x) = EndOf(h, x)
        /\ k.size[b] = h.size[b] + h.size[n]
    BY <1>1, <1>3, <2>1, AbsorbSound
  <2>3. k.used = h.used
    BY <2>2 DEF SameUsedBut
  <2> QED
    BY <1>0, <1>1, <1>3, <2>2, <2>3 DEF Coalesced
<1> QED
  BY <1>2, <1>3

\* What coalesce does to the blocks, in each of its four cases.
LEMMA CoalesceShape ==
    ASSUME NEW h, Sound(h), NEW b \in Free(h), b \notin h.listed,
           NEW c, c = coalesce(h, b),
           NEW n, n = EndOf(h, b)
    PROVE  /\ (\A p \in Free(h) : EndOf(h, p) # b) =>
                /\ c.p = b
                /\ n \notin Free(h) => Coalesced(h, c.h, b, h.size[b], {})
                /\ n \in Free(h) => Coalesced(h, c.h, b, h.size[b] + h.size[n], {n})
           /\ \A p \in Free(h) : EndOf(h, p) = b =>
                /\ c.p = p /\ p # b /\ p # n
                /\ n \notin Free(h) =>
                      Coalesced(h, c.h, p, h.size[p] + h.size[b], {p})
                /\ n \in Free(h) =>
                      Coalesced(h, c.h, p, h.size[p] + (h.size[b] + h.size[n]), {p, n})
<1> DEFINE k == IF n \in Free(h) THEN Absorb(h, b) ELSE h
<1>1. /\ n \notin Free(h) => Coalesced(h, k, b, h.size[b], {})
      /\ n \in Free(h) => Coalesced(h, k, b, h.size[b] + h.size[n], {n})
      /\ \A x \in Blocks(k) : x # b => EndOf(k, x) = EndOf(h, x)
      /\ n # b
      /\ \A x \in Free(h) : x # n => x \in Free(k)
  BY CoalesceForward
<1>2. ASSUME \A p \in Free(h) : EndOf(h, p) # b
      PROVE  c.p = b /\ c.h = k
  BY <1>2 DEF coalesce
<1>3. ASSUME NEW p \in Free(h), EndOf(h, p) = b
      PROVE  /\ c.p = p /\ c.h = Merged(remove_node(k, p), p) /\ p # b /\ p # n
  <2> DEFINE q == CHOOSE x \in Free(h) : EndOf(h, x) = b
  <2>1. q \in Free(h) /\ EndOf(h, q) = b
    BY <1>3
  <2>2. c = [h |-> Merged(remove_node(k, q), q), p |-> q]
    BY <1>3 DEF coalesce
  <2> HIDE DEF q
  <2>3. p \in Blocks(h) /\ q \in Blocks(h) /\ b \in Blocks(h)
    BY <2>1 DEF Free
  <2>4. q = p
    BY <1>3, <2>1, <2>3, EndsDiffer
  <2>5. p \in Nat /\ p < b /\ b \in Nat /\ b < n /\ n \in Nat
    <3>1. p \in Nat /\ b \in Nat /\ h.size[b] \in Nat /\ p < EndOf(h, p) /\ b < EndOf(h, b)
          /\ EndOf(h, b) = b + h.size[b]
      BY <2>3, BlockFacts
    <3> QED
      BY <1>3, <3>1
  <2> QED
    BY <2>2, <2>4, <2>5
<1> HIDE DEF k
<1>4. ASSUME NEW p \in Free(h), EndOf(h, p) = b, NEW size, NEW gone,
             p # b, p # n, Coalesced(h, k, b, size, gone)
      PROVE  Coalesced(h, Merged(remove_node(k, p), p), p, h.size[p] + size, gone \cup {p})
  <2> DEFINE U == k.used
             L == k.listed \ {p}
             r == remove_node(k, p)
             g == Merged(r, p)
  <2>1. U \subseteq Blocks(k) /\ L \subseteq Blocks(k) /\ r = Heap(k.size, U, L, k.brk)
    BY <1>4 DEF remove_node, Coalesced, Sound, HeapType
  <2>2. Sound(k)
    BY <1>4 DEF Coalesced
  <2> HIDE DEF U, L, r
  <2>9. Relabeled(k, r, U, L)
    BY <2>1, <2>2, RelabelHeap
  <2>3. /\ Sound(r) /\ Blocks(r) = Blocks(k) /\ r.size = k.size /\ r.used = U
        /\ r.listed = L /\ r.brk = k.brk
        /\ \A x : EndOf(r, x) = EndOf(k, x)
    BY <2>9 DEF Relabeled
  <2>4. p \in Free(k) /\ p \in Blocks(k) /\ p \notin h.used
    BY <1>1, <1>4 DEF Free
  <2>5. EndOf(r, p) = b
    BY <1>1, <1>4, <2>3, <2>4
  <2>6. b \in Blocks(r) /\ b \notin r.used /\ b \notin r.listed /\ p \in Blocks(r)
    BY <1>4, <2>3, <2>4 DEF Coalesced, U, L, Free
  <2>7. /\ Sound(g)
        /\ Blocks(g) = Blocks(r) \ {b}
        /\ p \in Blocks(g)
        /\ g.used = r.used /\ g.listed = r.listed /\ g.brk = r.brk
        /\ \A x \in Blocks(g) :
              x # p => g.size[x] = r.size[x] /\ EndOf(g, x) = EndOf(r, x)
        /\ g.size[p] = r.size[p] + r.size[b]
    BY <2>3, <2>5, <2>6, MergedSound
  <2> HIDE DEF g
  <2>8. Coalesced(h, g, p, h.size[p] + size, gone \cup {p})
    <3>1. /\ g.used = h.used /\ g.brk = h.brk /\ p \notin g.used
          /\ Blocks(g) \subseteq Blocks(h)
          /\ g.listed = h.listed \ (gone \cup {p})
      BY <1>4, <2>3, <2>4, <2>7 DEF Coalesced, U, L
    <3>2. /\ \A x \in Blocks(g) : x # p => g.size[x] = h.size[x]
          /\ g.size[p] = h.size[p] + size
      BY <1>4, <2>3, <2>4, <2>7 DEF Coalesced
    <3> QED
      BY <2>7, <3>1, <3>2 DEF Coalesced
  <2> QED
    BY <2>8 DEF g, r
<1>5. ASSUME NEW p \in Free(h), EndOf(h, p) = b, n \notin Free(h)
      PROVE  Coalesced(h, c.h, p, h.size[p] + h.size[b], {p})
  <2>1. Coalesced(h, c.h, p, h.size[p] + h.size[b], {} \cup {p})
    BY <1>1, <1>3, <1>4, <1>5
  <2> QED
    BY <2>1 DEF Coalesced
<1>6. ASSUME NEW p \in Free(h), EndOf(h, p) = b, n \in Free(h)
      PROVE  Coalesced(h, c.h, p, h.size[p] + (h.size[b] + h.size[n]), {p, n})
  <2>1. Coalesced(h, c.h, p, h.size[p] + (h.size[b] + h.size[n]), {n} \cup {p})
    BY <1>1, <1>3, <1>4, <1>6
  <2>2. {n} \cup {p} = {p, n}
    OBVIOUS
  <2> QED
    BY <2>1, <2>2
<1> QED
  BY <1>1, <1>2, <1>3, <1>5, <1>6

\* What the code reads in the header of a block.
LEMMA ReadBlock ==
    ASSUME NEW h, Sound(h), NEW t, Tags(t, h), NEW b \in Blocks(h)
    PROVE  /\ W!GET_SIZE(t, W!HDRP(b)) = h.size[b]
           /\ W!GET_ALLOC(t, W!HDRP(b)) = Alloc(h, b)
           /\ W!NEXT_BLKP(t, b) = EndOf(h, b)
           /\ W!FTRP(t, b) = EndOf(h, b) - DSIZE
<1>1. /\ h.size[b] \in Nat /\ h.size[b] % 8 = 0 /\ Alloc(h, b) \in {0, 1}
      /\ EndOf(h, b) = b + h.size[b]
  BY BlockWords, AllocBit
<1>2. W!GET(t, b - WSIZE) = h.size[b] + Alloc(h, b)
  BY DEF Tags, Tagged, Tag
<1>3. W!GET_SIZE(t, b - WSIZE) = h.size[b] /\ W!GET_ALLOC(t, b - WSIZE) = Alloc(h, b)
  BY <1>1, <1>2, ReadTag
<1>4. b \in Int /\ DSIZE \in Int /\ W!HDRP(b) = b - WSIZE
  BY BlockWords, WordSizes DEF W!HDRP
<1>5. W!NEXT_BLKP(t, b) = b + W!GET_SIZE(t, b - WSIZE)
  BY <1>4 DEF W!NEXT_BLKP
<1>6. W!FTRP(t, b) = b + W!GET_SIZE(t, b - WSIZE) - DSIZE
  BY <1>4, SameNumbers DEF W!FTRP
<1> QED
  BY <1>1, <1>3, <1>4, <1>5, <1>6

\* What it reads where the block after b starts: a block or the epilogue.
LEMMA ReadNext ==
    ASSUME NEW h, Sound(h), NEW t, Tags(t, h), NEW b \in Blocks(h),
           NEW n, n = EndOf(h, b)
    PROVE  /\ W!GET_ALLOC(t, W!HDRP(n)) \in {0, 1}
           /\ W!GET_ALLOC(t, W!HDRP(n)) = 0 <=> n \in Free(h)
           /\ n \in Free(h) => n \in Blocks(h) /\ W!GET_SIZE(t, W!HDRP(n)) = h.size[n]
           /\ n \notin Blocks(h) => W!GET_SIZE(t, W!HDRP(n)) = 0
<1>1. CASE n \in Blocks(h)
  BY <1>1, ReadBlock, AllocBit DEF Free, Alloc
<1>2. CASE n \notin Blocks(h)
  <2>1. n = h.brk
    BY <1>2, BlockFacts
  <2>2. W!GET(t, n - WSIZE) = 0 + 1
    BY <2>1 DEF Tags, Edges
  <2>3. W!GET_SIZE(t, n - WSIZE) = 0 /\ W!GET_ALLOC(t, n - WSIZE) = 1
    BY <2>2, ReadTag
  <2> QED
    BY <1>2, <2>3 DEF W!HDRP, Free
<1> QED
  BY <1>1, <1>2

\* What it reads before b: the footer of the block before it, or of the prologue.
LEMMA ReadPrev ==
    ASSUME NEW h, Sound(h), NEW t, Tags(t, h), NEW b \in Blocks(h)
    PROVE  /\ \A p \in Blocks(h) : EndOf(h, p) = b => W!PREV_BLKP(t, b) = p
           /\ (\A p \in Blocks(h) : EndOf(h, p) # b) =>
                 W!GET_ALLOC(t, W!HDRP(W!PREV_BLKP(t, b))) = 1
<1>1. ASSUME NEW p \in Blocks(h), EndOf(h, p) = b PROVE W!PREV_BLKP(t, b) = p
  <2>1. /\ h.size[p] \in Nat /\ h.size[p] % 8 = 0 /\ Alloc(h, p) \in {0, 1}
        /\ b = p + h.size[p] /\ p \in Nat
    BY <1>1, BlockWords, AllocBit
  <2>2. W!GET(t, b - DSIZE) = h.size[p] + Alloc(h, p)
    BY <1>1 DEF Tags, Tagged, Tag
  <2>3. W!GET_SIZE(t, b - DSIZE) = h.size[p]
    BY <2>1, <2>2, ReadTag
  <2> QED
    BY <2>1, <2>3, SameNumbers DEF W!PREV_BLKP
<1>2. ASSUME \A p \in Blocks(h) : EndOf(h, p) # b
      PROVE  W!GET_ALLOC(t, W!HDRP(W!PREV_BLKP(t, b))) = 1
  <2>1. b = FIRST
    BY <1>2, BlockFacts
  <2>2. DSIZE \in Nat /\ DSIZE % 8 = 0
    BY GeometryAssumption DEF DSIZE
  <2>3. b - DSIZE = BASE + 2 * WSIZE
    BY <2>1, WordSizes
  <2>4. W!GET(t, b - DSIZE) = DSIZE + 1 /\ W!GET(t, BASE + WSIZE) = DSIZE + 1
    BY <2>3 DEF Tags, Edges
  <2>5. W!GET_SIZE(t, b - DSIZE) = DSIZE /\ W!GET_ALLOC(t, BASE + WSIZE) = 1
    BY <2>2, <2>4, ReadTag
  <2>6. W!PREV_BLKP(t, b) = BASE + 2 * WSIZE
    BY <2>3, <2>5, SameNumbers DEF W!PREV_BLKP
  <2>7. W!HDRP(BASE + 2 * WSIZE) = BASE + WSIZE
    BY WordSizes DEF W!HDRP
  <2> QED
    BY <2>5, <2>6, <2>7
<1> QED
  BY <1>1, <1>2

\* t is the words of the heap h.
Shows(t, h) ==
    /\ Sound(h) /\ h.listed \cap h.used = {}
    /\ Good(t) /\ t.brk = h.brk
    /\ Tags(t, h)
    /\ Linked(t, h.listed)

\* The links of a block that was never on the list.
Bare(t, b) == W!GET(t, b) = NULL /\ W!GET(t, b + WSIZE) = NULL

\* On the list, or a block that mm_init left off it.
Removable(t, h, b) == b \in h.listed \/ (h.listed = {} /\ Bare(t, b))

\* u is t with b off the list.
Detached(t, u, h, b) ==
    /\ Good(u) /\ u.brk = t.brk
    /\ Tags(u, h) /\ Kept(t, u, h)
    /\ Linked(u, h.listed \ {b})
    /\ \A x \in Blocks(h) \ (h.listed \ {b}) : Bare(t, x) => Bare(u, x)

LEMMA Detach ==
    ASSUME NEW h, NEW t, Shows(t, h), NEW b \in Free(h), Removable(t, h, b)
    PROVE  /\ Detached(t, W!remove_node(t, b), h, b)
           /\ \A x : W!Unlink(t, b, x) = W!remove_node(t, b)
<1> DEFINE u == W!remove_node(t, b)
           L == h.listed
<1> HIDE DEF u, L
<1>1. /\ Sound(h) /\ L \cap h.used = {} /\ L \subseteq Blocks(h)
      /\ Good(t) /\ t.brk = h.brk /\ Tags(t, h) /\ Linked(t, L)
      /\ b \in Blocks(h) /\ u = W!remove_node(t, b)
  BY DEF Shows, Sound, HeapType, Free, L, u
<1>2. CASE b \in L
  <2>1. Spaced(L)
    BY <1>1, BlocksSpaced
  <2>2. /\ LinksOnly(t, u, L) /\ Linked(u, L \ {b})
        /\ \A x : W!Unlink(t, b, x) = u
        /\ W!GET(u, b) = W!GET(t, b) /\ W!GET(u, b + WSIZE) = W!GET(t, b + WSIZE)
    BY <1>1, <1>2, <2>1, RemoveLinked
  <2>3. Tags(u, h) /\ Kept(t, u, h)
    BY <1>1, <2>2, LinksAside
  <2>4. ASSUME NEW x \in Blocks(h), x \notin L \/ x = b, Bare(t, x)
        PROVE  Bare(u, x)
    <3>1. CASE x = b
      BY <2>2, <2>4, <3>1 DEF Bare
    <3>2. CASE x \notin L
      <4>1. Spaced(L \cup {x})
        BY <1>1, BlocksSpaced
      <4>2. /\ x \in Int /\ x + WSIZE \in Int
            /\ \A y \in L : x # y /\ x # y + WSIZE /\ x + WSIZE # y /\ x + WSIZE # y + WSIZE
        BY <3>2, <4>1, SpacedFacts
      <4> QED
        BY <2>2, <2>4, <4>2 DEF LinksOnly, Bare
    <3> QED
      BY <2>4, <3>1, <3>2
  <2> QED
    BY <2>2, <2>3, <2>4 DEF Detached, LinksOnly, L, u
<1>3. CASE b \notin L
  <2>1. L = {} /\ Bare(t, b) /\ b \in Int /\ b # NULL
    BY <1>1, <1>3, BlockNotNull DEF Removable, L
  <2>2. u = t /\ \A x : W!Unlink(t, b, x) = t
    BY <1>1, <2>1, RemoveUnlisted DEF Bare
  <2>3. Kept(t, t, h) /\ L \ {b} = L
    BY <2>1 DEF Kept
  <2> QED
    BY <1>1, <2>2, <2>3 DEF Detached, L, u
<1> QED
  BY <1>2, <1>3

LEMMA KeptTrans ==
    ASSUME NEW t, NEW u, NEW v, NEW h, Kept(t, u, h), Kept(u, v, h)
    PROVE  Kept(t, v, h)
BY DEF Kept

\* What is allocated in g is allocated in h, and has the same payload.
LEMMA KeptIn ==
    ASSUME NEW t, NEW u, NEW h, NEW g, Kept(t, u, h), g.used \subseteq h.used,
           \A x \in g.used : g.size[x] = h.size[x]
    PROVE  Kept(t, u, g)
<1>1. \A x \in g.used : EndOf(g, x) = EndOf(h, x)
  BY DEF EndOf
<1> QED
  BY <1>1 DEF Kept

\* The blocks off the list, their tags become those of the one block.
LEMMA JoinWords ==
    ASSUME NEW h, NEW t, Shows(t, h), NEW g, NEW q, NEW size, NEW gone,
           Coalesced(h, g, q, size, gone),
           NEW u, Good(u), u.brk = t.brk, Tags(u, h), Kept(t, u, h),
           Linked(u, h.listed \ gone),
           NEW v, v = W!SetTags(u, q, size, 0)
    PROVE  /\ Shows(v, g) /\ Kept(t, v, h)
           /\ Bare(u, q) => Bare(v, q)
<1>1. /\ Sound(g) /\ g.used = h.used /\ g.brk = h.brk
      /\ Blocks(g) \subseteq Blocks(h) /\ q \in Blocks(g) /\ q \notin g.used
      /\ g.listed \subseteq Blocks(g) /\ g.used \subseteq Blocks(g)
      /\ \A x \in Blocks(g) : x # q => g.size[x] = h.size[x] /\ EndOf(g, x) = EndOf(h, x)
      /\ g.size[q] = size
      /\ g.listed = h.listed \ gone
  BY DEF Coalesced, Sound, HeapType, EndOf
<1>2. Alloc(g, q) = 0 /\ \A x : Alloc(g, x) = Alloc(h, x)
  BY <1>1 DEF Alloc
<1>3. Edges(u, g)
  BY <1>1 DEF Tags, Edges
<1>4. \A x \in Blocks(g) \ {q} : Tagged(u, g, x)
  BY <1>1, <1>2 DEF Tags, Tagged, Tag
<1>5. v = W!SetTags(u, q, g.size[q], Alloc(g, q))
  BY <1>1, <1>2
<1>6. /\ Good(v)
      /\ v.brk = u.brk /\ v.head = u.head /\ v.rover = u.rover
      /\ Tags(v, g)
      /\ Kept(u, v, g)
      /\ \A x \in Blocks(g) : /\ W!GET(v, x) = W!GET(u, x)
                              /\ W!GET(v, x + WSIZE) = W!GET(u, x + WSIZE)
  BY <1>1, <1>3, <1>4, <1>5, Retag
<1>7. Linked(v, g.listed)
  <2>1. v.rover \in g.listed \cup {NULL, u.rover}
    BY <1>6
  <2> QED
    BY <1>1, <1>6, <2>1, LinkedSame
<1>8. Kept(u, v, h)
  BY <1>1, <1>6 DEF Kept
<1>9. Kept(t, v, h)
  BY <1>8, KeptTrans
<1>10. g.listed \cap g.used = {} /\ v.brk = g.brk
  BY <1>1, <1>6 DEF Shows
<1>11. Bare(u, q) => Bare(v, q)
  BY <1>1, <1>6 DEF Bare
<1> QED
  BY <1>1, <1>6, <1>7, <1>9, <1>10, <1>11 DEF Shows

\* coalesce does to the words what it does to the blocks.
LEMMA CoalesceWords ==
    ASSUME NEW h, NEW t, Shows(t, h), NEW b \in Free(h), b \notin h.listed,
           \A x \in Free(h) : x = b \/ Removable(t, h, x),
           NEW r, r = W!coalesce(t, b), NEW c, c = coalesce(h, b)
    PROVE  /\ r.p = c.p
           /\ Shows(r.s, c.h)
           /\ Kept(t, r.s, h)
           /\ Bare(t, c.p) => Bare(r.s, c.p)
<1> DEFINE n == EndOf(h, b)
           prev == W!PREV_BLKP(t, b)
           pa == W!GET_ALLOC(t, W!HDRP(prev))
           na == W!GET_ALLOC(t, W!HDRP(n))
<1>1. /\ Sound(h) /\ Good(t) /\ t.brk = h.brk /\ Tags(t, h) /\ Linked(t, h.listed)
      /\ b \in Blocks(h) /\ h.listed \cap h.used = {}
      /\ Free(h) \subseteq Blocks(h)
  BY DEF Shows, Free
<1>2. /\ W!NEXT_BLKP(t, b) = n /\ W!GET_SIZE(t, W!HDRP(b)) = h.size[b]
      /\ na \in {0, 1}
      /\ na = 0 <=> n \in Free(h)
  BY <1>1, ReadBlock, ReadNext
<1>3. /\ (\A p \in Free(h) : EndOf(h, p) # b) => pa = 1
      /\ \A p \in Free(h) : EndOf(h, p) = b => prev = p /\ pa = 0
  <2>1. ASSUME NEW p \in Blocks(h), EndOf(h, p) = b
        PROVE  prev = p /\ pa = Alloc(h, p)
    <3>1. prev = p
      BY <1>1, <2>1, ReadPrev
    <3> QED
      BY <1>1, <3>1, ReadBlock
  <2>2. (\A p \in Blocks(h) : EndOf(h, p) # b) => pa = 1
    BY <1>1, ReadPrev
  <2> QED
    BY <1>1, <2>1, <2>2 DEF Free, Alloc
<1>4. /\ pa = 1 /\ na = 1 => r = [s |-> t, p |-> b]
      /\ pa = 1 /\ na = 0 =>
           r = [s |-> W!Join(W!Unlink(t, n, b), b, h.size[b], n), p |-> b]
      /\ pa = 0 /\ na = 1 =>
           r = [s |-> W!Join(W!Unlink(t, prev, b), prev, h.size[b], prev), p |-> prev]
      /\ pa = 0 /\ na = 0 =>
           r = [s |-> W!JoinBoth(W!Unlink(W!Unlink(t, prev, b), n, b), prev, h.size[b], n),
                p |-> prev]
  BY <1>2 DEF W!coalesce
<1> HIDE DEF n, prev, pa, na
<1>5. CASE (\A p \in Free(h) : EndOf(h, p) # b) /\ n \notin Free(h)
  <2>1. r = [s |-> t, p |-> b]
    BY <1>2, <1>3, <1>4, <1>5
  <2>2. c.p = b /\ c.h = h
    BY <1>5 DEF coalesce, n
  <2>3. Kept(t, t, h)
    BY DEF Kept
  <2> QED
    BY <2>1, <2>2, <2>3
<1>6. CASE (\A p \in Free(h) : EndOf(h, p) # b) /\ n \in Free(h)
  <2> DEFINE u == W!remove_node(t, n)
             size == h.size[b] + h.size[n]
  <2>1. c.p = b /\ Coalesced(h, c.h, b, size, {n})
    BY <1>1, <1>6, CoalesceShape DEF n
  <2>2. n # b
    BY <1>1, CoalesceForward DEF n
  <2>3. Detached(t, u, h, n) /\ W!Unlink(t, n, b) = u
    BY <1>6, <2>2, Detach
  <2> HIDE DEF u, size
  <2>4. /\ Good(u) /\ u.brk = t.brk
        /\ Tags(u, h) /\ Kept(t, u, h)
        /\ Linked(u, h.listed \ {n})
        /\ Bare(t, b) => Bare(u, b)
    BY <1>1, <2>3 DEF Detached
  <2>5. W!GET_SIZE(u, W!HDRP(n)) = h.size[n]
    BY <1>1, <1>6, <2>4, ReadBlock
  <2> DEFINE v == W!SetTags(u, b, size, 0)
  <2>6. r = [s |-> v, p |-> b]
    BY <1>2, <1>3, <1>4, <1>6, <2>3, <2>5 DEF W!Join, size
  <2> HIDE DEF v
  <2>7. v = W!SetTags(u, b, size, 0)
    BY DEF v
  <2>8. Shows(v, c.h) /\ Kept(t, v, h) /\ (Bare(u, b) => Bare(v, b))
    BY <2>1, <2>4, <2>7, JoinWords
  <2> QED
    BY <2>1, <2>4, <2>6, <2>8
<1>7. ASSUME NEW p \in Free(h), EndOf(h, p) = b, n \notin Free(h)
      PROVE  /\ r.p = c.p
             /\ Shows(r.s, c.h)
             /\ Kept(t, r.s, h)
             /\ Bare(t, c.p) => Bare(r.s, c.p)
  <2> DEFINE u == W!remove_node(t, p)
             size == h.size[p] + h.size[b]
  <2>1. c.p = p /\ p # b /\ Coalesced(h, c.h, p, size, {p})
    <3>1. n = EndOf(h, b)
      BY DEF n
    <3> HIDE DEF size, u
    <3>2. Sound(h) /\ b \in Free(h) /\ b \notin h.listed /\ c = coalesce(h, b)
      BY <1>1
    <3>3. p \in Free(h) /\ EndOf(h, p) = b /\ n \notin Free(h)
      BY <1>7
    <3>4. \A q \in Free(h) : EndOf(h, q) = b =>
              /\ c.p = q /\ q # b
              /\ n \notin Free(h) => Coalesced(h, c.h, q, h.size[q] + h.size[b], {q})
      BY ONLY <3>1, <3>2, CoalesceShape
    <3>5. c.p = p /\ p # b /\ Coalesced(h, c.h, p, h.size[p] + h.size[b], {p})
      BY <3>3, <3>4
    <3> QED
      BY <3>5 DEF size
  <2>3. Detached(t, u, h, p) /\ W!Unlink(t, p, b) = u
    BY <1>7, <2>1, Detach
  <2> HIDE DEF u
  <2>4. /\ Good(u) /\ u.brk = t.brk
        /\ Tags(u, h) /\ Kept(t, u, h)
        /\ Linked(u, h.listed \ {p})
        /\ Bare(t, p) => Bare(u, p)
    BY <1>1, <2>3 DEF Detached
  <2>5. W!GET_SIZE(u, W!HDRP(p)) = h.size[p]
    BY <1>1, <2>4, ReadBlock
  <2> DEFINE v == W!SetTags(u, p, size, 0)
  <2>6. r = [s |-> v, p |-> p]
    <3>1. r = [s |-> W!Join(u, p, h.size[b], p), p |-> p]
      BY <1>2, <1>3, <1>4, <1>7, <2>3
    <3>2. h.size[b] + h.size[p] = size
      BY <1>1, BlockFacts
    <3> HIDE DEF size
    <3> QED
      BY <2>5, <3>1, <3>2 DEF W!Join
  <2> HIDE DEF v, size
  <2>7. v = W!SetTags(u, p, size, 0)
    BY DEF v
  <2>8. Shows(v, c.h) /\ Kept(t, v, h) /\ (Bare(u, p) => Bare(v, p))
    BY <2>1, <2>4, <2>7, JoinWords
  <2> QED
    BY <2>1, <2>4, <2>6, <2>8
<1>8. ASSUME NEW p \in Free(h), EndOf(h, p) = b, n \in Free(h)
      PROVE  /\ r.p = c.p
             /\ Shows(r.s, c.h)
             /\ Kept(t, r.s, h)
             /\ Bare(t, c.p) => Bare(r.s, c.p)
  <2> DEFINE u1 == W!remove_node(t, p)
             h1 == Heap(h.size, h.used, h.listed \ {p}, h.brk)
             u == W!remove_node(u1, n)
             size == h.size[p] + (h.size[b] + h.size[n])
  <2>1. c.p = p /\ p # b /\ p # n /\ Coalesced(h, c.h, p, size, {p, n})
    BY <1>1, <1>8, CoalesceShape DEF n
  <2>2. n # b
    BY <1>1, CoalesceForward DEF n
  <2>3. Detached(t, u1, h, p) /\ W!Unlink(t, p, b) = u1
    BY <1>8, <2>1, Detach
  <2> HIDE DEF u1
  <2>4. /\ Good(u1) /\ u1.brk = t.brk
        /\ Tags(u1, h) /\ Kept(t, u1, h)
        /\ Linked(u1, h.listed \ {p})
        /\ Bare(t, p) => Bare(u1, p)
        /\ n \notin h.listed /\ Bare(t, n) => Bare(u1, n)
    BY <1>1, <1>8, <2>3 DEF Detached
  <2>5. Relabeled(h, h1, h.used, h.listed \ {p})
    <3>1. h.used \subseteq Blocks(h) /\ h.listed \ {p} \subseteq Blocks(h)
      BY <1>1 DEF Sound, HeapType
    <3> QED
      BY <1>1, <3>1, RelabelHeap
  <2> HIDE DEF h1
  <2>6. /\ Sound(h1) /\ Blocks(h1) = Blocks(h) /\ Free(h1) = Free(h)
        /\ h1.used = h.used /\ h1.listed = h.listed \ {p} /\ h1.brk = h.brk
        /\ h1.size = h.size /\ \A x : EndOf(h1, x) = EndOf(h, x)
    BY <2>5 DEF Relabeled, Free
  <2>7. \A x : (Tags(x, h1) <=> Tags(x, h)) /\ (Kept(u1, x, h1) <=> Kept(u1, x, h))
    BY <2>6 DEF Tags, Edges, Tagged, Tag, Alloc, Kept
  <2>8. Shows(u1, h1)
    BY <1>1, <2>4, <2>6, <2>7 DEF Shows
  <2>9. Removable(u1, h1, n)
    <3>1. n \in h.listed \/ (h.listed = {} /\ Bare(t, n))
      BY <1>8, <2>2 DEF Removable
    <3> QED
      BY <2>1, <2>4, <2>6, <3>1 DEF Removable
  <2>10. Detached(u1, u, h1, n) /\ W!Unlink(u1, n, b) = u
    BY <1>8, <2>6, <2>8, <2>9, Detach
  <2> HIDE DEF u
  <2>11. /\ Good(u) /\ u.brk = u1.brk
         /\ Tags(u, h1) /\ Kept(u1, u, h1)
         /\ Linked(u, h1.listed \ {n})
         /\ Bare(u1, p) => Bare(u, p)
    BY <1>1, <2>6, <2>10 DEF Detached
  <2>12. /\ Tags(u, h) /\ Kept(t, u, h) /\ u.brk = t.brk
         /\ Linked(u, h.listed \ {p, n})
    <3>1. h1.listed \ {n} = h.listed \ {p, n}
      BY <2>6
    <3> QED
      BY <2>4, <2>7, <2>11, <3>1, KeptTrans
  <2>13. W!GET_SIZE(u, W!HDRP(p)) = h.size[p] /\ W!GET_SIZE(u, W!HDRP(n)) = h.size[n]
    BY <1>1, <1>8, <2>12, ReadBlock
  <2> DEFINE v == W!SetTags(u, p, size, 0)
  <2>14. r = [s |-> v, p |-> p]
    <3>1. r = [s |-> W!JoinBoth(u, p, h.size[b], n), p |-> p]
      BY <1>2, <1>3, <1>4, <1>8, <2>3, <2>10
    <3>2. (h.size[b] + h.size[n]) + h.size[p] = size
      BY <1>1, <1>8, BlockFacts
    <3> HIDE DEF size
    <3> QED
      BY <2>13, <3>1, <3>2 DEF W!Join, W!JoinBoth
  <2> HIDE DEF v, size
  <2>15. v = W!SetTags(u, p, size, 0)
    BY DEF v
  <2>16. Shows(v, c.h) /\ Kept(t, v, h) /\ (Bare(u, p) => Bare(v, p))
    BY <2>1, <2>11, <2>12, <2>15, JoinWords
  <2> QED
    BY <2>1, <2>4, <2>11, <2>14, <2>16
<1> QED
  BY <1>5, <1>6, <1>7, <1>8

-----------------------------------------------------------------------------
(* extend_heap, insert_node and place.                                     *)

\* u is t with the tags of the last block of g and of the epilogue.
LastAdded(t, u, g) ==
    /\ Good(u)
    /\ u.brk = t.brk /\ u.head = t.head /\ u.rover = t.rover
    /\ Tags(u, g)
    /\ Kept(t, u, g)
    /\ \A x \in Blocks(g) : /\ W!GET(u, x) = W!GET(t, x)
                            /\ W!GET(u, x + WSIZE) = W!GET(t, x + WSIZE)

LEMMA AddLast ==
    ASSUME NEW g, Sound(g), NEW e \in Blocks(g), EndOf(g, e) = g.brk, e \notin g.used,
           NEW t, Good(t),
           W!GET(t, BASE + WSIZE) = DSIZE + 1, W!GET(t, BASE + 2 * WSIZE) = DSIZE + 1,
           \A x \in Blocks(g) \ {e} : Tagged(t, g, x)
    PROVE  LastAdded(t, W!SetEpilogue(W!SetTags(t, e, g.size[e], 0), e), g)
<1> DEFINE v == W!SetTags(t, e, g.size[e], 0)
           z == g.brk - WSIZE
           u == W!SetEpilogue(v, e)
<1>1. /\ e \in Nat /\ g.size[e] \in Nat /\ g.size[e] % 8 = 0 /\ g.brk \in Nat
      /\ g.brk = e + g.size[e] /\ FIRST <= e
      /\ z \in W!Words /\ z \in Int
  BY BlockWords, WordSizes
<1>2. Alloc(g, e) = 0
  BY DEF Alloc
<1>3. TagsOf(t, v, g, e)
  BY <1>2, TagBlock
<1>4. u = W!SetEpilogue(v, e)
  OBVIOUS
<1> HIDE DEF v, z, u
<1>5. /\ Good(v)
      /\ v.brk = t.brk /\ v.head = t.head /\ v.rover = t.rover
      /\ \A x \in Blocks(g) : Tagged(v, g, x)
      /\ W!GET(v, BASE + WSIZE) = DSIZE + 1 /\ W!GET(v, BASE + 2 * WSIZE) = DSIZE + 1
      /\ Kept(t, v, g)
      /\ \A x \in Blocks(g) : /\ W!GET(v, x) = W!GET(t, x)
                              /\ W!GET(v, x + WSIZE) = W!GET(t, x + WSIZE)
  <2>1. /\ BASE + WSIZE \in Int /\ BASE + WSIZE < e - WSIZE
        /\ BASE + 2 * WSIZE \in Int /\ BASE + 2 * WSIZE < e - WSIZE
    BY <1>1, WordSizes
  <2> QED
    BY <1>3, <2>1 DEF TagsOf
<1>6. u = W!PUT(v, z, 1)
  <2>1. W!GET(v, e - WSIZE) = g.size[e] + 0
    BY <1>1, <1>2, <1>5 DEF Tagged, Tag
  <2>2. W!GET_SIZE(v, e - WSIZE) = g.size[e]
    BY <1>1, <2>1, ReadTag
  <2>3. W!HDRP(W!NEXT_BLKP(v, e)) = z
    BY <1>1, <2>2 DEF W!HDRP, W!NEXT_BLKP, z
  <2>4. W!PACK(0, 1) = 1
    BY DEF W!PACK
  <2> QED
    BY <1>4, <2>3, <2>4 DEF W!SetEpilogue
<1>7. Wrote(v, u, z, 1)
  BY <1>1, <1>5, <1>6, PutWrote
<1>8. /\ Good(u)
      /\ u.brk = v.brk /\ u.head = v.head /\ u.rover = v.rover
      /\ W!GET(u, z) = 1
      /\ \A a \in Int : a < z => W!GET(u, a) = W!GET(v, a)
  BY <1>1, <1>7 DEF Wrote
<1>9. ASSUME NEW x \in Blocks(g)
      PROVE  /\ x \in Nat /\ EndOf(g, x) \in Nat
             /\ x - WSIZE \in Int /\ x - WSIZE < z
             /\ EndOf(g, x) - DSIZE \in Int /\ EndOf(g, x) - DSIZE < z
             /\ x < z /\ x + WSIZE < z /\ x + WSIZE \in Int
  BY <1>1, BlockWords, WordSizes DEF z
<1>10. Tags(u, g)
  <2>1. /\ BASE + WSIZE \in Int /\ BASE + WSIZE < z
        /\ BASE + 2 * WSIZE \in Int /\ BASE + 2 * WSIZE < z
    <3>1. e + 4 * WSIZE <= g.brk
      BY BlockWords
    <3> QED
      BY <1>1, <3>1, WordSizes DEF z
  <2>2. Edges(u, g)
    BY <1>5, <1>8, <2>1 DEF Edges, z
  <2>3. ASSUME NEW x \in Blocks(g) PROVE Tagged(u, g, x)
    BY <1>5, <1>8, <1>9 DEF Tagged
  <2> QED
    BY <2>2, <2>3 DEF Tags
<1>11. Kept(v, u, g)
  <2> SUFFICES ASSUME NEW x \in g.used, NEW a \in Int, x <= a, a < EndOf(g, x) - DSIZE
               PROVE  W!GET(u, a) = W!GET(v, a)
    BY DEF Kept
  <2>1. x \in Blocks(g)
    BY DEF Sound, HeapType
  <2>2. EndOf(g, x) - DSIZE \in Int /\ EndOf(g, x) - DSIZE < z
    BY <1>9, <2>1
  <2> QED
    BY <1>1, <1>8, <2>2
<1>12. Kept(t, u, g)
  BY <1>5, <1>11, KeptTrans
<1>13. ASSUME NEW x \in Blocks(g)
       PROVE  W!GET(u, x) = W!GET(t, x) /\ W!GET(u, x + WSIZE) = W!GET(t, x + WSIZE)
  BY <1>5, <1>8, <1>9
<1>14. LastAdded(t, u, g)
  BY <1>5, <1>8, <1>10, <1>12, <1>13 DEF LastAdded
<1> QED
  BY <1>14 DEF u, v

\* Between calls: also a free block that is not listed has no links.
Mirrors(t, h) == WF(h) /\ Shows(t, h) /\ \A x \in Free(h) : Removable(t, h, x)

\* The words of a heap that has grown.
LEMMA GrowWords ==
    ASSUME NEW h, NEW t, Mirrors(t, h),
           NEW m \in Nat, m % 8 = 0, m >= MIN_BLOCK_SIZE, h.brk + m <= MAX_ADDR,
           NEW g, g = Grown(h, m),
           NEW t1, t1 = [t EXCEPT !.brk = h.brk + m],
           NEW u, u = W!SetEpilogue(W!SetTags(t1, h.brk, m, 0), h.brk)
    PROVE  /\ Shows(u, g) /\ Kept(t, u, h)
           /\ h.brk \in Free(g) /\ h.brk \notin g.listed
           /\ \A x \in Free(g) : x = h.brk \/ Removable(u, g, x)
<1> DEFINE e == h.brk
<1>1. /\ Sound(h) /\ h.listed \cap h.used = {}
      /\ Good(t) /\ t.brk = e /\ Tags(t, h) /\ Linked(t, h.listed)
      /\ h.used \subseteq Blocks(h) /\ h.listed \subseteq Blocks(h)
      /\ e \in Nat /\ e + m \in Int
  BY DEF Mirrors, Shows, Sound, HeapType
<1>2. /\ Sound(g)
      /\ e \notin Blocks(h)
      /\ Blocks(g) = Blocks(h) \cup {e}
      /\ g.used = h.used /\ g.listed = h.listed /\ g.brk = e + m
      /\ \A x \in Blocks(h) : g.size[x] = h.size[x] /\ EndOf(g, x) = EndOf(h, x)
      /\ g.size[e] = m /\ EndOf(g, e) = g.brk
  BY <1>1, GrownSound
<1>3. /\ Good(t1)
      /\ t1.brk = e + m /\ t1.head = t.head /\ t1.rover = t.rover
      /\ \A a : W!GET(t1, a) = W!GET(t, a)
  <2>1. /\ Good(t1) /\ t1.mem = t.mem
        /\ t1.brk = e + m /\ t1.head = t.head /\ t1.rover = t.rover
    BY <1>1 DEF Good
  <2> QED
    BY <2>1, SameMemory
<1> HIDE DEF e
<1>4. ASSUME NEW x \in Blocks(g) \ {e} PROVE Tagged(t1, g, x)
  <2>1. x \in Blocks(h) /\ g.size[x] = h.size[x] /\ EndOf(g, x) = EndOf(h, x)
    BY <1>2
  <2>2. Tag(g, x) = Tag(h, x)
    BY <1>2, <2>1 DEF Tag, Alloc
  <2>3. Tagged(t, h, x)
    BY <1>1, <2>1 DEF Tags
  <2> QED
    BY <1>3, <2>1, <2>2, <2>3 DEF Tagged
<1>5. e \in Blocks(g) /\ e \notin g.used /\ u = W!SetEpilogue(W!SetTags(t1, e, g.size[e], 0), e)
  BY <1>1, <1>2 DEF e
<1>6. W!GET(t1, BASE + WSIZE) = DSIZE + 1 /\ W!GET(t1, BASE + 2 * WSIZE) = DSIZE + 1
  BY <1>1, <1>3 DEF Tags, Edges
<1>7. /\ Good(u)
      /\ u.brk = t1.brk /\ u.head = t1.head /\ u.rover = t1.rover
      /\ Tags(u, g)
      /\ Kept(t1, u, g)
      /\ \A x \in Blocks(g) : /\ W!GET(u, x) = W!GET(t1, x)
                              /\ W!GET(u, x + WSIZE) = W!GET(t1, x + WSIZE)
  <2>1. LastAdded(t1, u, g)
    BY <1>2, <1>3, <1>4, <1>5, <1>6, AddLast
  <2> QED
    BY <2>1 DEF LastAdded
<1>8. \A x \in Blocks(h) : W!GET(u, x) = W!GET(t, x) /\ W!GET(u, x + WSIZE) = W!GET(t, x + WSIZE)
  BY <1>2, <1>3, <1>7
<1>9. Linked(u, g.listed)
  <2>1. u.rover \in h.listed \cup {NULL, t.rover} /\ u.head = t.head
    BY <1>3, <1>7
  <2>2. Linked(u, h.listed)
    BY <1>1, <1>8, <2>1, LinkedSame
  <2> QED
    BY <1>2, <2>2
<1>10. Kept(t, u, h)
  <2>1. \A x \in h.used : EndOf(g, x) = EndOf(h, x)
    BY <1>1, <1>2
  <2> QED
    BY <1>2, <1>3, <1>7, <2>1 DEF Kept
<1>11. Shows(u, g)
  BY <1>1, <1>2, <1>3, <1>7, <1>9 DEF Shows
<1>12. Free(g) = Free(h) \cup {e}
  BY <1>1, <1>2 DEF Free
<1>13. ASSUME NEW x \in Free(h) PROVE Removable(u, g, x)
  <2>1. Removable(t, h, x) /\ x \in Blocks(h)
    BY DEF Mirrors, Free
  <2> QED
    BY <1>2, <1>8, <2>1 DEF Removable, Bare
<1> QED
  BY <1>1, <1>2, <1>10, <1>11, <1>12, <1>13 DEF e

\* mem_sbrk with an increment that no conversion and no sum changes.
LEMMA SbrkWords ==
    ASSUME NEW t, NEW m \in Nat, m <= MaxRequest + CHUNKSIZE + 8 * WSIZE,
           t.brk \in Nat, t.brk <= MAX_ADDR
    PROVE  /\ ToInt(m) = m
           /\ sbrk_refuses(t.brk, m, MAX_ADDR) <=> t.brk + m > MAX_ADDR
           /\ t.brk + m > MAX_ADDR => W!mem_sbrk(t, m) = [s |-> t, p |-> NULL]
           /\ t.brk + m <= MAX_ADDR =>
                 W!mem_sbrk(t, m) = [s |-> [t EXCEPT !.brk = t.brk + m], p |-> t.brk]
<1>1. /\ MaxRequest \in Nat /\ WSIZE \in Nat /\ CHUNKSIZE \in Nat
      /\ MAX_ADDR \in Nat /\ SIZE_MOD \in Nat /\ INT_MOD \in Nat
      /\ MAX_ADDR + MaxRequest + CHUNKSIZE + 8 * WSIZE < SIZE_MOD
      /\ 2 * (MaxRequest + CHUNKSIZE + 8 * WSIZE) < INT_MOD
  BY GeometryAssumption, BlocksAssumption DEF MAX_ADDR
<1>2. ToInt(m) = m
  BY <1>1, IntConversion
<1>3. t.brk + m < SIZE_MOD
  BY <1>1
<1>4. sbrk_refuses(t.brk, m, MAX_ADDR) <=> t.brk + m > MAX_ADDR
  BY <1>1, <1>3, SbrkRefuses
<1>5. Wrap(t.brk + m) = t.brk + m
  BY <1>1, <1>3 DEF Wrap
<1>6. W!mem_sbrk(t, m) = IF sbrk_refuses(t.brk, m, MAX_ADDR) THEN [s |-> t, p |-> NULL]
                         ELSE [s |-> [t EXCEPT !.brk = Wrap(t.brk + m)], p |-> t.brk]
  BY SameNumbers, SameFunctions DEF W!mem_sbrk
<1>7. /\ t.brk + m > MAX_ADDR => W!mem_sbrk(t, m) = [s |-> t, p |-> NULL]
      /\ t.brk + m <= MAX_ADDR =>
            W!mem_sbrk(t, m) = [s |-> [t EXCEPT !.brk = t.brk + m], p |-> t.brk]
  <2>1. t.brk + m \in Nat /\ MAX_ADDR \in Nat
    BY <1>1
  <2> QED
    BY <1>4, <1>5, <1>6, <2>1
<1> QED
  BY <1>2, <1>4, <1>7

\* extend_heap extends both, or fails for both.
LEMMA ExtendWords ==
    ASSUME NEW h, NEW t, Mirrors(t, h), NEW n \in Nat, NEW m, m = ExtendBytes(n),
           m \in Nat, m % 8 = 0, m >= MIN_BLOCK_SIZE,
           m <= MaxRequest + CHUNKSIZE + 8 * WSIZE,
           NEW r, r = W!extend_heap(t, n), NEW c, c = extend_heap(h, n)
    PROVE  /\ extend_fails(h, n) => r = [s |-> t, p |-> NULL]
           /\ ~extend_fails(h, n) => /\ r.p = c.p
                                     /\ r.p # NULL
                                     /\ Shows(r.s, c.h)
                                     /\ Ready(c.h, c.p)
                                     /\ SameUsed(h, c.h)
                                     /\ c.h.size[c.p] >= m
                                     /\ Kept(t, r.s, h)
<1>1. /\ WF(h) /\ Sound(h) /\ t.brk = h.brk /\ h.brk \in Nat /\ h.brk <= MAX_ADDR
      /\ h.used \subseteq Blocks(h)
  BY DEF Mirrors, Shows, Sound, HeapType, Tiled
<1>2. /\ ToInt(m) = m
      /\ sbrk_refuses(h.brk, m, MAX_ADDR) <=> h.brk + m > MAX_ADDR
      /\ h.brk + m > MAX_ADDR => W!mem_sbrk(t, m) = [s |-> t, p |-> NULL]
      /\ h.brk + m <= MAX_ADDR =>
            W!mem_sbrk(t, m) = [s |-> [t EXCEPT !.brk = h.brk + m], p |-> h.brk]
  BY <1>1, SbrkWords
<1>3. extend_fails(h, n) <=> h.brk + m > MAX_ADDR
  BY <1>2 DEF extend_fails
<1>4. W!ExtendBytes(n) = m /\ W!ToInt(m) = m
  BY <1>2, SameFunctions
<1>5. r = IF W!mem_sbrk(t, m).p = NULL THEN W!mem_sbrk(t, m)
          ELSE W!coalesce(W!SetEpilogue(W!SetTags(W!mem_sbrk(t, m).s, W!mem_sbrk(t, m).p, m, 0),
                                        W!mem_sbrk(t, m).p),
                          W!mem_sbrk(t, m).p)
  BY <1>4, SameNumbers DEF W!extend_heap
<1>6. CASE extend_fails(h, n)
  BY <1>2, <1>3, <1>5, <1>6
<1>7. CASE ~extend_fails(h, n)
  <2> DEFINE g == Grown(h, m)
             t1 == [t EXCEPT !.brk = h.brk + m]
             u == W!SetEpilogue(W!SetTags(t1, h.brk, m, 0), h.brk)
  <2>0. g = Grown(h, m) /\ t1 = [t EXCEPT !.brk = h.brk + m]
        /\ u = W!SetEpilogue(W!SetTags(t1, h.brk, m, 0), h.brk)
    OBVIOUS
  <2>1. h.brk + m <= MAX_ADDR
    <3>1. MAX_ADDR \in Nat
      BY WordSizes
    <3> QED
      BY <1>1, <1>3, <1>7, <3>1
  <2>2. W!mem_sbrk(t, m) = [s |-> t1, p |-> h.brk]
    BY <1>2, <2>1
  <2>3. h.brk # NULL
    <3>1. FIRST \in Blocks(h)
      BY <1>1 DEF Sound, Tiled
    <3>2. FIRST + 4 * WSIZE <= EndOf(h, FIRST) /\ EndOf(h, FIRST) <= h.brk
          /\ EndOf(h, FIRST) \in Nat
      BY <1>1, <3>1, BlockWords
    <3> QED
      BY <1>1, <3>2, WordSizes DEF NULL
  <2>4. c = coalesce(g, h.brk)
    BY DEF extend_heap
  <2>5. r = W!coalesce(u, h.brk)
    BY <1>5, <2>2, <2>3
  <2> HIDE DEF g, t1, u
  <2>6. /\ Shows(u, g) /\ Kept(t, u, h)
        /\ h.brk \in Free(g) /\ h.brk \notin g.listed
        /\ \A x \in Free(g) : x = h.brk \/ Removable(u, g, x)
    BY <2>0, <2>1, GrowWords
  <2>7. r.p = c.p /\ Shows(r.s, c.h) /\ Kept(u, r.s, g)
    BY <2>4, <2>5, <2>6, CoalesceWords
  <2>8. Ready(c.h, c.p) /\ SameUsed(h, c.h) /\ c.h.size[c.p] >= m
    BY <1>1, <2>0, <2>1, <2>4, ExtendDone
  <2>9. Kept(u, r.s, h)
    <3>1. /\ g.used = h.used
          /\ \A x \in Blocks(h) : g.size[x] = h.size[x]
      BY <1>1, <2>0, <2>1, GrownSound
    <3>2. \A x \in h.used : h.size[x] = g.size[x]
      BY <1>1, <3>1
    <3> QED
      BY <2>7, <3>1, <3>2, KeptIn
  <2>10. Kept(t, r.s, h)
    BY <2>6, <2>9, KeptTrans
  <2>11. c.p # NULL
    <3>1. Sound(c.h) /\ c.p \in Blocks(c.h)
      BY <2>8 DEF Ready, Free
    <3> QED
      BY <3>1, BlockNotNull
  <2> QED
    BY <1>7, <2>7, <2>8, <2>10, <2>11
<1> QED
  BY <1>6, <1>7

\* insert_node puts a free block on the list.
LEMMA InsertShows ==
    ASSUME NEW h, NEW t, Shows(t, h), NEW b \in Free(h), b \notin h.listed,
           NEW g, g = insert_node(h, b), NEW u, u = W!insert_node(t, b)
    PROVE  Shows(u, g) /\ Kept(t, u, h)
<1> DEFINE L == h.listed
           M == L \cup {b}
<1>1. /\ Sound(h) /\ Good(t) /\ t.brk = h.brk /\ Tags(t, h) /\ Linked(t, L)
      /\ b \in Blocks(h) /\ b \notin L /\ L \subseteq Blocks(h)
      /\ h.used \subseteq Blocks(h)
      /\ M \subseteq Blocks(h) /\ M \cap h.used = {}
      /\ g = Heap(h.size, h.used, M, h.brk)
  BY DEF Shows, Sound, HeapType, Free, insert_node
<1> HIDE DEF M, L
<1>2. Relabeled(h, g, h.used, M)
  BY <1>1, RelabelHeap
<1>3. Spaced(M)
  BY <1>1, BlocksSpaced
<1>4. LinksOnly(t, u, M) /\ Linked(u, M)
  <2>1. M = L \cup {b}
    BY DEF M
  <2> QED
    BY <1>1, <1>3, <2>1, InsertLinked
<1>5. Tags(u, h) /\ Kept(t, u, h)
  BY <1>1, <1>4, LinksAside
<1>6. Tags(u, g)
  BY <1>2, <1>5 DEF Tags, Edges, Tagged, Tag, Alloc, Relabeled
<1>7. Shows(u, g)
  <2>1. Sound(g) /\ g.listed = M /\ g.used = h.used
    BY <1>2 DEF Relabeled
  <2>2. Good(u) /\ u.brk = g.brk
    BY <1>1, <1>2, <1>4 DEF LinksOnly, Relabeled
  <2> QED
    BY <1>1, <1>4, <1>6, <2>1, <2>2 DEF Shows
<1> QED
  BY <1>5, <1>7

\* It completes the list.
LEMMA InsertWords ==
    ASSUME NEW h, NEW t, Shows(t, h), NEW b, Ready(h, b),
           NEW g, g = insert_node(h, b), NEW u, u = W!insert_node(t, b)
    PROVE  /\ Mirrors(u, g) /\ g.listed = Free(g) /\ Free(g) = Free(h)
           /\ g.size = h.size /\ g.used = h.used
           /\ Kept(t, u, h)
<1>1. WF(g) /\ g.listed = Free(g) /\ Free(g) = Free(h) /\ g.size = h.size
      /\ g.used = h.used
  BY InsertDone DEF SameUsed
<1>2. b \in Free(h) /\ b \notin h.listed
  BY DEF Ready
<1>3. Shows(u, g) /\ Kept(t, u, h)
  BY <1>2, InsertShows
<1>4. \A x \in Free(g) : Removable(u, g, x)
  BY <1>1 DEF Removable
<1> QED
  BY <1>1, <1>3, <1>4 DEF Mirrors

\* The tags that place writes, before the rest of a split block is listed.
LEMMA TakeWords ==
    ASSUME NEW h, NEW t, Shows(t, h), NEW b \in h.listed,
           NEW k, k = SetUsed(remove_node(h, b), b),
           NEW u, u = W!Unlink(t, b, W!GET_SUCC(t, b))
    PROVE  /\ Relabeled(h, k, h.used \cup {b}, h.listed \ {b})
           /\ Good(u) /\ u.brk = h.brk /\ Edges(u, k)
           /\ \A x \in Blocks(k) \ {b} : Tagged(u, k, x)
           /\ Linked(u, k.listed)
           /\ Kept(t, u, h)
<1>1. /\ Sound(h) /\ t.brk = h.brk
      /\ b \in Free(h) /\ b \in Blocks(h)
      /\ h.used \cup {b} \subseteq Blocks(h) /\ h.listed \ {b} \subseteq Blocks(h)
      /\ k = Heap(h.size, h.used \cup {b}, h.listed \ {b}, h.brk)
  BY DEF Shows, Sound, HeapType, Free, SetUsed, remove_node, Heap
<1>2. Relabeled(h, k, h.used \cup {b}, h.listed \ {b})
  BY <1>1, RelabelHeap
<1>3. Detached(t, u, h, b)
  <2>1. Removable(t, h, b)
    BY DEF Removable
  <2> QED
    BY <1>1, <2>1, Detach
<1>4. /\ Good(u) /\ u.brk = h.brk /\ Tags(u, h) /\ Kept(t, u, h)
      /\ Linked(u, h.listed \ {b})
  BY <1>1, <1>3 DEF Detached
<1>5. Edges(u, k) /\ Linked(u, k.listed)
  BY <1>2, <1>4 DEF Tags, Edges, Relabeled
<1>6. ASSUME NEW x \in Blocks(k), x # b PROVE Tagged(u, k, x)
  <2>1. Alloc(k, x) = Alloc(h, x)
    BY <1>2, <1>6 DEF Alloc, Relabeled
  <2> QED
    BY <1>2, <1>4, <2>1 DEF Tags, Tagged, Tag, Relabeled
<1> QED
  BY <1>2, <1>4, <1>5, <1>6

\* place allocates the block in the words as it does in the heap.
LEMMA PlaceWords ==
    ASSUME NEW h, NEW t, Shows(t, h), NoNeighbours(h), h.listed = Free(h),
           NEW b \in h.listed,
           NEW a \in Nat, a % 8 = 0, a >= MIN_BLOCK_SIZE, h.size[b] >= a,
           NEW g, g = place(h, b, a), NEW u, u = W!place(t, b, a)
    PROVE  Mirrors(u, g) /\ Kept(t, u, h)
<1> DEFINE k == SetUsed(remove_node(h, b), b)
           t1 == W!Unlink(t, b, W!GET_SUCC(t, b))
           csize == h.size[b]
<1>1. /\ Sound(h) /\ Good(t) /\ Tags(t, h) /\ b \in Blocks(h) /\ b \notin h.used
      /\ h.listed \cap h.used = {} /\ h.used \subseteq Blocks(h)
  BY DEF Shows, Sound, HeapType, Free
<1>2. csize \in Nat /\ b \in Nat /\ MIN_BLOCK_SIZE \in Nat /\ csize % 8 = 0
      /\ EndOf(h, b) = b + csize
  BY <1>1, BlockFacts, WordSizes
<1>3. W!GET_SIZE(t, W!HDRP(b)) = csize
  BY <1>1, ReadBlock
<1>4. u = IF csize - a >= MIN_BLOCK_SIZE
          THEN W!SplitRest(W!SetTags(t1, b, a, 1), b + a, csize - a)
          ELSE W!SetTags(t1, b, csize, 1)
  BY <1>3, SameNumbers DEF W!place, W!PlaceIn
<1>5. /\ Relabeled(h, k, h.used \cup {b}, h.listed \ {b})
      /\ Good(t1) /\ t1.brk = h.brk /\ Edges(t1, k)
      /\ \A x \in Blocks(k) \ {b} : Tagged(t1, k, x)
      /\ Linked(t1, k.listed)
      /\ Kept(t, t1, h)
  BY TakeWords
<1>6. g = IF csize - a >= MIN_BLOCK_SIZE THEN insert_node(Split(k, b, a), b + a) ELSE k
  BY DEF place, can_split
<1> HIDE DEF k, t1, csize
<1>7. /\ Sound(k) /\ Blocks(k) = Blocks(h) /\ k.size = h.size
      /\ k.used = h.used \cup {b} /\ k.listed = h.listed \ {b} /\ k.brk = h.brk
      /\ \A x : EndOf(k, x) = EndOf(h, x)
      /\ k.listed \cap k.used = {}
      /\ b \in Blocks(k)
  BY <1>1, <1>5 DEF Relabeled
<1>8. WF(g) /\ g.used = h.used \cup {b} /\ \A x \in h.used : g.size[x] = h.size[x]
  BY <1>1, PlaceDone
<1>9. \A x \in Free(g) : Removable(u, g, x)
  <2>1. g.listed = Free(g)
    BY <1>8 DEF WF, ListExact
  <2> QED
    BY <2>1 DEF Removable
<1>10. CASE ~(csize - a >= MIN_BLOCK_SIZE)
  <2>1. g = k /\ u = W!SetTags(t1, b, k.size[b], Alloc(k, b))
    BY <1>4, <1>6, <1>7, <1>10 DEF Alloc, csize
  <2>2. /\ Good(u)
        /\ u.brk = t1.brk /\ u.head = t1.head /\ u.rover = t1.rover
        /\ Tags(u, k)
        /\ Kept(t1, u, k)
        /\ \A x \in Blocks(k) : /\ W!GET(u, x) = W!GET(t1, x)
                                /\ W!GET(u, x + WSIZE) = W!GET(t1, x + WSIZE)
    BY <1>5, <1>7, <2>1, Retag
  <2>3. Linked(u, k.listed)
    <3>1. u.rover \in k.listed \cup {NULL, t1.rover} /\ k.listed \subseteq Blocks(k)
      BY <1>7, <2>2 DEF Sound, HeapType
    <3> QED
      BY <1>5, <2>2, <3>1, LinkedSame
  <2>4. Kept(t1, u, h)
    <3>1. h.used \subseteq k.used /\ \A x \in h.used : h.size[x] = k.size[x]
      BY <1>7
    <3> QED
      BY <2>2, <3>1, KeptIn
  <2>5. Kept(t, u, h)
    BY <1>5, <2>4, KeptTrans
  <2>6. Shows(u, k)
    BY <1>5, <1>7, <2>2, <2>3 DEF Shows
  <2> QED
    BY <1>8, <1>9, <2>1, <2>5, <2>6 DEF Mirrors
<1>11. CASE csize - a >= MIN_BLOCK_SIZE
  <2> DEFINE z == b + a
             k2 == Split(k, b, a)
             t2 == W!SetTags(t1, b, a, 1)
             t3 == W!SetTags(t2, z, csize - a, 0)
  <2>1. /\ Sound(k2)
        /\ z \notin Blocks(k)
        /\ Blocks(k2) = Blocks(k) \cup {z}
        /\ k2.used = k.used /\ k2.listed = k.listed /\ k2.brk = k.brk
        /\ \A x \in Blocks(k) :
              x # b => k2.size[x] = k.size[x] /\ EndOf(k2, x) = EndOf(k, x)
        /\ k2.size[b] = a /\ EndOf(k2, b) = z
        /\ EndOf(k2, z) = EndOf(k, b)
    <3>1. k.size[b] - a >= MIN_BLOCK_SIZE
      BY <1>7, <1>11 DEF csize
    <3> QED
      BY <1>7, <3>1, SplitSound
  <2>2. g = insert_node(k2, z) /\ u = W!insert_node(t3, z)
    BY <1>4, <1>6, <1>11 DEF W!SplitRest
  <2> HIDE DEF k2, z
  <2>3. b \in Blocks(k2) /\ z \in Blocks(k2) /\ z # b /\ z \notin k2.used /\ z \notin k2.listed
    BY <1>7, <2>1 DEF Sound, HeapType
  <2>4. k2.size[z] = csize - a
    <3>1. EndOf(k2, z) = z + k2.size[z] /\ k2.size[z] \in Nat
      BY <2>1, <2>3, BlockFacts
    <3>2. EndOf(k2, z) = b + csize
      BY <1>2, <1>7, <2>1
    <3> QED
      BY <1>2, <3>1, <3>2 DEF z
  <2>5. Alloc(k2, b) = 1 /\ Alloc(k2, z) = 0
    BY <1>7, <2>1, <2>3 DEF Alloc
  <2>6. TagsOf(t1, t2, k2, b)
    BY <1>5, <2>1, <2>3, <2>5, TagBlock
  <2>7. Good(t2)
    BY <2>6 DEF TagsOf
  <2>8. TagsOf(t2, t3, k2, z)
    BY <2>1, <2>3, <2>4, <2>5, <2>7, TagBlock
  <2> HIDE DEF t2, t3
  <2>9. ASSUME NEW x \in Blocks(k2) PROVE Tagged(t3, k2, x)
    <3>1. CASE x = z
      BY <2>8, <3>1 DEF TagsOf
    <3>2. CASE x = b
      BY <2>3, <2>6, <2>8, <3>2 DEF TagsOf
    <3>3. CASE x # z /\ x # b
      <4>1. x \in Blocks(k) /\ k2.size[x] = k.size[x] /\ EndOf(k2, x) = EndOf(k, x)
            /\ Alloc(k2, x) = Alloc(k, x)
        BY <2>1, <3>3 DEF Alloc
      <4>2. Tagged(t1, k2, x)
        BY <1>5, <3>3, <4>1 DEF Tagged, Tag
      <4> QED
        BY <2>6, <2>8, <4>2 DEF TagsOf
    <3> QED
      BY <3>1, <3>2, <3>3
  <2>10. Edges(t3, k2)
    <3>1. Edges(t1, k2)
      BY <1>5, <2>1 DEF Edges
    <3> QED
      BY <2>6, <2>8, <3>1 DEF TagsOf
  <2>11. Linked(t3, k2.listed)
    <3>1. /\ t3.head = t1.head /\ t3.rover = t1.rover
          /\ \A x \in Blocks(k2) : /\ W!GET(t3, x) = W!GET(t1, x)
                                  /\ W!GET(t3, x + WSIZE) = W!GET(t1, x + WSIZE)
      BY <2>6, <2>8 DEF TagsOf
    <3>2. t3.rover \in k2.listed \cup {NULL, t1.rover} /\ k2.listed \subseteq Blocks(k2)
          /\ Linked(t1, k2.listed)
      BY <1>5, <2>1, <3>1 DEF Sound, HeapType
    <3> QED
      BY <3>1, <3>2, LinkedSame
  <2>12. Shows(t3, k2)
    <3>1. Good(t3) /\ t3.brk = k2.brk
      BY <1>5, <1>7, <2>1, <2>6, <2>8 DEF TagsOf
    <3>2. k2.listed \cap k2.used = {}
      BY <1>7, <2>1
    <3> QED
      BY <2>1, <2>9, <2>10, <2>11, <3>1, <3>2 DEF Shows, Tags
  <2>13. Shows(u, g) /\ Kept(t3, u, k2)
    <3>1. z \in Free(k2)
      BY <2>3 DEF Free
    <3> QED
      BY <2>2, <2>3, <2>12, <3>1, InsertShows
  <2>14. Kept(t1, u, k2)
    <3>1. Kept(t1, t2, k2) /\ Kept(t2, t3, k2)
      BY <2>6, <2>8 DEF TagsOf
    <3> QED
      BY <2>13, <3>1, KeptTrans
  <2>15. Kept(t1, u, h)
    <3>1. h.used \subseteq k2.used /\ \A x \in h.used : h.size[x] = k2.size[x]
      BY <1>1, <1>7, <2>1
    <3> QED
      BY <2>14, <3>1, KeptIn
  <2>16. Kept(t, u, h)
    BY <1>5, <2>15, KeptTrans
  <2> QED
    BY <1>8, <1>9, <2>13, <2>16 DEF Mirrors
<1> QED
  BY <1>10, <1>11

-----------------------------------------------------------------------------
(* mm_malloc.                                                              *)

\* The statics and the break aside, the words are the same.
LEMMA SameWords ==
    ASSUME NEW h, NEW t, Mirrors(t, h), NEW u, Good(u), u.brk = t.brk,
           \A a : W!GET(u, a) = W!GET(t, a), Linked(u, h.listed)
    PROVE  Mirrors(u, h) /\ Kept(t, u, h)
<1>1. Tags(u, h)
  <2>1. Tags(t, h)
    BY DEF Mirrors, Shows
  <2> QED
    BY <2>1 DEF Tags, Edges, Tagged
<1>2. \A x \in Free(h) : Removable(u, h, x)
  <2>1. \A x \in Free(h) : Removable(t, h, x)
    BY DEF Mirrors
  <2> QED
    BY <2>1 DEF Removable, Bare
<1>3. Kept(t, u, h)
  BY DEF Kept
<1> QED
  BY <1>1, <1>2, <1>3 DEF Mirrors, Shows

\* How far a request can make the heap grow.
LEMMA RequestBound ==
    ASSUME NEW n \in 0 .. MaxRequest,
           NEW ext, ext = MaxOf(adjust_block(n), CHUNKSIZE)
    PROVE  ext \in Nat /\ ExtendBytes(ext) <= MaxRequest + CHUNKSIZE + 8 * WSIZE
<1> DEFINE asize == adjust_block(n)
<1>1. /\ n \in Nat /\ n <= MaxRequest /\ MaxRequest \in Nat
      /\ WSIZE \in Nat /\ CHUNKSIZE \in Nat /\ CHUNKSIZE % 8 = 0 /\ WSIZE >= 4
      /\ n + 4 * WSIZE < SIZE_MOD
  <2>1. /\ MAX_ADDR \in Nat /\ SIZE_MOD \in Nat
        /\ MAX_ADDR + MaxRequest + CHUNKSIZE + 8 * WSIZE < SIZE_MOD
    BY GeometryAssumption, BlocksAssumption DEF MAX_ADDR
  <2> QED
    BY <2>1, GeometryAssumption, BlocksAssumption
<1>2. asize \in Nat /\ asize % 8 = 0 /\ asize <= n + 5 * WSIZE
  BY <1>1, AdjustBlock
<1> HIDE DEF asize
<1>3. ext = MaxOf(asize, CHUNKSIZE)
  BY DEF asize
<1>4. ext \in Nat /\ ext % 8 = 0 /\ ext <= MaxRequest + CHUNKSIZE + 5 * WSIZE
  BY <1>1, <1>2, <1>3 DEF MaxOf
<1> DEFINE m == ExtendBytes(ext)
<1>5. m \in Nat /\ m <= ext + 8
  BY <1>4, Extension
<1> HIDE DEF m
<1>6. m <= MaxRequest + CHUNKSIZE + 8 * WSIZE
  BY <1>1, <1>4, <1>5
<1> QED
  BY <1>4, <1>6 DEF m

\* find_fit in the words finds what find_fit of the blocks may return.
LEMMA FitWords ==
    ASSUME NEW h, NEW t, Mirrors(t, h), NEW asize,
           NEW f, f = W!find_fit(t, asize)
    PROVE  /\ Mirrors(f.s, h) /\ Kept(t, f.s, h) /\ f.s.status = "ok"
           /\ IF find_fit(h, asize) = {} THEN f.p = NULL ELSE f.p \in find_fit(h, asize)
<1> DEFINE L == h.listed
<1>1. /\ Sound(h) /\ Good(t) /\ Tags(t, h) /\ Linked(t, L) /\ L \subseteq Blocks(h)
  BY DEF Mirrors, Shows, Sound, HeapType
<1>2. \A b \in L : Fits(t, asize, b) <=> h.size[b] >= asize
  BY <1>1, ReadBlock DEF Fits
<1> HIDE DEF L
<1>3. Spaced(L)
  BY <1>1, BlocksSpaced
<1>4. /\ Good(f.s) /\ f.s.mem = t.mem /\ f.s.brk = t.brk
      /\ \A a : W!GET(f.s, a) = W!GET(t, a)
      /\ Linked(f.s, L)
      /\ IF \E b \in L : Fits(t, asize, b) THEN f.p \in L /\ Fits(t, asize, f.p)
                                           ELSE f.p = NULL
  BY <1>1, <1>3, FindFit
<1>5. Mirrors(f.s, h) /\ Kept(t, f.s, h)
  <2>1. Good(f.s) /\ f.s.brk = t.brk /\ Linked(f.s, h.listed)
    BY <1>4 DEF L
  <2>2. \A a : W!GET(f.s, a) = W!GET(t, a)
    BY <1>4
  <2> DEFINE v == f.s
  <2> HIDE DEF v
  <2>3. Good(v) /\ v.brk = t.brk /\ Linked(v, h.listed) /\ \A a : W!GET(v, a) = W!GET(t, a)
    BY <2>1, <2>2 DEF v
  <2>4. Mirrors(v, h) /\ Kept(t, v, h)
    BY <2>3, SameWords
  <2> QED
    BY <2>4 DEF v
<1>6. f.s.status = "ok"
  BY <1>4 DEF Good
<1>7. find_fit(h, asize) = {b \in L : h.size[b] >= asize}
  BY DEF find_fit, L
<1>8. IF find_fit(h, asize) = {} THEN f.p = NULL ELSE f.p \in find_fit(h, asize)
  BY <1>2, <1>4, <1>7
<1> QED
  BY <1>5, <1>6, <1>8

\* mm_malloc does to the words what it does to the blocks.
LEMMA MallocWords ==
    ASSUME NEW h, NEW t, Mirrors(t, h), NEW n \in 0 .. MaxRequest,
           NEW r, r = W!mm_malloc(t, n)
    PROVE  \E q \in mm_malloc(h, n) : /\ r.p = q.p
                                      /\ Mirrors(r.s, q.h)
                                      /\ Kept(t, r.s, h)
<1> DEFINE asize == adjust_block(n)
           ext == MaxOf(asize, CHUNKSIZE)
           m == ExtendBytes(ext)
           f == W!find_fit(t, asize)
<1>1. WF(h) /\ Sound(h) /\ NoNeighbours(h) /\ h.used \subseteq Blocks(h)
  BY DEF Mirrors, WF, Sound, HeapType
<1>2. /\ asize \in Nat /\ asize % 8 = 0 /\ asize >= MIN_BLOCK_SIZE
      /\ m \in Nat /\ m % 8 = 0 /\ m >= asize
      /\ ~extend_fails(h, ext) => h.brk + m <= MAX_ADDR
  BY <1>1, RequestFacts
<1>3. ext \in Nat /\ m <= MaxRequest + CHUNKSIZE + 8 * WSIZE
  BY RequestBound
<1>4. mm_malloc(h, n) =
         IF n = 0 THEN {[h |-> h, p |-> NULL]}
         ELSE IF find_fit(h, asize) # {}
         THEN {[h |-> place(h, b, asize), p |-> b] : b \in find_fit(h, asize)}
         ELSE IF extend_fails(h, ext) THEN {[h |-> h, p |-> NULL]}
         ELSE {[h |-> place(insert_node(extend_heap(h, ext).h, extend_heap(h, ext).p),
                            extend_heap(h, ext).p, asize),
                p |-> extend_heap(h, ext).p]}
  BY DEF mm_malloc
<1>5. r = IF n = 0 THEN [s |-> t, p |-> NULL]
          ELSE W!malloc_from_fit(f, asize)
  BY SameNumbers, SameFunctions DEF W!mm_malloc
<1>6. /\ Mirrors(f.s, h) /\ Kept(t, f.s, h) /\ f.s.status = "ok"
      /\ IF find_fit(h, asize) = {} THEN f.p = NULL ELSE f.p \in find_fit(h, asize)
  BY FitWords
<1> DEFINE e == W!extend_heap(f.s, ext)
<1>7. W!malloc_from_fit(f, asize) =
         IF f.p # NULL THEN [s |-> W!place(f.s, f.p, asize), p |-> f.p]
         ELSE IF e.p = NULL THEN e
         ELSE [s |-> W!place(W!insert_node(e.s, e.p), e.p, asize), p |-> e.p]
  <2>1. W!MaxOf(asize, CHUNKSIZE) = ext
    BY SameFunctions
  <2> QED
    BY <1>6, <2>1, SameNumbers DEF W!malloc_from_fit, W!malloc_from_grown
<1> HIDE DEF asize, ext, m, f, e
<1>8. CASE n = 0
  <2>1. Kept(t, t, h)
    BY DEF Kept
  <2> QED
    BY <1>4, <1>5, <1>8, <2>1
<1>9. CASE n # 0 /\ find_fit(h, asize) # {}
  <2> DEFINE b == f.p
             v == f.s
             u == W!place(v, b, asize)
  <2>1. /\ b \in find_fit(h, asize) /\ b \in h.listed /\ h.size[b] >= asize
        /\ b \in Blocks(h)
    BY <1>1, <1>6, <1>9 DEF find_fit, Sound, HeapType
  <2>2. b # NULL
    BY <1>1, <2>1, BlockNotNull
  <2>3. h.listed = Free(h)
    BY <1>1, <2>1 DEF WF, ListExact
  <2>4. r = [s |-> u, p |-> b]
    BY <1>5, <1>7, <1>9, <2>2
  <2>5. Shows(v, h) /\ Kept(t, v, h)
    BY <1>6 DEF Mirrors
  <2> HIDE DEF b, v, u
  <2>6. u = W!place(v, b, asize)
    BY DEF u
  <2>7. Mirrors(u, place(h, b, asize)) /\ Kept(v, u, h)
    BY <1>1, <1>2, <2>1, <2>3, <2>5, <2>6, PlaceWords
  <2>8. Kept(t, u, h)
    BY <2>5, <2>7, KeptTrans
  <2>9. [h |-> place(h, b, asize), p |-> b] \in mm_malloc(h, n)
    BY <1>4, <1>9, <2>1
  <2> QED
    BY <2>4, <2>7, <2>8, <2>9
<1>10. ASSUME n # 0, find_fit(h, asize) = {}
       PROVE  \E q \in mm_malloc(h, n) : /\ r.p = q.p
                                         /\ Mirrors(r.s, q.h)
                                         /\ Kept(t, r.s, h)
  <2> DEFINE c == extend_heap(h, ext)
             v == f.s
  <2>1. f.p = NULL /\ Mirrors(v, h) /\ Kept(t, v, h)
    BY <1>6, <1>10
  <2>2. m >= MIN_BLOCK_SIZE
    BY <1>2, WordSizes
  <2>3. m = ExtendBytes(ext) /\ e = W!extend_heap(v, ext) /\ c = extend_heap(h, ext)
    BY DEF m, e
  <2> HIDE DEF v, c
  <2>4. /\ extend_fails(h, ext) => e = [s |-> v, p |-> NULL]
        /\ ~extend_fails(h, ext) => /\ e.p = c.p
                                    /\ e.p # NULL
                                    /\ Shows(e.s, c.h)
                                    /\ Ready(c.h, c.p)
                                    /\ SameUsed(h, c.h)
                                    /\ c.h.size[c.p] >= m
                                    /\ Kept(v, e.s, h)
    BY <1>2, <1>3, <2>1, <2>2, <2>3, ExtendWords
  <2>5. r = IF e.p = NULL THEN e
            ELSE [s |-> W!place(W!insert_node(e.s, e.p), e.p, asize), p |-> e.p]
    BY <1>5, <1>7, <1>10, <2>1
  <2>6. CASE extend_fails(h, ext)
    <3>1. r = [s |-> v, p |-> NULL]
      BY <2>4, <2>5, <2>6
    <3>2. [h |-> h, p |-> NULL] \in mm_malloc(h, n)
      BY <1>4, <1>10, <2>6
    <3> QED
      BY <2>1, <3>1, <3>2
  <2>7. CASE ~extend_fails(h, ext)
    <3> DEFINE b == c.p
               x == e.s
               k == insert_node(c.h, b)
               w == W!insert_node(x, b)
               u == W!place(w, b, asize)
    <3>1. r = [s |-> u, p |-> b]
      BY <2>4, <2>5, <2>7
    <3>2. [h |-> place(k, b, asize), p |-> b] \in mm_malloc(h, n)
      BY <1>4, <1>10, <2>3, <2>7
    <3>3. /\ Shows(x, c.h) /\ Ready(c.h, b) /\ SameUsed(h, c.h) /\ c.h.size[b] >= m
          /\ Kept(v, x, h)
      BY <2>4, <2>7
    <3>4. k = insert_node(c.h, b) /\ w = W!insert_node(x, b) /\ u = W!place(w, b, asize)
      OBVIOUS
    <3> HIDE DEF b, x, k, w, u
    <3>5. /\ Mirrors(w, k) /\ k.listed = Free(k) /\ Free(k) = Free(c.h)
          /\ k.size = c.h.size /\ k.used = c.h.used
          /\ Kept(x, w, c.h)
      BY <3>3, <3>4, InsertWords
    <3>6. Shows(w, k) /\ NoNeighbours(k) /\ b \in k.listed
      BY <3>3, <3>5 DEF Mirrors, WF, Ready
    <3>7. k.size[b] >= asize
      <4>1. b \in Blocks(c.h) /\ Sound(c.h)
        BY <3>3 DEF Ready, Free
      <4>2. c.h.size[b] \in Nat
        BY <4>1, BlockFacts
      <4> QED
        BY <1>2, <3>3, <3>5, <4>2
    <3>8. Mirrors(u, place(k, b, asize)) /\ Kept(w, u, k)
      BY <1>2, <3>4, <3>5, <3>6, <3>7, PlaceWords
    <3>9. Kept(x, w, h) /\ Kept(w, u, h)
      <4>1. /\ h.used = c.h.used /\ h.used = k.used
            /\ \A y \in h.used : h.size[y] = c.h.size[y] /\ h.size[y] = k.size[y]
        BY <3>3, <3>5 DEF SameUsed
      <4>2. Kept(x, w, h)
        BY <3>5, <4>1, KeptIn
      <4>3. Kept(w, u, h)
        BY <3>8, <4>1, KeptIn
      <4> QED
        BY <4>2, <4>3
    <3>10. Kept(t, u, h)
      BY <2>1, <3>3, <3>9, KeptTrans
    <3> QED
      BY <3>1, <3>2, <3>8, <3>10
  <2> QED
    BY <2>6, <2>7
<1> QED
  BY <1>8, <1>9, <1>10

-----------------------------------------------------------------------------
(* mm_free.                                                                *)

\* The block is free, with the tags to say so, and not yet merged or listed.
LEMMA FreedWords ==
    ASSUME NEW h, NEW t, Mirrors(t, h), NEW b \in h.used,
           NEW k, k = SetFree(h, b),
           NEW u, u = W!SetTags(t, b, W!GET_SIZE(t, W!HDRP(b)), 0)
    PROVE  /\ Pending(k, b)
           /\ k.used = h.used \ {b} /\ k.size = h.size
           /\ Shows(u, k) /\ Kept(t, u, k)
           /\ b \in Free(k) /\ b \notin k.listed
           /\ \A x \in Free(k) : x = b \/ Removable(u, k, x)
<1>1. /\ WF(h) /\ Sound(h) /\ Good(t) /\ t.brk = h.brk /\ Tags(t, h) /\ Linked(t, h.listed)
      /\ h.used \subseteq Blocks(h) /\ h.listed \subseteq Blocks(h)
      /\ b \in Blocks(h) /\ h.listed = Free(h)
      /\ h.used \ {b} \subseteq Blocks(h)
      /\ k = Heap(h.size, h.used \ {b}, h.listed, h.brk)
  BY DEF Mirrors, Shows, WF, Sound, HeapType, ListExact, SetFree
<1>2. Relabeled(h, k, h.used \ {b}, h.listed)
  BY <1>1, RelabelHeap
<1>3. /\ Sound(k) /\ Blocks(k) = Blocks(h) /\ k.size = h.size
      /\ k.used = h.used \ {b} /\ k.listed = h.listed /\ k.brk = h.brk
      /\ \A x : EndOf(k, x) = EndOf(h, x)
  BY <1>2 DEF Relabeled
<1>4. Free(k) = Free(h) \cup {b} /\ b \notin Free(h)
  BY <1>1, <1>3 DEF Free
<1>5. Pending(k, b)
  <2>1. ASSUME NEW x \in Free(k), EndOf(k, x) \in Free(k)
        PROVE  x = b \/ EndOf(k, x) = b
    BY <1>1, <1>3, <1>4, <2>1 DEF WF, NoNeighbours
  <2>2. k.listed = Free(k) \ {b}
    BY <1>1, <1>3, <1>4
  <2> QED
    BY <1>3, <1>4, <2>1, <2>2 DEF Pending
<1>6. W!GET_SIZE(t, W!HDRP(b)) = h.size[b]
  BY <1>1, ReadBlock
<1>7. u = W!SetTags(t, b, k.size[b], Alloc(k, b))
  BY <1>3, <1>6 DEF Alloc
<1>8. Edges(t, k) /\ \A x \in Blocks(k) \ {b} : Tagged(t, k, x)
  BY <1>1, <1>3 DEF Tags, Edges, Tagged, Tag, Alloc
<1>9. /\ Good(u)
      /\ u.brk = t.brk /\ u.head = t.head /\ u.rover = t.rover
      /\ Tags(u, k)
      /\ Kept(t, u, k)
      /\ \A x \in Blocks(k) : /\ W!GET(u, x) = W!GET(t, x)
                              /\ W!GET(u, x + WSIZE) = W!GET(t, x + WSIZE)
  <2>1. Good(t) /\ Sound(k) /\ b \in Blocks(k) /\ Edges(t, k)
    BY <1>1, <1>3, <1>8
  <2>2. \A x \in Blocks(k) \ {b} : Tagged(t, k, x)
    BY <1>8
  <2> QED
    BY <1>7, <2>1, <2>2, Retag
<1>10. Linked(u, k.listed)
  <2>1. u.rover \in h.listed \cup {NULL, t.rover}
    BY <1>9
  <2> QED
    BY <1>1, <1>3, <1>9, <2>1, LinkedSame
<1>11. Shows(u, k)
  BY <1>1, <1>3, <1>9, <1>10 DEF Shows, Free
<1> QED
  BY <1>1, <1>3, <1>4, <1>5, <1>9, <1>11 DEF Removable

\* mm_free does to the words what it does to the blocks.
LEMMA FreeWords ==
    ASSUME NEW h, NEW t, Mirrors(t, h), NEW b \in h.used,
           NEW g, g = mm_free(h, b), NEW u, u = W!mm_free(t, b)
    PROVE  Mirrors(u, g) /\ Kept(t, u, g)
<1> DEFINE k == SetFree(h, b)
           v == W!SetTags(t, b, W!GET_SIZE(t, W!HDRP(b)), 0)
           c == coalesce(k, b)
           r == W!coalesce(v, b)
<1>1. k = SetFree(h, b) /\ v = W!SetTags(t, b, W!GET_SIZE(t, W!HDRP(b)), 0)
  OBVIOUS
<1>2. g = insert_node(c.h, c.p) /\ u = W!insert_node(r.s, r.p)
  BY DEF mm_free, W!mm_free, W!InsertMerged
<1>3. c = coalesce(k, b) /\ r = W!coalesce(v, b)
  OBVIOUS
<1> HIDE DEF k, v, c, r
<1>4. /\ Pending(k, b)
      /\ k.used = h.used \ {b} /\ k.size = h.size
      /\ Shows(v, k) /\ Kept(t, v, k)
      /\ b \in Free(k) /\ b \notin k.listed
      /\ \A x \in Free(k) : x = b \/ Removable(v, k, x)
  BY <1>1, FreedWords
<1>5. r.p = c.p /\ Shows(r.s, c.h) /\ Kept(v, r.s, k)
  BY <1>3, <1>4, CoalesceWords
<1>6. Ready(c.h, c.p) /\ SameUsed(k, c.h)
  BY <1>3, <1>4, CoalesceReady
<1> DEFINE x == r.s
           y == c.h
<1> HIDE DEF x, y
<1>7. Shows(x, y) /\ Ready(y, c.p) /\ g = insert_node(y, c.p) /\ u = W!insert_node(x, c.p)
  BY <1>2, <1>5, <1>6 DEF x, y
<1>8. Mirrors(u, g) /\ g.size = y.size /\ g.used = y.used /\ Kept(x, u, y)
  BY <1>7, InsertWords
<1>9. g.used = k.used /\ \A z \in g.used : g.size[z] = k.size[z] /\ g.size[z] = y.size[z]
  BY <1>6, <1>8 DEF SameUsed, y
<1>10. Kept(t, v, g) /\ Kept(v, x, g) /\ Kept(x, u, g)
  <2>1. Kept(t, v, g)
    BY <1>4, <1>9, KeptIn
  <2>2. Kept(v, x, k)
    BY <1>5 DEF x
  <2>3. Kept(v, x, g)
    BY <1>9, <2>2, KeptIn
  <2>4. Kept(x, u, g)
    BY <1>8, <1>9, KeptIn
  <2> QED
    BY <2>1, <2>3, <2>4
<1>11. Kept(t, u, g)
  BY <1>10, KeptTrans
<1> QED
  BY <1>8, <1>11

-----------------------------------------------------------------------------
(* What the client and mm_realloc write into a payload.                    *)

\* u is t with nothing but the payload of b changed.
Overwrote(t, u, h, b) ==
    /\ Good(u) /\ u.brk = t.brk /\ u.head = t.head /\ u.rover = t.rover
    /\ \A a \in Int : a < b \/ EndOf(h, b) - DSIZE <= a => W!GET(u, a) = W!GET(t, a)

\* The payload of no allocated block but p changes.
KeptBut(t, u, h, p) ==
    \A x \in h.used \ {p} : \A a \in Int :
        x <= a /\ a < EndOf(h, x) - DSIZE => W!GET(u, a) = W!GET(t, a)

LEMMA PayloadRange ==
    ASSUME NEW h, Sound(h), NEW b \in Blocks(h), NEW n \in Nat, n + DSIZE <= h.size[b],
           NEW a \in W!PayloadWords(b, n)
    PROVE  a \in W!Words /\ a \in Int /\ b <= a /\ a < b + n /\ a < EndOf(h, b) - DSIZE
<1>1. /\ b \in Nat /\ h.size[b] \in Nat /\ EndOf(h, b) = b + h.size[b] /\ b % 8 = 0
      /\ h.brk \in Nat /\ EndOf(h, b) <= h.brk /\ h.brk <= MAX_ADDR /\ FIRST <= b
  BY BlockFacts
<1>2. PICK k \in 0 .. (n \div WSIZE) - 1 : a = b + k * WSIZE
  BY DEF W!PayloadWords
<1>3. a \in Int /\ b <= a /\ a < b + n /\ a % WSIZE = 0
  <2>1. CASE WSIZE = 4
    <3>1. k \in Int /\ 0 <= k /\ k + 1 <= n \div 4 /\ a = b + k * 4
      BY <1>2, <2>1
    <3> QED
      BY <1>1, <2>1, <3>1
  <2>2. CASE WSIZE = 8
    <3>1. k \in Int /\ 0 <= k /\ k + 1 <= n \div 8 /\ a = b + k * 8
      BY <1>2, <2>2
    <3> QED
      BY <1>1, <2>2, <3>1
  <2> QED
    BY <2>1, <2>2, GeometryAssumption
<1>4. a < EndOf(h, b) - DSIZE /\ BASE <= a /\ a < MAX_ADDR
  BY <1>1, <1>3, WordSizes
<1> QED
  BY <1>3, <1>4, IsWord

\* The words of a smaller payload are among those of a larger.
LEMMA PayloadGrows ==
    ASSUME NEW b \in Int, NEW n \in Nat, NEW m \in Nat, n <= m
    PROVE  W!PayloadWords(b, n) \subseteq W!PayloadWords(b, m)
<1>1. n \div WSIZE <= m \div WSIZE /\ n \div WSIZE \in Int /\ m \div WSIZE \in Int
  <2>1. n \div 4 <= m \div 4 /\ n \div 8 <= m \div 8
    OBVIOUS
  <2> QED
    BY <2>1, GeometryAssumption
<1>2. 0 .. (n \div WSIZE) - 1 \subseteq 0 .. (m \div WSIZE) - 1
  BY <1>1
<1> QED
  BY <1>2 DEF W!PayloadWords

LEMMA MemsetWords ==
    ASSUME NEW h, Sound(h), NEW b \in Blocks(h), NEW n \in Nat, n + DSIZE <= h.size[b],
           NEW t, Good(t), NEW c \in Int
    PROVE  /\ Overwrote(t, W!memset(t, b, n, c), h, b)
           /\ W!Filled(W!memset(t, b, n, c), b, n, c)
<1> DEFINE u == W!memset(t, b, n, c)
           P == W!PayloadWords(b, n)
<1>1. \A a \in P : a \in W!Words /\ a \in Int /\ b <= a /\ a < EndOf(h, b) - DSIZE
  BY PayloadRange
<1>2. u = [t EXCEPT !.mem = [a \in DOMAIN t.mem |-> IF a \in P THEN c ELSE t.mem[a]]]
  BY <1>1 DEF W!memset
<1> HIDE DEF u, P
<1>3. /\ Good(u) /\ u.brk = t.brk /\ u.head = t.head /\ u.rover = t.rover
      /\ u.mem = [a \in W!Words |-> IF a \in P THEN c ELSE t.mem[a]]
  BY <1>2 DEF Good
<1>4. ASSUME NEW a \in Int
      PROVE  /\ a \in P => W!GET(u, a) = c
             /\ a \notin P => W!GET(u, a) = W!GET(t, a)
  BY <1>1, <1>3, IsWord, SameNumbers DEF W!GET
<1>5. b \in Int /\ EndOf(h, b) - DSIZE \in Int
  BY BlockWords, WordSizes
<1>6. Overwrote(t, u, h, b)
  BY <1>1, <1>3, <1>4, <1>5 DEF Overwrote
<1>7. W!Filled(u, b, n, c)
  BY <1>1, <1>4 DEF W!Filled, P
<1> QED
  BY <1>6, <1>7 DEF u

LEMMA MemcpyWords ==
    ASSUME NEW h, Sound(h), NEW b \in Blocks(h), NEW n \in Nat, n + DSIZE <= h.size[b],
           NEW t, Good(t), NEW from \in Int
    PROVE  /\ Overwrote(t, W!memcpy(t, b, from, n), h, b)
           /\ \A a \in W!PayloadWords(b, n) :
                 W!GET(W!memcpy(t, b, from, n), a) = W!GET(t, from + (a - b))
<1> DEFINE u == W!memcpy(t, b, from, n)
           P == W!PayloadWords(b, n)
<1>1. \A a \in P : a \in W!Words /\ a \in Int /\ b <= a /\ a < EndOf(h, b) - DSIZE
  BY PayloadRange
<1>2. u = [t EXCEPT !.mem = [a \in DOMAIN t.mem |->
              IF a \in P THEN W!GET(t, from + (a - b)) ELSE t.mem[a]]]
  BY DEF W!memcpy
<1> HIDE DEF u, P
<1>3. b \in Int /\ EndOf(h, b) - DSIZE \in Int
  BY BlockWords, WordSizes
<1>4. \A a \in P : W!GET(t, from + (a - b)) \in Int
  <2>1. \A a \in P : from + (a - b) \in Int
    BY <1>1, <1>3
  <2> QED
    BY <2>1, GetInt
<1>5. /\ u.brk = t.brk /\ u.head = t.head /\ u.rover = t.rover
      /\ u.mem = [a \in W!Words |-> IF a \in P THEN W!GET(t, from + (a - b)) ELSE t.mem[a]]
      /\ u = [t EXCEPT !.mem = u.mem]
  BY <1>2 DEF Good
<1>6. Good(u)
  <2>1. u.mem \in [W!Words -> Int]
    BY <1>4, <1>5 DEF Good
  <2> QED
    BY <1>5, <2>1 DEF Good
<1>7. ASSUME NEW a \in Int
      PROVE  /\ a \in P => W!GET(u, a) = W!GET(t, from + (a - b))
             /\ a \notin P => W!GET(u, a) = W!GET(t, a)
  <2>1. a \in W!Words => W!GET(u, a) = u.mem[a] /\ W!GET(t, a) = t.mem[a]
    BY IsWord, SameNumbers DEF W!GET
  <2>2. a \notin W!Words => W!GET(u, a) = 0 /\ W!GET(t, a) = 0
    BY IsWord, SameNumbers DEF W!GET
  <2> QED
    BY <1>1, <1>5, <2>1, <2>2
<1>8. Overwrote(t, u, h, b)
  BY <1>1, <1>3, <1>5, <1>6, <1>7 DEF Overwrote
<1>9. \A a \in P : W!GET(u, a) = W!GET(t, from + (a - b))
  BY <1>1, <1>7
<1> QED
  BY <1>8, <1>9 DEF u, P

\* The tags, the links and the other payloads stay.
LEMMA OverwroteWords ==
    ASSUME NEW h, NEW t, Mirrors(t, h), NEW b \in h.used, NEW u, Overwrote(t, u, h, b)
    PROVE  Mirrors(u, h) /\ KeptBut(t, u, h, b)
<1>1. /\ Sound(h) /\ t.brk = h.brk /\ Tags(t, h) /\ Linked(t, h.listed)
      /\ h.used \subseteq Blocks(h) /\ h.listed \subseteq Blocks(h) /\ b \in Blocks(h)
      /\ h.listed \cap h.used = {}
  BY DEF Mirrors, Shows, Sound, HeapType
<1>2. /\ b \in Nat /\ EndOf(h, b) \in Nat /\ b + 4 * WSIZE <= EndOf(h, b)
      /\ FIRST <= b /\ EndOf(h, b) <= h.brk /\ h.brk \in Nat
  BY <1>1, BlockWords
<1>3. ASSUME NEW a \in Int, a < b \/ EndOf(h, b) - DSIZE <= a
      PROVE  W!GET(u, a) = W!GET(t, a)
  BY <1>3 DEF Overwrote
<1>4. ASSUME NEW x \in Blocks(h), x # b, NEW a \in Int, x - WSIZE <= a, a < EndOf(h, x)
      PROVE  W!GET(u, a) = W!GET(t, a)
  <2>1. EndOf(h, b) <= x \/ EndOf(h, x) <= b
    BY <1>1, <1>4, InOrder
  <2>2. x \in Nat /\ EndOf(h, x) \in Nat
    BY <1>1, BlockWords
  <2>3. a < b \/ EndOf(h, b) - DSIZE <= a
    BY <1>2, <1>4, <2>1, <2>2, WordSizes
  <2> QED
    BY <1>3, <2>3
<1>5. ASSUME NEW x \in Blocks(h), x # b
      PROVE  W!GET(u, x) = W!GET(t, x) /\ W!GET(u, x + WSIZE) = W!GET(t, x + WSIZE)
  <2>1. x \in Nat /\ EndOf(h, x) \in Nat /\ x + 4 * WSIZE <= EndOf(h, x)
    BY <1>1, BlockWords
  <2>2. x \in Int /\ x - WSIZE <= x /\ x < EndOf(h, x)
    BY <2>1, WordSizes
  <2>3. x + WSIZE \in Int /\ x - WSIZE <= x + WSIZE /\ x + WSIZE < EndOf(h, x)
    BY <2>1, WordSizes
  <2> QED
    BY <1>4, <1>5, <2>2, <2>3
<1>6. Edges(u, h)
  <2>1. /\ BASE + WSIZE \in Int /\ BASE + WSIZE < b
        /\ BASE + 2 * WSIZE \in Int /\ BASE + 2 * WSIZE < b
        /\ h.brk - WSIZE \in Int /\ EndOf(h, b) - DSIZE <= h.brk - WSIZE
    BY <1>2, WordSizes
  <2> QED
    BY <1>1, <1>3, <2>1 DEF Tags, Edges
<1>7. ASSUME NEW x \in Blocks(h) PROVE Tagged(u, h, x)
  <2>1. Tagged(t, h, x)
    BY <1>1 DEF Tags
  <2>2. CASE x = b
    <3>1. /\ b - WSIZE \in Int /\ b - WSIZE < b
          /\ EndOf(h, b) - DSIZE \in Int /\ EndOf(h, b) - DSIZE <= EndOf(h, b) - DSIZE
      BY <1>2, WordSizes
    <3> QED
      BY <1>3, <2>1, <2>2, <3>1 DEF Tagged
  <2>3. CASE x # b
    <3>1. x \in Nat /\ EndOf(h, x) \in Nat /\ x + 4 * WSIZE <= EndOf(h, x)
      BY <1>1, BlockWords
    <3>2. x - WSIZE \in Int /\ x - WSIZE <= x - WSIZE /\ x - WSIZE < EndOf(h, x)
      BY <3>1, WordSizes
    <3>3. /\ EndOf(h, x) - DSIZE \in Int /\ x - WSIZE <= EndOf(h, x) - DSIZE
          /\ EndOf(h, x) - DSIZE < EndOf(h, x)
      BY <3>1, WordSizes
    <3> QED
      BY <1>4, <2>1, <2>3, <3>2, <3>3 DEF Tagged
  <2> QED
    BY <2>2, <2>3
<1>8. Linked(u, h.listed)
  <2>1. \A x \in h.listed : x \in Blocks(h) /\ x # b
    BY <1>1
  <2>2. u.head = t.head /\ u.rover \in h.listed \cup {NULL, t.rover}
    BY DEF Overwrote
  <2> QED
    BY <1>1, <1>5, <2>1, <2>2, LinkedSame
<1>9. ASSUME NEW x \in Free(h) PROVE Removable(u, h, x)
  <2>1. Removable(t, h, x) /\ x \in Blocks(h) /\ x # b
    BY DEF Mirrors, Free
  <2> QED
    BY <1>5, <2>1 DEF Removable, Bare
<1>10. Mirrors(u, h)
  BY <1>1, <1>6, <1>7, <1>8, <1>9 DEF Mirrors, Shows, Tags, Overwrote
<1>11. KeptBut(t, u, h, b)
  <2> SUFFICES ASSUME NEW x \in h.used \ {b}, NEW a \in Int, x <= a, a < EndOf(h, x) - DSIZE
               PROVE  W!GET(u, a) = W!GET(t, a)
    BY DEF KeptBut
  <2>1. x \in Blocks(h) /\ x # b
    BY <1>1
  <2>2. x \in Nat /\ EndOf(h, x) \in Nat
    BY <1>1, <2>1, BlockWords
  <2>3. x - WSIZE <= a /\ a < EndOf(h, x)
    BY <2>2, WordSizes
  <2> QED
    BY <1>4, <2>1, <2>3
<1> QED
  BY <1>10, <1>11

-----------------------------------------------------------------------------
(* mm_realloc.                                                             *)

\* The block takes in the free one behind it.
LEMMA AbsorbWords ==
    ASSUME NEW h, NEW t, Mirrors(t, h), NEW p \in h.used,
           NEW n, n = EndOf(h, p), n \in Free(h),
           NEW g, g = Absorb(h, p),
           NEW u, u = W!SetTags(W!remove_node(t, n), p, h.size[p] + h.size[n], 1)
    PROVE  Mirrors(u, g) /\ Kept(t, u, h)
<1> DEFINE t1 == W!remove_node(t, n)
<1>1. /\ WF(h) /\ Sound(h) /\ t.brk = h.brk
      /\ h.used \subseteq Blocks(h) /\ p \in Blocks(h) /\ p \notin Free(h)
      /\ h.listed = Free(h)
  BY DEF Mirrors, Shows, WF, Sound, HeapType, ListExact, Free
<1>2. /\ Sound(g)
      /\ Blocks(g) = Blocks(h) \ {n}
      /\ p \in Blocks(g)
      /\ Free(g) = Free(h) \ {n}
      /\ g.listed = h.listed \ {n}
      /\ SameUsedBut(h, g, p) /\ g.brk = h.brk
      /\ \A x \in Blocks(g) :
            x # p => g.size[x] = h.size[x] /\ EndOf(g, x) = EndOf(h, x)
      /\ g.size[p] = h.size[p] + h.size[n]
  BY <1>1, AbsorbSound
<1>3. WF(g) /\ g.used = h.used
  BY <1>1, AbsorbDone
<1>4. Detached(t, t1, h, n)
  BY Detach DEF Mirrors
<1>5. u = W!SetTags(t1, p, g.size[p], Alloc(g, p))
  BY <1>2, <1>3 DEF Alloc
<1> HIDE DEF t1
<1>6. /\ Good(t1) /\ t1.brk = t.brk /\ Tags(t1, h) /\ Kept(t, t1, h)
      /\ Linked(t1, g.listed)
  BY <1>2, <1>4 DEF Detached
<1>7. Edges(t1, g) /\ \A x \in Blocks(g) \ {p} : Tagged(t1, g, x)
  BY <1>2, <1>3, <1>6 DEF Tags, Edges, Tagged, Tag, Alloc
<1>8. /\ Good(u)
      /\ u.brk = t1.brk /\ u.head = t1.head /\ u.rover = t1.rover
      /\ Tags(u, g)
      /\ Kept(t1, u, g)
      /\ \A x \in Blocks(g) : /\ W!GET(u, x) = W!GET(t1, x)
                              /\ W!GET(u, x + WSIZE) = W!GET(t1, x + WSIZE)
  <2>1. Good(t1) /\ Sound(g) /\ p \in Blocks(g) /\ Edges(t1, g)
    BY <1>2, <1>6, <1>7
  <2>2. \A x \in Blocks(g) \ {p} : Tagged(t1, g, x)
    BY <1>7
  <2> QED
    BY <1>5, <2>1, <2>2, Retag
<1>9. Linked(u, g.listed)
  <2>1. g.listed \subseteq Blocks(g) /\ u.rover \in g.listed \cup {NULL, t1.rover}
    BY <1>2, <1>8 DEF Sound, HeapType
  <2> QED
    BY <1>6, <1>8, <2>1, LinkedSame
<1>10. Kept(t1, u, h)
  <2> SUFFICES ASSUME NEW x \in h.used, NEW a \in Int, x <= a, a < EndOf(h, x) - DSIZE
               PROVE  W!GET(u, a) = W!GET(t1, a)
    BY DEF Kept
  <2>1. x \in g.used /\ x \in Blocks(g) /\ x \in Blocks(h)
    BY <1>1, <1>2, <1>3 DEF Sound, HeapType
  <2>2. EndOf(h, x) <= EndOf(g, x) /\ EndOf(h, x) \in Nat /\ EndOf(g, x) \in Nat
    <3>1. EndOf(h, x) \in Nat /\ EndOf(g, x) \in Nat
      BY <1>1, <1>2, <2>1, BlockWords
    <3>2. CASE x = p
      <4>1. /\ EndOf(g, p) = p + g.size[p] /\ EndOf(h, p) = p + h.size[p]
            /\ p \in Nat /\ h.size[p] \in Nat /\ h.size[n] \in Nat
        BY <1>1, <1>2, BlockWords DEF Free
      <4> QED
        BY <1>2, <3>2, <4>1
    <3>3. CASE x # p
      BY <1>2, <2>1, <3>1, <3>3
    <3> QED
      BY <3>1, <3>2, <3>3
  <2>3. a < EndOf(g, x) - DSIZE
    BY <2>2, WordSizes
  <2> QED
    BY <1>8, <2>1, <2>3 DEF Kept
<1>11. Kept(t, u, h)
  BY <1>6, <1>10, KeptTrans
<1>12. Mirrors(u, g)
  <2>1. g.listed = Free(g) /\ g.listed \cap g.used = {}
    BY <1>1, <1>2 DEF Free
  <2>2. Good(u) /\ u.brk = g.brk /\ Tags(u, g) /\ Linked(u, g.listed)
    BY <1>1, <1>2, <1>6, <1>8, <1>9
  <2> QED
    BY <1>2, <1>3, <2>1, <2>2 DEF Mirrors, Shows, Removable
<1> QED
  BY <1>11, <1>12

\* What the client wrote, as much as still fits, is at the new place.
Carried(t, u, p, q, k) ==
    \A a \in W!PayloadWords(q, k) : W!GET(u, a) = W!GET(t, p + (a - q))

\* A new block, the payload copied and the old block freed.
LEMMA MovedWords ==
    ASSUME NEW h, NEW t, Mirrors(t, h), NEW p \in h.used, NEW n \in 0 .. MaxRequest, n # 0,
           NEW k \in Nat, k + DSIZE <= h.size[p], k <= n,
           NEW r, r = W!realloc_moved(W!mm_malloc(t, n), p, h.size[p], n)
    PROVE  \E m \in mm_malloc(h, n) :
              /\ r.p = m.p
              /\ m.p = NULL => Mirrors(r.s, m.h) /\ Kept(t, r.s, h)
              /\ m.p # NULL => /\ Mirrors(r.s, mm_free(m.h, p))
                               /\ KeptBut(t, r.s, h, p)
                               /\ Carried(t, r.s, p, m.p, k)
<1> DEFINE mv == W!mm_malloc(t, n)
<1>1. PICK m \in mm_malloc(h, n) : /\ mv.p = m.p
                                   /\ Mirrors(mv.s, m.h)
                                   /\ Kept(t, mv.s, h)
  BY MallocWords
<1>2. /\ WF(h) /\ Sound(h) /\ p \in Blocks(h) /\ h.used \subseteq Blocks(h)
      /\ WF(m.h) /\ Sound(m.h)
  BY <1>1 DEF Mirrors, WF, Sound, HeapType
<1>3. r = W!realloc_moved(mv, p, h.size[p], n)
  OBVIOUS
<1> HIDE DEF mv
<1>4. CASE m.p = NULL
  <2>1. r = mv
    BY <1>1, <1>3, <1>4, SameNumbers DEF W!realloc_moved, W!NoBlock
  <2> QED
    BY <1>1, <1>4, <2>1
<1>5. CASE m.p # NULL
  <2> DEFINE q == m.p
             j == m.h
             x == mv.s
             size == W!copy_size(h.size[p], n)
             y == W!memcpy(x, q, p, size)
             u == W!mm_free(y, p)
             g == mm_free(j, p)
  <2>1. /\ q \in Blocks(j) /\ q \notin h.used
        /\ j.used = h.used \cup {q}
        /\ \A z \in h.used : j.size[z] = h.size[z]
        /\ j.size[q] >= n + DSIZE
    <3>1. Served(h, m.h, m.p, n)
      BY <1>2, <1>5, MallocDone
    <3> QED
      BY <3>1 DEF Served
  <2>2. q \in Nat /\ q # NULL /\ j.size[q] \in Nat /\ p \in Int /\ h.size[p] \in Nat /\ n \in Nat
    BY <1>2, <2>1, BlockNotNull, BlockFacts, BlocksAssumption
  <2>3. r = [s |-> u, p |-> q]
    <3>1. mv.p \notin W!NoBlock
      BY <1>1, <2>2, SameNumbers DEF W!NoBlock, W!HANG, W!FAULT
    <3> QED
      BY <1>1, <1>3, <3>1 DEF W!realloc_moved
  <2>4. size \in Nat /\ size + DSIZE <= j.size[q] /\ k <= size
    <3>1. size = IF n < h.size[p] - DSIZE THEN n ELSE h.size[p] - DSIZE
      BY SameNumbers DEF W!copy_size
    <3>2. DSIZE \in Nat /\ k + DSIZE <= h.size[p]
      BY WordSizes
    <3> HIDE DEF size
    <3> QED
      BY <2>1, <2>2, <3>1, <3>2
  <2>5. y = W!memcpy(x, q, p, size) /\ u = W!mm_free(y, p) /\ g = mm_free(j, p)
    OBVIOUS
  <2>6. Mirrors(x, j) /\ Kept(t, x, h)
    BY <1>1
  <2> HIDE DEF q, j, x, size, y, u, g
  <2>7. /\ Overwrote(x, y, j, q)
        /\ \A a \in W!PayloadWords(q, size) : W!GET(y, a) = W!GET(x, p + (a - q))
    <3>1. Sound(j) /\ Good(x)
      BY <2>6 DEF Mirrors, Shows
    <3> QED
      BY <2>1, <2>2, <2>4, <2>5, <3>1, MemcpyWords
  <2>8. Mirrors(y, j) /\ KeptBut(x, y, j, q)
    BY <2>1, <2>6, <2>7, OverwroteWords
  <2>9. Mirrors(u, g) /\ Kept(y, u, g)
    BY <2>1, <2>5, <2>8, FreeWords
  <2>10. g.used = j.used \ {p} /\ \A z \in g.used : g.size[z] = j.size[z]
    <3>1. WF(j) /\ p \in j.used
      BY <2>1, <2>6 DEF Mirrors
    <3> QED
      BY <2>5, <3>1, FreeDone
  <2>11. KeptBut(t, u, h, p)
    <3> SUFFICES ASSUME NEW z \in h.used \ {p}, NEW a \in Int, z <= a, a < EndOf(h, z) - DSIZE
                 PROVE  W!GET(u, a) = W!GET(t, a)
      BY DEF KeptBut
    <3>1. z \in h.used /\ z \in j.used \ {q} /\ z \in g.used
      BY <2>1, <2>10
    <3>2. EndOf(j, z) = EndOf(h, z) /\ EndOf(g, z) = EndOf(h, z)
      BY <2>1, <2>10, <3>1 DEF EndOf
    <3>3. W!GET(x, a) = W!GET(t, a)
      BY <2>6, <3>1 DEF Kept
    <3>4. W!GET(y, a) = W!GET(x, a)
      BY <2>8, <3>1, <3>2 DEF KeptBut
    <3>5. W!GET(u, a) = W!GET(y, a)
      BY <2>9, <3>1, <3>2 DEF Kept
    <3> QED
      BY <3>3, <3>4, <3>5
  <2>12. Carried(t, u, p, q, k)
    <3> SUFFICES ASSUME NEW a \in W!PayloadWords(q, k)
                 PROVE  W!GET(u, a) = W!GET(t, p + (a - q))
      BY DEF Carried
    <3>1. a \in W!PayloadWords(q, size)
      BY <2>2, <2>4, PayloadGrows
    <3>2. a \in Int /\ q <= a /\ a < q + k /\ a < EndOf(j, q) - DSIZE
      <4>1. Sound(j) /\ k + DSIZE <= j.size[q]
        BY <2>2, <2>4, <2>6, WordSizes DEF Mirrors, Shows
      <4> QED
        BY <2>1, <4>1, PayloadRange
    <3>3. p <= p + (a - q) /\ p + (a - q) < EndOf(h, p) - DSIZE /\ p + (a - q) \in Int
      <4>1. EndOf(h, p) = p + h.size[p]
        BY DEF EndOf
      <4> QED
        BY <2>2, <3>2, <4>1, WordSizes
    <3>4. W!GET(y, a) = W!GET(x, p + (a - q))
      BY <2>7, <3>1
    <3>5. W!GET(x, p + (a - q)) = W!GET(t, p + (a - q))
      BY <2>6, <3>3 DEF Kept
    <3>6. q \in g.used /\ EndOf(g, q) = EndOf(j, q)
      <4>1. q \in g.used
        BY <2>1, <2>10
      <4> QED
        BY <2>10, <4>1 DEF EndOf
    <3>7. W!GET(u, a) = W!GET(y, a)
      BY <2>9, <3>2, <3>6 DEF Kept
    <3> QED
      BY <3>4, <3>5, <3>7
  <2>13. m.p = q /\ mm_free(m.h, p) = g
    BY <2>5 DEF q, j
  <2> QED
    BY <1>5, <2>3, <2>9, <2>11, <2>12, <2>13
<1> QED
  BY <1>4, <1>5

\* mm_realloc of a block does to the words what it does to the blocks.
LEMMA ReallocWords ==
    ASSUME NEW h, NEW t, Mirrors(t, h), NEW p \in h.used, NEW n \in 0 .. MaxRequest,
           NEW k \in Nat, k + DSIZE <= h.size[p], k <= n,
           NEW r, r = W!mm_realloc(t, p, n)
    PROVE  \E q \in mm_realloc(h, p, n) :
              /\ r.p = q.p
              /\ Mirrors(r.s, q.h)
              /\ KeptBut(t, r.s, h, p)
              /\ n # 0 /\ r.p = NULL => Kept(t, r.s, h)
              /\ n # 0 /\ r.p # NULL => Carried(t, r.s, p, r.p, k)
<1> DEFINE asize == adjust_block(n)
           next == EndOf(h, p)
           fits == next \in Free(h) /\ h.size[p] + h.size[next] >= asize
<1>1. /\ WF(h) /\ Sound(h) /\ Tags(t, h) /\ p \in Blocks(h) /\ h.used \subseteq Blocks(h)
  BY DEF Mirrors, Shows, WF, Sound, HeapType
<1>2. p # NULL /\ p \in Nat
  BY <1>1, BlockNotNull
<1>3. /\ W!GET_SIZE(t, W!HDRP(p)) = h.size[p] /\ W!NEXT_BLKP(t, p) = next
      /\ W!GET_ALLOC(t, W!HDRP(next)) = 0 <=> next \in Free(h)
      /\ next \in Free(h) => W!GET_SIZE(t, W!HDRP(next)) = h.size[next]
  BY <1>1, ReadBlock, ReadNext
<1>4. r = IF n = 0 THEN [s |-> W!mm_free(t, p), p |-> NULL]
          ELSE IF asize <= h.size[p] THEN [s |-> t, p |-> p]
          ELSE IF fits
          THEN [s |-> W!SetTags(W!remove_node(t, next), p, h.size[p] + h.size[next], 1),
                p |-> p]
          ELSE W!realloc_moved(W!mm_malloc(t, n), p, h.size[p], n)
  BY <1>2, <1>3, SameNumbers, SameFunctions DEF W!mm_realloc
<1>5. mm_realloc(h, p, n) =
          IF n = 0 THEN {[h |-> mm_free(h, p), p |-> NULL]}
          ELSE IF asize <= h.size[p] THEN {[h |-> h, p |-> p]}
          ELSE IF fits THEN {[h |-> Absorb(h, p), p |-> p]}
          ELSE {[h |-> IF m.p = NULL THEN m.h ELSE mm_free(m.h, p), p |-> m.p] :
                  m \in mm_malloc(h, n)}
  BY <1>2 DEF mm_realloc
<1> HIDE DEF asize, next, fits
\* A payload that stays where it is.
<1>6. ASSUME NEW u, Kept(t, u, h)
      PROVE  KeptBut(t, u, h, p) /\ Carried(t, u, p, p, k)
  <2>1. ASSUME NEW a \in W!PayloadWords(p, k) PROVE W!GET(u, a) = W!GET(t, p + (a - p))
    <3>1. a \in Int /\ p <= a /\ a < EndOf(h, p) - DSIZE
      BY <1>1, PayloadRange
    <3>2. p + (a - p) = a
      BY <1>2, <3>1
    <3> QED
      BY <1>6, <3>1, <3>2 DEF Kept
  <2> QED
    BY <1>6, <2>1 DEF Kept, KeptBut, Carried
<1>7. CASE n = 0
  <2> DEFINE u == W!mm_free(t, p)
             g == mm_free(h, p)
  <2>1. Mirrors(u, g) /\ Kept(t, u, g)
    BY FreeWords
  <2>2. g.used = h.used \ {p} /\ \A z \in g.used : g.size[z] = h.size[z]
    BY <1>1, FreeDone
  <2>3. r = [s |-> u, p |-> NULL] /\ [h |-> g, p |-> NULL] \in mm_realloc(h, p, n)
    BY <1>4, <1>5, <1>7
  <2> HIDE DEF u, g
  <2>4. KeptBut(t, u, h, p)
    <3>1. \A z \in h.used \ {p} : z \in g.used /\ EndOf(g, z) = EndOf(h, z)
      BY <2>2 DEF EndOf
    <3> QED
      BY <2>1, <3>1 DEF Kept, KeptBut
  <2> QED
    BY <1>7, <2>1, <2>3, <2>4
<1>8. CASE n # 0 /\ asize <= h.size[p]
  <2>1. r = [s |-> t, p |-> p] /\ [h |-> h, p |-> p] \in mm_realloc(h, p, n)
    BY <1>4, <1>5, <1>8
  <2>2. Kept(t, t, h)
    BY DEF Kept
  <2>3. KeptBut(t, t, h, p) /\ Carried(t, t, p, p, k)
    BY <1>6, <2>2
  <2> QED
    BY <2>1, <2>2, <2>3
<1>9. CASE n # 0 /\ ~(asize <= h.size[p]) /\ fits
  <2> DEFINE u == W!SetTags(W!remove_node(t, next), p, h.size[p] + h.size[next], 1)
             g == Absorb(h, p)
  <2>1. Mirrors(u, g) /\ Kept(t, u, h)
    <3>1. next = EndOf(h, p) /\ next \in Free(h)
      BY <1>9 DEF next, fits
    <3> QED
      BY <3>1, AbsorbWords
  <2>2. r = [s |-> u, p |-> p] /\ [h |-> g, p |-> p] \in mm_realloc(h, p, n)
    BY <1>4, <1>5, <1>9
  <2> HIDE DEF u, g
  <2>3. KeptBut(t, u, h, p) /\ Carried(t, u, p, p, k)
    BY <1>6, <2>1
  <2> QED
    BY <2>1, <2>2, <2>3
<1>10. CASE n # 0 /\ ~(asize <= h.size[p]) /\ ~fits
  <2>1. r = W!realloc_moved(W!mm_malloc(t, n), p, h.size[p], n)
    BY <1>4, <1>10
  <2>2. PICK m \in mm_malloc(h, n) :
              /\ r.p = m.p
              /\ m.p = NULL => Mirrors(r.s, m.h) /\ Kept(t, r.s, h)
              /\ m.p # NULL => /\ Mirrors(r.s, mm_free(m.h, p))
                               /\ KeptBut(t, r.s, h, p)
                               /\ Carried(t, r.s, p, m.p, k)
    BY <1>10, <2>1, MovedWords
  <2> DEFINE q == [h |-> IF m.p = NULL THEN m.h ELSE mm_free(m.h, p), p |-> m.p]
  <2>3. q \in mm_realloc(h, p, n)
    BY <1>5, <1>10
  <2>4. r.p = q.p /\ Mirrors(r.s, q.h)
    BY <2>2
  <2>5. KeptBut(t, r.s, h, p) /\ (r.p = NULL => Kept(t, r.s, h))
    BY <1>6, <2>2
  <2>6. r.p # NULL => Carried(t, r.s, p, r.p, k)
    BY <2>2
  <2> QED
    BY <2>3, <2>4, <2>5, <2>6
<1> QED
  BY <1>7, <1>8, <1>9, <1>10

-----------------------------------------------------------------------------
(* The walk through the heap, and mm_checkheap.                            *)

\* From header to header, up to the epilogue.
HeapNext(t) == [bp \in Int |-> IF W!GET_SIZE(t, W!HDRP(bp)) = 0 THEN NULL
                               ELSE W!NEXT_BLKP(t, bp)]

\* What the walk can meet: the blocks and the epilogue.
Met(h) == Blocks(h) \cup {h.brk}

LEMMA HeapNextWords ==
    ASSUME NEW t, NEW h, Shows(t, h)
    PROVE  /\ HeapNext(t) \in [Int -> Int]
           /\ \A b \in Blocks(h) : HeapNext(t)[b] = EndOf(h, b)
           /\ HeapNext(t)[h.brk] = NULL
           /\ W!GET_SIZE(t, W!HDRP(h.brk)) = 0 /\ W!GET_ALLOC(t, W!HDRP(h.brk)) = 1
           /\ W!GET_SIZE(t, W!HDRP(W!heap_listp)) = DSIZE
           /\ W!GET_ALLOC(t, W!HDRP(W!heap_listp)) = 1
           /\ W!NEXT_BLKP(t, W!heap_listp) = FIRST
<1>1. Sound(h) /\ Good(t) /\ Tags(t, h) /\ h.brk \in Nat
  BY DEF Shows, Sound, HeapType
<1>2. \A bp \in Int : W!HDRP(bp) = bp - WSIZE /\ bp - WSIZE \in Int
  BY WordSizes DEF W!HDRP
<1>3. \A a \in Int : W!GET_SIZE(t, a) \in Int
  <2>1. ASSUME NEW a \in Int PROVE W!GET_SIZE(t, a) \in Int
    <3>1. W!GET(t, a) \in Int
      BY <1>1, GetInt
    <3> QED
      BY <3>1 DEF W!GET_SIZE
  <2> QED
    BY <2>1
<1>4. HeapNext(t) \in [Int -> Int]
  BY <1>2, <1>3 DEF HeapNext, W!NEXT_BLKP, NULL
<1>5. ASSUME NEW b \in Blocks(h) PROVE HeapNext(t)[b] = EndOf(h, b)
  <2>1. b \in Int /\ h.size[b] # 0
    BY <1>1, BlockWords, WordSizes
  <2>2. W!GET_SIZE(t, W!HDRP(b)) = h.size[b] /\ W!NEXT_BLKP(t, b) = EndOf(h, b)
    BY <1>1, ReadBlock
  <2> QED
    BY <2>1, <2>2 DEF HeapNext
<1>6. W!GET_SIZE(t, W!HDRP(h.brk)) = 0 /\ W!GET_ALLOC(t, W!HDRP(h.brk)) = 1
  <2>1. W!GET(t, h.brk - WSIZE) = 0 + 1
    BY <1>1 DEF Tags, Edges
  <2> QED
    BY <2>1, ReadTag DEF W!HDRP
<1>7. HeapNext(t)[h.brk] = NULL
  BY <1>1, <1>6 DEF HeapNext
<1>8. /\ W!heap_listp = BASE + 2 * WSIZE /\ W!HDRP(W!heap_listp) = BASE + WSIZE
      /\ BASE + 2 * WSIZE + DSIZE = FIRST
  BY SameNumbers, WordSizes DEF W!HDRP
<1>9. W!GET_SIZE(t, BASE + WSIZE) = DSIZE /\ W!GET_ALLOC(t, BASE + WSIZE) = 1
  <2>1. W!GET(t, BASE + WSIZE) = DSIZE + 1
    BY <1>1 DEF Tags, Edges
  <2>2. DSIZE \in Nat /\ DSIZE % 8 = 0
    BY GeometryAssumption DEF DSIZE
  <2> QED
    BY <2>1, <2>2, ReadTag
<1>10. W!NEXT_BLKP(t, W!heap_listp) = FIRST
  BY <1>8, <1>9 DEF W!NEXT_BLKP
<1> QED
  BY <1>4, <1>5, <1>6, <1>7, <1>8, <1>9, <1>10

\* The walk meets every block, and the epilogue at the break.
LEMMA HeapWalk ==
    ASSUME NEW t, NEW h, Shows(t, h)
    PROVE  W!HeapBlocks(t) = Blocks(h) /\ W!HeapEnds(t) = {h.brk}
<1> DEFINE L == Met(h)
           r == [a \in L |-> a]
           c == W!Walk(HeapNext(t))[W!NumWords][FIRST]
<1>1. /\ Sound(h) /\ Tags(t, h) /\ h.brk \in Nat /\ h.brk <= MAX_ADDR /\ FIRST \in Blocks(h)
      /\ \E b \in Blocks(h) : EndOf(h, b) = h.brk
  BY DEF Shows, Sound, HeapType, Tiled
<1>2. ASSUME NEW b \in Blocks(h)
      PROVE  /\ b \in Nat /\ b % 8 = 0 /\ FIRST <= b /\ b < EndOf(h, b) /\ b < h.brk
             /\ EndOf(h, b) \in Nat /\ EndOf(h, b) % 8 = 0 /\ EndOf(h, b) \in L
             /\ b = FIRST \/ \E p \in Blocks(h) : EndOf(h, p) = b
  <2>1. /\ b \in Nat /\ h.size[b] \in Nat /\ b % 8 = 0 /\ h.size[b] % 8 = 0
        /\ EndOf(h, b) = b + h.size[b] /\ b < EndOf(h, b) /\ EndOf(h, b) <= h.brk
        /\ FIRST <= b
        /\ EndOf(h, b) = h.brk \/ EndOf(h, b) \in Blocks(h)
        /\ b = FIRST \/ \E p \in Blocks(h) : EndOf(h, p) = b
    BY <1>1, BlockFacts
  <2>2. (b + h.size[b]) % 8 = 0
    BY <2>1
  <2>3. EndOf(h, b) % 8 = 0
    BY <2>1, <2>2
  <2>4. EndOf(h, b) \in Nat /\ b < h.brk
    BY <1>1, <2>1
  <2>5. EndOf(h, b) \in L
    BY <2>1 DEF Met
  <2> QED
    BY <2>1, <2>3, <2>4, <2>5
<1>3. h.brk % 8 = 0 /\ FIRST <= h.brk
  <2>1. PICK b \in Blocks(h) : EndOf(h, b) = h.brk
    BY <1>1
  <2> QED
    BY <1>1, <1>2, <2>1, WordSizes
<1>4. Places(L)
  <2>1. \A a \in L : a \in Nat /\ a % 8 = 0 /\ FIRST <= a /\ a <= h.brk
    BY <1>1, <1>2, <1>3 DEF Met
  <2>2. \A a \in Nat : a % 8 = 0 => a % WSIZE = 0
    BY GeometryAssumption
  <2> QED
    BY <1>1, <2>1, <2>2, WordSizes DEF Places
<1>5. /\ HeapNext(t) \in [Int -> Int]
      /\ \A b \in Blocks(h) : HeapNext(t)[b] = EndOf(h, b)
      /\ HeapNext(t)[h.brk] = NULL
      /\ W!GET_SIZE(t, W!HDRP(h.brk)) = 0
      /\ W!NEXT_BLKP(t, W!heap_listp) = FIRST
  BY HeapNextWords
<1> HIDE DEF L
<1>6. L = Blocks(h) \cup {h.brk} /\ L \subseteq Nat
  BY <1>1, <1>2 DEF L, Met
<1>7. r \in [L -> Nat] /\ \A a \in L : r[a] = a
  BY <1>6
<1> HIDE DEF r
<1>8. Upward(HeapNext(t), L, r)
  BY <1>2, <1>5, <1>6, <1>7 DEF Upward
<1>9. c \in Seq(Int) /\ Goes(HeapNext(t), L, FIRST, Len(c), c)
  <2>1. FIRST \in L /\ FIRST \in Int
    BY <1>1, <1>6
  <2> HIDE DEF c
  <2>2. c = W!Walk(HeapNext(t))[W!NumWords][FIRST]
    BY DEF c
  <2>3. IsWalk(HeapNext(t), W!NumWords, FIRST, c)
    BY <1>5, <2>1, <2>2, WalkNodes
  <2> QED
    BY <1>4, <1>7, <1>8, <2>1, <2>3, WalkUpward
<1> HIDE DEF c
<1>10. \A a \in L : \E i \in 1 .. Len(c) : c[i] = a
  <2>1. NULL \notin L
    BY <1>1, <1>2, <1>6, WordSizes DEF NULL
  <2>2. ASSUME NEW a \in L, a # FIRST
        PROVE  \E p \in L : HeapNext(t)[p] = a /\ r[p] < r[a]
    <3>1. PICK p \in Blocks(h) : EndOf(h, p) = a
      BY <1>1, <1>2, <1>6, <2>2
    <3> QED
      BY <1>2, <1>5, <1>6, <1>7, <3>1
  <2> QED
    BY <1>7, <1>9, <2>1, <2>2, GoesThrough
<1>11. W!Range(c) = L
  <2>1. W!Range(c) = {c[i] : i \in 1 .. Len(c)}
    BY <1>9, RangeOf
  <2>2. \A i \in 1 .. Len(c) : c[i] \in L
    BY <1>9 DEF Goes
  <2> QED
    BY <1>10, <2>1, <2>2
<1>12. W!BlocksFrom(t, FIRST) = L
  BY <1>11, SameNumbers DEF W!BlocksFrom, W!Chain, c, HeapNext
<1>13. \A b \in Blocks(h) : W!GET_SIZE(t, W!HDRP(b)) > 0
  <2>1. ASSUME NEW b \in Blocks(h) PROVE W!GET_SIZE(t, W!HDRP(b)) > 0
    <3>1. W!GET_SIZE(t, W!HDRP(b)) = h.size[b]
      BY <1>1, ReadBlock
    <3>2. h.size[b] \in Nat /\ h.size[b] > 0
      BY <1>1, BlockWords, WordSizes
    <3> QED
      BY <3>1, <3>2
  <2> QED
    BY <2>1
<1>14. h.brk \notin Blocks(h)
  BY <1>1, <1>2
<1>15. W!BlocksAfter(t, FIRST) = Blocks(h)
  BY <1>5, <1>6, <1>12, <1>13 DEF W!BlocksAfter
<1> QED
  BY <1>5, <1>6, <1>12, <1>14, <1>15 DEF W!HeapBlocks, W!HeapEnds, W!EndsAfter

\* The list that the words hold is that of the heap.
LEMMA ListWords ==
    ASSUME NEW t, NEW h, Shows(t, h)
    PROVE  /\ W!Range(W!FreeList(t)) = h.listed
           /\ Len(W!FreeList(t)) # W!NumWords
           /\ t.rover \in h.listed \cup {NULL}
           /\ h.listed = {} => t.head = NULL
           /\ \A f \in h.listed :
                 /\ W!GET_PRED(t, f) # NULL => W!GET_SUCC(t, W!GET_PRED(t, f)) = f
                 /\ W!GET_SUCC(t, f) # NULL => W!GET_PRED(t, W!GET_SUCC(t, f)) = f
<1>1. Good(t) /\ Linked(t, h.listed) /\ Spaced(h.listed)
  <2>1. Sound(h) /\ h.listed \subseteq Blocks(h)
    BY DEF Shows, Sound, HeapType
  <2> QED
    BY <2>1, BlocksSpaced DEF Shows
<1>2. PICK r \in [h.listed -> Nat] : Ranked(t, h.listed, r)
  BY <1>1 DEF Linked
<1>3. /\ W!FreeList(t) \in Seq(Int)
      /\ Len(W!FreeList(t)) < W!NumWords \/ Len(W!FreeList(t)) = 0
      /\ W!Range(W!FreeList(t)) = h.listed
  BY <1>1, FreeListWalk
<1>4. Len(W!FreeList(t)) # W!NumWords
  <2> DEFINE n == Len(W!FreeList(t))
  <2>1. n \in Nat
    BY <1>3
  <2> HIDE DEF n
  <2> QED
    BY <1>3, <2>1, NumWords, SomeWords DEF n
<1>5. /\ t.rover \in h.listed \cup {NULL}
      /\ h.listed = {} => t.head = NULL
      /\ \A f \in h.listed :
            /\ W!GET_PRED(t, f) # NULL => W!GET_SUCC(t, W!GET_PRED(t, f)) = f
            /\ W!GET_SUCC(t, f) # NULL => W!GET_PRED(t, W!GET_SUCC(t, f)) = f
  BY <1>2 DEF Ranked
<1> QED
  BY <1>3, <1>4, <1>5

\* The words determine the heap that they show.
LEMMA HeapIs ==
    ASSUME NEW t, NEW h, Shows(t, h)
    PROVE  W!HeapOfWords(t) = h
<1>1. /\ Sound(h) /\ Tags(t, h) /\ t.brk = h.brk
      /\ h.size \in [Blocks(h) -> Nat] /\ h.used \subseteq Blocks(h)
      /\ h = [size |-> h.size, used |-> h.used, listed |-> h.listed, brk |-> h.brk]
  BY DEF Shows, Sound, HeapType, Heap
<1>2. W!HeapBlocks(t) = Blocks(h) /\ W!Range(W!FreeList(t)) = h.listed
  BY HeapWalk, ListWords
<1>3. [bp \in Blocks(h) |-> W!GET_SIZE(t, W!HDRP(bp))] = h.size
  BY <1>1, ReadBlock
<1>4. {bp \in Blocks(h) : W!GET_ALLOC(t, W!HDRP(bp)) = 1} = h.used
  BY <1>1, ReadBlock, AllocBit
<1> QED
  BY <1>1, <1>2, <1>3, <1>4 DEF W!HeapOfWords

\* The list and the bounds, as mm_checkheap looks at them.
LEMMA BlocksInBounds ==
    ASSUME NEW t, NEW h, Shows(t, h), NEW b \in Blocks(h)
    PROVE  ~W!OutOfBounds(t, b)
<1>1. Sound(h) /\ Tags(t, h) /\ t.brk = h.brk
  BY DEF Shows
<1>2. /\ b \in Nat /\ FIRST <= b /\ EndOf(h, b) \in Nat /\ EndOf(h, b) <= h.brk
      /\ h.brk \in Nat
  BY <1>1, BlockWords
<1>3. W!FTRP(t, b) = EndOf(h, b) - DSIZE /\ W!HDRP(b) = b - WSIZE
  BY <1>1, <1>2, ReadBlock, WordSizes DEF W!HDRP
<1> QED
  BY <1>1, <1>2, <1>3, WordSizes DEF W!OutOfBounds

\* mm_checkheap reports only what the allocator means.
LEMMA CheckheapWords ==
    ASSUME NEW t, NEW h, Mirrors(t, h)
    PROVE  W!CheckheapQuiet(t)
<1> DEFINE blocks == W!HeapBlocks(t)
           listed == W!Range(W!FreeList(t))
           Allocated(bp) == W!GET_ALLOC(t, W!HDRP(bp)) = 1
           Report(check, at) == {<<check, bp>> : bp \in at}
           A0 == {bp \in {W!heap_listp} :
                     W!GET_SIZE(t, W!HDRP(bp)) # W!DSIZE \/ ~Allocated(bp)}
           A1a == {bp \in blocks : W!GET(t, W!HDRP(bp)) # W!GET(t, W!FTRP(t, bp))}
           A1b == {bp \in blocks : bp % W!DSIZE # 0}
           A1c == {bp \in blocks : W!GET_SIZE(t, W!HDRP(bp)) < W!MIN_BLOCK_SIZE}
           A1d == {bp \in blocks : W!OutOfBounds(t, bp)}
           A1e == {bp \in blocks : /\ ~Allocated(bp)
                                   /\ W!GET_SIZE(t, W!HDRP(W!NEXT_BLKP(t, bp))) > 0
                                   /\ ~Allocated(W!NEXT_BLKP(t, bp))}
           A2 == {bp \in W!HeapEnds(t) : ~Allocated(bp)}
           A3a == {f \in listed : Allocated(f)}
           A3b == {f \in listed : W!OutOfBounds(t, f)}
           A3c == {f \in listed :
                      \/ /\ W!GET_PRED(t, f) # W!NULL
                         /\ W!GET_SUCC(t, W!GET_PRED(t, f)) # f
                      \/ /\ W!GET_SUCC(t, f) # W!NULL
                         /\ W!GET_PRED(t, W!GET_SUCC(t, f)) # f}
           A3d == IF Len(W!FreeList(t)) = W!NumWords THEN {t.head} ELSE {}
           A4 == {bp \in blocks \ listed : ~Allocated(bp)}
<1>1. W!mm_checkheap(t) = UNION {Report("0", A0), Report("1-A", A1a), Report("1-B", A1b),
                                 Report("1-C", A1c), Report("1-D", A1d), Report("1-E", A1e),
                                 Report("2", A2), Report("3-A", A3a), Report("3-B", A3b),
                                 Report("3-C", A3c), Report("3-D", A3d), Report("4", A4)}
  BY DEF W!mm_checkheap
<1>2. /\ WF(h) /\ Sound(h) /\ Shows(t, h) /\ Tags(t, h) /\ h.listed \cap h.used = {}
      /\ h.listed \subseteq Blocks(h) /\ h.used \subseteq Blocks(h)
  BY DEF Mirrors, Shows, Sound, HeapType
<1>3. blocks = Blocks(h) /\ W!HeapEnds(t) = {h.brk} /\ listed = h.listed
  BY <1>2, HeapWalk, ListWords
<1>4. \A b \in Blocks(h) : Allocated(b) <=> b \in h.used
  BY <1>2, ReadBlock, AllocBit
<1>5. A0 = {}
  BY <1>2, HeapNextWords, SameNumbers
<1>6. A1a = {}
  <2>1. ASSUME NEW b \in Blocks(h) PROVE W!GET(t, W!HDRP(b)) = W!GET(t, W!FTRP(t, b))
    <3>1. W!FTRP(t, b) = EndOf(h, b) - DSIZE
      BY <1>2, ReadBlock
    <3> QED
      BY <1>2, <3>1 DEF Tags, Tagged, W!HDRP
  <2> QED
    BY <1>3, <2>1
<1>7. A1c = {}
  <2>1. ASSUME NEW b \in Blocks(h) PROVE ~(W!GET_SIZE(t, W!HDRP(b)) < MIN_BLOCK_SIZE)
    <3>1. /\ W!GET_SIZE(t, W!HDRP(b)) = h.size[b] /\ h.size[b] \in Nat
          /\ h.size[b] >= MIN_BLOCK_SIZE /\ MIN_BLOCK_SIZE \in Nat
      BY <1>2, ReadBlock, BlockFacts, WordSizes
    <3> QED
      BY <3>1
  <2> QED
    BY <1>3, <2>1, SameNumbers
<1>8. A1d = {} /\ A3b = {}
  BY <1>2, <1>3, BlocksInBounds
<1>9. A1e = {}
  <2>1. ASSUME NEW b \in Blocks(h), ~Allocated(b)
        PROVE  Allocated(W!NEXT_BLKP(t, b))
    <3>1. b \in Free(h) /\ EndOf(h, b) \notin Free(h)
      BY <1>2, <1>4, <2>1 DEF Free, WF, NoNeighbours
    <3>2. /\ W!NEXT_BLKP(t, b) = EndOf(h, b)
          /\ W!GET_ALLOC(t, W!HDRP(EndOf(h, b))) \in {0, 1}
          /\ W!GET_ALLOC(t, W!HDRP(EndOf(h, b))) = 0 <=> EndOf(h, b) \in Free(h)
      BY <1>2, ReadBlock, ReadNext
    <3> QED
      BY <3>1, <3>2
  <2> QED
    BY <1>3, <2>1
<1>10. A2 = {}
  BY <1>2, <1>3, HeapNextWords
<1>11. A3a = {}
  BY <1>2, <1>3, <1>4
<1>12. A3c = {} /\ A3d = {}
  BY <1>2, <1>3, ListWords, SameNumbers
<1>13. ASSUME NEW b \in A1b PROVE WSIZE = 8 /\ b % 8 = 0
  <2>1. b % 8 = 0 /\ b % DSIZE # 0
    BY <1>2, <1>3, BlockFacts, SameNumbers
  <2>2. WSIZE = 4 => DSIZE = 8
    BY DEF DSIZE
  <2> QED
    BY <2>1, <2>2, GeometryAssumption
<1>14. ASSUME NEW b \in A4 PROVE b = BASE + 4 * WSIZE /\ t.head = NULL
  <2>1. b \in Free(h) /\ b \notin h.listed
    BY <1>3, <1>4 DEF Free
  <2>2. Blocks(h) = {FIRST} /\ h.listed = {}
    BY <1>2, <2>1 DEF WF, ListExact
  <2>3. t.head = NULL
    BY <1>2, <2>2, ListWords
  <2> QED
    BY <2>1, <2>2, <2>3 DEF Free, FIRST
<1> SUFFICES ASSUME NEW r \in W!mm_checkheap(t)
             PROVE  \/ r = <<"4", BASE + 4 * WSIZE>> /\ t.head = W!NULL
                    \/ r[1] = "1-B" /\ WSIZE = 8 /\ r[2] % 8 = 0
  BY DEF W!CheckheapQuiet
<1> HIDE DEF A0, A1a, A1b, A1c, A1d, A1e, A2, A3a, A3b, A3c, A3d, A4
<1>15. r \in Report("1-B", A1b) \/ r \in Report("4", A4)
  BY <1>1, <1>5, <1>6, <1>7, <1>8, <1>9, <1>10, <1>11, <1>12
<1>16. CASE r \in Report("1-B", A1b)
  <2>1. PICK b \in A1b : r = <<"1-B", b>>
    BY <1>16
  <2> QED
    BY <1>13, <2>1
<1>17. CASE r \in Report("4", A4)
  <2>1. PICK b \in A4 : r = <<"4", b>>
    BY <1>17
  <2> QED
    BY <1>14, <2>1, SameNumbers
<1> QED
  BY <1>15, <1>16, <1>17

LEMMA BeyondWords ==
    ASSUME NEW t, NEW h, Mirrors(t, h)
    PROVE  W!BeyondCheckheap(t)
<1>1. Shows(t, h) /\ Tags(t, h) /\ t.brk = h.brk
  BY DEF Mirrors, Shows
<1>2. W!GET(t, W!heap_listp) = W!PACK(W!DSIZE, 1)
  BY <1>1, SameNumbers DEF Tags, Edges, W!PACK
<1>3. W!HeapEnds(t) = {t.brk}
  BY <1>1, HeapWalk
<1>4. t.rover \in W!Range(W!FreeList(t)) \cup {W!NULL}
  BY <1>1, ListWords, SameNumbers
<1> QED
  BY <1>2, <1>3, <1>4 DEF W!BeyondCheckheap

LEMMA SearchWords ==
    ASSUME NEW t, NEW h, Mirrors(t, h)
    PROVE  W!SearchComplete(t, Requests)
<1>1. Sound(h) /\ h.listed \subseteq Blocks(h) /\ Good(t) /\ Linked(t, h.listed) /\ Shows(t, h)
  BY DEF Mirrors, Shows, Sound, HeapType
<1>2. Spaced(h.listed)
  BY <1>1, BlocksSpaced
<1>3. W!Range(W!FreeList(t)) = h.listed
  BY <1>1, ListWords
<1> SUFFICES ASSUME NEW n \in Requests \ {0}
             PROVE  LET asize == W!adjust_block(n)
                        fitting == {bp \in h.listed : W!GET_SIZE(t, W!HDRP(bp)) >= asize}
                        found == W!find_fit(t, asize).p
                    IN  IF fitting = {} THEN found = W!NULL ELSE found \in fitting
  BY <1>3 DEF W!SearchComplete
<1> DEFINE asize == W!adjust_block(n)
           f == W!find_fit(t, asize)
<1>4. IF \E b \in h.listed : Fits(t, asize, b)
      THEN f.p \in h.listed /\ Fits(t, asize, f.p) ELSE f.p = NULL
  <2> HIDE DEF asize
  <2> DEFINE L == h.listed
  <2>1. Spaced(L) /\ Linked(t, L)
    BY <1>1, <1>2
  <2> HIDE DEF L
  <2>2. IF \E b \in L : Fits(t, asize, b) THEN f.p \in L /\ Fits(t, asize, f.p) ELSE f.p = NULL
    BY <1>1, <2>1, FindFit
  <2> QED
    BY <2>2 DEF L
<1> HIDE DEF f, asize
<1>5. /\ (\A b \in h.listed : ~Fits(t, asize, b)) => f.p = NULL
      /\ (\E b \in h.listed : Fits(t, asize, b)) => f.p \in h.listed /\ Fits(t, asize, f.p)
  BY <1>4
<1>6. IF {bp \in h.listed : W!GET_SIZE(t, W!HDRP(bp)) >= asize} = {} THEN f.p = NULL
      ELSE f.p \in {bp \in h.listed : W!GET_SIZE(t, W!HDRP(bp)) >= asize}
  BY <1>5 DEF Fits
<1> QED
  BY <1>6, SameNumbers DEF f, asize

-----------------------------------------------------------------------------
(* mm_init, on what the last heap left in memory and in the statics.       *)

\* Memory before mm_init: of a new process, or one block that was given back.
Stale(t) ==
    /\ Good(t) /\ t.brk = BASE
    /\ t.head \in {NULL, FIRST} /\ t.rover \in {NULL, FIRST}
    /\ Bare(t, FIRST)

\* u is t with m bytes more at b: a free block and the epilogue.
Appended(t, u, b, m) ==
    /\ Good(u) /\ u.brk = b + m /\ u.head = t.head /\ u.rover = t.rover
    /\ W!GET(u, b - WSIZE) = m /\ W!GET(u, b + m - DSIZE) = m
    /\ W!GET(u, b + m - WSIZE) = 1
    /\ \A a \in Int : a # b - WSIZE /\ a # b + m - DSIZE /\ a # b + m - WSIZE
                      => W!GET(u, a) = W!GET(t, a)

LEMMA TagPlaces ==
    ASSUME NEW b \in Nat, b % 8 = 0, FIRST <= b, NEW m \in Nat, m % 8 = 0,
           m >= 4 * WSIZE, b + m <= MAX_ADDR
    PROVE  /\ b - WSIZE \in W!Words /\ b + m - DSIZE \in W!Words /\ b + m - WSIZE \in W!Words
           /\ b - WSIZE \in Int /\ b + m - DSIZE \in Int /\ b + m - WSIZE \in Int
           /\ b + m - WSIZE # b - WSIZE /\ b + m - WSIZE # b + m - DSIZE
           /\ b - WSIZE # b + m - DSIZE
<1> DEFINE e == b + m
<1>1. (b + m) % 8 = 0 /\ b + m \in Nat
  OBVIOUS
<1>2. e % 8 = 0 /\ e \in Nat /\ b + 4 * WSIZE <= e /\ e <= MAX_ADDR
  BY <1>1, WordSizes
<1>3. b + m - DSIZE = e - DSIZE /\ b + m - WSIZE = e - WSIZE
  BY WordSizes
<1> HIDE DEF e
<1>4. b + (-1) * WSIZE \in W!Words
  <2>1. BASE <= b + (-1) * WSIZE /\ b + (-1) * WSIZE < MAX_ADDR
    BY <1>2, WordSizes
  <2> QED
    BY <2>1, WordsBeside
<1>5. e + (-2) * WSIZE \in W!Words /\ e + (-1) * WSIZE \in W!Words
  <2>1. /\ BASE <= e + (-2) * WSIZE /\ e + (-2) * WSIZE < MAX_ADDR
        /\ BASE <= e + (-1) * WSIZE /\ e + (-1) * WSIZE < MAX_ADDR
    BY <1>2, WordSizes
  <2> QED
    BY <1>2, <2>1, WordsBeside
<1>6. b + (-1) * WSIZE = b - WSIZE /\ e + (-2) * WSIZE = e - DSIZE /\ e + (-1) * WSIZE = e - WSIZE
  BY <1>2, WordSizes
<1>7. /\ e - WSIZE # b - WSIZE /\ e - WSIZE # e - DSIZE /\ e - WSIZE \in Int
      /\ b - WSIZE \in Int /\ e - DSIZE \in Int /\ b - WSIZE # e - DSIZE
  BY <1>2, WordSizes
<1> QED
  BY <1>3, <1>4, <1>5, <1>6, <1>7

\* The tags of a block that mem_sbrk gave, and the epilogue behind it.
LEMMA AppendWords ==
    ASSUME NEW t, Good(t), NEW b \in Nat, b % 8 = 0, FIRST <= b,
           NEW m \in Nat, m % 8 = 0, m >= 4 * WSIZE, b + m <= MAX_ADDR, t.brk = b + m
    PROVE  Appended(t, W!SetEpilogue(W!SetTags(t, b, m, 0), b), b, m)
<1> DEFINE v == W!SetTags(t, b, m, 0)
           u == W!SetEpilogue(v, b)
           z == b + m - WSIZE
<1>1. v = W!SetTags(t, b, m, 0) /\ u = W!SetEpilogue(v, b) /\ z = b + m - WSIZE
  OBVIOUS
<1> HIDE DEF v, u, z
<1>2. /\ b - WSIZE \in W!Words /\ b + m - DSIZE \in W!Words /\ z \in W!Words
      /\ z # b - WSIZE /\ z # b + m - DSIZE /\ z \in Int
      /\ b - WSIZE \in Int /\ b + m - DSIZE \in Int
  BY <1>1, TagPlaces
<1>3. /\ Good(v)
      /\ v.brk = t.brk /\ v.head = t.head /\ v.rover = t.rover
      /\ W!GET(v, b - WSIZE) = m + 0
      /\ W!GET(v, b + m - DSIZE) = m + 0
      /\ \A a \in Int : a # b - WSIZE /\ a # b + m - DSIZE => W!GET(v, a) = W!GET(t, a)
  <2>1. b \in Int /\ 0 \in {0, 1} /\ b - WSIZE \in W!Words /\ b + m - DSIZE \in W!Words
        /\ v = W!SetTags(t, b, m, 0)
    BY <1>1, <1>2
  <2> QED
    BY <2>1, SetTagsWords
<1>4. u = W!PUT(v, z, 1)
  <2>1. W!GET_SIZE(v, b - WSIZE) = m
    BY <1>3, ReadTag
  <2>2. W!NEXT_BLKP(v, b) = b + m
    BY <2>1 DEF W!NEXT_BLKP, W!HDRP
  <2>3. (b + m) - WSIZE = b + m - WSIZE
    BY WordSizes
  <2>4. W!HDRP(W!NEXT_BLKP(v, b)) = z
    BY <1>1, <2>2, <2>3 DEF W!HDRP
  <2>5. W!PACK(0, 1) = 1
    BY DEF W!PACK
  <2> QED
    BY <1>1, <2>4, <2>5 DEF W!SetEpilogue
<1>5. Wrote(v, u, z, 1)
  BY <1>2, <1>3, <1>4, PutWrote
<1>6. /\ Good(u) /\ u.brk = b + m /\ u.head = t.head /\ u.rover = t.rover
      /\ W!GET(u, z) = 1
      /\ \A a \in Int : a # z => W!GET(u, a) = W!GET(v, a)
  BY <1>3, <1>5 DEF Wrote
<1>7. W!GET(u, b - WSIZE) = m /\ W!GET(u, b + m - DSIZE) = m
  <2>1. W!GET(v, b - WSIZE) = m /\ W!GET(v, b + m - DSIZE) = m
    BY <1>3
  <2>2. W!GET(u, b - WSIZE) = W!GET(v, b - WSIZE)
    BY <1>2, <1>6
  <2>3. W!GET(u, b + m - DSIZE) = W!GET(v, b + m - DSIZE)
    BY <1>2, <1>6
  <2> QED
    BY <2>1, <2>2, <2>3
<1>8. \A a \in Int : a # b - WSIZE /\ a # b + m - DSIZE /\ a # z
                     => W!GET(u, a) = W!GET(t, a)
  BY <1>3, <1>6
<1>9. Appended(t, u, b, m)
  BY <1>1, <1>6, <1>7, <1>8 DEF Appended
<1> QED
  BY <1>1, <1>9

LEMMA InitExtend ==
    ASSUME NEW t, Good(t), NEW b \in Nat, t.brk = b, b % 8 = 0, FIRST <= b,
           NEW n, NEW m \in Nat, m = ExtendBytes(n), m % 8 = 0, m >= 4 * WSIZE,
           m <= CHUNKSIZE + 8 * WSIZE, b + m <= MAX_ADDR
    PROVE  \E u : Appended(t, u, b, m) /\ W!extend_heap(t, n) = W!coalesce(u, b)
<1> DEFINE t1 == [t EXCEPT !.brk = b + m]
           u == W!SetEpilogue(W!SetTags(t1, b, m, 0), b)
<1>1. MAX_ADDR \in Nat /\ b <= MAX_ADDR /\ m <= MaxRequest + CHUNKSIZE + 8 * WSIZE
  <2>1. MaxRequest \in Nat /\ CHUNKSIZE \in Nat /\ WSIZE \in Nat /\ MAX_ADDR \in Nat
    BY WordSizes, GeometryAssumption, BlocksAssumption
  <2> QED
    BY <2>1
<1>2. /\ ToInt(m) = m
      /\ W!mem_sbrk(t, m) = [s |-> t1, p |-> b]
  BY <1>1, SbrkWords
<1>3. b # NULL
  BY WordSizes DEF NULL
<1>4. W!extend_heap(t, n) = W!coalesce(u, b)
  <2>1. W!ExtendBytes(n) = m /\ W!ToInt(m) = m
    BY <1>2, SameFunctions
  <2> HIDE DEF t1
  <2> QED
    BY <1>2, <1>3, <2>1, SameNumbers DEF W!extend_heap
<1>5. /\ Good(t1) /\ t1.brk = b + m /\ t1.head = t.head /\ t1.rover = t.rover
      /\ \A a : W!GET(t1, a) = W!GET(t, a)
  <2> DEFINE e == b + m
  <2>1. e \in Int /\ t1 = [t EXCEPT !.brk = e]
    OBVIOUS
  <2> HIDE DEF t1, e
  <2>2. Good(t1) /\ t1.brk = e /\ t1.head = t.head /\ t1.rover = t.rover
    BY <2>1, SetBrk
  <2>3. \A a : W!GET(t1, a) = W!GET(t, a)
    BY <2>1, SetBrk
  <2> QED
    BY <2>2, <2>3 DEF e
<1> HIDE DEF t1
<1>6. Appended(t1, u, b, m)
  <2>1. Good(t1) /\ t1.brk = b + m
    BY <1>5
  <2> QED
    BY <2>1, AppendWords
<1>7. Appended(t, u, b, m)
  BY <1>5, <1>6 DEF Appended
<1> QED
  BY <1>4, <1>7

\* The prologue and the first epilogue.
Started(t, u) ==
    /\ Good(u) /\ u.brk = FIRST /\ u.head = t.head /\ u.rover = t.rover
    /\ W!GET(u, BASE + WSIZE) = DSIZE + 1 /\ W!GET(u, BASE + 2 * WSIZE) = DSIZE + 1
    /\ W!GET(u, FIRST) = W!GET(t, FIRST) /\ W!GET(u, FIRST + WSIZE) = W!GET(t, FIRST + WSIZE)

\* The memory that mm_init asks for, and the words it writes there.
Fetched(t) == [t EXCEPT !.brk = BASE + 4 * WSIZE]
Prologue(t) ==
    W!PUT(W!PUT(W!PUT(W!PUT(Fetched(t), BASE, 0), BASE + WSIZE, DSIZE + 1),
                BASE + 2 * WSIZE, DSIZE + 1), BASE + 3 * WSIZE, 1)

LEMMA InitPrologue ==
    ASSUME NEW t, Good(t), t.brk = BASE
    PROVE  /\ Started(t, Prologue(t))
           /\ W!mem_sbrk(t, 4 * WSIZE) = [s |-> Fetched(t), p |-> BASE] /\ BASE # NULL
           /\ W!mm_init(t)
                = W!RoverAtHead(W!Extended(W!extend_heap(Prologue(t), CHUNKSIZE)))
<1> DEFINE t0 == [t EXCEPT !.brk = BASE + 4 * WSIZE]
           a1 == BASE + WSIZE
           a2 == BASE + 2 * WSIZE
           a3 == BASE + 3 * WSIZE
           t1 == W!PUT(t0, BASE, 0)
           t2 == W!PUT(t1, a1, DSIZE + 1)
           t3 == W!PUT(t2, a2, DSIZE + 1)
           u == W!PUT(t3, a3, 1)
<1>1. /\ BASE \in Nat /\ WSIZE \in Nat /\ CHUNKSIZE \in Nat /\ MAX_ADDR \in Nat
      /\ MaxRequest \in Nat /\ BASE + 8 * WSIZE <= MAX_ADDR
  <2>1. ExtendBytes(CHUNKSIZE) \in Nat /\ MAX_HEAP \in Nat
    BY Extension, GeometryAssumption
  <2> QED
    BY <2>1, WordSizes, GeometryAssumption, BlocksAssumption DEF MAX_ADDR
<1>2. W!mem_sbrk(t, 4 * WSIZE) = [s |-> t0, p |-> BASE] /\ BASE # NULL
  <2>1. /\ 4 * WSIZE \in Nat /\ 4 * WSIZE <= MaxRequest + CHUNKSIZE + 8 * WSIZE
        /\ BASE + 4 * WSIZE <= MAX_ADDR /\ t.brk \in Nat /\ t.brk <= MAX_ADDR
    BY <1>1
  <2> DEFINE m == 4 * WSIZE
  <2>2. m \in Nat /\ m <= MaxRequest + CHUNKSIZE + 8 * WSIZE /\ t.brk + m <= MAX_ADDR
    BY <2>1
  <2> HIDE DEF m
  <2>3. W!mem_sbrk(t, m) = [s |-> [t EXCEPT !.brk = t.brk + m], p |-> t.brk]
    BY <2>1, <2>2, SbrkWords
  <2> QED
    BY <2>3, WordSizes DEF m, NULL
<1>3. W!mm_init(t) = W!RoverAtHead(W!Extended(W!extend_heap(u, CHUNKSIZE)))
  <2>1. W!PACK(W!DSIZE, 1) = DSIZE + 1 /\ W!PACK(0, 1) = 1
    BY SameNumbers DEF W!PACK
  <2> HIDE DEF t0
  <2> QED
    BY <1>2, <2>1, SameNumbers DEF W!mm_init
<1>4. /\ Good(t0) /\ t0.brk = BASE + 4 * WSIZE /\ t0.head = t.head /\ t0.rover = t.rover
      /\ \A a : W!GET(t0, a) = W!GET(t, a)
  <2>1. BASE + 4 * WSIZE \in Int
    BY <1>1
  <2> QED
    BY <2>1, SetBrk
<1>5. BASE \in W!Words /\ a1 \in W!Words /\ a2 \in W!Words /\ a3 \in W!Words
  <2>1. /\ BASE <= BASE + 0 * WSIZE /\ BASE + 0 * WSIZE < MAX_ADDR
        /\ BASE <= BASE + 1 * WSIZE /\ BASE + 1 * WSIZE < MAX_ADDR
        /\ BASE <= BASE + 2 * WSIZE /\ BASE + 2 * WSIZE < MAX_ADDR
        /\ BASE <= BASE + 3 * WSIZE /\ BASE + 3 * WSIZE < MAX_ADDR
    BY <1>1, WordSizes
  <2>2. /\ BASE + 0 * WSIZE \in W!Words /\ BASE + 1 * WSIZE \in W!Words
        /\ BASE + 2 * WSIZE \in W!Words /\ BASE + 3 * WSIZE \in W!Words
    BY <2>1, WordSizes, WordsBeside
  <2>3. BASE + 0 * WSIZE = BASE /\ BASE + 1 * WSIZE = BASE + WSIZE
    BY <1>1
  <2> QED
    BY <2>2, <2>3
<1>6. /\ a1 \in Int /\ a2 \in Int /\ a3 \in Int /\ BASE \in Int
      /\ FIRST \in Int /\ FIRST + WSIZE \in Int /\ DSIZE + 1 \in Int
      /\ a1 # BASE /\ a2 # BASE /\ a3 # BASE /\ FIRST # BASE /\ FIRST + WSIZE # BASE
      /\ a1 # a2 /\ a1 # a3 /\ a2 # a3
      /\ FIRST # a1 /\ FIRST # a2 /\ FIRST # a3
      /\ FIRST + WSIZE # a1 /\ FIRST + WSIZE # a2 /\ FIRST + WSIZE # a3
  BY <1>1, WordSizes
<1>0. /\ t1 = W!PUT(t0, BASE, 0) /\ t2 = W!PUT(t1, a1, DSIZE + 1)
      /\ t3 = W!PUT(t2, a2, DSIZE + 1) /\ u = W!PUT(t3, a3, 1)
  OBVIOUS
<1> HIDE DEF t0, a1, a2, a3, t1, t2, t3, u
<1>7. Wrote(t0, t1, BASE, 0)
  BY <1>0, <1>4, <1>5, PutWrote
<1>8. Wrote(t1, t2, a1, DSIZE + 1)
  <2>1. Good(t1)
    BY <1>7 DEF Wrote
  <2> QED
    BY <1>0, <1>5, <1>6, <2>1, PutWrote
<1>9. Wrote(t2, t3, a2, DSIZE + 1)
  <2>1. Good(t2)
    BY <1>8 DEF Wrote
  <2> QED
    BY <1>0, <1>5, <1>6, <2>1, PutWrote
<1>10. Wrote(t3, u, a3, 1)
  <2>1. Good(t3)
    BY <1>9 DEF Wrote
  <2> QED
    BY <1>0, <1>5, <1>6, <2>1, PutWrote
<1>11. /\ Good(u) /\ u.brk = t0.brk /\ u.head = t.head /\ u.rover = t.rover
  BY <1>4, <1>7, <1>8, <1>9, <1>10 DEF Wrote
<1>12. W!GET(u, a1) = DSIZE + 1 /\ W!GET(u, a2) = DSIZE + 1
  BY <1>6, <1>8, <1>9, <1>10 DEF Wrote
<1>13. ASSUME NEW a \in {FIRST, FIRST + WSIZE} PROVE W!GET(u, a) = W!GET(t, a)
  <2>1. a \in Int /\ a # BASE /\ a # a1 /\ a # a2 /\ a # a3
    BY <1>6
  <2> QED
    BY <1>4, <1>7, <1>8, <1>9, <1>10, <2>1 DEF Wrote
<1>14. Started(t, u)
  BY <1>4, <1>11, <1>12, <1>13, WordSizes DEF Started, a1, a2
<1>15. u = Prologue(t) /\ t0 = Fetched(t)
  BY <1>0 DEF Prologue, Fetched, t0, a1, a2, a3
<1> QED
  BY <1>2, <1>3, <1>14, <1>15 DEF t0

\* A first block whose links are NULL leaves the statics NULL.
Forgot(t, u) ==
    /\ Good(u) /\ u.brk = t.brk /\ u.head = NULL /\ u.rover = NULL
    /\ \A a : W!GET(u, a) = W!GET(t, a)

LEMMA ForgetFirst ==
    ASSUME NEW t, Good(t), t.head \in {NULL, FIRST}, t.rover \in {NULL, FIRST},
           Bare(t, FIRST), NEW x
    PROVE  Forgot(t, W!Unlink(t, FIRST, x))
<1> DEFINE t1 == [t EXCEPT !.head = NULL]
           u == [t1 EXCEPT !.rover = NULL]
<1>1. NULL \in Int /\ FIRST \in Int /\ FIRST # NULL
  BY WordSizes DEF NULL
<1>2. t1 = [t EXCEPT !.head = NULL] /\ u = [t1 EXCEPT !.rover = NULL]
  OBVIOUS
<1> HIDE DEF t1, u
<1>3. Good(t1) /\ t1.head = NULL /\ t1.rover = t.rover /\ t1.brk = t.brk
      /\ \A a : W!GET(t1, a) = W!GET(t, a)
  BY <1>1, <1>2, SetHead
<1>4. Good(u) /\ u.head = NULL /\ u.rover = NULL /\ u.brk = t1.brk
      /\ \A a : W!GET(u, a) = W!GET(t1, a)
  <2>1. Good(t1) /\ NULL \in Int /\ u = [t1 EXCEPT !.rover = NULL]
    BY <1>1, <1>2, <1>3
  <2>2. Good(u) /\ u.head = t1.head /\ u.rover = NULL /\ u.brk = t1.brk
    BY <2>1, SetRover
  <2>3. \A a : W!GET(u, a) = W!GET(t1, a)
    BY <2>1, SetRover
  <2> QED
    BY <1>3, <2>2, <2>3
<1>5. W!GET_PRED(t, FIRST) = NULL /\ W!GET_SUCC(t, FIRST) = NULL
  BY LinkWords DEF Bare
<1>6. W!LinkForward(t, NULL, NULL) = t1 /\ W!LinkBack(t1, NULL, NULL) = t1
  BY <1>2, SameNumbers DEF W!LinkForward, W!LinkBack
<1>7. W!MoveRover(t1, FIRST, NULL, NULL) = u
  <2>1. CASE t.rover = FIRST
    BY <1>2, <1>3, <2>1, SameNumbers DEF W!MoveRover
  <2>2. CASE t.rover = NULL
    <3>1. t1.rover # FIRST
      BY <1>1, <1>3, <2>2
    <3>2. W!MoveRover(t1, FIRST, NULL, NULL) = t1
      BY <3>1 DEF W!MoveRover
    <3>3. u = t1
      BY <1>2, <1>3, <2>2 DEF Good
    <3> QED
      BY <3>2, <3>3
  <2> QED
    BY <2>1, <2>2
<1>8. W!remove_node(t, FIRST) = u
  BY <1>5, <1>6, <1>7 DEF W!remove_node
<1>9. W!Unlink(t, FIRST, x) = u
  <2>1. u.rover # FIRST
    BY <1>1, <1>4
  <2>2. W!Unlink(t, FIRST, x) = [u EXCEPT !.rover = u.rover]
    BY <1>8, <2>1 DEF W!Unlink
  <2> QED
    BY <1>4, <2>2 DEF Good
<1>10. Forgot(t, u)
  BY <1>3, <1>4 DEF Forgot
<1> QED
  BY <1>9, <1>10

\* The heap of the two extensions.
LEMMA InitialShape ==
    ASSUME NEW m, m = ExtendBytes(CHUNKSIZE)
    PROVE  /\ Blocks(InitialHeap) = {FIRST} /\ InitialHeap.size[FIRST] = m + 4 * WSIZE
           /\ InitialHeap.used = {} /\ InitialHeap.listed = {}
           /\ InitialHeap.brk = FIRST + (m + 4 * WSIZE)
           /\ Free(InitialHeap) = {FIRST}
<1> DEFINE g == InitialHeap
           k == m + 4 * WSIZE
<1>1. g = Heap([b \in {FIRST} |-> k], {}, {}, FIRST + k)
  BY DEF InitialHeap
<1> HIDE DEF g, k
<1>2. /\ g.size = [b \in {FIRST} |-> k] /\ g.used = {} /\ g.listed = {} /\ g.brk = FIRST + k
  BY <1>1, HeapFields
<1>3. Blocks(g) = {FIRST} /\ g.size[FIRST] = k /\ Free(g) = {FIRST}
  BY <1>2 DEF Blocks, Free
<1> QED
  BY <1>2, <1>3 DEF g, k

\* The sizes of the two extensions.
LEMMA InitSizes ==
    ASSUME CHUNKSIZE >= MIN_BLOCK_SIZE, NEW m, m = ExtendBytes(CHUNKSIZE)
    PROVE  /\ m \in Nat /\ m % 8 = 0 /\ m >= 4 * WSIZE
           /\ m <= CHUNKSIZE + 8 * WSIZE /\ FIRST + m + 4 * WSIZE <= MAX_ADDR
           /\ ExtendBytes(4 * WSIZE) = 4 * WSIZE /\ (4 * WSIZE) % 8 = 0
           /\ 4 * WSIZE <= CHUNKSIZE + 8 * WSIZE
           /\ FIRST % 8 = 0 /\ (FIRST + m) % 8 = 0
<1>1. CHUNKSIZE \in Nat /\ CHUNKSIZE % 8 = 0 /\ WSIZE \in {4, 8} /\ MAX_HEAP \in Nat
  BY GeometryAssumption
<1>2. m \in Nat /\ m % 8 = 0 /\ m >= CHUNKSIZE /\ m <= CHUNKSIZE + 8
  BY <1>1, Extension
<1>3. m >= 4 * WSIZE /\ m <= CHUNKSIZE + 8 * WSIZE
  BY <1>1, <1>2, WordSizes
<1>4. FIRST + m + 4 * WSIZE <= MAX_ADDR
  BY <1>1, <1>2, BlocksAssumption DEF MAX_ADDR, FIRST
<1>5. ExtendBytes(4 * WSIZE) = 4 * WSIZE
  <2>1. CASE WSIZE = 4
    BY <2>1 DEF ExtendBytes
  <2>2. CASE WSIZE = 8
    BY <2>2 DEF ExtendBytes
  <2> QED
    BY <1>1, <2>1, <2>2
<1>6. (4 * WSIZE) % 8 = 0 /\ 4 * WSIZE <= CHUNKSIZE + 8 * WSIZE
  BY <1>1
<1>7. FIRST % 8 = 0 /\ FIRST \in Nat
  BY <1>1, WordSizes
<1>8. (FIRST + m) % 8 = 0
  <2>1. \A a, b \in Nat : a % 8 = 0 /\ b % 8 = 0 => (a + b) % 8 = 0
    OBVIOUS
  <2> QED
    BY <1>2, <1>7, <2>1
<1> QED
  BY <1>2, <1>3, <1>4, <1>5, <1>6, <1>7, <1>8

\* What mm_init does, from the words before it to those of InitialHeap.
LEMMA InitWords ==
    ASSUME CHUNKSIZE >= MIN_BLOCK_SIZE, NEW t, Stale(t)
    PROVE  Mirrors(W!mm_init(t), InitialHeap)
<1> DEFINE m == ExtendBytes(CHUNKSIZE)
           e == FIRST + m
           k == 4 * WSIZE
           g == InitialHeap
           w == W!mm_init(t)
<1>0. w = W!mm_init(t) /\ m = ExtendBytes(CHUNKSIZE) /\ e = FIRST + m /\ k = 4 * WSIZE
  OBVIOUS
<1>1. /\ m \in Nat /\ m % 8 = 0 /\ m >= 4 * WSIZE /\ m <= CHUNKSIZE + 8 * WSIZE
      /\ FIRST + m + 4 * WSIZE <= MAX_ADDR
      /\ ExtendBytes(k) = k /\ k % 8 = 0 /\ k <= CHUNKSIZE + 8 * WSIZE
      /\ FIRST % 8 = 0 /\ e % 8 = 0
  BY InitSizes
<1>2. /\ Blocks(g) = {FIRST} /\ g.size[FIRST] = m + k
      /\ g.used = {} /\ g.listed = {} /\ Free(g) = {FIRST}
      /\ g.brk = FIRST + (m + k)
  BY InitialShape
<1>3. WF(g)
  BY InitialDone
<1> HIDE DEF m, e, k, g, w
<1>4. /\ FIRST \in Nat /\ WSIZE \in Nat /\ WSIZE > 0 /\ k \in Nat /\ e \in Nat /\ MAX_ADDR \in Nat
      /\ FIRST + m <= MAX_ADDR /\ e + k <= MAX_ADDR /\ FIRST <= e /\ k >= 4 * WSIZE
      /\ FIRST # NULL /\ e # NULL /\ NULL \in Int
      /\ DSIZE = 2 * WSIZE /\ FIRST = BASE + 4 * WSIZE /\ BASE \in Nat
  BY <1>0, <1>1, WordSizes DEF NULL
<1>5. /\ Good(t) /\ t.brk = BASE
      /\ t.head \in {NULL, FIRST} /\ t.rover \in {NULL, FIRST}
      /\ W!GET(t, FIRST) = NULL /\ W!GET(t, FIRST + WSIZE) = NULL
  BY DEF Stale, Bare
<1>6. PICK u0 : Started(t, u0)
                /\ w = W!RoverAtHead(W!Extended(W!extend_heap(u0, CHUNKSIZE)))
  BY <1>0, <1>5, InitPrologue
<1>7. /\ Good(u0) /\ u0.brk = FIRST /\ u0.head = t.head /\ u0.rover = t.rover
      /\ W!GET(u0, BASE + WSIZE) = DSIZE + 1 /\ W!GET(u0, BASE + 2 * WSIZE) = DSIZE + 1
      /\ W!GET(u0, FIRST) = NULL /\ W!GET(u0, FIRST + WSIZE) = NULL
  BY <1>5, <1>6 DEF Started
<1>8. PICK u1 : Appended(u0, u1, FIRST, m)
                /\ W!extend_heap(u0, CHUNKSIZE) = W!coalesce(u1, FIRST)
  BY <1>0, <1>1, <1>4, <1>7, InitExtend
\* The words of the first extension.
<1>9. /\ Good(u1) /\ u1.brk = e /\ u1.head = t.head /\ u1.rover = t.rover
      /\ W!GET(u1, FIRST - WSIZE) = m /\ W!GET(u1, e - DSIZE) = m /\ W!GET(u1, e - WSIZE) = 1
      /\ W!GET(u1, BASE + WSIZE) = DSIZE + 1 /\ W!GET(u1, BASE + 2 * WSIZE) = DSIZE + 1
      /\ W!GET(u1, FIRST) = NULL /\ W!GET(u1, FIRST + WSIZE) = NULL
  <2>1. /\ Good(u1) /\ u1.brk = FIRST + m /\ u1.head = u0.head /\ u1.rover = u0.rover
        /\ W!GET(u1, FIRST - WSIZE) = m /\ W!GET(u1, FIRST + m - DSIZE) = m
        /\ W!GET(u1, FIRST + m - WSIZE) = 1
        /\ \A a \in Int : a # FIRST - WSIZE /\ a # FIRST + m - DSIZE /\ a # FIRST + m - WSIZE
                          => W!GET(u1, a) = W!GET(u0, a)
    BY <1>8 DEF Appended
  <2>2. FIRST + m - DSIZE = e - DSIZE /\ FIRST + m - WSIZE = e - WSIZE
    BY <1>0, <1>1, <1>4
  <2>3. ASSUME NEW a \in {BASE + WSIZE, BASE + 2 * WSIZE, FIRST, FIRST + WSIZE}
        PROVE  a \in Int /\ a # FIRST - WSIZE /\ a # e - DSIZE /\ a # e - WSIZE
    BY <1>0, <1>1, <1>4
  <2> QED
    BY <1>0, <1>7, <2>1, <2>2, <2>3
<1>10. W!coalesce(u1, FIRST) = [s |-> u1, p |-> FIRST]
  <2>1. W!GET_ALLOC(u1, W!HDRP(W!PREV_BLKP(u1, FIRST))) = 1
    <3>1. DSIZE \in Nat /\ DSIZE % 8 = 0
      BY GeometryAssumption DEF DSIZE
    <3>2. W!GET_SIZE(u1, BASE + 2 * WSIZE) = DSIZE /\ W!GET_ALLOC(u1, BASE + WSIZE) = 1
      BY <1>9, <3>1, ReadTag
    <3>3. FIRST - DSIZE = BASE + 2 * WSIZE
      BY <1>4
    <3>4. W!PREV_BLKP(u1, FIRST) = BASE + 2 * WSIZE
      BY <1>4, <3>2, <3>3, SameNumbers DEF W!PREV_BLKP
    <3>5. W!HDRP(BASE + 2 * WSIZE) = BASE + WSIZE
      BY <1>4 DEF W!HDRP
    <3> QED
      BY <3>2, <3>4, <3>5
  <2>2. W!GET_ALLOC(u1, W!HDRP(W!NEXT_BLKP(u1, FIRST))) = 1
    <3>1. W!GET(u1, FIRST - WSIZE) = m + 0 /\ W!GET(u1, e - WSIZE) = 0 + 1
      BY <1>1, <1>9
    <3>2. W!GET_SIZE(u1, FIRST - WSIZE) = m /\ W!GET_ALLOC(u1, e - WSIZE) = 1
      BY <1>1, <3>1, ReadTag
    <3> QED
      BY <1>0, <3>2 DEF W!HDRP, W!NEXT_BLKP
  <2> QED
    BY <2>1, <2>2 DEF W!coalesce
<1>11. w = W!RoverAtHead(W!extend_heap(u1, k))
  <2>1. W!Extended([s |-> u1, p |-> FIRST]) = W!extend_heap(u1, k)
    BY <1>0, <1>4, SameNumbers DEF W!Extended
  <2> QED
    BY <1>6, <1>8, <1>10, <2>1
<1>12. PICK u2 : Appended(u1, u2, e, k) /\ W!extend_heap(u1, k) = W!coalesce(u2, e)
  BY <1>1, <1>4, <1>9, InitExtend
\* The words of the second.
<1>13. /\ Good(u2) /\ u2.brk = e + k /\ u2.head = t.head /\ u2.rover = t.rover
       /\ W!GET(u2, FIRST - WSIZE) = m /\ W!GET(u2, e - DSIZE) = m
       /\ W!GET(u2, e - WSIZE) = k /\ W!GET(u2, (e + k) - WSIZE) = 1
       /\ W!GET(u2, BASE + WSIZE) = DSIZE + 1 /\ W!GET(u2, BASE + 2 * WSIZE) = DSIZE + 1
       /\ W!GET(u2, FIRST) = NULL /\ W!GET(u2, FIRST + WSIZE) = NULL
  <2>1. /\ Good(u2) /\ u2.brk = e + k /\ u2.head = u1.head /\ u2.rover = u1.rover
        /\ W!GET(u2, e - WSIZE) = k /\ W!GET(u2, e + k - WSIZE) = 1
        /\ \A a \in Int : a # e - WSIZE /\ a # e + k - DSIZE /\ a # e + k - WSIZE
                          => W!GET(u2, a) = W!GET(u1, a)
    BY <1>12 DEF Appended
  <2>2. e + k - WSIZE = (e + k) - WSIZE
    BY <1>4
  <2>3. ASSUME NEW a \in {FIRST - WSIZE, e - DSIZE, BASE + WSIZE, BASE + 2 * WSIZE, FIRST,
                          FIRST + WSIZE}
        PROVE  a \in Int /\ a # e - WSIZE /\ a # e + k - DSIZE /\ a # e + k - WSIZE
    BY <1>0, <1>1, <1>4
  <2> QED
    BY <1>9, <2>1, <2>2, <2>3
<1>14. /\ W!GET_SIZE(u2, e - WSIZE) = k /\ W!GET_SIZE(u2, e - DSIZE) = m
       /\ W!GET_ALLOC(u2, FIRST - WSIZE) = 0 /\ W!GET_ALLOC(u2, (e + k) - WSIZE) = 1
  <2>1. /\ W!GET(u2, e - WSIZE) = k + 0 /\ W!GET(u2, e - DSIZE) = m + 0
        /\ W!GET(u2, FIRST - WSIZE) = m + 0 /\ W!GET(u2, (e + k) - WSIZE) = 0 + 1
    BY <1>1, <1>4, <1>13
  <2> QED
    BY <1>1, <1>4, <2>1, ReadTag
<1> DEFINE y == W!Unlink(u2, FIRST, e)
<1>15. W!coalesce(u2, e) = [s |-> W!Join(y, FIRST, k, FIRST), p |-> FIRST]
  <2>1. W!PREV_BLKP(u2, e) = FIRST
    BY <1>0, <1>1, <1>4, <1>14, SameNumbers DEF W!PREV_BLKP
  <2>2. W!HDRP(e) = e - WSIZE /\ W!HDRP(FIRST) = FIRST - WSIZE
        /\ W!HDRP(W!NEXT_BLKP(u2, e)) = (e + k) - WSIZE
    BY <1>14 DEF W!HDRP, W!NEXT_BLKP
  <2> HIDE DEF y
  <2> QED
    BY <1>14, <2>1, <2>2 DEF W!coalesce, y
<1>16. Forgot(u2, y)
  <2>1. Bare(u2, FIRST)
    BY <1>13 DEF Bare
  <2> QED
    BY <1>5, <1>13, <2>1, ForgetFirst
<1> HIDE DEF y
<1>17. /\ Good(y) /\ y.brk = g.brk /\ y.head = NULL /\ y.rover = NULL
       /\ \A a : W!GET(y, a) = W!GET(u2, a)
  <2>1. e + k = FIRST + (m + k)
    BY <1>0, <1>1, <1>4
  <2> QED
    BY <1>2, <1>13, <1>16, <2>1 DEF Forgot
<1> DEFINE z == W!SetTags(y, FIRST, m + k, 0)
<1>18. W!Join(y, FIRST, k, FIRST) = z
  <2>1. W!GET(y, FIRST - WSIZE) = m + 0
    BY <1>1, <1>13, <1>17
  <2>2. W!GET_SIZE(y, W!HDRP(FIRST)) = m
    BY <1>1, <2>1, ReadTag DEF W!HDRP
  <2>3. k + m = m + k
    BY <1>1, <1>4
  <2> QED
    BY <2>2, <2>3 DEF W!Join
<1>19. w = [z EXCEPT !.rover = z.head]
  <2>1. W!RoverAtHead([s |-> z, p |-> FIRST]) = [z EXCEPT !.rover = z.head]
    BY <1>4, SameNumbers DEF W!RoverAtHead
  <2> QED
    BY <1>11, <1>12, <1>15, <1>18, <2>1
<1>20. z = W!SetTags(y, FIRST, g.size[FIRST], Alloc(g, FIRST))
  BY <1>2 DEF Alloc
<1> HIDE DEF z
<1>21. Edges(y, g)
  <2>1. g.brk - WSIZE = (e + k) - WSIZE
    BY <1>13, <1>16, <1>17 DEF Forgot
  <2> QED
    BY <1>13, <1>17, <2>1 DEF Edges
<1>22. /\ Good(z) /\ z.brk = y.brk /\ z.head = y.head /\ z.rover = y.rover
       /\ Tags(z, g)
       /\ W!GET(z, FIRST) = W!GET(y, FIRST) /\ W!GET(z, FIRST + WSIZE) = W!GET(y, FIRST + WSIZE)
  <2>1. Sound(g) /\ FIRST \in Blocks(g) /\ Good(y) /\ Edges(y, g)
        /\ \A x \in Blocks(g) \ {FIRST} : Tagged(y, g, x)
    BY <1>2, <1>3, <1>17, <1>21 DEF WF
  <2>2. /\ Good(z) /\ z.brk = y.brk /\ z.head = y.head /\ z.rover = y.rover
        /\ Tags(z, g)
    BY <1>20, <2>1, Retag
  <2>3. /\ W!GET(z, FIRST) = W!GET(y, FIRST) /\ W!GET(z, FIRST + WSIZE) = W!GET(y, FIRST + WSIZE)
    BY <1>20, <2>1, Retag
  <2> QED
    BY <2>2, <2>3
<1>23. w = z
  <2>1. z.rover = z.head
    BY <1>17, <1>22
  <2> QED
    BY <1>19, <1>22, <2>1 DEF Good
<1>24. Linked(z, {})
  <2>1. \E r \in [{} -> Nat] : TRUE
    <3>1. [x \in {} |-> 0] \in [{} -> Nat]
      OBVIOUS
    <3> QED
      BY <3>1
  <2> QED
    BY <1>17, <1>22, <2>1 DEF Linked, Ranked
<1>25. Shows(z, g)
  BY <1>2, <1>3, <1>17, <1>22, <1>24 DEF Shows, WF
<1>26. \A x \in Free(g) : Removable(z, g, x)
  BY <1>2, <1>13, <1>17, <1>22 DEF Removable, Bare
<1>27. Mirrors(z, g)
  BY <1>3, <1>25, <1>26 DEF Mirrors
<1> QED
  BY <1>23, <1>27 DEF w, g

\* A new process.
LEMMA FreshStale == Stale(W!Fresh)
<1> DEFINE t == W!Fresh
<1>1. t = [mem |-> [a \in W!Words |-> 0], brk |-> BASE, status |-> "ok",
           head |-> NULL, rover |-> NULL]
  BY SameNumbers DEF W!Fresh, W!FreshMemory
<1>2. BASE \in Int /\ NULL \in Int /\ NULL = 0
  BY WordSizes DEF NULL
<1> HIDE DEF t
<1>3. Good(t)
  BY <1>1, <1>2 DEF Good
<1>4. \A a \in Int : W!GET(t, a) = 0
  <2>1. \A a \in W!Words : t.mem[a] = 0
    BY <1>1
  <2>2. t.mem = [a \in W!Words |-> 0]
    BY <1>1
  <2> SUFFICES ASSUME NEW a \in Int PROVE W!GET(t, a) = 0
    OBVIOUS
  <2>3. CASE a \in W!Words
    BY <2>1, <2>3 DEF W!GET
  <2>4. CASE a \notin W!Words
    BY <2>4, IsWord, SameNumbers DEF W!GET
  <2> QED
    BY <2>3, <2>4
<1>5. FIRST \in Int /\ FIRST + WSIZE \in Int
  BY WordSizes
<1>6. t.brk = BASE /\ t.head = NULL /\ t.rover = NULL
  BY <1>1
<1> QED
  BY <1>2, <1>3, <1>4, <1>5, <1>6 DEF Stale, Bare, t

\* The heap of a client that has freed everything: the memory that the next
\* mm_init finds, whose statics point into it.
LEMMA EmptyStale ==
    ASSUME NEW t, NEW h, Mirrors(t, h), h.used = {}, NEW u, u = [t EXCEPT !.brk = BASE]
    PROVE  Stale(u)
<1>1. /\ WF(h) /\ Good(t) /\ Linked(t, h.listed) /\ h.listed \subseteq Blocks(h)
      /\ \A x \in Free(h) : Removable(t, h, x)
  BY DEF Mirrors, Shows, WF, Sound, HeapType
<1>2. Blocks(h) = {FIRST} /\ Free(h) = {FIRST}
  BY <1>1, AllFree DEF Free
<1>3. Good(u) /\ u.brk = BASE /\ u.head = t.head /\ u.rover = t.rover
      /\ \A a : W!GET(u, a) = W!GET(t, a)
  <2>1. BASE \in Int
    BY WordSizes
  <2> QED
    BY <1>1, <2>1, SetBrk
<1>4. PICK r \in [h.listed -> Nat] : Ranked(t, h.listed, r)
  BY <1>1 DEF Linked
<1>5. t.head \in {NULL, FIRST} /\ t.rover \in {NULL, FIRST}
  BY <1>1, <1>2, <1>4 DEF Ranked
<1>6. Bare(t, FIRST)
  <2>1. CASE FIRST \in h.listed
    <3>1. h.listed = {FIRST} /\ r[FIRST] \in Nat
      BY <1>1, <1>2, <2>1
    <3>2. /\ W!GET_PRED(t, FIRST) \in {FIRST, NULL} /\ W!GET_SUCC(t, FIRST) \in {FIRST, NULL}
          /\ W!GET_PRED(t, FIRST) = NULL <=> FIRST = t.head
          /\ t.head = NULL => h.listed = {}
          /\ W!GET_SUCC(t, FIRST) # NULL => r[FIRST] < r[W!GET_SUCC(t, FIRST)]
      BY <1>4, <3>1 DEF Ranked
    <3>3. W!GET_SUCC(t, FIRST) = NULL
      BY <3>1, <3>2
    <3>4. W!GET_PRED(t, FIRST) = NULL
      BY <1>5, <3>1, <3>2
    <3> QED
      BY <3>3, <3>4, LinkWords DEF Bare
  <2>2. CASE FIRST \notin h.listed
    BY <1>1, <1>2, <2>2 DEF Removable
  <2> QED
    BY <2>1, <2>2
<1> QED
  BY <1>3, <1>5, <1>6 DEF Stale, Bare

=============================================================================
