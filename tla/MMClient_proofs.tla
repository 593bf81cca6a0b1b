--------------------------- MODULE MMClient_proofs ---------------------------
(***************************************************************************)
(* mm.c word by word under the client of mdriver.c, for every size of the  *)
(* region, every chunk size of at least a block, both word sizes, every    *)
(* set of requests, any number of blocks and of calls: nothing fails, no   *)
(* payload changes, mm_checkheap has nothing to report, the search misses  *)
(* nothing, and every call does to the blocks what MMBlocks allows.        *)
(*                                                                         *)
(* The invariant WInv says which heap of MMBlocks the words mirror and     *)
(* that the client holds its allocated blocks, each filled with its bytes. *)
(***************************************************************************)
EXTENDS MM_proofs

-----------------------------------------------------------------------------
(* What the client holds.                                                  *)

\* The block of i is allocated, has room for what i asked for and holds only
\* the bytes of i.
Owns(t, h, i, b) ==
    /\ b.p \in h.used
    /\ b.n \in Requests \ {0}
    /\ b.n + DSIZE <= h.size[b.p]
    /\ W!Filled(t, b.p, b.n, C!Fill(i))

\* The names share out the allocated blocks.
Holds(t, h, f) ==
    /\ f = [i \in Ids |-> f[i]]
    /\ \A i \in Ids : f[i] = C!Unheld \/ Owns(t, h, i, f[i])
    /\ \A i, j \in Ids : f[i].p = f[j].p => i = j \/ f[i] = C!Unheld
    /\ \A p \in h.used : \E i \in Ids : f[i].p = p

WInv == Mirrors(s, heap) /\ Holds(s, heap, held) /\ live = C!LiveOf(held)

LEMMA Nulls ==
    /\ C!Unheld.p = NULL /\ C!Unheld.n = 0 /\ C!NULL = NULL /\ NULL = 0
    /\ W!NoBlock = {NULL, -1, -2}
BY SameNumbers DEF C!Unheld, C!NULL, NULL, W!NoBlock, W!HANG, W!FAULT

\* No allocated block is at what a failed call returns.
LEMMA NotNoBlock ==
    ASSUME NEW h, Sound(h), NEW p \in Blocks(h)
    PROVE  p \notin W!NoBlock /\ p # NULL /\ p \in Nat
BY BlockNotNull, Nulls

LEMMA FillInt ==
    ASSUME NEW i \in Ids
    PROVE  C!Fill(i) \in Int
BY ClientAssumption DEF C!Fill

\* A name that holds something, and a name that holds nothing.
LEMMA HeldBlock ==
    ASSUME NEW t, NEW h, Sound(h), NEW f, Holds(t, h, f), NEW i \in Ids
    PROVE  /\ f[i].p # NULL => Owns(t, h, i, f[i]) /\ f[i].p \in Blocks(h)
                               /\ f[i].p \in Nat /\ f[i] # C!Unheld
           /\ f[i].p = NULL => f[i] = C!Unheld
<1>1. f[i] = C!Unheld => f[i].p = NULL
  BY Nulls
<1>2. ASSUME Owns(t, h, i, f[i])
      PROVE  f[i].p \in Blocks(h) /\ f[i].p # NULL /\ f[i].p \in Nat /\ f[i] # C!Unheld
  <2>1. f[i].p \in Blocks(h)
    BY <1>2 DEF Owns, Sound, HeapType
  <2> QED
    BY <1>1, <2>1, BlockNotNull
<1> QED
  BY <1>1, <1>2 DEF Holds

\* live, as MMBlocks has it, is what the names hold.
Lives(l, h, f) ==
    /\ l = [p \in h.used |-> l[p]]
    /\ \A i \in Ids : f[i].p # NULL => l[f[i].p] = f[i].n

LEMMA LivesAt ==
    ASSUME NEW l, NEW h, NEW f, Lives(l, h, f), NEW i \in Ids, NEW x, f[i].p = x, x # NULL
    PROVE  l[x] = f[i].n
BY DEF Lives

LEMMA LiveIs ==
    ASSUME NEW t, NEW h, Sound(h), NEW f, Holds(t, h, f)
    PROVE  Lives(C!LiveOf(f), h, f)
<1> DEFINE S == {f[i].p : i \in {j \in Ids : f[j] # C!Unheld}}
           v(p) == f[CHOOSE i \in Ids : f[i].p = p].n
           l == C!LiveOf(f)
<1>1. S = h.used
  <2>1. \A p \in S : p \in h.used
    BY HeldBlock DEF Holds, Owns
  <2>2. ASSUME NEW p \in h.used PROVE p \in S
    <3>1. p \in Blocks(h)
      BY DEF Sound, HeapType
    <3>2. PICK i \in Ids : f[i].p = p
      BY DEF Holds
    <3>3. f[i].p # NULL
      BY <3>1, <3>2, BlockNotNull
    <3> QED
      BY <3>2, <3>3, HeldBlock
  <2> QED
    BY <2>1, <2>2
<1>2. l = [p \in h.used |-> v(p)]
  <2>1. l = [p \in S |-> v(p)]
    BY DEF C!LiveOf
  <2> HIDE DEF S, v, l
  <2> QED
    BY <1>1, <2>1
<1> HIDE DEF l
<1>3. ASSUME NEW i \in Ids, f[i].p # NULL PROVE l[f[i].p] = f[i].n
  <2>1. f[i].p \in h.used
    BY <1>3, HeldBlock DEF Owns
  <2> DEFINE j == CHOOSE k \in Ids : f[k].p = f[i].p
  <2>2. j \in Ids /\ f[j].p = f[i].p
    OBVIOUS
  <2>3. l[f[i].p] = f[j].n
    BY <1>2, <2>1
  <2> HIDE DEF j
  <2>4. f[j] # C!Unheld
    BY <1>3, <2>2, HeldBlock
  <2>5. j = i
    BY <2>2, <2>4 DEF Holds
  <2> QED
    BY <2>3, <2>5
<1> QED
  BY <1>2, <1>3 DEF Lives, l

-----------------------------------------------------------------------------
(* How calls change what the client holds.                                 *)

\* A payload that is kept stays filled.
LEMMA OwnsKept ==
    ASSUME NEW h, Sound(h), NEW t, NEW i, NEW b, Owns(t, h, i, b),
           NEW g, b.p \in g.used, g.size[b.p] = h.size[b.p],
           NEW u, \A a \in Int : b.p <= a /\ a < EndOf(h, b.p) - DSIZE
                                 => W!GET(u, a) = W!GET(t, a)
    PROVE  Owns(u, g, i, b)
<1>1. /\ b.p \in Blocks(h) /\ b.n \in Nat /\ b.n + DSIZE <= h.size[b.p]
      /\ b.n \in Requests \ {0} /\ W!Filled(t, b.p, b.n, C!Fill(i))
  BY RequestRange DEF Owns, Sound, HeapType
<1>2. ASSUME NEW a \in W!PayloadWords(b.p, b.n) PROVE W!GET(u, a) = W!GET(t, a)
  <2>1. a \in Int /\ b.p <= a /\ a < EndOf(h, b.p) - DSIZE
    BY <1>1, <1>2, PayloadRange
  <2> QED
    BY <2>1
<1>3. W!Filled(u, b.p, b.n, C!Fill(i))
  BY <1>1, <1>2 DEF W!Filled
<1> QED
  BY <1>1, <1>3 DEF Owns

\* Nothing the client holds changes.
LEMMA HoldsKept ==
    ASSUME NEW h, Sound(h), NEW t, NEW f, Holds(t, h, f), NEW u, Kept(t, u, h)
    PROVE  Holds(u, h, f)
<1>1. ASSUME NEW i \in Ids, f[i] # C!Unheld PROVE Owns(u, h, i, f[i])
  <2>1. Owns(t, h, i, f[i]) /\ f[i].p \in h.used
    BY <1>1 DEF Holds, Owns
  <2>2. \A a \in Int : f[i].p <= a /\ a < EndOf(h, f[i].p) - DSIZE
                       => W!GET(u, a) = W!GET(t, a)
    BY <2>1 DEF Kept
  <2> QED
    BY <2>1, <2>2, OwnsKept
<1> QED
  BY <1>1 DEF Holds

\* e is f with the block of i replaced by b.
Changed(f, e, i, b) ==
    e = [j \in Ids |-> e[j]] /\ e[i] = b /\ \A j \in Ids : j # i => e[j] = f[j]

LEMMA ChangedIs ==
    ASSUME NEW t, NEW h, NEW f, Holds(t, h, f), NEW i \in Ids, NEW b
    PROVE  Changed(f, [f EXCEPT ![i] = b], i, b)
BY DEF Holds, Changed

\* i gives its block back.
LEMMA HoldsLess ==
    ASSUME NEW h, Sound(h), NEW t, NEW f, Holds(t, h, f), NEW i \in Ids,
           NEW p \in h.used, p = f[i].p,
           NEW g, Sound(g), g.used = h.used \ {p}, \A x \in g.used : g.size[x] = h.size[x],
           NEW u, KeptBut(t, u, h, p),
           NEW e, Changed(f, e, i, C!Unheld)
    PROVE  Holds(u, g, e) /\ C!LiveOf(e) = Unbind(C!LiveOf(f), p)
<1>0. p # NULL /\ f[i] # C!Unheld
  BY HeldBlock, BlockNotNull DEF Sound, HeapType
<1>1. e = [j \in Ids |-> e[j]] /\ e[i] = C!Unheld /\ \A j \in Ids : j # i => e[j] = f[j]
  BY DEF Changed
<1>2. ASSUME NEW j \in Ids, e[j] # C!Unheld PROVE j # i /\ f[j].p # p /\ Owns(u, g, j, e[j])
  <2>1. j # i /\ e[j] = f[j] /\ Owns(t, h, j, f[j]) /\ f[j].p \in h.used
    BY <1>1, <1>2 DEF Holds, Owns
  <2>2. f[j].p # p
    BY <1>2, <2>1 DEF Holds
  <2>3. f[j].p \in g.used /\ g.size[f[j].p] = h.size[f[j].p]
    BY <2>1, <2>2
  <2>4. \A a \in Int : f[j].p <= a /\ a < EndOf(h, f[j].p) - DSIZE
                       => W!GET(u, a) = W!GET(t, a)
    BY <2>1, <2>2 DEF KeptBut
  <2>5. Owns(u, g, j, f[j])
    BY <2>1, <2>3, <2>4, OwnsKept
  <2> QED
    BY <2>1, <2>2, <2>5
<1>3. \A j, k \in Ids : e[j].p = e[k].p => j = k \/ e[j] = C!Unheld
  <2> SUFFICES ASSUME NEW j \in Ids, NEW k \in Ids, e[j].p = e[k].p, e[j] # C!Unheld
               PROVE  j = k
    OBVIOUS
  <2>1. j # i /\ e[j] = f[j]
    BY <1>1
  <2>2. e[j].p # NULL
    BY <2>1, HeldBlock
  <2>3. k # i
    BY <1>1, <2>2, Nulls
  <2>4. e[k] = f[k]
    BY <1>1, <2>3
  <2> QED
    BY <2>1, <2>4 DEF Holds
<1>4. \A x \in g.used : \E j \in Ids : e[j].p = x
  <2> SUFFICES ASSUME NEW x \in g.used PROVE \E j \in Ids : e[j].p = x
    OBVIOUS
  <2>1. PICK j \in Ids : f[j].p = x
    BY DEF Holds
  <2>2. j # i
    BY <2>1
  <2> QED
    BY <1>1, <2>1, <2>2
<1>5. Holds(u, g, e)
  BY <1>1, <1>2, <1>3, <1>4 DEF Holds
<1>6. C!LiveOf(e) = Unbind(C!LiveOf(f), p)
  <2> DEFINE l == C!LiveOf(f)
             m == C!LiveOf(e)
  <2>1. Lives(l, h, f) /\ Lives(m, g, e)
    BY <1>5, LiveIs
  <2> HIDE DEF l, m
  <2>2. /\ l = [x \in h.used |-> l[x]] /\ m = [x \in g.used |-> m[x]]
    BY <2>1 DEF Lives
  <2>3. ASSUME NEW x \in g.used PROVE m[x] = l[x]
    <3>1. PICK j \in Ids : e[j].p = x
      BY <1>4
    <3>2. x # NULL
      BY BlockNotNull DEF Sound, HeapType
    <3>3. e[j] = f[j]
      BY <1>1, <3>1, <3>2, Nulls
    <3> QED
      <4>1. m[x] = e[j].n
        BY <2>1, <3>1, <3>2, LivesAt
      <4>2. f[j].p = x
        BY <3>1, <3>3
      <4>3. l[x] = f[j].n
        BY <2>1, <3>2, <4>2, LivesAt
      <4> QED
        BY <3>3, <4>1, <4>3
  <2>4. Unbind(l, p) = [x \in g.used |-> l[x]]
    BY <2>2 DEF Unbind
  <2>5. m = [x \in g.used |-> l[x]]
    BY <2>2, <2>3
  <2> QED
    BY <2>4, <2>5 DEF l, m
<1> QED
  BY <1>5, <1>6

\* Two calls that leave all but p, and then all but what replaces p.
LEMMA KeptButTwice ==
    ASSUME NEW h, NEW g, NEW p, NEW q, q = p \/ q \notin h.used,
           g.used = (h.used \ {p}) \cup {q},
           \A x \in h.used : x # p => g.size[x] = h.size[x],
           NEW t, NEW v, NEW u, KeptBut(t, v, h, p), KeptBut(v, u, g, q)
    PROVE  KeptBut(t, u, h, p)
<1> SUFFICES ASSUME NEW x \in h.used \ {p}, NEW a \in Int, x <= a, a < EndOf(h, x) - DSIZE
             PROVE  W!GET(u, a) = W!GET(t, a)
  BY DEF KeptBut
<1>1. x \in g.used \ {q} /\ EndOf(g, x) = EndOf(h, x)
  BY DEF EndOf
<1>2. W!GET(u, a) = W!GET(v, a)
  BY <1>1 DEF KeptBut
<1>3. W!GET(v, a) = W!GET(t, a)
  BY DEF KeptBut
<1> QED
  BY <1>2, <1>3

\* i gets the block q in place of the block p, or of none.
LEMMA HoldsMore ==
    ASSUME NEW h, Sound(h), NEW t, NEW f, Holds(t, h, f), NEW i \in Ids,
           NEW p, p = f[i].p,
           NEW g, Sound(g), NEW q \in Blocks(g), q = p \/ q \notin h.used,
           g.used = (h.used \ {p}) \cup {q},
           \A x \in h.used : x # p => g.size[x] = h.size[x],
           NEW n \in Requests \ {0}, g.size[q] >= n + DSIZE,
           NEW u, KeptBut(t, u, h, p), W!Filled(u, q, n, C!Fill(i)),
           NEW e, Changed(f, e, i, [p |-> q, n |-> n])
    PROVE  Holds(u, g, e) /\ C!LiveOf(e) = Bind(Unbind(C!LiveOf(f), p), q, n)
<1>0. n \in Nat /\ DSIZE \in Nat /\ q \in Nat /\ q # NULL /\ g.size[q] \in Nat
  <2>1. g.size[q] \in Nat
    BY DEF Sound, HeapType
  <2> QED
    BY <2>1, RequestRange, WordSizes, BlockNotNull
<1>1. /\ e = [j \in Ids |-> e[j]] /\ e[i] = [p |-> q, n |-> n]
      /\ \A j \in Ids : j # i => e[j] = f[j]
  BY DEF Changed
<1>2. e[i].p = q /\ e[i].n = n
  BY <1>1
<1>3. Owns(u, g, i, e[i])
  <2>1. n + DSIZE <= g.size[q] /\ q \in g.used
    BY <1>0
  <2> QED
    BY <1>2, <2>1 DEF Owns
<1>4. ASSUME NEW j \in Ids, j # i, f[j] # C!Unheld
      PROVE  f[j].p # p /\ f[j].p # q /\ f[j].p \in g.used /\ f[j].p \in h.used
             /\ Owns(u, g, j, f[j])
  <2>1. Owns(t, h, j, f[j]) /\ f[j].p \in h.used
    BY <1>4 DEF Holds, Owns
  <2>2. f[j].p # p
    BY <1>4 DEF Holds
  <2>3. f[j].p \in g.used /\ f[j].p # q /\ g.size[f[j].p] = h.size[f[j].p]
    BY <2>1, <2>2
  <2>4. \A a \in Int : f[j].p <= a /\ a < EndOf(h, f[j].p) - DSIZE
                       => W!GET(u, a) = W!GET(t, a)
    BY <2>1, <2>2 DEF KeptBut
  <2>5. Owns(u, g, j, f[j])
    BY <2>1, <2>3, <2>4, OwnsKept
  <2> QED
    BY <2>1, <2>2, <2>3, <2>5
<1>5. \A j, k \in Ids : e[j].p = e[k].p => j = k \/ e[j] = C!Unheld
  <2> SUFFICES ASSUME NEW j \in Ids, NEW k \in Ids, e[j].p = e[k].p, e[j] # C!Unheld
               PROVE  j = k
    OBVIOUS
  <2>1. CASE j = i
    <3>1. ASSUME k # i PROVE FALSE
      <4>1. e[k] = f[k] /\ f[k].p = q
        BY <1>1, <1>2, <2>1, <3>1
      <4>2. f[k] # C!Unheld
        BY <1>0, <4>1, Nulls
      <4> QED
        BY <1>4, <3>1, <4>1, <4>2
    <3> QED
      BY <2>1, <3>1
  <2>2. CASE j # i
    <3>1. e[j] = f[j] /\ f[j] # C!Unheld /\ f[j].p # q
      BY <1>1, <1>4, <2>2
    <3>2. k # i
      BY <1>2, <3>1
    <3>3. e[k] = f[k]
      BY <1>1, <3>2
    <3> QED
      BY <3>1, <3>3 DEF Holds
  <2> QED
    BY <2>1, <2>2
<1>6. ASSUME NEW x \in g.used
      PROVE  x = q \/ (x \in h.used \ {p} /\ \E j \in Ids : j # i /\ f[j].p = x)
  <2>1. CASE x # q
    <3>1. x \in h.used /\ x # p
      BY <2>1
    <3>2. PICK j \in Ids : f[j].p = x
      BY <3>1 DEF Holds
    <3> QED
      BY <3>1, <3>2
  <2> QED
    BY <2>1
<1>7. \A x \in g.used : \E j \in Ids : e[j].p = x
  BY <1>1, <1>2, <1>6
<1>8. Holds(u, g, e)
  <2>1. \A j \in Ids : e[j] = C!Unheld \/ Owns(u, g, j, e[j])
    BY <1>1, <1>3, <1>4
  <2> QED
    BY <1>1, <1>5, <1>7, <2>1 DEF Holds
<1>9. C!LiveOf(e) = Bind(Unbind(C!LiveOf(f), p), q, n)
  <2> DEFINE l == C!LiveOf(f)
             m == C!LiveOf(e)
             k == Unbind(l, p)
  <2>1. Lives(l, h, f) /\ Lives(m, g, e)
    BY <1>8, LiveIs
  <2> HIDE DEF l, m
  <2>2. l = [x \in h.used |-> l[x]] /\ m = [x \in g.used |-> m[x]]
    BY <2>1 DEF Lives
  <2>3. k = [x \in h.used \ {p} |-> l[x]]
    BY <2>2 DEF Unbind
  <2> HIDE DEF k
  <2>4. Bind(k, q, n) = [x \in g.used |-> IF x = q THEN n ELSE k[x]]
    BY <2>3 DEF Bind
  <2>5. m[q] = n
    BY <1>0, <1>2, <2>1, LivesAt
  <2>6. ASSUME NEW x \in g.used, x # q PROVE m[x] = k[x]
    <3>1. PICK j \in Ids : j # i /\ f[j].p = x
      BY <1>6, <2>6
    <3>2. x \in h.used \ {p} /\ x # NULL /\ e[j] = f[j] /\ e[j].p = x
      <4>1. x \in h.used \ {p}
        BY <1>6, <2>6
      <4>2. x # NULL
        BY BlockNotNull DEF Sound, HeapType
      <4> QED
        BY <1>1, <3>1, <4>1, <4>2
    <3>3. m[x] = e[j].n
      BY <2>1, <3>2, LivesAt
    <3>4. l[x] = f[j].n
      BY <2>1, <3>1, <3>2, LivesAt
    <3> QED
      BY <2>3, <3>2, <3>3, <3>4
  <2>7. m = [x \in g.used |-> IF x = q THEN n ELSE k[x]]
    BY <2>2, <2>5, <2>6
  <2> QED
    BY <2>4, <2>7 DEF l, m, k
<1> QED
  BY <1>8, <1>9

-----------------------------------------------------------------------------
(* The calls, by the words they leave and the blocks these mirror.         *)

\* The words t are those of the heap h, whose blocks f holds.
Stands(t, h, f) == Mirrors(t, h) /\ Holds(t, h, f)

LEMMA StandsFacts ==
    ASSUME NEW t, NEW h, NEW f, Stands(t, h, f)
    PROVE  /\ Mirrors(t, h) /\ Holds(t, h, f) /\ WF(h) /\ Sound(h) /\ Good(t)
           /\ h.used \subseteq Blocks(h)
BY DEF Stands, Mirrors, WF, Shows, Sound, HeapType

\* The client has filled the n bytes that it got for i at q.
Refilled(v, q, n, i, g, f, l) ==
    /\ Stands(W!memset(v, q, n, C!Fill(i)), g, [f EXCEPT ![i] = [p |-> q, n |-> n]])
    /\ C!LiveOf([f EXCEPT ![i] = [p |-> q, n |-> n]]) = Bind(l, q, n)

LEMMA RefilledIs ==
    ASSUME NEW t, NEW h, NEW f, Stands(t, h, f), NEW i \in Ids,
           NEW p, p = f[i].p,
           NEW g, NEW q \in Blocks(g), q = p \/ q \notin h.used,
           g.used = (h.used \ {p}) \cup {q},
           \A x \in h.used : x # p => g.size[x] = h.size[x],
           NEW n \in Requests \ {0}, g.size[q] >= n + DSIZE,
           NEW v, Mirrors(v, g), KeptBut(t, v, h, p)
    PROVE  Refilled(v, q, n, i, g, f, Unbind(C!LiveOf(f), p))
<1> DEFINE u == W!memset(v, q, n, C!Fill(i))
           e == [f EXCEPT ![i] = [p |-> q, n |-> n]]
<1>1. Sound(h) /\ Holds(t, h, f) /\ Sound(g) /\ Good(v)
  BY StandsFacts DEF Mirrors, Shows
<1>2. n \in Nat /\ n + DSIZE <= g.size[q] /\ C!Fill(i) \in Int
  <2>1. g.size[q] \in Nat /\ DSIZE \in Nat /\ n \in Nat
    BY <1>1, RequestRange, WordSizes DEF Sound, HeapType
  <2> QED
    BY <2>1, FillInt
<1>3. Overwrote(v, u, g, q) /\ W!Filled(u, q, n, C!Fill(i))
  BY <1>1, <1>2, MemsetWords
<1>4. Changed(f, e, i, [p |-> q, n |-> n])
  BY <1>1, ChangedIs
<1> HIDE DEF u, e
<1>5. Mirrors(u, g) /\ KeptBut(v, u, g, q)
  BY <1>3, OverwroteWords
<1>6. KeptBut(t, u, h, p)
  BY <1>5, KeptButTwice
<1>7. Holds(u, g, e) /\ C!LiveOf(e) = Bind(Unbind(C!LiveOf(f), p), q, n)
  BY <1>1, <1>3, <1>4, <1>6, HoldsMore
<1> QED
  BY <1>5, <1>7 DEF Stands, Refilled, u, e

\* live has no block at NULL to forget.
LEMMA UnbindNull ==
    ASSUME NEW t, NEW h, NEW f, Stands(t, h, f)
    PROVE  Unbind(C!LiveOf(f), NULL) = C!LiveOf(f) /\ h.used \ {NULL} = h.used
<1>1. Sound(h) /\ Holds(t, h, f) /\ NULL \notin h.used
  BY StandsFacts, BlockNotNull
<1> DEFINE l == C!LiveOf(f)
<1>2. l = [x \in h.used |-> l[x]]
  BY <1>1, LiveIs DEF Lives
<1> HIDE DEF l
<1>3. Unbind(l, NULL) = l
  BY <1>1, <1>2 DEF Unbind
<1> QED
  BY <1>1, <1>3 DEF l

\* What mm_malloc, and what mm_realloc to a size, leaves the client with.
Gave(r, q, n, i, f, l) ==
    /\ r.p = q.p /\ (r.p \in W!NoBlock <=> r.p = NULL)
    /\ r.p = NULL => Stands(r.s, q.h, f)
    /\ r.p # NULL => Refilled(r.s, r.p, n, i, q.h, f, l)

LEMMA MallocGave ==
    ASSUME NEW t, NEW h, NEW f, Stands(t, h, f), NEW i \in Ids,
           f[i].p = NULL, NEW n \in Requests, NEW r, r = W!mm_malloc(t, n)
    PROVE  \E q \in mm_malloc(h, n) :
              Gave(r, q, n, i, f, C!LiveOf(f)) /\ (r.p = NULL => q.h = h) /\ (n = 0 => r.p = NULL)
<1>1. Mirrors(t, h) /\ Holds(t, h, f) /\ WF(h) /\ Sound(h) /\ n \in 0 .. MaxRequest
  BY StandsFacts, RequestRange
<1>2. PICK q \in mm_malloc(h, n) : r.p = q.p /\ Mirrors(r.s, q.h) /\ Kept(t, r.s, h)
  BY <1>1, MallocWords
<1>3. \/ q.p = NULL /\ q.h = h
      \/ n # 0 /\ q.p # NULL /\ Served(h, q.h, q.p, n)
  BY <1>1, MallocDone
<1>4. CASE q.p = NULL /\ q.h = h
  <2>1. Holds(r.s, h, f)
    BY <1>1, <1>2, HoldsKept
  <2> QED
    BY <1>2, <1>4, <2>1, Nulls DEF Gave, Stands
<1>5. CASE n # 0 /\ q.p # NULL /\ Served(h, q.h, q.p, n)
  <2>1. /\ q.p \in Blocks(q.h) /\ q.p \notin h.used /\ q.h.used = h.used \cup {q.p}
        /\ \A x \in h.used : q.h.size[x] = h.size[x]
        /\ q.h.size[q.p] >= n + DSIZE /\ n \in Requests \ {0} /\ Sound(q.h)
    BY <1>5 DEF Served, WF
  <2>2. q.h.used = (h.used \ {NULL}) \cup {q.p}
    BY <2>1, UnbindNull
  <2>3. KeptBut(t, r.s, h, NULL)
    BY <1>2 DEF Kept, KeptBut
  <2>4. Refilled(r.s, q.p, n, i, q.h, f, Unbind(C!LiveOf(f), NULL))
    BY <1>2, <2>1, <2>2, <2>3, RefilledIs
  <2>5. Refilled(r.s, r.p, n, i, q.h, f, C!LiveOf(f))
    BY <1>2, <2>4, UnbindNull
  <2>6. r.p \notin W!NoBlock
    BY <1>2, <2>1, NotNoBlock
  <2> QED
    BY <1>2, <1>5, <2>5, <2>6, Nulls DEF Gave
<1> QED
  BY <1>3, <1>4, <1>5

\* i has given its block p back.
Freed(u, g, i, f, l, p) ==
    /\ Stands(u, g, [f EXCEPT ![i] = C!Unheld])
    /\ C!LiveOf([f EXCEPT ![i] = C!Unheld]) = Unbind(l, p)

LEMMA FreedIs ==
    ASSUME NEW t, NEW h, NEW f, Stands(t, h, f), NEW i \in Ids,
           NEW p \in h.used, p = f[i].p, NEW g, g = mm_free(h, p),
           NEW u, Mirrors(u, g), KeptBut(t, u, h, p)
    PROVE  Freed(u, g, i, f, C!LiveOf(f), p)
<1> DEFINE e == [f EXCEPT ![i] = C!Unheld]
<1>1. Sound(h) /\ Holds(t, h, f) /\ WF(h)
  BY StandsFacts
<1>2. WF(g) /\ g.used = h.used \ {p} /\ \A x \in g.used : g.size[x] = h.size[x]
  BY <1>1, FreeDone
<1>3. Changed(f, e, i, C!Unheld)
  BY <1>1, ChangedIs
<1> HIDE DEF e
<1>4. Sound(g)
  BY <1>2 DEF WF
<1>5. Holds(u, g, e) /\ C!LiveOf(e) = Unbind(C!LiveOf(f), p)
  BY <1>1, <1>2, <1>3, <1>4, HoldsLess
<1> QED
  BY <1>5 DEF Freed, Stands, e

LEMMA DisposeGave ==
    ASSUME NEW t, NEW h, NEW f, Stands(t, h, f), NEW i \in Ids,
           NEW p \in h.used, p = f[i].p
    PROVE  Freed(W!mm_free(t, p), mm_free(h, p), i, f, C!LiveOf(f), p)
<1> DEFINE g == mm_free(h, p)
           u == W!mm_free(t, p)
<1>1. Mirrors(t, h) /\ g = mm_free(h, p) /\ u = W!mm_free(t, p)
  BY StandsFacts
<1> HIDE DEF g, u
<1>2. Mirrors(u, g) /\ Kept(t, u, g)
  BY <1>1, FreeWords
<1>3. WF(h) /\ Sound(h)
  BY StandsFacts
<1>4. g.used = h.used \ {p} /\ \A x \in g.used : g.size[x] = h.size[x]
  BY <1>1, <1>3, FreeDone
<1>5. KeptBut(t, u, h, p)
  <2> SUFFICES ASSUME NEW x \in h.used \ {p}, NEW a \in Int, x <= a, a < EndOf(h, x) - DSIZE
               PROVE  W!GET(u, a) = W!GET(t, a)
    BY DEF KeptBut
  <2>1. x \in g.used /\ EndOf(g, x) = EndOf(h, x)
    BY <1>4 DEF EndOf
  <2> QED
    BY <1>2, <2>1 DEF Kept
<1>6. Freed(u, g, i, f, C!LiveOf(f), p)
  BY <1>1, <1>2, <1>5, FreedIs
<1> QED
  BY <1>1, <1>6

\* What the client looks for after mm_realloc is there.
CopyOf(f, i, n) == IF n < f[i].n THEN n ELSE f[i].n

LEMMA CarriedFilled ==
    ASSUME NEW t, NEW u, NEW p \in Int, NEW q \in Int, NEW k \in Nat, Carried(t, u, p, q, k),
           NEW m \in Nat, k <= m, NEW c, W!Filled(t, p, m, c)
    PROVE  W!Filled(u, q, k, c)
<1> SUFFICES ASSUME NEW a \in W!PayloadWords(q, k) PROVE W!GET(u, a) = c
  BY DEF W!Filled
<1>1. W!GET(u, a) = W!GET(t, p + (a - q))
  BY DEF Carried
<1>2. p + (a - q) \in W!PayloadWords(p, k)
  <2>1. PICK j \in 0 .. (k \div WSIZE) - 1 : a = q + j * WSIZE
    BY DEF W!PayloadWords
  <2>2. (k \div WSIZE) \in Int /\ WSIZE \in Int
    BY GeometryAssumption
  <2>3. j \in Int /\ j * WSIZE \in Int
    BY <2>1, <2>2
  <2>4. p + (a - q) = p + j * WSIZE
    BY <2>1, <2>3
  <2> QED
    BY <2>1, <2>4 DEF W!PayloadWords
<1>3. p + (a - q) \in W!PayloadWords(p, m)
  BY <1>2, PayloadGrows
<1> QED
  BY <1>1, <1>3 DEF W!Filled

LEMMA ReallocGave ==
    ASSUME NEW t, NEW h, NEW f, Stands(t, h, f), NEW i \in Ids,
           NEW p \in h.used, p = f[i].p, NEW n \in Requests, NEW r, r = W!mm_realloc(t, p, n)
    PROVE  \E q \in mm_realloc(h, p, n) :
              /\ r.p = q.p /\ (r.p = NULL /\ n # 0 => q.h = h)
              /\ n = 0 => Freed(r.s, q.h, i, f, C!LiveOf(f), p)
              /\ n # 0 => Gave(r, q, n, i, f, Unbind(C!LiveOf(f), p))
              /\ n # 0 /\ r.p # NULL => W!Filled(r.s, r.p, CopyOf(f, i, n), C!Fill(i))
<1> DEFINE k == CopyOf(f, i, n)
<1>1. Mirrors(t, h) /\ Holds(t, h, f) /\ WF(h) /\ Sound(h) /\ n \in 0 .. MaxRequest /\ n \in Nat
      /\ h.used \subseteq Blocks(h)
  BY StandsFacts, RequestRange
<1>2. /\ p \in Blocks(h) /\ p # NULL /\ p \in Nat /\ Owns(t, h, i, f[i])
      /\ f[i].n \in Nat /\ f[i].n + DSIZE <= h.size[p] /\ W!Filled(t, p, f[i].n, C!Fill(i))
  <2>1. p \in Blocks(h) /\ p # NULL /\ p \in Nat
    BY <1>1, BlockNotNull
  <2>2. Owns(t, h, i, f[i])
    BY <1>1, <2>1, HeldBlock
  <2> QED
    BY <2>1, <2>2, RequestRange DEF Owns
<1>3. k \in Nat /\ k + DSIZE <= h.size[p] /\ k <= n /\ k <= f[i].n
  <2>1. h.size[p] \in Nat /\ DSIZE \in Nat
    BY <1>1, <1>2, WordSizes DEF Sound, HeapType
  <2> QED
    BY <1>1, <1>2, <2>1 DEF CopyOf
<1> HIDE DEF k
<1>4. PICK q \in mm_realloc(h, p, n) :
              /\ r.p = q.p
              /\ Mirrors(r.s, q.h)
              /\ KeptBut(t, r.s, h, p)
              /\ n # 0 /\ r.p = NULL => Kept(t, r.s, h)
              /\ n # 0 /\ r.p # NULL => Carried(t, r.s, p, r.p, k)
  BY <1>1, <1>3, ReallocWords
<1>5. \/ n = 0 /\ q.p = NULL /\ q.h = mm_free(h, p)
      \/ n # 0 /\ q.p = NULL /\ q.h = h
      \/ n # 0 /\ q.p # NULL /\ Resized(h, q.h, p, q.p, n)
  BY <1>1, ReallocDone
<1>6. CASE n = 0 /\ q.p = NULL /\ q.h = mm_free(h, p)
  <2>1. Freed(r.s, q.h, i, f, C!LiveOf(f), p)
    BY <1>4, <1>6, FreedIs
  <2> QED
    BY <1>4, <1>6, <2>1
<1>7. CASE n # 0 /\ q.p = NULL /\ q.h = h
  <2>1. Holds(r.s, h, f)
    BY <1>1, <1>4, <1>7, HoldsKept
  <2>2. Gave(r, q, n, i, f, Unbind(C!LiveOf(f), p))
    BY <1>4, <1>7, <2>1, Nulls DEF Gave, Stands
  <2> QED
    BY <1>4, <1>7, <2>2
<1>8. CASE n # 0 /\ q.p # NULL /\ Resized(h, q.h, p, q.p, n)
  <2>1. /\ q.p \in Blocks(q.h) /\ (q.p = p \/ q.p \notin h.used)
        /\ q.h.used = (h.used \ {p}) \cup {q.p}
        /\ \A x \in h.used : x # p => q.h.size[x] = h.size[x]
        /\ q.h.size[q.p] >= n + DSIZE /\ n \in Requests \ {0} /\ Sound(q.h)
    BY <1>8 DEF Resized, WF
  <2>2. Refilled(r.s, q.p, n, i, q.h, f, Unbind(C!LiveOf(f), p))
    BY <1>4, <2>1, RefilledIs
  <2>3. r.p \notin W!NoBlock /\ r.p \in Int
    BY <1>4, <2>1, NotNoBlock
  <2>4. Gave(r, q, n, i, f, Unbind(C!LiveOf(f), p))
    BY <1>4, <1>8, <2>2, <2>3, Nulls DEF Gave
  <2>5. Carried(t, r.s, p, r.p, k)
    BY <1>4, <1>8
  <2>6. W!Filled(r.s, r.p, k, C!Fill(i))
    BY <1>2, <1>3, <2>3, <2>5, CarriedFilled
  <2> QED
    BY <1>4, <1>8, <2>4, <2>6 DEF k
<1> QED
  BY <1>5, <1>6, <1>7, <1>8

-----------------------------------------------------------------------------
(* The steps of the client.                                                *)

\* heap and live follow the words and the client.
Follow == heap' = W!HeapOfWords(s') /\ live' = C!LiveOf(held')

LEMMA Lands ==
    ASSUME NEW g, Stands(s', g, held'), Follow
    PROVE  heap' = g /\ live' = C!LiveOf(held') /\ WInv'
<1>1. Shows(s', g)
  BY DEF Stands, Mirrors
<1>2. heap' = g
  BY <1>1, HeapIs DEF Follow
<1> QED
  BY <1>2 DEF Follow, WInv, Stands

LEMMA InvFacts ==
    ASSUME WInv
    PROVE  /\ Stands(s, heap, held) /\ live = C!LiveOf(held) /\ DOMAIN live = heap.used
           /\ \A i \in Ids : /\ C!IsHeld(i) => held[i].p \in heap.used
                             /\ ~C!IsHeld(i) => held[i].p = NULL /\ held[i] = C!Unheld
<1>1. Stands(s, heap, held) /\ live = C!LiveOf(held)
  BY DEF WInv, Stands
<1>2. Sound(heap) /\ Holds(s, heap, held)
  BY <1>1, StandsFacts
<1>3. DOMAIN live = heap.used
  <2>1. Lives(live, heap, held)
    BY <1>1, <1>2, LiveIs
  <2> QED
    BY <2>1 DEF Lives
<1>4. ASSUME NEW i \in Ids
      PROVE  /\ C!IsHeld(i) => held[i].p \in heap.used
             /\ ~C!IsHeld(i) => held[i].p = NULL /\ held[i] = C!Unheld
  BY <1>2, HeldBlock, Nulls DEF C!IsHeld, Owns
<1> QED
  BY <1>1, <1>3, <1>4

LEMMA MallocWordStep ==
    ASSUME WInv, Follow, NEW i \in Ids, NEW n \in Requests, C!Malloc(i, n)
    PROVE  WInv' /\ Malloc(n)
<1> DEFINE r == W!mm_malloc(s, n)
<1>1. /\ held[i].p = NULL
      /\ r.p \in W!NoBlock => s' = r.s /\ held' = held
      /\ r.p \notin W!NoBlock => /\ s' = W!memset(r.s, r.p, n, C!Fill(i))
                                 /\ held' = [held EXCEPT ![i] = [p |-> r.p, n |-> n]]
  BY InvFacts DEF C!Malloc, C!NextId
<1>2. r = W!mm_malloc(s, n)
  OBVIOUS
<1> HIDE DEF r
<1>3. PICK q \in mm_malloc(heap, n) :
         Gave(r, q, n, i, held, C!LiveOf(held)) /\ (r.p = NULL => q.h = heap) /\ (n = 0 => r.p = NULL)
  BY <1>1, <1>2, InvFacts, MallocGave
<1>4. CASE r.p = NULL
  <2>1. Stands(s', q.h, held') /\ q.p = NULL /\ held' = held
    BY <1>1, <1>3, <1>4 DEF Gave
  <2>2. heap' = q.h /\ live' = C!LiveOf(held') /\ WInv'
    BY <2>1, Lands
  <2>3. live' = live
    BY <2>1, <2>2, InvFacts
  <2> QED
    BY <2>1, <2>2, <2>3 DEF Malloc
<1>5. CASE r.p # NULL
  <2>1. Refilled(r.s, r.p, n, i, q.h, held, C!LiveOf(held)) /\ r.p = q.p
    BY <1>3, <1>5 DEF Gave
  <2>2. /\ s' = W!memset(r.s, r.p, n, C!Fill(i))
        /\ held' = [held EXCEPT ![i] = [p |-> r.p, n |-> n]]
    BY <1>1, <1>3, <1>5 DEF Gave
  <2>3. Stands(s', q.h, held') /\ C!LiveOf(held') = Bind(C!LiveOf(held), q.p, n)
    BY <2>1, <2>2 DEF Refilled
  <2>4. heap' = q.h /\ live' = C!LiveOf(held') /\ WInv'
    BY <2>3, Lands
  <2>5. live' = Bind(live, q.p, n)
    BY <2>3, <2>4, InvFacts
  <2> QED
    BY <1>5, <2>1, <2>4, <2>5 DEF Malloc
<1> QED
  BY <1>4, <1>5

LEMMA DisposeWordStep ==
    ASSUME WInv, Follow, NEW i \in Ids, C!Dispose(i)
    PROVE  WInv' /\ Dispose(held[i].p) /\ held[i].p \in DOMAIN live
<1> DEFINE p == held[i].p
<1>1. /\ C!IsHeld(i) /\ s' = W!mm_free(s, p) /\ held' = [held EXCEPT ![i] = C!Unheld]
  BY DEF C!Dispose
<1>2. p \in heap.used
  BY <1>1, InvFacts
<1>3. Freed(W!mm_free(s, p), mm_free(heap, p), i, held, C!LiveOf(held), p)
  BY <1>2, InvFacts, DisposeGave
<1>4. Stands(s', mm_free(heap, p), held') /\ C!LiveOf(held') = Unbind(C!LiveOf(held), p)
  BY <1>1, <1>3 DEF Freed
<1>5. heap' = mm_free(heap, p) /\ live' = C!LiveOf(held') /\ WInv'
  BY <1>4, Lands
<1> QED
  BY <1>2, <1>4, <1>5, InvFacts DEF Dispose

\* mm_realloc of a block.
LEMMA ReallocWordStep ==
    ASSUME WInv, Follow, NEW i \in Ids, NEW n \in Requests,
           C!Realloc(i, n), C!IsHeld(i)
    PROVE  WInv' /\ Realloc(held[i].p, n) /\ held[i].p \in DOMAIN live
<1> DEFINE p == held[i].p
           r == W!mm_realloc(s, p, n)
<1>1. /\ n = 0 => s' = r.s /\ held' = [held EXCEPT ![i] = C!Unheld]
      /\ n # 0 /\ r.p \in W!NoBlock => s' = r.s /\ held' = held
      /\ n # 0 /\ r.p \notin W!NoBlock =>
            /\ W!Filled(r.s, r.p, CopyOf(held, i, n), C!Fill(i))
                  => s' = W!memset(r.s, r.p, n, C!Fill(i))
            /\ held' = [held EXCEPT ![i] = [p |-> r.p, n |-> n]]
  <2>1. n = 0 => s' = r.s /\ held' = [held EXCEPT ![i] = C!Unheld]
    BY DEF C!Realloc
  <2>2. n # 0 /\ r.p \in W!NoBlock => s' = r.s /\ held' = held
    BY DEF C!Realloc
  <2>3. n # 0 /\ r.p \notin W!NoBlock /\ W!Filled(r.s, r.p, CopyOf(held, i, n), C!Fill(i))
           => s' = W!memset(r.s, r.p, n, C!Fill(i))
    BY DEF C!Realloc, CopyOf
  <2>4. n # 0 /\ r.p \notin W!NoBlock => held' = [held EXCEPT ![i] = [p |-> r.p, n |-> n]]
    BY DEF C!Realloc
  <2> QED
    BY <2>1, <2>2, <2>3, <2>4
<1>2. p \in heap.used /\ p \in DOMAIN live /\ live = C!LiveOf(held)
  BY InvFacts
<1>3. r = W!mm_realloc(s, p, n) /\ p = held[i].p
  OBVIOUS
<1> HIDE DEF r, p
<1>4. PICK q \in mm_realloc(heap, p, n) :
         /\ r.p = q.p /\ (r.p = NULL /\ n # 0 => q.h = heap)
         /\ n = 0 => Freed(r.s, q.h, i, held, C!LiveOf(held), p)
         /\ n # 0 => Gave(r, q, n, i, held, Unbind(C!LiveOf(held), p))
         /\ n # 0 /\ r.p # NULL => W!Filled(r.s, r.p, CopyOf(held, i, n), C!Fill(i))
  BY <1>2, <1>3, InvFacts, ReallocGave
<1>5. CASE n = 0
  <2>1. Stands(s', q.h, held') /\ C!LiveOf(held') = Unbind(live, p)
    BY <1>1, <1>2, <1>4, <1>5 DEF Freed
  <2>2. heap' = q.h /\ live' = C!LiveOf(held') /\ WInv'
    BY <2>1, Lands
  <2> QED
    BY <1>2, <1>3, <1>5, <2>1, <2>2 DEF Realloc
<1>6. CASE n # 0 /\ r.p = NULL
  <2>1. Stands(s', q.h, held') /\ q.p = NULL /\ held' = held
    BY <1>1, <1>4, <1>6 DEF Gave
  <2>2. heap' = q.h /\ live' = C!LiveOf(held') /\ WInv'
    BY <2>1, Lands
  <2> QED
    BY <1>2, <1>3, <1>6, <2>1, <2>2 DEF Realloc
<1>7. CASE n # 0 /\ r.p # NULL
  <2>1. /\ Refilled(r.s, r.p, n, i, q.h, held, Unbind(live, p)) /\ r.p = q.p
        /\ r.p \notin W!NoBlock
    BY <1>2, <1>4, <1>7 DEF Gave
  <2>2. /\ s' = W!memset(r.s, r.p, n, C!Fill(i))
        /\ held' = [held EXCEPT ![i] = [p |-> r.p, n |-> n]]
    BY <1>1, <1>4, <1>7, <2>1
  <2>3. Stands(s', q.h, held') /\ C!LiveOf(held') = Bind(Unbind(live, p), q.p, n)
    BY <2>1, <2>2 DEF Refilled
  <2>4. heap' = q.h /\ live' = C!LiveOf(held') /\ WInv'
    BY <2>3, Lands
  <2> QED
    BY <1>2, <1>3, <1>7, <2>1, <2>3, <2>4 DEF Realloc
<1> QED
  BY <1>5, <1>6, <1>7

LEMMA NothingFilled ==
    ASSUME NEW t, NEW q, NEW c
    PROVE  W!Filled(t, q, 0, c)
<1>1. 0 .. (0 \div WSIZE) - 1 = {}
  <2>1. 0 \div 4 = 0 /\ 0 \div 8 = 0
    OBVIOUS
  <2>2. 0 \div WSIZE = 0
    BY <2>1, GeometryAssumption
  <2> QED
    BY <2>2
<1>2. W!PayloadWords(q, 0) = {}
  BY <1>1 DEF W!PayloadWords
<1> QED
  BY <1>2 DEF W!Filled

\* mm_realloc of nothing.
LEMMA ReallocNullWordStep ==
    ASSUME WInv, Follow, NEW i \in Ids, NEW n \in Requests,
           C!Realloc(i, n), ~C!IsHeld(i)
    PROVE  WInv' /\ Realloc(NULL, n)
<1> DEFINE r == W!mm_malloc(s, n)
<1>1. held[i].p = NULL /\ held[i] = C!Unheld /\ held[i].n = 0
  BY InvFacts, Nulls
<1>2. W!mm_realloc(s, held[i].p, n) = r /\ mm_realloc(heap, NULL, n) = mm_malloc(heap, n)
  BY <1>1, SameNumbers DEF W!mm_realloc, mm_realloc
<1>3. W!Filled(r.s, r.p, CopyOf(held, i, n), C!Fill(i))
  <2>1. n \in Nat
    BY RequestRange
  <2>2. CopyOf(held, i, n) = 0
    BY <1>1, <2>1 DEF CopyOf
  <2> HIDE DEF r
  <2> QED
    BY <2>2, NothingFilled
<1>4. /\ n = 0 => s' = r.s /\ held' = [held EXCEPT ![i] = C!Unheld]
      /\ n # 0 /\ r.p \in W!NoBlock => s' = r.s /\ held' = held
      /\ n # 0 /\ r.p \notin W!NoBlock =>
            /\ s' = W!memset(r.s, r.p, n, C!Fill(i))
            /\ held' = [held EXCEPT ![i] = [p |-> r.p, n |-> n]]
  <2> HIDE DEF r
  <2>1. n = 0 => s' = r.s /\ held' = [held EXCEPT ![i] = C!Unheld]
    BY <1>2 DEF C!Realloc
  <2>2. n # 0 /\ r.p \in W!NoBlock => s' = r.s /\ held' = held
    BY <1>2 DEF C!Realloc
  <2>3. n # 0 /\ r.p \notin W!NoBlock => s' = W!memset(r.s, r.p, n, C!Fill(i))
    BY <1>2, <1>3 DEF C!Realloc, CopyOf
  <2>4. n # 0 /\ r.p \notin W!NoBlock => held' = [held EXCEPT ![i] = [p |-> r.p, n |-> n]]
    BY <1>2 DEF C!Realloc
  <2> QED
    BY <2>1, <2>2, <2>3, <2>4
<1>5. r = W!mm_malloc(s, n)
  OBVIOUS
<1> HIDE DEF r
<1>6. Stands(s, heap, held) /\ live = C!LiveOf(held) /\ Unbind(live, NULL) = live
  BY InvFacts, UnbindNull
<1>7. PICK q \in mm_malloc(heap, n) :
         Gave(r, q, n, i, held, live) /\ (r.p = NULL => q.h = heap) /\ (n = 0 => r.p = NULL)
  BY <1>1, <1>5, <1>6, MallocGave
<1>8. CASE r.p = NULL
  <2>1. held' = held
    <3>1. held = [j \in Ids |-> held[j]]
      BY <1>6, StandsFacts DEF Holds
    <3>2. [held EXCEPT ![i] = C!Unheld] = held
      BY <1>1, <3>1
    <3> QED
      BY <1>4, <1>7, <1>8, <3>2 DEF Gave
  <2>2. Stands(s', q.h, held') /\ q.p = NULL
    BY <1>4, <1>7, <1>8, <2>1 DEF Gave
  <2>3. heap' = q.h /\ live' = C!LiveOf(held') /\ WInv'
    BY <2>2, Lands
  <2>4. live' = live
    BY <1>6, <2>1, <2>3
  <2> QED
    BY <1>2, <1>6, <2>2, <2>3, <2>4 DEF Realloc
<1>9. CASE r.p # NULL
  <2>1. /\ Refilled(r.s, r.p, n, i, q.h, held, live) /\ r.p = q.p
        /\ r.p \notin W!NoBlock /\ n # 0
    BY <1>7, <1>9 DEF Gave
  <2>2. /\ s' = W!memset(r.s, r.p, n, C!Fill(i))
        /\ held' = [held EXCEPT ![i] = [p |-> r.p, n |-> n]]
    BY <1>4, <2>1
  <2>3. Stands(s', q.h, held') /\ C!LiveOf(held') = Bind(live, q.p, n)
    BY <2>1, <2>2 DEF Refilled
  <2>4. heap' = q.h /\ live' = C!LiveOf(held') /\ WInv'
    BY <2>3, Lands
  <2> QED
    BY <1>2, <1>6, <1>9, <2>1, <2>3, <2>4 DEF Realloc
<1> QED
  BY <1>8, <1>9

\* The client of a new heap.
LEMMA NobodyHolds ==
    ASSUME NEW t, Stale(t)
    PROVE  /\ Stands(W!mm_init(t), InitialHeap, C!Nobody)
           /\ C!LiveOf(C!Nobody) = [p \in {} |-> 0]
<1>1. Mirrors(W!mm_init(t), InitialHeap)
  BY InitWords, ClientAssumption
<1>2. InitialHeap.used = {}
  BY InitialShape
<1>3. /\ C!Nobody = [i \in Ids |-> C!Nobody[i]]
      /\ \A i \in Ids : C!Nobody[i] = C!Unheld
  BY DEF C!Nobody
<1> HIDE DEF C!Nobody
<1>4. Holds(W!mm_init(t), InitialHeap, C!Nobody)
  BY <1>2, <1>3 DEF Holds
<1>5. {C!Nobody[i].p : i \in {j \in Ids : C!Nobody[j] # C!Unheld}} = {}
  BY <1>3
<1>6. C!LiveOf(C!Nobody) = [p \in {} |-> 0]
  BY <1>5 DEF C!LiveOf
<1> QED
  BY <1>1, <1>4, <1>6 DEF Stands

LEMMA RestartWordStep ==
    ASSUME Balanced, WInv, Follow, C!Restart
    PROVE  WInv' /\ Restart
<1>1. held = C!Nobody /\ s' = W!mm_init([s EXCEPT !.brk = BASE]) /\ held' = C!Nobody
  BY DEF C!Restart
<1>2. Stands(s, heap, held) /\ live = C!LiveOf(held) /\ DOMAIN live = heap.used
  BY InvFacts
<1>3. heap.used = {}
  <2> SUFFICES ASSUME NEW p \in heap.used PROVE FALSE
    OBVIOUS
  <2>1. Holds(s, heap, held) /\ p # NULL
    BY <1>2, StandsFacts, BlockNotNull
  <2>2. PICK i \in Ids : held[i].p = p
    BY <2>1 DEF Holds
  <2>3. held[i] = C!Unheld
    BY <1>1 DEF C!Nobody
  <2> QED
    BY <2>1, <2>2, <2>3, Nulls
<1> DEFINE t == [s EXCEPT !.brk = BASE]
<1>4. Stale(t)
  <2>1. t = [s EXCEPT !.brk = BASE] /\ Mirrors(s, heap)
    BY <1>2, StandsFacts
  <2> HIDE DEF t
  <2> QED
    BY <1>3, <2>1, EmptyStale
<1>5. s' = W!mm_init(t)
  BY <1>1
<1> HIDE DEF t
<1>6. Stands(s', InitialHeap, held') /\ C!LiveOf(held') = [p \in {} |-> 0]
  BY <1>1, <1>4, <1>5, NobodyHolds
<1>7. heap' = InitialHeap /\ live' = C!LiveOf(held') /\ WInv'
  BY <1>6, Lands
<1>8. live' = live
  BY <1>1, <1>2, <1>7
<1> QED
  BY <1>2, <1>3, <1>7, <1>8 DEF Restart

-----------------------------------------------------------------------------
(* The invariant.                                                          *)

LEMMA InitWordStep ==
    ASSUME WordsInit
    PROVE  WInv /\ Init
<1>1. s = W!mm_init(W!Fresh) /\ held = C!Nobody
      /\ heap = W!HeapOfWords(s) /\ live = C!LiveOf(held)
  BY DEF WordsInit, C!Init, Mapped
<1>2. Stands(s, InitialHeap, held) /\ live = [p \in {} |-> 0]
  BY <1>1, FreshStale, NobodyHolds
<1>3. heap = InitialHeap
  <2>1. Shows(s, InitialHeap)
    BY <1>2 DEF Stands, Mirrors
  <2> QED
    BY <1>1, <2>1, HeapIs
<1> QED
  BY <1>1, <1>2, <1>3 DEF WInv, Init, Stands

LEMMA NextWordStep ==
    ASSUME Balanced, WInv, [WordsNext]_allvars
    PROVE  WInv' /\ [Next]_vars
<1>1. CASE UNCHANGED allvars
  BY <1>1 DEF allvars, WInv, vars
<1>2. ASSUME WordsNext PROVE Follow /\ C!Next
  BY <1>2 DEF WordsNext, Follow
<1>3. ASSUME WordsNext, C!Ended PROVE WInv' /\ [Next]_vars
  <2>1. s' = s /\ held' = held
    BY <1>3 DEF C!Ended, C!vars
  <2>2. Stands(s', heap, held')
    BY <2>1, InvFacts
  <2>3. heap' = heap /\ live' = C!LiveOf(held') /\ WInv'
    BY <1>2, <1>3, <2>2, Lands
  <2> QED
    BY <2>1, <2>3, InvFacts DEF vars
<1>4. ASSUME WordsNext, NEW i \in Ids, NEW n \in Requests, C!Malloc(i, n)
      PROVE  WInv' /\ [Next]_vars
  <2>1. WInv' /\ Malloc(n)
    BY <1>2, <1>4, MallocWordStep
  <2> QED
    BY <2>1 DEF Next
<1>5. ASSUME WordsNext, NEW i \in Ids, C!Dispose(i) PROVE WInv' /\ [Next]_vars
  <2>1. WInv' /\ Dispose(held[i].p) /\ held[i].p \in DOMAIN live
    BY <1>2, <1>5, DisposeWordStep
  <2> QED
    BY <2>1 DEF Next
<1>6. ASSUME WordsNext, NEW i \in Ids, NEW n \in Requests, C!Realloc(i, n)
      PROVE  WInv' /\ [Next]_vars
  <2>1. CASE C!IsHeld(i)
    <3>1. WInv' /\ Realloc(held[i].p, n) /\ held[i].p \in DOMAIN live
      BY <1>2, <1>6, <2>1, ReallocWordStep
    <3> QED
      BY <3>1 DEF Next
  <2>2. CASE ~C!IsHeld(i)
    <3>1. WInv' /\ Realloc(NULL, n)
      BY <1>2, <1>6, <2>2, ReallocNullWordStep
    <3> QED
      BY <3>1 DEF Next
  <2> QED
    BY <2>1, <2>2
<1>7. ASSUME WordsNext, C!Restart PROVE WInv' /\ [Next]_vars
  <2>1. WInv' /\ Restart
    BY <1>2, <1>7, RestartWordStep
  <2> QED
    BY <2>1 DEF Next
<1>8. CASE WordsNext
  <2>1. C!Next
    BY <1>2, <1>8
  <2>2. \/ C!Ended
        \/ \E i \in Ids, n \in Requests : C!Malloc(i, n)
        \/ \E i \in Ids : C!Dispose(i)
        \/ \E i \in Ids, n \in Requests : C!Realloc(i, n)
        \/ C!Restart
    BY <2>1 DEF C!Next, C!Call
  <2> QED
    BY <1>3, <1>4, <1>5, <1>6, <1>7, <1>8, <2>2
<1> QED
  BY <1>1, <1>8

LEMMA AlwaysWInv ==
    ASSUME Balanced
    PROVE  WordsSpec => []WInv
<1>1. WordsInit => WInv
  BY InitWordStep
<1>2. WInv /\ [WordsNext]_allvars => WInv'
  BY NextWordStep
<1> QED
  BY <1>1, <1>2, PTL DEF WordsSpec

-----------------------------------------------------------------------------
(* The properties.                                                         *)

\* The words of mm.c implement the blocks of MMBlocks: whatever mm_malloc,
\* mm_free, mm_realloc and mm_init write, the blocks, their alloc bits, the
\* free list and the break that a walk through memory finds change as
\* MMBlocks allows.
THEOREM WordsImplementBlocks ==
    ASSUME Balanced
    PROVE  WordsSpec => BlocksSpec
<1>1. WordsInit => WInv /\ Init
  BY InitWordStep
<1>2. WInv /\ [WordsNext]_allvars => WInv' /\ [Next]_vars
  BY NextWordStep
<1> QED
  BY <1>1, <1>2, PTL DEF WordsSpec, BlocksSpec, Spec

\* mm.c never writes outside the region, never follows a list for ever and
\* never loses a byte of a block that mm_realloc moves: eval_mm_valid has
\* nothing to report of any balanced trace.
THEOREM NothingFails ==
    ASSUME Balanced
    PROVE  WordsSpec => []NoFailure
<1>1. WInv => NoFailure
  BY DEF WInv, Mirrors, Shows, Good, NoFailure
<1> QED
  BY <1>1, AlwaysWInv, PTL

\* No tag, no link and no copy of the allocator lands in a payload that the
\* client holds, through all splits, merges and moves.
THEOREM PayloadsStayIntact ==
    ASSUME Balanced
    PROVE  WordsSpec => []PayloadsIntact
<1>1. WInv => PayloadsIntact
  <2> SUFFICES ASSUME WInv, NEW i \in Ids, C!IsHeld(i)
               PROVE  W!Filled(s, held[i].p, held[i].n, C!Fill(i))
    BY DEF PayloadsIntact, C!PayloadsIntact
  <2>1. Sound(heap) /\ Holds(s, heap, held)
    BY InvFacts, StandsFacts
  <2>2. Owns(s, heap, i, held[i])
    BY <2>1, HeldBlock, Nulls DEF C!IsHeld
  <2> QED
    BY <2>2 DEF Owns
<1> QED
  BY <1>1, AlwaysWInv, PTL

\* mm_checkheap reports nothing between calls but what mm_init does on
\* purpose, the first block off the list, and the alignment it asks of the
\* 64-bit build.
THEOREM CheckheapStaysQuiet ==
    ASSUME Balanced
    PROVE  WordsSpec => []CheckheapQuiet
<1>1. WInv => CheckheapQuiet
  BY CheckheapWords DEF WInv, CheckheapQuiet
<1> QED
  BY <1>1, AlwaysWInv, PTL

\* The prologue, the epilogue at the break and the rover, which mm_checkheap
\* does not look at, stay as extend_heap, coalesce and find_fit need them.
THEOREM EdgesAndRoverStay ==
    ASSUME Balanced
    PROVE  WordsSpec => []BeyondCheckheap
<1>1. WInv => BeyondCheckheap
  BY BeyondWords DEF WInv, BeyondCheckheap
<1> QED
  BY <1>1, AlwaysWInv, PTL

\* Next fit finds a block that fits whenever the list has one, wherever the
\* rover of find_fit stands.
THEOREM SearchStaysComplete ==
    ASSUME Balanced
    PROVE  WordsSpec => []SearchComplete
<1>1. WInv => SearchComplete
  BY SearchWords DEF WInv, SearchComplete
<1> QED
  BY <1>1, AlwaysWInv, PTL

\* The list stays within the heap as long as every trace frees what it
\* allocates: mm_init keeps the old list head, and it is of no harm then.
THEOREM ListStaysInHeap ==
    ASSUME Balanced
    PROVE  WordsSpec => []ListInHeap
<1>1. CheckheapQuiet => ListInHeap
  <2> SUFFICES ASSUME CheckheapQuiet, NEW r \in W!mm_checkheap(s) PROVE r[1] # "3-B"
    BY DEF ListInHeap, W!ListInHeap
  <2>1. \/ r = <<"4", BASE + 4 * WSIZE>>
        \/ r[1] = "1-B"
    BY DEF CheckheapQuiet, W!CheckheapQuiet
  <2> QED
    BY <2>1
<1> QED
  BY <1>1, CheckheapStaysQuiet, PTL

\* What a program that calls mm.c relies on: every step of the words, seen
\* through the blocks that the client holds, is one that MallocAPI promises.
THEOREM WordsKeepThePromise ==
    ASSUME Balanced
    PROVE  WordsSpec => APISpec
BY WordsImplementBlocks, KeepsThePromise, PTL DEF BlocksSpec

\* The payloads that mm_malloc and mm_realloc return, while they are held,
\* share no byte and lie aligned in the region.
THEOREM WordPayloadsNeverOverlap ==
    ASSUME Balanced
    PROVE  WordsSpec => []API!PayloadsSound
BY WordsImplementBlocks, PayloadsNeverOverlap, PTL DEF BlocksSpec

=============================================================================
