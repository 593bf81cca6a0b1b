--------------------------- MODULE MMBlocks_proofs ---------------------------
(***************************************************************************)
(* The blocks of mm.c, proved for every size of the region, every chunk    *)
(* size, both word sizes and every set of requests: the heap stays tiled,  *)
(* the free list stays exact, and the client gets what MallocAPI promises. *)
(*                                                                         *)
(* The invariant WF of a heap holds between the calls of the interface.    *)
(* Inside a call it is broken in one place only, the block being freed or  *)
(* added, which coalesce repairs: Pending and Ready say how.               *)
(***************************************************************************)
EXTENDS MMBlocks, TLAPS

-----------------------------------------------------------------------------
(* What the arithmetic of mm.c and memlib.c computes as long as it stays   *)
(* in range.                                                               *)

\* Both word sizes leave room for two tags and two links; only with 4-byte
\* words is the minimum also a multiple of DSIZE.
LEMMA MinBlockSize ==
    /\ WSIZE = 4 => DSIZE = 8 /\ MIN_BLOCK_SIZE = 16
    /\ WSIZE = 8 => DSIZE = 16 /\ MIN_BLOCK_SIZE = 40
    /\ MIN_BLOCK_SIZE \in Nat
    /\ MIN_BLOCK_SIZE % 8 = 0
    /\ MIN_BLOCK_SIZE >= 4 * WSIZE
    /\ DSIZE \in Nat
<1>1. CASE WSIZE = 4
  BY <1>1 DEF DSIZE, PTR_SIZE, MIN_BLOCK_SIZE
<1>2. CASE WSIZE = 8
  BY <1>2 DEF DSIZE, PTR_SIZE, MIN_BLOCK_SIZE
<1> QED
  BY <1>1, <1>2, GeometryAssumption

\* adjust_block gives at least the payload asked for, its two tags and the
\* minimum, in a multiple of 8, as long as the sum does not wrap around.
LEMMA AdjustBlock ==
    ASSUME NEW n \in Nat, n + 4 * WSIZE < SIZE_MOD
    PROVE  /\ adjust_block(n) \in Nat
           /\ adjust_block(n) % 8 = 0
           /\ adjust_block(n) >= MIN_BLOCK_SIZE
           /\ adjust_block(n) >= n + DSIZE
           /\ adjust_block(n) <= n + 5 * WSIZE
<1>1. CASE WSIZE = 4
  <2>1. Wrap(n + 2 * DSIZE - 1) = n + 15 /\ DSIZE = 8 /\ MIN_BLOCK_SIZE = 16
    BY <1>1, MinBlockSize, GeometryAssumption DEF Wrap
  <2> DEFINE q == (n + 15) \div 8
  <2>2. q \in Nat /\ 8 * q <= n + 15 /\ 8 * q >= n + 8 /\ (8 * q) % 8 = 0
    OBVIOUS
  <2>3. adjust_block(n) = MaxOf(16, 8 * q)
    BY <2>1 DEF adjust_block
  <2> HIDE DEF q
  <2> QED
    BY <1>1, <2>1, <2>2, <2>3 DEF MaxOf
<1>2. CASE WSIZE = 8
  <2>1. Wrap(n + 2 * DSIZE - 1) = n + 31 /\ DSIZE = 16 /\ MIN_BLOCK_SIZE = 40
    BY <1>2, MinBlockSize, GeometryAssumption DEF Wrap
  <2> DEFINE q == (n + 31) \div 16
  <2>2. q \in Nat /\ 16 * q <= n + 31 /\ 16 * q >= n + 16 /\ (16 * q) % 8 = 0
    OBVIOUS
  <2>3. adjust_block(n) = MaxOf(40, 16 * q)
    BY <2>1 DEF adjust_block
  <2> HIDE DEF q
  <2> QED
    BY <1>2, <2>1, <2>2, <2>3 DEF MaxOf
<1> QED
  BY <1>1, <1>2, GeometryAssumption

\* extend_heap asks for no less than it was asked for, and stays aligned.
LEMMA Extension ==
    ASSUME NEW m \in Nat, m % 8 = 0
    PROVE  /\ ExtendBytes(m) \in Nat
           /\ ExtendBytes(m) % 8 = 0
           /\ ExtendBytes(m) >= m
           /\ ExtendBytes(m) <= m + 8
<1>1. CASE WSIZE = 4
  <2> DEFINE w == m \div 4
  <2>1. w \in Nat /\ w * 4 = m /\ w % 2 = 0
    OBVIOUS
  <2>2. ExtendBytes(m) = w * 4
    BY <1>1, <2>1 DEF ExtendBytes
  <2> QED
    BY <2>1, <2>2
<1>2. CASE WSIZE = 8
  <2> DEFINE w == m \div 8
  <2>1. w \in Nat /\ w * 8 = m
    OBVIOUS
  <2>2. ExtendBytes(m) = (IF w % 2 = 1 THEN w + 1 ELSE w) * 8
    BY <1>2 DEF ExtendBytes
  <2> HIDE DEF w
  <2> QED
    BY <2>1, <2>2
<1> QED
  BY <1>1, <1>2, GeometryAssumption

\* A size that an int holds is the int that mem_sbrk gets.
LEMMA IntConversion ==
    ASSUME NEW n \in Nat, 2 * n < INT_MOD
    PROVE  ToInt(n) = n
<1>1. n % INT_MOD = n
  BY GeometryAssumption
<1>2. ~(2 * n >= INT_MOD)
  BY GeometryAssumption
<1> QED
  BY <1>1, <1>2 DEF ToInt

\* mem_sbrk refuses exactly what does not fit, if the sum does not wrap.
LEMMA SbrkRefuses ==
    ASSUME NEW brk \in Nat, NEW n \in Nat, NEW max \in Nat, brk + n < SIZE_MOD
    PROVE  sbrk_refuses(brk, n, max) <=> brk + n > max
BY GeometryAssumption DEF sbrk_refuses, Wrap

-----------------------------------------------------------------------------
(* The parts of the invariant.                                             *)

HeapType(h) ==
    /\ h = Heap(h.size, h.used, h.listed, h.brk)
    /\ Blocks(h) \subseteq Nat
    /\ h.size \in [Blocks(h) -> Nat]
    /\ h.used \subseteq Blocks(h)
    /\ h.listed \subseteq Blocks(h)
    /\ h.brk \in Nat

\* The shape of the heap, whatever is on the list.
Sound(h) == HeapType(h) /\ WellSized(h) /\ Tiled(h)

WF(h) == Sound(h) /\ NoNeighbours(h) /\ ListExact(h)

\* Nothing that is allocated in h is touched in g.
SameUsed(h, g) ==
    /\ g.used = h.used
    /\ \A u \in h.used : g.size[u] = h.size[u]

\* Nothing but b, which may be allocated, is.
SameUsedBut(h, g, b) ==
    /\ g.used = h.used
    /\ \A u \in h.used : u # b => g.size[u] = h.size[u]

\* b is free and not on the list.  Its neighbours may be free, and the block
\* before it may be the first block, which mm_init left out of the list.
Pending(h, b) ==
    /\ Sound(h)
    /\ b \in Free(h)
    /\ \A x \in Free(h) : EndOf(h, x) \in Free(h) => x = b \/ EndOf(h, x) = b
    /\ \/ h.listed = Free(h) \ {b}
       \/ /\ h.listed = {}
          /\ \E f \in Free(h) : Free(h) = {f, b} /\ EndOf(h, f) = b

\* b is free, alone, and the only free block that is not on the list.
Ready(h, b) ==
    /\ Sound(h)
    /\ NoNeighbours(h)
    /\ b \in Free(h)
    /\ h.listed = Free(h) \ {b}

\* What the client holds (f) is what is allocated in h.
Agrees(h, f) ==
    /\ f \in [h.used -> Requests \ {0}]
    /\ \A p \in h.used : f[p] + DSIZE <= h.size[p]

IInv == WF(heap) /\ Agrees(heap, live)

-----------------------------------------------------------------------------
(* Heaps.                                                                  *)

LEMMA HeapFields ==
    ASSUME NEW size, NEW used, NEW listed, NEW brk,
           NEW h, h = Heap(size, used, listed, brk)
    PROVE  /\ h.size = size /\ h.used = used /\ h.listed = listed /\ h.brk = brk
           /\ h = Heap(h.size, h.used, h.listed, h.brk)
BY DEF Heap

\* Addresses and sizes of the blocks of a sound heap, and their order.
LEMMA BlockFacts ==
    ASSUME NEW h, Sound(h), NEW b \in Blocks(h)
    PROVE  /\ b \in Nat /\ h.size[b] \in Nat /\ h.brk \in Nat
           /\ b % 8 = 0 /\ h.size[b] % 8 = 0 /\ h.size[b] >= MIN_BLOCK_SIZE
           /\ EndOf(h, b) = b + h.size[b]
           /\ b < EndOf(h, b) /\ EndOf(h, b) <= h.brk
           /\ FIRST <= b /\ h.brk <= MAX_ADDR
           /\ EndOf(h, b) = h.brk \/ EndOf(h, b) \in Blocks(h)
           /\ b = FIRST \/ \E p \in Blocks(h) : EndOf(h, p) = b
           /\ \A c \in Blocks(h) : b < c => EndOf(h, b) <= c
<1>1. /\ b \in Nat /\ h.size[b] \in Nat /\ h.brk \in Nat
      /\ b % 8 = 0 /\ h.size[b] % 8 = 0 /\ h.size[b] >= MIN_BLOCK_SIZE
  BY DEF Sound, HeapType, WellSized
<1>2. MIN_BLOCK_SIZE \in Nat /\ MIN_BLOCK_SIZE > 0
  BY MinBlockSize, GeometryAssumption
<1> QED
  BY <1>1, <1>2 DEF Sound, Tiled, EndOf

\* Two blocks end at the same place only if they are the same.
LEMMA EndsDiffer ==
    ASSUME NEW h, Sound(h), NEW b \in Blocks(h), NEW c \in Blocks(h),
           EndOf(h, b) = EndOf(h, c)
    PROVE  b = c
<1>1. b \in Nat /\ c \in Nat /\ b < EndOf(h, b) /\ c < EndOf(h, c)
      /\ EndOf(h, b) \in Nat /\ EndOf(h, c) \in Nat
  BY BlockFacts
<1>2. (b < c => EndOf(h, b) <= c) /\ (c < b => EndOf(h, c) <= b)
  BY BlockFacts
<1> QED
  BY <1>1, <1>2

\* The alloc bits and the list are no part of the shape.
LEMMA Relabel ==
    ASSUME NEW h, Sound(h), NEW U, U \subseteq Blocks(h),
           NEW L, L \subseteq Blocks(h),
           NEW g, g = Heap(h.size, U, L, h.brk)
    PROVE  /\ Sound(g)
           /\ g.size = h.size /\ g.used = U /\ g.listed = L /\ g.brk = h.brk
           /\ Blocks(g) = Blocks(h)
           /\ \A b : EndOf(g, b) = EndOf(h, b)
<1>1. /\ g.size = h.size /\ g.used = U /\ g.listed = L /\ g.brk = h.brk
      /\ g = Heap(g.size, g.used, g.listed, g.brk)
  BY HeapFields
<1>2. Blocks(g) = Blocks(h) /\ \A b : EndOf(g, b) = EndOf(h, b)
  BY <1>1 DEF Blocks, EndOf
<1>3. HeapType(g)
  BY <1>1, <1>2 DEF Sound, HeapType
<1>4. WellSized(g)
  BY <1>1, <1>2 DEF Sound, WellSized
<1>5. Tiled(g)
  BY <1>1, <1>2 DEF Sound, Tiled
<1> QED
  BY <1>1, <1>2, <1>3, <1>4, <1>5 DEF Sound

\* Two neighbours as one block tile the heap as the two did.
LEMMA MergedSound ==
    ASSUME NEW h, Sound(h), NEW b \in Blocks(h),
           EndOf(h, b) \in Blocks(h),
           EndOf(h, b) \notin h.used, EndOf(h, b) \notin h.listed,
           NEW g, g = Merged(h, b)
    PROVE  /\ Sound(g)
           /\ Blocks(g) = Blocks(h) \ {EndOf(h, b)}
           /\ b \in Blocks(g)
           /\ g.used = h.used /\ g.listed = h.listed /\ g.brk = h.brk
           /\ \A x \in Blocks(g) :
                 x # b => g.size[x] = h.size[x] /\ EndOf(g, x) = EndOf(h, x)
           /\ g.size[b] = h.size[b] + h.size[EndOf(h, b)]
           /\ EndOf(g, b) = EndOf(h, EndOf(h, b))
<1> DEFINE n == EndOf(h, b)
<1>1. /\ g.used = h.used /\ g.listed = h.listed /\ g.brk = h.brk
      /\ g.size = [x \in Blocks(h) \ {n} |->
                     IF x = b THEN h.size[b] + h.size[n] ELSE h.size[x]]
      /\ g = Heap(g.size, g.used, g.listed, g.brk)
  BY HeapFields DEF Merged
<1>2. Blocks(g) = Blocks(h) \ {n}
  BY <1>1 DEF Blocks
<1>3. n \in Blocks(h) /\ n = b + h.size[b] /\ b < n /\ b \in Nat /\ h.size[b] \in Nat
      /\ h.size[n] \in Nat /\ n \in Nat
  BY BlockFacts
<1>4. b \in Blocks(g)
  BY <1>2, <1>3
<1>5. \A x \in Blocks(g) :
         x # b => g.size[x] = h.size[x] /\ EndOf(g, x) = EndOf(h, x)
  BY <1>1, <1>2 DEF EndOf
<1>6. g.size[b] = h.size[b] + h.size[n]
  BY <1>1, <1>2, <1>4
<1>7. EndOf(g, b) = EndOf(h, n)
  BY <1>3, <1>6 DEF EndOf
<1> HIDE DEF n
<1>8. HeapType(g)
  <2>1. \A x \in Blocks(g) : g.size[x] \in Nat
    BY <1>2, <1>3, <1>5, <1>6 DEF Sound, HeapType
  <2>2. g.used \subseteq Blocks(g) /\ g.listed \subseteq Blocks(g)
    BY <1>1, <1>2 DEF Sound, HeapType, n
  <2>3. g.size \in [Blocks(g) -> Nat]
    BY <1>1, <1>2, <2>1
  <2> QED
    BY <1>1, <1>2, <2>2, <2>3 DEF Sound, HeapType
<1>9. WellSized(g)
  <2>1. ASSUME NEW x \in Blocks(g)
        PROVE  /\ x % 8 = 0 /\ g.size[x] % 8 = 0 /\ g.size[x] >= MIN_BLOCK_SIZE
    <3>1. CASE x = b
      <4>1. /\ h.size[b] % 8 = 0 /\ h.size[n] % 8 = 0 /\ b % 8 = 0
            /\ h.size[b] >= MIN_BLOCK_SIZE
        BY <1>3, BlockFacts
      <4>2. (h.size[b] + h.size[n]) % 8 = 0
        BY <4>1, <1>3
      <4>3. h.size[b] + h.size[n] >= MIN_BLOCK_SIZE
        BY <4>1, <1>3, MinBlockSize
      <4> QED
        BY <3>1, <4>1, <4>2, <4>3, <1>6
    <3>2. CASE x # b
      BY <3>2, <1>2, <1>5, BlockFacts
    <3> QED
      BY <3>1, <3>2
  <2> QED
    BY <2>1 DEF WellSized
<1>10. Tiled(g)
  <2>1. FIRST \in Blocks(g) /\ g.brk <= MAX_ADDR
    <3>1. FIRST \in Blocks(h) /\ h.brk <= MAX_ADDR
      BY DEF Sound, Tiled
    <3>2. FIRST <= b /\ FIRST \in Nat
      BY <3>1, BlockFacts
    <3> QED
      BY <3>1, <3>2, <1>1, <1>2, <1>3
  <2>2. \E x \in Blocks(g) : EndOf(g, x) = g.brk
    <3>1. PICK x \in Blocks(h) : EndOf(h, x) = h.brk
      BY DEF Sound, Tiled
    <3>2. CASE x = n
      BY <3>1, <3>2, <1>1, <1>4, <1>7
    <3>3. CASE x # n
      <4>1. x # b
        <5>1. n < EndOf(h, n) /\ EndOf(h, n) <= h.brk /\ EndOf(h, n) \in Nat /\ h.brk \in Nat
          BY <1>3, BlockFacts
        <5> QED
          BY <5>1, <3>1, <1>3 DEF n
      <4> QED
        BY <3>1, <3>3, <4>1, <1>1, <1>2, <1>5
    <3> QED
      BY <3>2, <3>3
  <2>3. ASSUME NEW x \in Blocks(g)
        PROVE  /\ FIRST <= x /\ EndOf(g, x) <= g.brk
               /\ EndOf(g, x) = g.brk \/ EndOf(g, x) \in Blocks(g)
    <3>1. CASE x = b
      <4>1. FIRST <= b /\ EndOf(h, n) <= h.brk /\ n < EndOf(h, n)
            /\ (EndOf(h, n) = h.brk \/ EndOf(h, n) \in Blocks(h))
        BY <1>3, BlockFacts
      <4> QED
        BY <3>1, <4>1, <1>1, <1>2, <1>3, <1>7
    <3>2. CASE x # b
      <4>1. x \in Blocks(h) /\ EndOf(g, x) = EndOf(h, x)
        BY <3>2, <1>2, <1>5
      <4>2. EndOf(h, x) # n
        BY <4>1, <3>2, EndsDiffer DEF n
      <4> QED
        BY <4>1, <4>2, <1>1, <1>2, BlockFacts
    <3> QED
      BY <3>1, <3>2
  <2>4. ASSUME NEW x \in Blocks(g), x # FIRST
        PROVE  \E p \in Blocks(g) : EndOf(g, p) = x
    <3>1. PICK p \in Blocks(h) : EndOf(h, p) = x
      BY <2>4, <1>2, BlockFacts
    <3>2. CASE p = n
      BY <3>1, <3>2, <1>4, <1>7
    <3>3. CASE p # n
      <4>1. p # b
        BY <3>1, <1>2 DEF n
      <4> QED
        BY <3>1, <3>3, <4>1, <1>2, <1>5
    <3> QED
      BY <3>2, <3>3
  <2>5. ASSUME NEW x \in Blocks(g), NEW y \in Blocks(g), x < y
        PROVE  EndOf(g, x) <= y
    <3>1. x \in Blocks(h) /\ y \in Blocks(h) /\ y # n /\ x \in Nat /\ y \in Nat
      BY <1>2, BlockFacts
    <3>2. CASE x = b
      <4>1. n <= y
        BY <3>1, <3>2, <2>5, BlockFacts DEF n
      <4>2. n < y
        BY <4>1, <3>1, <1>3
      <4>3. EndOf(h, n) <= y
        BY <4>2, <3>1, <1>3, BlockFacts
      <4> QED
        BY <4>3, <3>2, <1>7
    <3>3. CASE x # b
      BY <3>1, <3>3, <2>5, <1>5, BlockFacts
    <3> QED
      BY <3>2, <3>3
  <2> QED
    BY <2>1, <2>2, <2>3, <2>4, <2>5 DEF Tiled
<1> QED
  BY <1>1, <1>2, <1>4, <1>5, <1>6, <1>7, <1>8, <1>9, <1>10 DEF Sound, n

\* Cutting a block in two leaves a heap that is tiled.
LEMMA SplitSound ==
    ASSUME NEW h, Sound(h), NEW b \in Blocks(h),
           NEW a \in Nat, a % 8 = 0, a >= MIN_BLOCK_SIZE,
           h.size[b] - a >= MIN_BLOCK_SIZE,
           NEW g, g = Split(h, b, a)
    PROVE  /\ Sound(g)
           /\ b + a \notin Blocks(h)
           /\ Blocks(g) = Blocks(h) \cup {b + a}
           /\ g.used = h.used /\ g.listed = h.listed /\ g.brk = h.brk
           /\ \A x \in Blocks(h) :
                 x # b => g.size[x] = h.size[x] /\ EndOf(g, x) = EndOf(h, x)
           /\ g.size[b] = a /\ EndOf(g, b) = b + a
           /\ EndOf(g, b + a) = EndOf(h, b)
<1> DEFINE t == b + a
<1>1. /\ g.used = h.used /\ g.listed = h.listed /\ g.brk = h.brk
      /\ g.size = [x \in Blocks(h) \cup {t} |->
                     IF x = b THEN a
                     ELSE IF x = t THEN h.size[b] - a ELSE h.size[x]]
      /\ g = Heap(g.size, g.used, g.listed, g.brk)
  BY HeapFields DEF Split
<1>2. Blocks(g) = Blocks(h) \cup {t}
  BY <1>1 DEF Blocks
<1>3. /\ b \in Nat /\ t \in Nat /\ h.size[b] \in Nat /\ MIN_BLOCK_SIZE \in Nat
      /\ MIN_BLOCK_SIZE > 0
      /\ EndOf(h, b) = b + h.size[b] /\ EndOf(h, b) \in Nat
      /\ b < t /\ t < EndOf(h, b)
      /\ h.brk \in Nat /\ EndOf(h, b) <= h.brk /\ FIRST <= b
  BY BlockFacts, MinBlockSize, GeometryAssumption
<1>4. t \notin Blocks(h)
  <2>1. t \in Blocks(h) => EndOf(h, b) <= t
    BY <1>3, BlockFacts
  <2> QED
    BY <2>1, <1>3
<1>5. \A x \in Blocks(h) :
         x # b => g.size[x] = h.size[x] /\ EndOf(g, x) = EndOf(h, x)
  BY <1>1, <1>4 DEF EndOf
<1>6. g.size[b] = a /\ EndOf(g, b) = t
  BY <1>1 DEF EndOf
<1>7. g.size[t] = h.size[b] - a /\ EndOf(g, t) = EndOf(h, b)
  BY <1>1, <1>3 DEF EndOf
<1> HIDE DEF t
<1>8. HeapType(g)
  <2>1. \A x \in Blocks(g) : g.size[x] \in Nat
    BY <1>2, <1>3, <1>5, <1>6, <1>7 DEF Sound, HeapType
  <2>2. g.used \subseteq Blocks(g) /\ g.listed \subseteq Blocks(g) /\ Blocks(g) \subseteq Nat
    BY <1>1, <1>2, <1>3 DEF Sound, HeapType
  <2>3. g.size \in [Blocks(g) -> Nat]
    BY <1>1, <1>2, <2>1
  <2> QED
    BY <1>1, <1>3, <2>2, <2>3 DEF HeapType
<1>9. WellSized(g)
  <2>1. t % 8 = 0 /\ g.size[t] % 8 = 0 /\ g.size[t] >= MIN_BLOCK_SIZE
    <3>1. b % 8 = 0 /\ h.size[b] % 8 = 0
      BY BlockFacts
    <3> QED
      BY <3>1, <1>3, <1>7 DEF t
  <2>2. \A x \in Blocks(h) :
           x % 8 = 0 /\ g.size[x] % 8 = 0 /\ g.size[x] >= MIN_BLOCK_SIZE
    BY <1>5, <1>6, BlockFacts
  <2> QED
    BY <1>2, <2>1, <2>2 DEF WellSized
<1>10. Tiled(g)
  <2>1. FIRST \in Blocks(g) /\ g.brk <= MAX_ADDR
    BY <1>1, <1>2 DEF Sound, Tiled
  <2>2. \E x \in Blocks(g) : EndOf(g, x) = g.brk
    <3>1. PICK x \in Blocks(h) : EndOf(h, x) = h.brk
      BY DEF Sound, Tiled
    <3>2. CASE x = b
      BY <3>1, <3>2, <1>1, <1>2, <1>7
    <3>3. CASE x # b
      BY <3>1, <3>3, <1>1, <1>2, <1>5
    <3> QED
      BY <3>2, <3>3
  <2>3. ASSUME NEW x \in Blocks(g)
        PROVE  /\ FIRST <= x /\ EndOf(g, x) <= g.brk
               /\ EndOf(g, x) = g.brk \/ EndOf(g, x) \in Blocks(g)
    <3>1. CASE x = t
      <4>1. EndOf(h, b) = h.brk \/ EndOf(h, b) \in Blocks(h)
        BY BlockFacts
      <4>2. FIRST \in Nat
        BY BlockFacts DEF Sound, Tiled
      <4> QED
        BY <3>1, <4>1, <4>2, <1>1, <1>2, <1>3, <1>7
    <3>2. CASE x = b
      BY <3>2, <1>1, <1>2, <1>3, <1>6
    <3>3. CASE x # t /\ x # b
      <4>1. x \in Blocks(h) /\ EndOf(g, x) = EndOf(h, x)
        BY <3>3, <1>2, <1>5
      <4>2. /\ FIRST <= x /\ EndOf(h, x) <= h.brk
            /\ EndOf(h, x) = h.brk \/ EndOf(h, x) \in Blocks(h)
        BY <4>1, BlockFacts
      <4> QED
        BY <4>1, <4>2, <1>1, <1>2
    <3> QED
      BY <3>1, <3>2, <3>3
  <2>4. ASSUME NEW x \in Blocks(g), x # FIRST
        PROVE  \E p \in Blocks(g) : EndOf(g, p) = x
    <3>1. CASE x = t
      BY <3>1, <1>2, <1>6
    <3>2. CASE x # t
      <4>1. PICK p \in Blocks(h) : EndOf(h, p) = x
        BY <2>4, <3>2, <1>2, BlockFacts
      <4>2. CASE p = b
        BY <4>1, <4>2, <1>2, <1>7
      <4>3. CASE p # b
        BY <4>1, <4>3, <1>2, <1>5
      <4> QED
        BY <4>2, <4>3
    <3> QED
      BY <3>1, <3>2
  <2>5. ASSUME NEW x \in Blocks(g), NEW y \in Blocks(g), x < y
        PROVE  EndOf(g, x) <= y
    <3>1. CASE x = t
      <4>1. y \in Blocks(h) /\ y \in Nat
        BY <3>1, <2>5, <1>2, <1>3, BlockFacts
      <4>2. b < y
        BY <4>1, <3>1, <2>5, <1>3
      <4> QED
        BY <3>1, <4>1, <4>2, <1>7, BlockFacts
    <3>2. CASE x = b
      <4>1. CASE y = t
        BY <3>2, <4>1, <1>3, <1>6
      <4>2. CASE y # t
        <5>1. y \in Blocks(h) /\ y \in Nat
          BY <4>2, <1>2, BlockFacts
        <5>2. EndOf(h, b) <= y
          BY <5>1, <3>2, <2>5, BlockFacts
        <5> QED
          BY <5>1, <5>2, <3>2, <1>3, <1>6
      <4> QED
        BY <4>1, <4>2
    <3>3. CASE x # t /\ x # b
      <4>1. x \in Blocks(h) /\ x \in Nat /\ EndOf(h, x) \in Nat /\ EndOf(g, x) = EndOf(h, x)
        BY <3>3, <1>2, <1>5, BlockFacts
      <4>2. CASE y = t
        <5>1. x < b \/ b < x
          BY <4>1, <3>3, <1>3
        <5>2. ~(b < x)
          <6>1. b < x => EndOf(h, b) <= x
            BY <4>1, BlockFacts
          <6> QED
            BY <6>1, <4>1, <4>2, <2>5, <1>3
        <5>3. EndOf(h, x) <= b
          BY <5>1, <5>2, <4>1, BlockFacts
        <5> QED
          BY <5>3, <4>1, <4>2, <1>3
      <4>3. CASE y # t
        BY <4>1, <4>3, <2>5, <1>2, BlockFacts
      <4> QED
        BY <4>2, <4>3
    <3> QED
      BY <3>1, <3>2, <3>3
  <2> QED
    BY <2>1, <2>2, <2>3, <2>4, <2>5 DEF Tiled
<1> QED
  BY <1>1, <1>2, <1>4, <1>5, <1>6, <1>7, <1>8, <1>9, <1>10 DEF Sound, t

\* A block added at the end of the heap continues the tiling.
LEMMA GrownSound ==
    ASSUME NEW h, Sound(h), NEW m \in Nat, m % 8 = 0, m >= MIN_BLOCK_SIZE,
           h.brk + m <= MAX_ADDR,
           NEW g, g = Grown(h, m)
    PROVE  /\ Sound(g)
           /\ h.brk \notin Blocks(h)
           /\ Blocks(g) = Blocks(h) \cup {h.brk}
           /\ g.used = h.used /\ g.listed = h.listed /\ g.brk = h.brk + m
           /\ \A x \in Blocks(h) :
                 g.size[x] = h.size[x] /\ EndOf(g, x) = EndOf(h, x)
           /\ g.size[h.brk] = m /\ EndOf(g, h.brk) = g.brk
<1> DEFINE e == h.brk
<1>1. /\ g.used = h.used /\ g.listed = h.listed /\ g.brk = e + m
      /\ g.size = [x \in Blocks(h) \cup {e} |-> IF x = e THEN m ELSE h.size[x]]
      /\ g = Heap(g.size, g.used, g.listed, g.brk)
  BY HeapFields DEF Grown
<1>2. Blocks(g) = Blocks(h) \cup {e}
  BY <1>1 DEF Blocks
<1>3. e \in Nat /\ MIN_BLOCK_SIZE \in Nat /\ MIN_BLOCK_SIZE > 0
  BY MinBlockSize, GeometryAssumption DEF Sound, HeapType
<1>4. e \notin Blocks(h)
  <2>1. e \in Blocks(h) => e < EndOf(h, e) /\ EndOf(h, e) <= e /\ EndOf(h, e) \in Nat
    BY BlockFacts
  <2> QED
    BY <2>1, <1>3
<1>5. \A x \in Blocks(h) : g.size[x] = h.size[x] /\ EndOf(g, x) = EndOf(h, x)
  BY <1>1, <1>4 DEF EndOf
<1>6. g.size[e] = m /\ EndOf(g, e) = g.brk
  BY <1>1 DEF EndOf
<1>7. PICK last \in Blocks(h) : EndOf(h, last) = e
  BY DEF Sound, Tiled
<1> HIDE DEF e
<1>8. HeapType(g)
  <2>1. \A x \in Blocks(g) : g.size[x] \in Nat
    BY <1>2, <1>3, <1>5, <1>6 DEF Sound, HeapType
  <2>2. g.used \subseteq Blocks(g) /\ g.listed \subseteq Blocks(g) /\ Blocks(g) \subseteq Nat
    BY <1>1, <1>2, <1>3 DEF Sound, HeapType
  <2>3. g.size \in [Blocks(g) -> Nat]
    BY <1>1, <1>2, <2>1
  <2>4. g.brk \in Nat
    BY <1>1, <1>3
  <2> QED
    BY <1>1, <2>2, <2>3, <2>4 DEF HeapType
<1>9. WellSized(g)
  <2>1. e % 8 = 0
    <3>1. /\ last \in Nat /\ h.size[last] \in Nat /\ last % 8 = 0 /\ h.size[last] % 8 = 0
          /\ EndOf(h, last) = last + h.size[last]
      BY BlockFacts
    <3> QED
      BY <3>1, <1>3, <1>7
  <2> QED
    BY <2>1, <1>2, <1>5, <1>6, BlockFacts DEF WellSized
<1>10. Tiled(g)
  <2>1. FIRST \in Blocks(g) /\ g.brk <= MAX_ADDR /\ FIRST <= e /\ FIRST \in Nat
    <3>1. FIRST \in Blocks(h) /\ FIRST \in Nat /\ FIRST < EndOf(h, FIRST)
          /\ EndOf(h, FIRST) <= h.brk /\ EndOf(h, FIRST) \in Nat
      BY BlockFacts DEF Sound, Tiled
    <3> QED
      BY <3>1, <1>1, <1>2, <1>3 DEF e
  <2>2. \E x \in Blocks(g) : EndOf(g, x) = g.brk
    BY <1>2, <1>6
  <2>3. ASSUME NEW x \in Blocks(g)
        PROVE  /\ FIRST <= x /\ EndOf(g, x) <= g.brk
               /\ EndOf(g, x) = g.brk \/ EndOf(g, x) \in Blocks(g)
    <3>1. CASE x = e
      BY <3>1, <2>1, <1>1, <1>3, <1>6
    <3>2. CASE x # e
      <4>1. /\ x \in Blocks(h) /\ EndOf(g, x) = EndOf(h, x) /\ EndOf(h, x) \in Nat
            /\ FIRST <= x /\ EndOf(h, x) <= e
            /\ EndOf(h, x) = e \/ EndOf(h, x) \in Blocks(h)
        BY <3>2, <1>2, <1>5, BlockFacts DEF e
      <4> QED
        BY <4>1, <1>1, <1>2, <1>3
    <3> QED
      BY <3>1, <3>2
  <2>4. ASSUME NEW x \in Blocks(g), x # FIRST
        PROVE  \E p \in Blocks(g) : EndOf(g, p) = x
    <3>1. CASE x = e
      BY <3>1, <1>2, <1>5, <1>7
    <3>2. CASE x # e
      BY <3>2, <2>4, <1>2, <1>5, BlockFacts
    <3> QED
      BY <3>1, <3>2
  <2>5. ASSUME NEW x \in Blocks(g), NEW y \in Blocks(g), x < y
        PROVE  EndOf(g, x) <= y
    <3>1. CASE x = e
      <4>1. y \in Blocks(h) /\ y \in Nat /\ EndOf(h, y) \in Nat
            /\ y < EndOf(h, y) /\ EndOf(h, y) <= e
        BY <3>1, <2>5, <1>2, <1>3, BlockFacts DEF e
      <4> QED
        BY <4>1, <3>1, <2>5, <1>3
    <3>2. CASE x # e /\ y = e
      BY <3>2, <1>2, <1>5, BlockFacts DEF e
    <3>3. CASE x # e /\ y # e
      BY <3>3, <2>5, <1>2, <1>5, BlockFacts
    <3> QED
      BY <3>1, <3>2, <3>3
  <2> QED
    BY <2>1, <2>2, <2>3, <2>4, <2>5 DEF Tiled
<1> QED
  BY <1>1, <1>2, <1>4, <1>5, <1>6, <1>8, <1>9, <1>10 DEF Sound, e

-----------------------------------------------------------------------------
(* The static functions.                                                   *)

\* A free block is absorbed by the block before it.
LEMMA AbsorbSound ==
    ASSUME NEW h, Sound(h), NEW b \in Blocks(h), EndOf(h, b) \in Free(h),
           NEW g, g = Absorb(h, b)
    PROVE  /\ Sound(g)
           /\ Blocks(g) = Blocks(h) \ {EndOf(h, b)}
           /\ b \in Blocks(g)
           /\ Free(g) = Free(h) \ {EndOf(h, b)}
           /\ g.listed = h.listed \ {EndOf(h, b)}
           /\ SameUsedBut(h, g, b) /\ g.brk = h.brk
           /\ \A x \in Blocks(g) :
                 x # b => g.size[x] = h.size[x] /\ EndOf(g, x) = EndOf(h, x)
           /\ g.size[b] = h.size[b] + h.size[EndOf(h, b)]
           /\ EndOf(g, b) = EndOf(h, EndOf(h, b))
<1> DEFINE n == EndOf(h, b)
           k == remove_node(h, n)
<1>1. /\ h.used \subseteq Blocks(h) /\ h.listed \ {n} \subseteq Blocks(h)
      /\ n \in Blocks(h) /\ n \notin h.used
  BY DEF Sound, HeapType, Free
<1>0. k = Heap(h.size, h.used, h.listed \ {n}, h.brk)
  BY DEF remove_node
<1>3. g = Merged(k, b)
  BY DEF Absorb
<1> HIDE DEF k, n
<1>2. /\ Sound(k) /\ Blocks(k) = Blocks(h)
      /\ k.size = h.size /\ k.used = h.used /\ k.listed = h.listed \ {n}
      /\ k.brk = h.brk /\ \A x : EndOf(k, x) = EndOf(h, x)
  BY <1>0, <1>1, Relabel
<1> USE DEF n
<1>4. /\ Sound(g)
      /\ Blocks(g) = Blocks(k) \ {n}
      /\ b \in Blocks(g)
      /\ g.used = k.used /\ g.listed = k.listed /\ g.brk = k.brk
      /\ \A x \in Blocks(g) :
            x # b => g.size[x] = k.size[x] /\ EndOf(g, x) = EndOf(k, x)
      /\ g.size[b] = k.size[b] + k.size[n]
      /\ EndOf(g, b) = EndOf(k, n)
  <2>1. EndOf(k, b) = n
    BY <1>2
  <2>2. b \in Blocks(k) /\ n \in Blocks(k) /\ n \notin k.used /\ n \notin k.listed
    BY <1>1, <1>2
  <2> QED
    BY <1>2, <1>3, <2>1, <2>2, MergedSound
<1>5. Free(g) = Free(h) \ {n}
  BY <1>1, <1>2, <1>4 DEF Free
<1>6. SameUsedBut(h, g, b)
  BY <1>1, <1>2, <1>4 DEF SameUsedBut
<1> QED
  BY <1>2, <1>4, <1>5, <1>6

\* coalesce leaves b, or the block that took it in, free and with no free
\* neighbour, and touches nothing that is allocated.
LEMMA CoalesceReady ==
    ASSUME NEW h, NEW b, Pending(h, b), NEW c, c = coalesce(h, b)
    PROVE  /\ Ready(c.h, c.p)
           /\ SameUsed(h, c.h)
           /\ c.h.brk = h.brk
           /\ c.h.size[c.p] >= h.size[b]
<1> DEFINE n == EndOf(h, b)
           k == IF n \in Free(h) THEN Absorb(h, b) ELSE h
<1>1. /\ Sound(h) /\ b \in Blocks(h) /\ b \in Free(h) /\ b \notin h.used
      /\ h.used \subseteq Blocks(h) /\ Free(h) \subseteq Blocks(h)
      /\ Blocks(h) = Free(h) \cup h.used
  BY DEF Pending, Sound, HeapType, Free
<1>2. b \in Nat /\ h.size[b] \in Nat /\ n \in Nat /\ b < n
  BY <1>1, BlockFacts
\* The list before: all but b, or nothing and a first block that ends at b.
<1>3. \/ h.listed = Free(h) \ {b}
      \/ /\ h.listed = {} /\ n \notin Free(h)
         /\ \E f \in Free(h) : Free(h) = {f, b} /\ EndOf(h, f) = b
  <2>1. ASSUME NEW f \in Free(h), Free(h) = {f, b}, EndOf(h, f) = b
        PROVE  n \notin Free(h)
    <3>1. f \in Nat /\ f < b
      BY <1>1, <2>1, BlockFacts
    <3> QED
      BY <1>2, <2>1, <3>1
  <2> QED
    BY <2>1 DEF Pending
\* After the block behind b has been taken in.
<1>4. /\ Sound(k) /\ b \in Free(k) /\ Free(k) = Free(h) \ {n}
      /\ SameUsed(h, k) /\ k.brk = h.brk
      /\ k.listed = h.listed \ {n}
      /\ k.size[b] \in Nat /\ k.size[b] >= h.size[b]
      /\ EndOf(k, b) \notin Free(k)
      /\ \A x \in Free(k) : x # b => EndOf(k, x) = EndOf(h, x)
  <2>1. CASE n \in Free(h)
    <3>1. k = Absorb(h, b)
      BY <2>1
    <3>2. /\ Sound(k)
          /\ Blocks(k) = Blocks(h) \ {n}
          /\ b \in Blocks(k)
          /\ Free(k) = Free(h) \ {n}
          /\ k.listed = h.listed \ {n}
          /\ SameUsedBut(h, k, b) /\ k.brk = h.brk
          /\ \A x \in Blocks(k) :
                x # b => k.size[x] = h.size[x] /\ EndOf(k, x) = EndOf(h, x)
          /\ k.size[b] = h.size[b] + h.size[n]
          /\ EndOf(k, b) = EndOf(h, n)
      BY <1>1, <2>1, <3>1, AbsorbSound
    <3> HIDE DEF k
    <3>3. h.size[n] \in Nat /\ n < EndOf(h, n) /\ EndOf(h, n) \in Nat
      BY <1>1, <2>1, BlockFacts
    <3>4. EndOf(h, n) \notin Free(h)
      <4>1. EndOf(h, n) \in Free(h) => n = b \/ EndOf(h, n) = b
        BY <2>1 DEF Pending
      <4> QED
        BY <4>1, <1>2, <3>3
    <3>5. SameUsed(h, k)
      BY <1>1, <3>2 DEF SameUsed, SameUsedBut
    <3>6. b \in Free(k)
      BY <1>1, <1>2, <3>2
    <3>7. Free(k) \subseteq Blocks(k)
      BY DEF Free
    <3>8. k.size[b] \in Nat /\ k.size[b] >= h.size[b]
      BY <1>2, <3>2, <3>3
    <3> QED
      BY <3>2, <3>4, <3>5, <3>6, <3>7, <3>8
  <2>2. CASE n \notin Free(h)
    <3>1. k = h
      BY <2>2
    <3>2. Free(h) = Free(h) \ {n}
      BY <2>2
    <3>3. n \notin h.listed
      BY <1>3, <2>2
    <3> HIDE DEF k
    <3> QED
      BY <1>1, <1>2, <2>2, <3>1, <3>2, <3>3 DEF SameUsed
  <2> QED
    BY <2>1, <2>2
<1> HIDE DEF k
<1>5. \A x \in Free(k) : x # b /\ EndOf(k, x) \in Free(k) => EndOf(k, x) = b
  BY <1>4 DEF Pending
<1>6. /\ k.used = h.used /\ k.used \subseteq Blocks(k) /\ k.listed \subseteq Blocks(k)
      /\ Blocks(k) = Free(k) \cup k.used /\ b \notin k.used
  BY <1>1, <1>4 DEF SameUsed, Sound, HeapType, Free
<1>7. CASE \E p \in Free(h) : EndOf(h, p) = b
  <2> DEFINE prev == CHOOSE p \in Free(h) : EndOf(h, p) = b
             r == remove_node(k, prev)
             g == Merged(r, prev)
  <2>1. prev \in Free(h) /\ EndOf(h, prev) = b
    BY <1>7
  <2>2. c = [h |-> g, p |-> prev]
    BY <1>7 DEF coalesce, k
  <2> HIDE DEF prev
  <2>3. prev # b /\ prev # n /\ prev \in Free(k) /\ EndOf(k, prev) = b
        /\ prev \in Blocks(k) /\ prev \notin k.used
    <3>1. prev \in Nat /\ prev < b
      BY <1>1, <2>1, BlockFacts
    <3> QED
      BY <1>2, <1>4, <2>1, <3>1 DEF Free
  <2>4. b \notin k.listed
    BY <1>3, <1>4 DEF Pending
  <2>5. /\ Sound(r) /\ Blocks(r) = Blocks(k) /\ r.size = k.size /\ r.used = k.used
        /\ r.listed = k.listed \ {prev} /\ r.brk = k.brk
        /\ \A x : EndOf(r, x) = EndOf(k, x)
    <3> DEFINE U == k.used
               L == k.listed \ {prev}
    <3>1. U \subseteq Blocks(k) /\ L \subseteq Blocks(k) /\ r = Heap(k.size, U, L, k.brk)
      BY <1>6 DEF remove_node
    <3> HIDE DEF U, L, r
    <3>2. /\ Sound(r) /\ Blocks(r) = Blocks(k) /\ r.size = k.size /\ r.used = U
          /\ r.listed = L /\ r.brk = k.brk
          /\ \A x : EndOf(r, x) = EndOf(k, x)
      BY <1>4, <3>1, Relabel
    <3> QED
      BY <3>2 DEF U, L
  <2> HIDE DEF r
  <2>6. /\ Sound(g)
        /\ Blocks(g) = Blocks(r) \ {b}
        /\ prev \in Blocks(g)
        /\ g.used = r.used /\ g.listed = r.listed /\ g.brk = r.brk
        /\ \A x \in Blocks(g) :
              x # prev => g.size[x] = r.size[x] /\ EndOf(g, x) = EndOf(r, x)
        /\ g.size[prev] = r.size[prev] + r.size[b]
        /\ EndOf(g, prev) = EndOf(r, b)
    <3>1. EndOf(r, prev) = b
      BY <2>3, <2>5
    <3>2. prev \in Blocks(r) /\ b \in Blocks(r) /\ b \notin r.used /\ b \notin r.listed
      BY <1>4, <1>6, <2>3, <2>4, <2>5 DEF Free
    <3> QED
      BY <2>5, <3>1, <3>2, MergedSound
  <2> HIDE DEF g
  <2>7. Free(g) = Free(k) \ {b} /\ prev \in Free(g)
    BY <2>3, <2>5, <2>6 DEF Free
  <2>8. g.listed = Free(g) \ {prev}
    <3>1. CASE h.listed = Free(h) \ {b}
      BY <3>1, <1>4, <2>5, <2>6, <2>7
    <3>2. CASE h.listed = {} /\ \E f \in Free(h) : Free(h) = {f, b} /\ EndOf(h, f) = b
      <4>1. Free(h) = {prev, b}
        BY <3>2, <2>1, <2>3
      <4> QED
        BY <3>2, <4>1, <1>4, <2>5, <2>6, <2>7
    <3> QED
      BY <1>3, <3>1, <3>2
  <2>9. NoNeighbours(g)
    <3>1. ASSUME NEW x \in Free(g)
          PROVE  EndOf(g, x) \notin Free(g)
      <4>1. CASE x = prev
        BY <4>1, <1>4, <2>5, <2>6, <2>7
      <4>2. CASE x # prev
        <5>1. x \in Blocks(g) /\ x \in Free(k) /\ x # b
          BY <2>7 DEF Free
        <5>2. EndOf(g, x) = EndOf(k, x)
          BY <4>2, <5>1, <2>5, <2>6
        <5> QED
          BY <5>1, <5>2, <1>5, <2>7
      <4> QED
        BY <4>1, <4>2
    <3> QED
      BY <3>1 DEF NoNeighbours
  <2>10. SameUsed(h, g) /\ g.brk = h.brk
    <3>1. ASSUME NEW u \in h.used
          PROVE  g.size[u] = h.size[u]
      <4>1. u \in Blocks(g) /\ u # prev
        BY <1>6, <2>3, <2>5, <2>6
      <4> QED
        BY <4>1, <1>4, <2>5, <2>6 DEF SameUsed
    <3> QED
      BY <3>1, <1>4, <1>6, <2>5, <2>6 DEF SameUsed
  <2>11. g.size[prev] >= h.size[b]
    <3>1. k.size[prev] \in Nat
      BY <1>4, <2>3, BlockFacts
    <3> QED
      BY <3>1, <1>2, <1>4, <2>5, <2>6
  <2> QED
    BY <2>2, <2>6, <2>7, <2>8, <2>9, <2>10, <2>11 DEF Ready
<1>8. CASE ~(\E p \in Free(h) : EndOf(h, p) = b)
  <2>1. c = [h |-> k, p |-> b]
    BY <1>8 DEF coalesce, k
  <2>2. k.listed = Free(k) \ {b}
    BY <1>3, <1>4, <1>8
  <2>3. NoNeighbours(k)
    <3>1. ASSUME NEW x \in Free(k)
          PROVE  EndOf(k, x) \notin Free(k)
      <4>1. CASE x = b
        BY <4>1, <1>4
      <4>2. CASE x # b
        <5>1. EndOf(k, x) # b
          BY <4>2, <1>4, <1>8
        <5> QED
          BY <4>2, <5>1, <1>5
      <4> QED
        BY <4>1, <4>2
    <3> QED
      BY <3>1 DEF NoNeighbours
  <2> QED
    BY <2>1, <2>2, <2>3, <1>4 DEF Ready
<1> QED
  BY <1>7, <1>8

\* insert_node completes the list.
LEMMA InsertDone ==
    ASSUME NEW h, NEW b, Ready(h, b), NEW g, g = insert_node(h, b)
    PROVE  /\ WF(g)
           /\ g.listed = Free(g)
           /\ SameUsed(h, g) /\ Free(g) = Free(h)
           /\ g.size = h.size /\ g.brk = h.brk /\ Blocks(g) = Blocks(h)
<1>1. /\ Sound(h) /\ h.used \subseteq Blocks(h) /\ h.listed \cup {b} \subseteq Blocks(h)
      /\ h.listed \cup {b} = Free(h)
  BY DEF Ready, Sound, HeapType, Free
<1>2. /\ Sound(g) /\ Blocks(g) = Blocks(h) /\ g.size = h.size /\ g.used = h.used
      /\ g.listed = Free(h) /\ g.brk = h.brk /\ \A x : EndOf(g, x) = EndOf(h, x)
  <2> DEFINE U == h.used
             L == h.listed \cup {b}
  <2>1. U \subseteq Blocks(h) /\ L \subseteq Blocks(h) /\ g = Heap(h.size, U, L, h.brk)
    BY <1>1 DEF insert_node
  <2> HIDE DEF U, L
  <2>2. /\ Sound(g) /\ Blocks(g) = Blocks(h) /\ g.size = h.size
        /\ g.used = U /\ g.listed = L /\ g.brk = h.brk
        /\ \A x : EndOf(g, x) = EndOf(h, x)
    BY <1>1, <2>1, Relabel
  <2> QED
    BY <1>1, <2>2 DEF U, L
<1>3. Free(g) = Free(h)
  BY <1>2 DEF Free
<1> QED
  BY <1>2, <1>3 DEF WF, Ready, NoNeighbours, ListExact, SameUsed

\* place allocates b, and puts what it splits off on the list.
LEMMA PlaceDone ==
    ASSUME NEW h, Sound(h), NoNeighbours(h), h.listed = Free(h),
           NEW b \in h.listed,
           NEW a \in Nat, a % 8 = 0, a >= MIN_BLOCK_SIZE, h.size[b] >= a,
           NEW g, g = place(h, b, a)
    PROVE  /\ WF(g)
           /\ g.used = h.used \cup {b}
           /\ \A u \in h.used : g.size[u] = h.size[u]
           /\ g.size[b] >= a
<1> DEFINE k == SetUsed(remove_node(h, b), b)
<1>1. /\ b \in Blocks(h) /\ b \in Free(h) /\ b \notin h.used
      /\ h.used \subseteq Blocks(h) /\ h.size[b] \in Nat
      /\ h.used \cup {b} \subseteq Blocks(h) /\ h.listed \ {b} \subseteq Blocks(h)
  BY BlockFacts DEF Sound, HeapType, Free
<1>2. k = Heap(h.size, h.used \cup {b}, h.listed \ {b}, h.brk)
  BY HeapFields DEF SetUsed, remove_node, Heap
<1> HIDE DEF k
<1>3. /\ Sound(k) /\ Blocks(k) = Blocks(h) /\ k.size = h.size
      /\ k.used = h.used \cup {b} /\ k.listed = h.listed \ {b} /\ k.brk = h.brk
      /\ \A x : EndOf(k, x) = EndOf(h, x)
  <2> DEFINE U == h.used \cup {b}
             L == h.listed \ {b}
  <2>1. U \subseteq Blocks(h) /\ L \subseteq Blocks(h) /\ k = Heap(h.size, U, L, h.brk)
    BY <1>1, <1>2
  <2> HIDE DEF U, L
  <2>2. /\ Sound(k) /\ Blocks(k) = Blocks(h) /\ k.size = h.size
        /\ k.used = U /\ k.listed = L /\ k.brk = h.brk
        /\ \A x : EndOf(k, x) = EndOf(h, x)
    BY <2>1, Relabel
  <2> QED
    BY <2>2 DEF U, L
<1>4. g = IF can_split(h.size[b], a) THEN insert_node(Split(k, b, a), b + a) ELSE k
  BY DEF place, k
<1>5. Free(k) = Free(h) \ {b} /\ k.listed = Free(k)
  BY <1>1, <1>3 DEF Free
<1>6. \A x \in Free(k) : EndOf(k, x) \notin Free(h)
  BY <1>3, <1>5 DEF NoNeighbours
<1>7. CASE ~can_split(h.size[b], a)
  BY <1>1, <1>3, <1>4, <1>5, <1>6, <1>7 DEF WF, NoNeighbours, ListExact
<1>8. CASE can_split(h.size[b], a)
  <2> DEFINE t == b + a
             s == Split(k, b, a)
  <2>1. /\ Sound(s)
        /\ t \notin Blocks(k)
        /\ Blocks(s) = Blocks(k) \cup {t}
        /\ s.used = k.used /\ s.listed = k.listed /\ s.brk = k.brk
        /\ \A x \in Blocks(k) :
              x # b => s.size[x] = k.size[x] /\ EndOf(s, x) = EndOf(k, x)
        /\ s.size[b] = a /\ EndOf(s, b) = t
        /\ EndOf(s, t) = EndOf(k, b)
    <3>1. b \in Blocks(k) /\ k.size[b] - a >= MIN_BLOCK_SIZE
      BY <1>1, <1>3, <1>8 DEF can_split
    <3> QED
      BY <1>3, <3>1, SplitSound
  <2>2. g = insert_node(s, t)
    BY <1>4, <1>8
  <2> HIDE DEF s, t
  <2>3. Free(s) = Free(k) \cup {t} /\ t \notin Free(k) /\ b \notin Free(s)
    BY <1>1, <1>3, <1>5, <2>1 DEF Free, Sound, HeapType
  <2>4. NoNeighbours(s)
    <3>1. ASSUME NEW x \in Free(s)
          PROVE  EndOf(s, x) \notin Free(s)
      <4>1. CASE x = t
        <5>1. EndOf(s, x) = EndOf(h, b) /\ EndOf(h, b) \notin Free(h)
          BY <4>1, <1>1, <1>3, <2>1 DEF NoNeighbours
        <5>2. t \in Blocks(s) /\ t < EndOf(s, t) /\ t \in Nat
          BY <2>1, BlockFacts
        <5> QED
          BY <4>1, <5>1, <5>2, <1>5, <2>3
      <4>2. CASE x # t
        <5>1. x \in Free(k) /\ x \in Blocks(k) /\ x # b /\ x \in Blocks(s) /\ b \in Blocks(s)
          BY <4>2, <1>1, <1>3, <2>1, <2>3 DEF Free
        <5>2. EndOf(s, x) = EndOf(k, x) /\ EndOf(k, x) \notin Free(k)
          BY <5>1, <2>1, <1>5, <1>6
        <5>3. EndOf(s, x) # t
          BY <5>1, <2>1, EndsDiffer
        <5> QED
          BY <5>2, <5>3, <2>3
      <4> QED
        BY <4>1, <4>2
    <3> QED
      BY <3>1 DEF NoNeighbours
  <2>5. Ready(s, t)
    BY <1>5, <2>1, <2>3, <2>4 DEF Ready
  <2>6. WF(g) /\ SameUsed(s, g) /\ g.size = s.size
    BY <2>2, <2>5, InsertDone
  <2>7. \A u \in h.used : u \in Blocks(k) /\ u # b
    BY <1>1, <1>3
  <2> QED
    BY <1>3, <2>1, <2>6, <2>7 DEF SameUsed
<1> QED
  BY <1>7, <1>8

-----------------------------------------------------------------------------
(* The interface.                                                          *)

\* g is h with n bytes more allocated, in the block p.
Served(h, g, p, n) ==
    /\ WF(g)
    /\ p \in Blocks(g) /\ p \notin h.used
    /\ g.used = h.used \cup {p}
    /\ \A u \in h.used : g.size[u] = h.size[u]
    /\ g.size[p] >= n + DSIZE

\* g is h with the block p replaced by a block q of at least n bytes.
Resized(h, g, p, q, n) ==
    /\ WF(g)
    /\ q \in Blocks(g) /\ (q = p \/ q \notin h.used)
    /\ g.used = (h.used \ {p}) \cup {q}
    /\ \A u \in h.used : u # p => g.size[u] = h.size[u]
    /\ g.size[q] >= n + DSIZE

\* No block is at NULL.
LEMMA BlockNotNull ==
    ASSUME NEW h, Sound(h), NEW b \in Blocks(h)
    PROVE  b # NULL /\ b \in Nat
<1>1. FIRST > 0 /\ FIRST <= b /\ b \in Nat /\ FIRST \in Nat
  BY BlockFacts, GeometryAssumption, BlocksAssumption DEF FIRST
<1> QED
  BY <1>1 DEF NULL

\* mm_free gives the block back, merged with the free blocks beside it.
LEMMA FreeDone ==
    ASSUME NEW h, WF(h), NEW b \in h.used, NEW g, g = mm_free(h, b)
    PROVE  /\ WF(g)
           /\ g.used = h.used \ {b}
           /\ \A u \in g.used : g.size[u] = h.size[u]
<1> DEFINE k == SetFree(h, b)
           c == coalesce(k, b)
<1>1. Sound(h) /\ h.used \subseteq Blocks(h) /\ h.listed \subseteq Blocks(h)
      /\ h.listed = Free(h)
  BY DEF WF, Sound, HeapType, ListExact
<1>2. /\ Sound(k) /\ Blocks(k) = Blocks(h) /\ k.size = h.size
      /\ k.used = h.used \ {b} /\ k.listed = h.listed /\ k.brk = h.brk
      /\ \A x : EndOf(k, x) = EndOf(h, x)
  <2> DEFINE U == h.used \ {b}
             L == h.listed
  <2>1. U \subseteq Blocks(h) /\ L \subseteq Blocks(h) /\ k = Heap(h.size, U, L, h.brk)
    BY <1>1 DEF SetFree
  <2> HIDE DEF U, L, k
  <2>2. /\ Sound(k) /\ Blocks(k) = Blocks(h) /\ k.size = h.size
        /\ k.used = U /\ k.listed = L /\ k.brk = h.brk
        /\ \A x : EndOf(k, x) = EndOf(h, x)
    BY <1>1, <2>1, Relabel
  <2> QED
    BY <2>2 DEF U, L
<1> HIDE DEF k
<1>3. Free(k) = Free(h) \cup {b} /\ b \notin Free(h)
  BY <1>1, <1>2 DEF Free
<1>4. Pending(k, b)
  <2>1. ASSUME NEW x \in Free(k), EndOf(k, x) \in Free(k)
        PROVE  x = b \/ EndOf(k, x) = b
    BY <2>1, <1>2, <1>3 DEF WF, NoNeighbours
  <2>2. k.listed = Free(k) \ {b}
    BY <1>1, <1>2, <1>3
  <2> QED
    BY <2>1, <2>2, <1>2, <1>3 DEF Pending
<1>5. Ready(c.h, c.p) /\ SameUsed(k, c.h)
  BY <1>4, CoalesceReady
<1>6. g = insert_node(c.h, c.p)
  BY DEF mm_free, k
<1> HIDE DEF c
<1>7. WF(g) /\ SameUsed(c.h, g)
  BY <1>5, <1>6, InsertDone
<1> QED
  BY <1>2, <1>5, <1>7 DEF SameUsed

\* extend_heap adds m bytes and returns a free block that has them.
LEMMA ExtendDone ==
    ASSUME NEW h, WF(h), NEW m \in Nat, m % 8 = 0, m >= MIN_BLOCK_SIZE,
           h.brk + m <= MAX_ADDR,
           NEW c, c = coalesce(Grown(h, m), h.brk)
    PROVE  Ready(c.h, c.p) /\ SameUsed(h, c.h) /\ c.h.size[c.p] >= m
<1> DEFINE g == Grown(h, m)
           e == h.brk
<1>1. /\ Sound(g)
      /\ e \notin Blocks(h)
      /\ Blocks(g) = Blocks(h) \cup {e}
      /\ g.used = h.used /\ g.listed = h.listed
      /\ \A x \in Blocks(h) : g.size[x] = h.size[x] /\ EndOf(g, x) = EndOf(h, x)
      /\ g.size[e] = m
  BY GrownSound DEF WF
<1>2. Sound(h) /\ h.used \subseteq Blocks(h)
  BY DEF WF, Sound, HeapType
<1> HIDE DEF g
<1>3. Free(g) = Free(h) \cup {e} /\ e \notin Free(h) /\ Free(h) \subseteq Blocks(h)
  BY <1>1, <1>2 DEF Free
<1>4. Pending(g, e)
  <2>1. ASSUME NEW x \in Free(g), EndOf(g, x) \in Free(g)
        PROVE  x = e \/ EndOf(g, x) = e
    BY <2>1, <1>1, <1>3 DEF WF, NoNeighbours
  <2>2. CASE h.listed = Free(h)
    BY <2>1, <2>2, <1>1, <1>3 DEF Pending
  <2>3. CASE Blocks(h) = {FIRST} /\ h.used = {} /\ h.listed = {}
    <3>1. EndOf(h, FIRST) = e
      BY <2>3, <1>2 DEF Sound, Tiled
    <3>2. Free(g) = {FIRST, e} /\ FIRST \in Free(g) /\ EndOf(g, FIRST) = e
      BY <2>3, <3>1, <1>1, <1>3 DEF Free
    <3> QED
      BY <2>1, <2>3, <3>2, <1>1, <1>3 DEF Pending
  <2> QED
    BY <2>2, <2>3 DEF WF, ListExact
<1>5. /\ Ready(c.h, c.p) /\ SameUsed(g, c.h) /\ c.h.size[c.p] >= g.size[e]
  BY <1>4, CoalesceReady DEF g
<1> QED
  BY <1>1, <1>2, <1>5 DEF SameUsed

\* The numbers of a request: nothing wraps, and the extension covers it.
LEMMA RequestFacts ==
    ASSUME NEW n \in 0 .. MaxRequest, NEW h, Sound(h),
           NEW asize, asize = adjust_block(n),
           NEW ext, ext = MaxOf(asize, CHUNKSIZE)
    PROVE  /\ asize \in Nat /\ asize % 8 = 0
           /\ asize >= MIN_BLOCK_SIZE /\ asize >= n + DSIZE
           /\ ExtendBytes(ext) \in Nat /\ ExtendBytes(ext) % 8 = 0
           /\ ExtendBytes(ext) >= asize
           /\ ~extend_fails(h, ext) => h.brk + ExtendBytes(ext) <= MAX_ADDR
<1>1. /\ n \in Nat /\ n <= MaxRequest /\ MaxRequest \in Nat
      /\ WSIZE \in Nat /\ CHUNKSIZE \in Nat /\ CHUNKSIZE % 8 = 0 /\ WSIZE >= 4
      /\ MAX_ADDR \in Nat /\ SIZE_MOD \in Nat /\ INT_MOD \in Nat
      /\ MAX_ADDR + MaxRequest + CHUNKSIZE + 8 * WSIZE < SIZE_MOD
      /\ 2 * (MaxRequest + CHUNKSIZE + 8 * WSIZE) < INT_MOD
  BY GeometryAssumption, BlocksAssumption DEF MAX_ADDR
<1>2. n + 4 * WSIZE < SIZE_MOD
  BY <1>1
<1>3. /\ asize \in Nat /\ asize % 8 = 0
      /\ asize >= MIN_BLOCK_SIZE /\ asize >= n + DSIZE /\ asize <= n + 5 * WSIZE
  BY <1>1, <1>2, AdjustBlock
<1>4. /\ ext \in Nat /\ ext % 8 = 0 /\ ext >= asize
      /\ ext <= MaxRequest + CHUNKSIZE + 5 * WSIZE
  BY <1>1, <1>3 DEF MaxOf
<1> DEFINE m == ExtendBytes(ext)
<1>5. m \in Nat /\ m % 8 = 0 /\ m >= ext /\ m <= ext + 8
  BY <1>4, Extension
<1> HIDE DEF m
<1>6. m <= MaxRequest + CHUNKSIZE + 8 * WSIZE
  BY <1>1, <1>4, <1>5
<1>7. ToInt(m) = m
  BY <1>1, <1>5, <1>6, IntConversion
<1>8. h.brk \in Nat /\ h.brk <= MAX_ADDR
  BY DEF Sound, HeapType, Tiled
<1>9. sbrk_refuses(h.brk, m, MAX_ADDR) <=> h.brk + m > MAX_ADDR
  BY <1>1, <1>5, <1>6, <1>8, SbrkRefuses
<1>10. ~extend_fails(h, ext) => h.brk + m <= MAX_ADDR
  BY <1>1, <1>5, <1>7, <1>8, <1>9 DEF extend_fails, m
<1> QED
  BY <1>3, <1>4, <1>5, <1>10 DEF m

\* The ways out of mm_malloc.
LEMMA MallocCases ==
    ASSUME NEW h, NEW n, NEW r \in mm_malloc(h, n),
           NEW asize, asize = adjust_block(n),
           NEW ext, ext = MaxOf(asize, CHUNKSIZE)
    PROVE  \/ r.p = NULL /\ r.h = h
           \/ /\ n # 0
              /\ \E b \in find_fit(h, asize) : r = [h |-> place(h, b, asize), p |-> b]
           \/ /\ n # 0 /\ ~extend_fails(h, ext)
              /\ \E c : /\ c = extend_heap(h, ext)
                        /\ r = [h |-> place(insert_node(c.h, c.p), c.p, asize),
                                p |-> c.p]
BY DEF mm_malloc

\* mm_malloc serves the request or changes nothing.
LEMMA MallocDone ==
    ASSUME NEW h, WF(h), NEW n \in 0 .. MaxRequest, NEW r \in mm_malloc(h, n)
    PROVE  \/ r.p = NULL /\ r.h = h
           \/ n # 0 /\ r.p # NULL /\ Served(h, r.h, r.p, n)
<1> DEFINE asize == adjust_block(n)
           ext == MaxOf(asize, CHUNKSIZE)
<1> HIDE DEF asize, ext
<1>1. /\ asize \in Nat /\ asize % 8 = 0
      /\ asize >= MIN_BLOCK_SIZE /\ asize >= n + DSIZE
      /\ ExtendBytes(ext) \in Nat /\ ExtendBytes(ext) % 8 = 0
      /\ ExtendBytes(ext) >= asize
      /\ ~extend_fails(h, ext) => h.brk + ExtendBytes(ext) <= MAX_ADDR
  BY RequestFacts DEF asize, ext, WF
<1>2. MIN_BLOCK_SIZE \in Nat /\ DSIZE \in Nat /\ n \in Nat
  BY MinBlockSize, BlocksAssumption
\* place serves the request from any listed block that is large enough.
<1>3. ASSUME NEW k, WF(k), k.listed = Free(k), SameUsed(h, k),
             NEW b \in k.listed, k.size[b] >= asize
      PROVE  Served(h, place(k, b, asize), b, n) /\ b # NULL
  <2> DEFINE g == place(k, b, asize)
  <2>1. Sound(k) /\ NoNeighbours(k) /\ b \in Blocks(k) /\ b \notin k.used
    BY <1>3 DEF WF, Free
  <2>2. /\ WF(g) /\ g.used = k.used \cup {b}
        /\ \A u \in k.used : g.size[u] = k.size[u]
        /\ g.size[b] >= asize
    BY <1>1, <1>3, <2>1, PlaceDone
  <2> HIDE DEF g
  <2>3. b # NULL
    BY <2>1, BlockNotNull
  <2>4. b \in Blocks(g) /\ g.size[b] \in Nat
    <3>1. b \in Blocks(g) /\ Sound(g)
      BY <2>2 DEF WF, Sound, HeapType
    <3> QED
      BY <3>1, BlockFacts
  <2>5. g.size[b] >= n + DSIZE
    BY <1>1, <1>2, <2>2, <2>4
  <2> QED
    BY <1>3, <2>1, <2>2, <2>3, <2>4, <2>5 DEF Served, SameUsed, g
<1>4. ASSUME n # 0, NEW b \in find_fit(h, asize),
             r = [h |-> place(h, b, asize), p |-> b]
      PROVE  r.p # NULL /\ Served(h, r.h, r.p, n)
  <2>1. b \in h.listed /\ h.size[b] >= asize
    BY DEF find_fit
  <2>2. h.listed = Free(h)
    BY <2>1 DEF WF, ListExact
  <2>3. SameUsed(h, h)
    BY DEF SameUsed
  <2> QED
    BY <1>3, <1>4, <2>1, <2>2, <2>3
<1>5. ASSUME n # 0, ~extend_fails(h, ext), NEW c, c = extend_heap(h, ext),
             r = [h |-> place(insert_node(c.h, c.p), c.p, asize), p |-> c.p]
      PROVE  r.p # NULL /\ Served(h, r.h, r.p, n)
  <2> DEFINE k == insert_node(c.h, c.p)
  <2>1. Ready(c.h, c.p) /\ SameUsed(h, c.h) /\ c.h.size[c.p] >= ExtendBytes(ext)
    <3>1. c = coalesce(Grown(h, ExtendBytes(ext)), h.brk)
      BY <1>5 DEF extend_heap
    <3>2. ExtendBytes(ext) >= MIN_BLOCK_SIZE /\ h.brk + ExtendBytes(ext) <= MAX_ADDR
      BY <1>1, <1>2, <1>5
    <3> QED
      BY <1>1, <3>1, <3>2, ExtendDone
  <2>2. /\ WF(k) /\ k.listed = Free(k) /\ SameUsed(c.h, k)
        /\ Free(k) = Free(c.h) /\ k.size = c.h.size
    BY <2>1, InsertDone
  <2> HIDE DEF k
  <2>3. c.p \in k.listed /\ SameUsed(h, k)
    BY <2>1, <2>2 DEF Ready, SameUsed
  <2>4. k.size[c.p] >= asize
    <3>1. c.p \in Blocks(c.h) /\ Sound(c.h)
      BY <2>1 DEF Ready, Free
    <3>2. c.h.size[c.p] \in Nat
      BY <3>1, BlockFacts
    <3> QED
      BY <1>1, <2>1, <2>2, <3>2
  <2>5. r.h = place(k, c.p, asize) /\ r.p = c.p
    BY <1>5 DEF k
  <2> QED
    BY <1>3, <2>2, <2>3, <2>4, <2>5
<1>6. \/ r.p = NULL /\ r.h = h
      \/ /\ n # 0
         /\ \E b \in find_fit(h, asize) : r = [h |-> place(h, b, asize), p |-> b]
      \/ /\ n # 0 /\ ~extend_fails(h, ext)
         /\ \E c : /\ c = extend_heap(h, ext)
                   /\ r = [h |-> place(insert_node(c.h, c.p), c.p, asize), p |-> c.p]
  BY MallocCases DEF asize, ext
<1>7. n = 0 \/ n # 0
  OBVIOUS
<1> QED
  BY <1>4, <1>5, <1>6

\* The ways out of mm_realloc on a block.
LEMMA ReallocCases ==
    ASSUME NEW h, NEW p, p # NULL, NEW n, NEW r \in mm_realloc(h, p, n)
    PROVE  \/ n = 0 /\ r.p = NULL /\ r.h = mm_free(h, p)
           \/ n # 0 /\ adjust_block(n) <= h.size[p] /\ r.p = p /\ r.h = h
           \/ /\ n # 0
              /\ EndOf(h, p) \in Free(h)
              /\ h.size[p] + h.size[EndOf(h, p)] >= adjust_block(n)
              /\ r.p = p /\ r.h = Absorb(h, p)
           \/ /\ n # 0
              /\ \E m \in mm_malloc(h, n) :
                    /\ r.p = m.p
                    /\ r.h = IF m.p = NULL THEN m.h ELSE mm_free(m.h, p)
BY DEF mm_realloc

\* A block that takes in the free one behind it: nothing else changes.
LEMMA AbsorbDone ==
    ASSUME NEW h, WF(h), NEW p \in h.used, EndOf(h, p) \in Free(h),
           NEW g, g = Absorb(h, p)
    PROVE  /\ WF(g) /\ p \in Blocks(g) /\ g.used = h.used
           /\ \A u \in h.used : u # p => g.size[u] = h.size[u]
           /\ g.size[p] = h.size[p] + h.size[EndOf(h, p)]
<1> DEFINE next == EndOf(h, p)
<1>1. /\ Sound(h) /\ NoNeighbours(h) /\ p \in Blocks(h)
      /\ h.used \subseteq Blocks(h) /\ h.listed = Free(h)
  BY DEF WF, Sound, HeapType, ListExact
<1>2. /\ Sound(g) /\ p \in Blocks(g)
      /\ Free(g) = Free(h) \ {next} /\ g.listed = h.listed \ {next}
      /\ SameUsedBut(h, g, p)
      /\ \A x \in Blocks(g) : x # p => EndOf(g, x) = EndOf(h, x)
      /\ g.size[p] = h.size[p] + h.size[next]
  BY <1>1, AbsorbSound
<1> HIDE DEF next
<1>3. NoNeighbours(g)
  <2>1. ASSUME NEW x \in Free(g)
        PROVE  EndOf(g, x) \notin Free(g)
    <3>1. x \in Free(h) /\ x \in Blocks(g) /\ x # p
      BY <1>2 DEF Free
    <3> QED
      BY <3>1, <1>1, <1>2 DEF NoNeighbours
  <2> QED
    BY <2>1 DEF NoNeighbours
<1>4. ListExact(g)
  BY <1>1, <1>2 DEF ListExact
<1> QED
  BY <1>2, <1>3, <1>4 DEF WF, SameUsedBut, next

\* mm_realloc frees the block, or leaves all as it was, or replaces the block
\* by one that has the size asked for.
LEMMA ReallocDone ==
    ASSUME NEW h, WF(h), NEW p \in h.used, NEW n \in 0 .. MaxRequest,
           NEW r \in mm_realloc(h, p, n)
    PROVE  \/ n = 0 /\ r.p = NULL /\ r.h = mm_free(h, p)
           \/ n # 0 /\ r.p = NULL /\ r.h = h
           \/ n # 0 /\ r.p # NULL /\ Resized(h, r.h, p, r.p, n)
<1>1. /\ Sound(h) /\ p \in Blocks(h) /\ h.used \subseteq Blocks(h) /\ p # NULL
      /\ h.size[p] \in Nat
  <2>1. Sound(h) /\ p \in Blocks(h) /\ h.used \subseteq Blocks(h)
    BY DEF WF, Sound, HeapType
  <2> QED
    BY <2>1, BlockNotNull, BlockFacts
<1>2. n \in Nat /\ DSIZE \in Nat /\ adjust_block(n) \in Nat /\ adjust_block(n) >= n + DSIZE
  <2>1. n \in Nat
    BY BlocksAssumption
  <2>2. DSIZE \in Nat
    BY MinBlockSize
  <2>3. adjust_block(n) \in Nat /\ adjust_block(n) >= n + DSIZE
    BY <1>1, RequestFacts
  <2> QED
    BY <2>1, <2>2, <2>3
<1>3. CASE n # 0 /\ adjust_block(n) <= h.size[p] /\ r.p = p /\ r.h = h
  BY <1>1, <1>2, <1>3 DEF Resized
<1>4. CASE /\ n # 0
           /\ EndOf(h, p) \in Free(h)
           /\ h.size[p] + h.size[EndOf(h, p)] >= adjust_block(n)
           /\ r.p = p /\ r.h = Absorb(h, p)
  <2> DEFINE g == Absorb(h, p)
  <2>1. /\ WF(g) /\ p \in Blocks(g) /\ g.used = h.used
        /\ \A u \in h.used : u # p => g.size[u] = h.size[u]
        /\ g.size[p] = h.size[p] + h.size[EndOf(h, p)]
    BY <1>4, AbsorbDone
  <2>2. h.size[EndOf(h, p)] \in Nat
    BY <1>1, <1>4, BlockFacts DEF Free
  <2> HIDE DEF g
  <2>3. g.size[p] >= n + DSIZE
    BY <1>1, <1>2, <1>4, <2>1, <2>2
  <2>4. g.used = (h.used \ {p}) \cup {p}
    BY <2>1
  <2>5. Resized(h, g, p, p, n)
    BY <2>1, <2>3, <2>4 DEF Resized
  <2> QED
    BY <1>1, <1>4, <2>5 DEF g
<1>5. ASSUME n # 0, NEW m \in mm_malloc(h, n), r.p = m.p,
             r.h = IF m.p = NULL THEN m.h ELSE mm_free(m.h, p)
      PROVE  \/ r.p = NULL /\ r.h = h
             \/ r.p # NULL /\ Resized(h, r.h, p, r.p, n)
  <2>1. CASE m.p = NULL
    <3>1. m.h = h
      BY <2>1, MallocDone
    <3> QED
      BY <2>1, <3>1, <1>5
  <2>2. CASE m.p # NULL
    <3> DEFINE k == m.h
               q == m.p
               g == mm_free(k, p)
    <3>1. Served(h, k, q, n)
      BY <2>2, MallocDone
    <3>2. /\ WF(k) /\ q \in Blocks(k) /\ q \notin h.used
          /\ k.used = h.used \cup {q}
          /\ \A u \in h.used : k.size[u] = h.size[u]
          /\ k.size[q] >= n + DSIZE
      BY <3>1 DEF Served
    <3> HIDE DEF k, q
    <3>3. p \in k.used
      BY <3>2
    <3>4. /\ WF(g) /\ g.used = k.used \ {p}
          /\ \A u \in g.used : g.size[u] = k.size[u]
      BY <3>2, <3>3, FreeDone
    <3> HIDE DEF g
    <3>5. q # p /\ q \in g.used /\ g.used = (h.used \ {p}) \cup {q}
      BY <3>2, <3>4
    <3>6. q \in Blocks(g) /\ g.size[q] >= n + DSIZE
      BY <3>2, <3>4, <3>5 DEF WF, Sound, HeapType
    <3>7. \A u \in h.used : u # p => g.size[u] = h.size[u]
      BY <3>2, <3>4, <3>5
    <3>8. Resized(h, g, p, q, n)
      BY <3>2, <3>4, <3>5, <3>6, <3>7 DEF Resized
    <3>9. r.h = g /\ r.p = q
      BY <1>5, <2>2 DEF g, k, q
    <3> QED
      BY <2>2, <3>8, <3>9 DEF q
  <2> QED
    BY <2>1, <2>2
<1>6. \/ n = 0 /\ r.p = NULL /\ r.h = mm_free(h, p)
      \/ n # 0 /\ adjust_block(n) <= h.size[p] /\ r.p = p /\ r.h = h
      \/ /\ n # 0
         /\ EndOf(h, p) \in Free(h)
         /\ h.size[p] + h.size[EndOf(h, p)] >= adjust_block(n)
         /\ r.p = p /\ r.h = Absorb(h, p)
      \/ /\ n # 0
         /\ \E m \in mm_malloc(h, n) :
               /\ r.p = m.p
               /\ r.h = IF m.p = NULL THEN m.h ELSE mm_free(m.h, p)
  BY <1>1, ReallocCases
<1> QED
  BY <1>3, <1>4, <1>5, <1>6

-----------------------------------------------------------------------------
(* The allocator and its client.                                           *)

\* The heap that mm_init leaves is a heap between two calls.
LEMMA InitialDone ==
    /\ WF(InitialHeap)
    /\ Agrees(InitialHeap, [p \in {} |-> 0])
<1> DEFINE m == ExtendBytes(CHUNKSIZE) + 4 * WSIZE
           g == InitialHeap
<1>1. /\ WSIZE \in {4, 8} /\ CHUNKSIZE \in Nat /\ CHUNKSIZE % 8 = 0
      /\ BASE \in Nat /\ BASE % 8 = 0 /\ MAX_HEAP \in Nat
      /\ ExtendBytes(CHUNKSIZE) + 8 * WSIZE <= MAX_HEAP
  BY GeometryAssumption, BlocksAssumption
<1>2. ExtendBytes(CHUNKSIZE) \in Nat /\ ExtendBytes(CHUNKSIZE) % 8 = 0
      /\ ExtendBytes(CHUNKSIZE) >= 8
  <2>1. CHUNKSIZE >= 8
    BY GeometryAssumption
  <2> QED
    BY <1>1, <2>1, Extension
<1>3. m \in Nat /\ m % 8 = 0 /\ m >= MIN_BLOCK_SIZE
  BY <1>1, <1>2, MinBlockSize
<1>4. FIRST \in Nat /\ FIRST % 8 = 0 /\ FIRST + m <= MAX_ADDR
  BY <1>1, <1>2 DEF FIRST, MAX_ADDR
<1>5. MIN_BLOCK_SIZE \in Nat /\ MIN_BLOCK_SIZE > 0
  BY MinBlockSize, GeometryAssumption
<1>6. g = Heap([b \in {FIRST} |-> m], {}, {}, FIRST + m)
  BY DEF InitialHeap
<1> HIDE DEF m, g
<1>7. /\ g.size = [b \in {FIRST} |-> m] /\ g.used = {} /\ g.listed = {}
      /\ g.brk = FIRST + m /\ g = Heap(g.size, g.used, g.listed, g.brk)
  BY <1>6, HeapFields
<1>8. /\ Blocks(g) = {FIRST} /\ g.size[FIRST] = m /\ Free(g) = {FIRST}
      /\ EndOf(g, FIRST) = FIRST + m
  BY <1>7 DEF Blocks, Free, EndOf
<1>9. HeapType(g) /\ WellSized(g)
  BY <1>3, <1>4, <1>7, <1>8 DEF HeapType, WellSized
<1>10. Tiled(g)
  BY <1>3, <1>4, <1>7, <1>8 DEF Tiled
<1>11. NoNeighbours(g) /\ ListExact(g)
  BY <1>3, <1>4, <1>5, <1>7, <1>8 DEF NoNeighbours, ListExact
<1>12. Agrees(g, [p \in {} |-> 0])
  BY <1>7 DEF Agrees
<1> QED
  BY <1>9, <1>10, <1>11, <1>12 DEF WF, Sound, g

LEMMA RequestRange ==
    /\ Requests \subseteq 0 .. MaxRequest
    /\ Requests \subseteq Nat
BY BlocksAssumption

LEMMA AgreesBind ==
    ASSUME NEW h, NEW f, Agrees(h, f), NEW g, NEW p, NEW n \in Requests \ {0},
           Served(h, g, p, n)
    PROVE  Agrees(g, Bind(f, p, n))
<1> DEFINE e == Bind(f, p, n)
<1>1. /\ g.used = h.used \cup {p} /\ p \notin h.used /\ g.size[p] >= n + DSIZE
      /\ \A u \in h.used : g.size[u] = h.size[u]
  BY DEF Served
<1>2. e = [q \in g.used |-> IF q = p THEN n ELSE f[q]]
  BY <1>1 DEF Bind, Agrees
<1> HIDE DEF e
<1>3. e \in [g.used -> Requests \ {0}]
  BY <1>1, <1>2 DEF Agrees
<1>4. n \in Nat /\ DSIZE \in Nat /\ n + DSIZE <= g.size[p]
  BY <1>1, RequestRange, MinBlockSize
<1>5. \A q \in g.used : e[q] + DSIZE <= g.size[q]
  BY <1>1, <1>2, <1>4 DEF Agrees
<1> QED
  BY <1>3, <1>5 DEF Agrees, e

LEMMA AgreesUnbind ==
    ASSUME NEW h, NEW f, Agrees(h, f), NEW g, NEW p \in h.used,
           g.used = h.used \ {p}, \A u \in g.used : g.size[u] = h.size[u]
    PROVE  Agrees(g, Unbind(f, p))
<1>1. Unbind(f, p) = [q \in g.used |-> f[q]]
  BY DEF Unbind, Agrees
<1> QED
  BY <1>1 DEF Agrees

LEMMA AgreesRebind ==
    ASSUME NEW h, NEW f, Agrees(h, f), NEW g, NEW p \in h.used, NEW q,
           NEW n \in Requests \ {0}, Resized(h, g, p, q, n)
    PROVE  Agrees(g, Bind(Unbind(f, p), q, n))
<1> DEFINE e == Bind(Unbind(f, p), q, n)
<1>1. /\ g.used = (h.used \ {p}) \cup {q} /\ (q = p \/ q \notin h.used)
      /\ g.size[q] >= n + DSIZE
      /\ \A u \in h.used : u # p => g.size[u] = h.size[u]
  BY DEF Resized
<1>2. Unbind(f, p) = [x \in h.used \ {p} |-> f[x]]
  BY DEF Unbind, Agrees
<1>3. e = [x \in g.used |-> IF x = q THEN n ELSE f[x]]
  <2>1. DOMAIN Unbind(f, p) \cup {q} = g.used
    BY <1>1, <1>2
  <2>2. \A x \in g.used : x # q => Unbind(f, p)[x] = f[x]
    BY <1>1, <1>2
  <2> QED
    BY <2>1, <2>2 DEF Bind
<1> HIDE DEF e
<1>4. e \in [g.used -> Requests \ {0}]
  BY <1>1, <1>3 DEF Agrees
<1>5. n \in Nat /\ DSIZE \in Nat /\ n + DSIZE <= g.size[q]
  BY <1>1, RequestRange, MinBlockSize
<1>6. \A x \in g.used : e[x] + DSIZE <= g.size[x]
  BY <1>1, <1>3, <1>5 DEF Agrees
<1> QED
  BY <1>4, <1>6 DEF Agrees, e

\* What a call does, in terms of the client.
LEMMA MallocStep ==
    ASSUME IInv, NEW n \in Requests, Malloc(n)
    PROVE  \/ UNCHANGED vars
           \/ n # 0 /\ \E p : Served(heap, heap', p, n) /\ live' = Bind(live, p, n)
<1>1. PICK r \in mm_malloc(heap, n) :
         /\ heap' = r.h
         /\ live' = IF r.p = NULL THEN live ELSE Bind(live, r.p, n)
  BY DEF Malloc
<1>2. WF(heap) /\ n \in 0 .. MaxRequest
  BY RequestRange DEF IInv
<1>3. \/ r.p = NULL /\ r.h = heap
      \/ n # 0 /\ r.p # NULL /\ Served(heap, r.h, r.p, n)
  BY <1>2, MallocDone
<1> QED
  BY <1>1, <1>3 DEF vars

LEMMA ReallocStep ==
    ASSUME IInv, NEW p \in heap.used, NEW n \in Requests, Realloc(p, n)
    PROVE  \/ n = 0 /\ Dispose(p)
           \/ n # 0 /\ UNCHANGED vars
           \/ /\ n # 0
              /\ \E q : /\ Resized(heap, heap', p, q, n)
                        /\ live' = Bind(Unbind(live, p), q, n)
<1>1. PICK r \in mm_realloc(heap, p, n) :
         /\ heap' = r.h
         /\ live' = IF n = 0 THEN Unbind(live, p)
                    ELSE IF r.p = NULL THEN live
                    ELSE Bind(Unbind(live, p), r.p, n)
  BY DEF Realloc
<1>2. WF(heap) /\ n \in 0 .. MaxRequest
  BY RequestRange DEF IInv
<1>3. \/ n = 0 /\ r.p = NULL /\ r.h = mm_free(heap, p)
      \/ n # 0 /\ r.p = NULL /\ r.h = heap
      \/ n # 0 /\ r.p # NULL /\ Resized(heap, r.h, p, r.p, n)
  BY <1>2, ReallocDone
<1> QED
  BY <1>1, <1>3 DEF vars, Dispose

\* mm_realloc(NULL, n) is mm_malloc(n), mm_realloc(NULL, 0) too.
LEMMA ReallocNull ==
    ASSUME IInv, NEW n \in Requests, Realloc(NULL, n)
    PROVE  Malloc(n)
<1>1. PICK r \in mm_realloc(heap, NULL, n) :
         /\ heap' = r.h
         /\ live' = IF n = 0 THEN Unbind(live, NULL)
                    ELSE IF r.p = NULL THEN live
                    ELSE Bind(Unbind(live, NULL), r.p, n)
  BY DEF Realloc
<1>2. r \in mm_malloc(heap, n)
  BY <1>1 DEF mm_realloc
<1>3. Unbind(live, NULL) = live
  <2>1. live \in [heap.used -> Requests \ {0}]
    BY DEF IInv, Agrees
  <2>2. NULL \notin heap.used
    BY BlockNotNull DEF IInv, WF, Sound, HeapType
  <2> QED
    BY <2>1, <2>2 DEF Unbind
<1>4. n = 0 => r.p = NULL
  BY <1>2 DEF mm_malloc
<1> QED
  BY <1>1, <1>2, <1>3, <1>4 DEF Malloc

LEMMA InitInv == Init => IInv
BY InitialDone DEF Init, IInv

LEMMA DisposeInv ==
    ASSUME IInv, NEW p \in heap.used, Dispose(p)
    PROVE  IInv'
<1>1. WF(heap) /\ Agrees(heap, live)
  BY DEF IInv
<1>2. PICK g : g = mm_free(heap, p)
  OBVIOUS
<1>3. /\ WF(g) /\ g.used = heap.used \ {p}
      /\ \A u \in g.used : g.size[u] = heap.size[u]
  BY <1>1, <1>2, FreeDone
<1>4. Agrees(g, Unbind(live, p))
  BY <1>1, <1>3, AgreesUnbind
<1>5. heap' = g /\ live' = Unbind(live, p)
  BY <1>2 DEF Dispose
<1> QED
  BY <1>3, <1>4, <1>5 DEF IInv

LEMMA MallocInv ==
    ASSUME IInv, NEW n \in Requests, Malloc(n)
    PROVE  IInv'
<1>1. WF(heap) /\ Agrees(heap, live)
  BY DEF IInv
<1>2. CASE UNCHANGED vars
  BY <1>1, <1>2 DEF IInv, vars
<1>3. CASE n # 0 /\ \E p : Served(heap, heap', p, n) /\ live' = Bind(live, p, n)
  <2>1. PICK p : Served(heap, heap', p, n) /\ live' = Bind(live, p, n)
    BY <1>3
  <2>2. WF(heap')
    BY <2>1 DEF Served
  <2>3. Agrees(heap', Bind(live, p, n))
    BY <1>1, <1>3, <2>1, AgreesBind
  <2> QED
    BY <2>1, <2>2, <2>3 DEF IInv
<1> QED
  BY <1>2, <1>3, MallocStep

LEMMA ReallocInv ==
    ASSUME IInv, NEW p \in heap.used, NEW n \in Requests, Realloc(p, n)
    PROVE  IInv'
<1>1. WF(heap) /\ Agrees(heap, live)
  BY DEF IInv
<1>2. CASE Dispose(p)
  BY <1>2, DisposeInv
<1>3. CASE UNCHANGED vars
  BY <1>1, <1>3 DEF IInv, vars
<1>4. CASE /\ n # 0
           /\ \E q : /\ Resized(heap, heap', p, q, n)
                     /\ live' = Bind(Unbind(live, p), q, n)
  <2>1. PICK q : /\ Resized(heap, heap', p, q, n)
                 /\ live' = Bind(Unbind(live, p), q, n)
    BY <1>4
  <2>2. WF(heap')
    BY <2>1 DEF Resized
  <2>3. Agrees(heap', Bind(Unbind(live, p), q, n))
    BY <1>1, <1>4, <2>1, AgreesRebind
  <2> QED
    BY <2>1, <2>2, <2>3 DEF IInv
<1> QED
  BY <1>2, <1>3, <1>4, ReallocStep

\* The invariant is inductive.
LEMMA NextInv == IInv /\ [Next]_vars => IInv'
<1> SUFFICES ASSUME IInv, [Next]_vars
             PROVE  IInv'
  OBVIOUS
<1>1. DOMAIN live = heap.used
  BY DEF IInv, Agrees
<1>2. ASSUME NEW n \in Requests, Malloc(n)
      PROVE  IInv'
  BY <1>2, MallocInv
<1>3. ASSUME NEW p \in DOMAIN live, Dispose(p)
      PROVE  IInv'
  BY <1>1, <1>3, DisposeInv
<1>4. ASSUME NEW p \in DOMAIN live \cup {NULL}, NEW n \in Requests, Realloc(p, n)
      PROVE  IInv'
  <2>1. CASE p = NULL
    BY <1>4, <2>1, ReallocNull, MallocInv
  <2>2. CASE p # NULL
    BY <1>1, <1>4, <2>2, ReallocInv
  <2> QED
    BY <2>1, <2>2
<1>5. CASE Restart
  <2>1. live = [p \in {} |-> 0]
    BY <1>5 DEF Restart, IInv, Agrees
  <2>2. heap' = InitialHeap /\ live' = [p \in {} |-> 0]
    BY <1>5, <2>1 DEF Restart
  <2> QED
    BY <2>2, InitialDone DEF IInv
<1>6. CASE UNCHANGED vars
  BY <1>6 DEF IInv, vars
<1> QED
  BY <1>2, <1>3, <1>4, <1>5, <1>6 DEF Next

LEMMA AlwaysIInv == Spec => []IInv
<1>1. Init => IInv
  BY InitInv
<1>2. IInv /\ [Next]_vars => IInv'
  BY NextInv
<1> QED
  BY <1>1, <1>2, PTL DEF Spec

-----------------------------------------------------------------------------
(* The invariants that the run checks.                                     *)

\* The heap record keeps its shape: every operation of mm.c leaves the
\* allocated and the listed blocks among the blocks of the heap.
THEOREM TypeCorrect == Spec => []TypeOK
<1>1. IInv => TypeOK
  BY DEF IInv, WF, Sound, HeapType, Agrees, TypeOK
<1> QED
  BY <1>1, AlwaysIInv, PTL

\* Whatever place splits, coalesce and mm_realloc merge and extend_heap adds,
\* the blocks cover the heap without gap or overlap, each large enough for
\* its tags and links, and none beyond the region.
THEOREM HeapStaysConsistent == Spec => []HeapConsistent
<1>1. IInv => HeapConsistent
  BY DEF IInv, WF, Sound, HeapConsistent
<1> QED
  BY <1>1, AlwaysIInv, PTL

\* Coalescing is immediate and complete: no call leaves two free blocks side
\* by side, mm_realloc's own merge included.
THEOREM FreeBlocksStayApart == Spec => []NoAdjacentFree
<1>1. IInv => NoAdjacentFree
  BY DEF IInv, WF, NoAdjacentFree
<1> QED
  BY <1>1, AlwaysIInv, PTL

\* The free list holds the free blocks and nothing else, but for the block
\* that mm_init leaves to the first extension or coalescing.
THEOREM FreeListStaysExact == Spec => []FreeListExact
<1>1. IInv => FreeListExact
  BY DEF IInv, WF, FreeListExact
<1> QED
  BY <1>1, AlwaysIInv, PTL

\* The allocated blocks are what the client holds, each with the size it
\* asked for: no block is lost, or handed out twice, or cut.
THEOREM ClientKeepsItsBlocks == Spec => []LiveAreUsed
<1>1. IInv => LiveAreUsed
  BY DEF IInv, Agrees, LiveAreUsed
<1> QED
  BY <1>1, AlwaysIInv, PTL

\* A sound heap without an allocated block is one block: coalesce undoes all
\* fragmentation once everything has been given back.
LEMMA AllFree ==
    ASSUME NEW h, WF(h), h.used = {}
    PROVE  Blocks(h) = {FIRST} /\ EndOf(h, FIRST) = h.brk
<1>1. /\ Sound(h) /\ FIRST \in Blocks(h) /\ Free(h) = Blocks(h)
      /\ \A b \in Blocks(h) : EndOf(h, b) \notin Blocks(h)
  BY DEF WF, Sound, Tiled, NoNeighbours, Free
<1>2. \A b \in Blocks(h) : EndOf(h, b) = h.brk
  BY <1>1, BlockFacts
<1>3. \A b \in Blocks(h) : b = FIRST
  BY <1>1, <1>2, EndsDiffer
<1> QED
  BY <1>1, <1>2, <1>3

\* A client that has freed everything finds the whole heap in one free block,
\* in whatever order it allocated, resized and freed.
THEOREM NothingIsLost == Spec => []AllGivenBack
<1>1. IInv => AllGivenBack
  <2> SUFFICES ASSUME IInv, DOMAIN live = {}
               PROVE  Blocks(heap) = {FIRST} /\ EndOf(heap, FIRST) = heap.brk
    BY DEF AllGivenBack
  <2>1. WF(heap) /\ heap.used = {}
    BY DEF IInv, Agrees
  <2> QED
    BY <2>1, AllFree
<1> QED
  BY <1>1, AlwaysIInv, PTL

-----------------------------------------------------------------------------
(* The promise of the interface.                                           *)

\* Payloads in two blocks have no byte in common.
LEMMA BlocksApart ==
    ASSUME NEW g, Sound(g), NEW p \in Blocks(g), NEW q \in Blocks(g), p # q,
           NEW n \in Nat, n + DSIZE <= g.size[p],
           NEW m \in Nat, m + DSIZE <= g.size[q]
    PROVE  p + n <= q \/ q + m <= p
<1>1. /\ p \in Nat /\ q \in Nat /\ g.size[p] \in Nat /\ g.size[q] \in Nat
      /\ EndOf(g, p) = p + g.size[p] /\ EndOf(g, q) = q + g.size[q]
      /\ p < q => EndOf(g, p) <= q
      /\ q < p => EndOf(g, q) <= p
  BY BlockFacts
<1>2. DSIZE \in Nat
  BY MinBlockSize
<1> QED
  BY <1>1, <1>2

\* The payload of an allocated block lies in the region.
LEMMA BlockInRegion ==
    ASSUME NEW g, Sound(g), NEW p \in Blocks(g),
           NEW n \in Nat, n + DSIZE <= g.size[p]
    PROVE  /\ p % 8 = 0 /\ p \in BASE .. MAX_ADDR /\ p + n <= MAX_ADDR
<1>1. /\ p \in Nat /\ g.size[p] \in Nat /\ p % 8 = 0 /\ FIRST <= p
      /\ EndOf(g, p) = p + g.size[p] /\ EndOf(g, p) <= g.brk
      /\ g.brk \in Nat /\ g.brk <= MAX_ADDR
  BY BlockFacts
<1>2. DSIZE \in Nat /\ BASE \in Nat /\ MAX_ADDR \in Nat /\ FIRST >= BASE /\ FIRST \in Nat
  BY MinBlockSize, GeometryAssumption, BlocksAssumption DEF MAX_ADDR, FIRST
<1> QED
  BY <1>1, <1>2

\* The three tests of add_range, of a block p that replaces what f does not
\* hold of the heap g.
LEMMA BlockAcceptable ==
    ASSUME NEW g, Sound(g), NEW p \in Blocks(g),
           NEW n \in Nat, n + DSIZE <= g.size[p],
           NEW f, DOMAIN f \subseteq Blocks(g) \ {p},
           \A q \in DOMAIN f : f[q] \in Nat /\ f[q] + DSIZE <= g.size[q]
    PROVE  p \in BASE .. MAX_ADDR /\ API!Acceptable(f, p, n)
<1>1. p % 8 = 0 /\ p \in BASE .. MAX_ADDR /\ p + n <= MAX_ADDR /\ BASE <= p
  <2>1. p % 8 = 0 /\ p \in BASE .. MAX_ADDR /\ p + n <= MAX_ADDR
    BY BlockInRegion
  <2> QED
    BY <2>1
<1>2. ASSUME NEW q \in DOMAIN f
      PROVE  p + n <= q \/ q + f[q] <= p
  <2>1. q \in Blocks(g) /\ q # p /\ f[q] \in Nat /\ f[q] + DSIZE <= g.size[q]
    OBVIOUS
  <2> QED
    BY <2>1, BlocksApart
<1> QED
  BY <1>1, <1>2 DEF API!Acceptable

LEMMA MallocAccepted ==
    ASSUME NEW h, WF(h), NEW f, Agrees(h, f), NEW g, NEW p,
           NEW n \in Requests \ {0}, Served(h, g, p, n)
    PROVE  p \in BASE .. MAX_ADDR /\ API!Acceptable(f, p, n)
<1>1. /\ Sound(g) /\ p \in Blocks(g) /\ g.used \subseteq Blocks(g)
      /\ g.used = h.used \cup {p} /\ p \notin h.used /\ n + DSIZE <= g.size[p]
      /\ \A u \in h.used : g.size[u] = h.size[u]
  <2>1. /\ Sound(g) /\ p \in Blocks(g) /\ g.used \subseteq Blocks(g)
        /\ g.used = h.used \cup {p} /\ p \notin h.used /\ g.size[p] >= n + DSIZE
        /\ \A u \in h.used : g.size[u] = h.size[u]
    BY DEF Served, WF, Sound, HeapType
  <2>2. g.size[p] \in Nat /\ n \in Nat /\ DSIZE \in Nat
    BY <2>1, BlockFacts, RequestRange, MinBlockSize
  <2> QED
    BY <2>1, <2>2
<1>2. /\ DOMAIN f = h.used
      /\ \A q \in DOMAIN f : f[q] \in Nat /\ f[q] + DSIZE <= g.size[q]
  BY <1>1, RequestRange DEF Agrees
<1>3. n \in Nat /\ DOMAIN f \subseteq Blocks(g) \ {p}
  BY <1>1, <1>2, RequestRange
<1> QED
  BY <1>1, <1>2, <1>3, BlockAcceptable

LEMMA ReallocAccepted ==
    ASSUME NEW h, WF(h), NEW f, Agrees(h, f), NEW g, NEW p \in h.used, NEW q,
           NEW n \in Requests \ {0}, Resized(h, g, p, q, n)
    PROVE  q \in BASE .. MAX_ADDR /\ API!Acceptable(Unbind(f, p), q, n)
<1> DEFINE e == Unbind(f, p)
<1>1. /\ Sound(g) /\ q \in Blocks(g) /\ g.used \subseteq Blocks(g)
      /\ g.used = (h.used \ {p}) \cup {q} /\ (q = p \/ q \notin h.used)
      /\ g.size[q] >= n + DSIZE
      /\ \A u \in h.used : u # p => g.size[u] = h.size[u]
  BY DEF Resized, WF, Sound, HeapType
<1>2. n \in Nat /\ n + DSIZE <= g.size[q]
  <2>1. g.size[q] \in Nat /\ n \in Nat /\ DSIZE \in Nat
    BY <1>1, BlockFacts, RequestRange, MinBlockSize
  <2> QED
    BY <1>1, <2>1
<1>3. e = [x \in h.used \ {p} |-> f[x]]
  BY DEF Unbind, Agrees
<1> HIDE DEF e
<1>4. /\ DOMAIN e \subseteq Blocks(g) \ {q}
      /\ \A x \in DOMAIN e : e[x] \in Nat /\ e[x] + DSIZE <= g.size[x]
  BY <1>1, <1>3, RequestRange DEF Agrees
<1>5. q \in BASE .. MAX_ADDR /\ API!Acceptable(e, q, n)
  BY <1>1, <1>2, <1>4, BlockAcceptable
<1> QED
  BY <1>5 DEF e

\* mm_malloc, mm_free and mm_realloc keep the promise that the driver tests:
\* each call either fails and changes nothing the client holds, or hands out
\* an aligned payload in the region that overlaps none that the client holds.
THEOREM KeepsThePromise == Spec => APISpec
<1>1. Init => API!Init
  BY DEF Init, API!Init
<1>2. IInv /\ [Next]_vars => [API!Next]_live
  <2> SUFFICES ASSUME IInv, [Next]_vars
               PROVE  API!Next \/ live' = live
    OBVIOUS
  <2>1. WF(heap) /\ Agrees(heap, live) /\ DOMAIN live = heap.used
    BY DEF IInv, Agrees
  <2>2. ASSUME NEW n \in Requests, Malloc(n)
        PROVE  API!Malloc(n)
    <3>1. CASE UNCHANGED vars
      BY <3>1 DEF vars, API!Malloc
    <3>2. CASE n # 0 /\ \E p : Served(heap, heap', p, n) /\ live' = Bind(live, p, n)
      <4>1. PICK p : Served(heap, heap', p, n) /\ live' = Bind(live, p, n)
        BY <3>2
      <4>2. p \in BASE .. MAX_ADDR /\ API!Acceptable(live, p, n)
        BY <2>1, <3>2, <4>1, MallocAccepted
      <4> QED
        BY <3>2, <4>1, <4>2 DEF API!Malloc, API!Bind, Bind
    <3> QED
      BY <2>2, <3>1, <3>2, MallocStep
  <2>3. ASSUME NEW p \in DOMAIN live, Dispose(p)
        PROVE  API!Dispose(p)
    BY <2>3 DEF Dispose, API!Dispose, API!Unbind, Unbind
  <2>4. ASSUME NEW p \in DOMAIN live, NEW n \in Requests, Realloc(p, n)
        PROVE  API!Realloc(p, n)
    <3>1. CASE n = 0 /\ Dispose(p)
      BY <3>1, <2>3 DEF API!Dispose, API!Realloc
    <3>2. CASE n # 0 /\ UNCHANGED vars
      BY <3>2 DEF vars, API!Realloc
    <3>3. CASE /\ n # 0
               /\ \E q : /\ Resized(heap, heap', p, q, n)
                         /\ live' = Bind(Unbind(live, p), q, n)
      <4>1. PICK q : /\ Resized(heap, heap', p, q, n)
                     /\ live' = Bind(Unbind(live, p), q, n)
        BY <3>3
      <4>2. q \in BASE .. MAX_ADDR /\ API!Acceptable(Unbind(live, p), q, n)
        BY <2>1, <3>3, <4>1, ReallocAccepted
      <4> QED
        BY <3>3, <4>1, <4>2 DEF API!Realloc, API!Bind, Bind, API!Unbind, Unbind
    <3> QED
      BY <2>1, <2>4, <3>1, <3>2, <3>3, ReallocStep
  <2>5. ASSUME NEW p \in DOMAIN live \cup {NULL}, NEW n \in Requests, Realloc(p, n)
        PROVE  API!Next
    <3>1. CASE p \in DOMAIN live
      BY <2>4, <2>5, <3>1 DEF API!Next
    <3>2. CASE p = NULL
      <4>1. API!Malloc(n)
        BY <2>2, <2>5, <3>2, ReallocNull
      <4> QED
        BY <4>1 DEF API!Next
    <3> QED
      BY <3>1, <3>2
  <2>6. CASE Restart
    BY <2>6 DEF Restart
  <2>7. CASE UNCHANGED vars
    BY <2>7 DEF vars
  <2> QED
    BY <2>2, <2>3, <2>5, <2>6, <2>7 DEF Next, API!Next
<1> QED
  BY <1>1, <1>2, AlwaysIInv, PTL DEF Spec, APISpec, API!Spec

\* What the promise is for: no two payloads that the client holds share a
\* byte, whatever was split, merged, moved and extended before.
THEOREM PayloadsNeverOverlap == Spec => []API!PayloadsSound
<1>1. IInv => API!PayloadsSound
  <2> SUFFICES ASSUME IInv, NEW p \in DOMAIN live
               PROVE  /\ p % 8 = 0
                      /\ BASE <= p /\ p + live[p] <= MAX_ADDR
                      /\ \A q \in DOMAIN live :
                            p # q => p + live[p] <= q \/ q + live[q] <= p
    BY DEF API!PayloadsSound
  <2>1. /\ Sound(heap) /\ heap.used \subseteq Blocks(heap) /\ DOMAIN live = heap.used
        /\ \A q \in DOMAIN live : live[q] \in Nat /\ live[q] + DSIZE <= heap.size[q]
    BY RequestRange DEF IInv, WF, Sound, HeapType, Agrees
  <2>2. p \in Blocks(heap) /\ live[p] \in Nat /\ live[p] + DSIZE <= heap.size[p]
    BY <2>1
  <2>3. p % 8 = 0 /\ p \in BASE .. MAX_ADDR /\ p + live[p] <= MAX_ADDR
    BY <2>1, <2>2, BlockInRegion
  <2>4. ASSUME NEW q \in DOMAIN live, p # q
        PROVE  p + live[p] <= q \/ q + live[q] <= p
    <3>1. q \in Blocks(heap) /\ live[q] \in Nat /\ live[q] + DSIZE <= heap.size[q]
      BY <2>1
    <3> QED
      BY <2>1, <2>2, <2>4, <3>1, BlocksApart
  <2> QED
    BY <2>3, <2>4
<1> QED
  BY <1>1, AlwaysIInv, PTL

=============================================================================
