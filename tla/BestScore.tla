----------------------------- MODULE BestScore -----------------------------
(***************************************************************************)
(* mm.c.bestscore, word by word: segregated free lists whose heads are the *)
(* first words of the heap, blocks taken from the end of a free one, small *)
(* ones made in stock when the heap grows, and a realloc that expands over *)
(* free blocks on both sides.  Free blocks may lie side by side: only      *)
(* mm_free merges, and only with the nearest two.                          *)
(***************************************************************************)
EXTENDS BoundaryTags
LOCAL INSTANCE SequencesExt

CONSTANT SEGLIST_NUM    \* 8 in the code; the last class takes all larger sizes

Classes == 0 .. SEGLIST_NUM - 1
MIN_BLOCK == 16

Fresh == [mem |-> FreshMemory, brk |-> BASE, status |-> "ok"]

ALIGN(size) == (Wrap(size + 7) \div 8) * 8
asize_of(size) == MaxOf(ALIGN(Wrap(size + DSIZE)), MIN_BLOCK)

PAYLOAD_SIZE(t, bp) == GET_SIZE(t, HDRP(bp)) - DSIZE
IS_FREE(t, bp) == GET_ALLOC(t, HDRP(bp)) = 0

\* Header and footer, each with the size that it has.
WRITE_ALLOC(t, a, alloc) == PUT(t, a, PACK(GET_SIZE(t, a), alloc))
SET_ALLOC(t, bp, alloc) ==
    WRITE_ALLOC(WRITE_ALLOC(t, HDRP(bp), alloc), FTRP(t, bp), alloc)

-----------------------------------------------------------------------------
(* The lists.                                                              *)

GET_PRED(t, bp) == GET(t, bp)
GET_SUCC(t, bp) == GET(t, bp + WSIZE)

\* seglist is mem_heap_lo().
seglist(index) == BASE + index * WSIZE

Limits == <<1, 2, 4, 8, 16, 64, 256>>
seg_index(size) ==
    CHOOSE c \in Classes :
        /\ c = SEGLIST_NUM - 1 \/ size <= Limits[c + 1] * MIN_BLOCK
        /\ \A d \in 0 .. c - 1 : size > Limits[d + 1] * MIN_BLOCK

\* The word with the list that a block of bp's size belongs to.
ListFor(t, bp) == seglist(seg_index(GET_SIZE(t, HDRP(bp))))

PutIf(t, yes, a, v) == IF yes THEN PUT(t, a, v) ELSE t

link_block(t, bp) ==
    LET head == ListFor(t, bp)
        list == GET(t, head)
    IN  PUT(PUT(PUT(PutIf(t, list # NULL, list, bp), bp + WSIZE, list), bp, NULL),
            head, bp)

unlink_block(t, bp) ==
    LET head == ListFor(t, bp)
        pred == GET_PRED(t, bp)
        succ == GET_SUCC(t, bp)
        bridged == PutIf(PutIf(t, pred # NULL, pred + WSIZE, succ),
                         succ # NULL, succ, pred)
    IN  PutIf(bridged, GET(t, head) = bp, head, succ)

ListOf(t, index) == Chain(GET(t, seglist(index)), LAMBDA bp : GET_SUCC(t, bp))

\* best_size is never written, so that every block that fits replaces the one
\* before: what comes out is the last of the list that fits.
best_fit(t, index, size) ==
    LET nodes == ListOf(t, index)
        fits == SelectSeq(nodes, LAMBDA bp : GET_SIZE(t, HDRP(bp)) >= size)
    IN  IF Len(nodes) = NumWords THEN HANG
        ELSE IF Range(nodes) \ Words # {} THEN FAULT
        ELSE IF fits = << >> THEN NULL ELSE Last(fits)

\* The first class, from the one of size on, that has a fit.
find_fit(t, size) ==
    LET hits == {c \in seg_index(size) .. SEGLIST_NUM - 1 : best_fit(t, c, size) # NULL}
    IN  IF hits = {} THEN NULL
        ELSE best_fit(t, CHOOSE c \in hits : \A d \in hits : c <= d, size)

-----------------------------------------------------------------------------
(* Blocks.                                                                 *)

NewFree(t, bp, size) == link_block(SetTags(t, bp, size, 0), bp)

extend_heap(t, bytes) ==
    LET size == ALIGN(bytes)
        grown == mem_sbrk(t, ToInt(size))
    IN  IF grown.p = NULL THEN grown
        ELSE [s |-> SetEpilogue(NewFree(grown.s, grown.p, size), grown.p),
              p |-> grown.p]

\* A free block becomes as many of the given size as leave a last one that is
\* not too small.
Chopped(t, bp, size, bsize) ==
    LET n == (bsize - MIN_BLOCK) \div size
        first[k \in 0 .. n] ==
            IF k = 0 THEN unlink_block(t, bp)
            ELSE NewFree(first[k - 1], bp + (k - 1) * size, size)
    IN  NewFree(first[n], bp + n * size, bsize - n * size)

chop_block(t, bp, size) ==
    LET bsize == GET_SIZE(t, HDRP(bp))
    IN  IF bp = NULL \/ size < MIN_BLOCK \/ size + MIN_BLOCK > bsize THEN t
        ELSE Chopped(t, bp, size, bsize)

\* The end of the block is taken.
place(t, bp, size) ==
    LET csize == GET_SIZE(t, HDRP(bp)) - size
        taken == unlink_block(t, bp)
    IN  IF csize < MIN_BLOCK THEN [s |-> SET_ALLOC(taken, bp, 1), p |-> bp]
        ELSE [s |-> SetTags(NewFree(taken, bp, csize), bp + csize, size, 1),
              p |-> bp + csize]

\* Called with a free and listed block only.
UnlinkIf(t, yes, bp) == IF yes THEN unlink_block(t, bp) ELSE t
coalesce(t, bp) ==
    LET prev == PREV_BLKP(t, bp)
        next == NEXT_BLKP(t, bp)
        prev_free == GET_ALLOC(t, bp - DSIZE) = 0
        next_free == IS_FREE(t, next)
        at == IF prev_free THEN prev ELSE bp
        end == IF next_free THEN NEXT_BLKP(t, next) ELSE next
    IN  IF ~prev_free /\ ~next_free THEN t
        ELSE NewFree(UnlinkIf(UnlinkIf(unlink_block(t, bp), next_free, next),
                              prev_free, prev), at, end - at)

-----------------------------------------------------------------------------
(* The interface.                                                          *)

mm_init(t) ==
    LET start == mem_sbrk(t, (SEGLIST_NUM + 2) * WSIZE)
        lo == BASE + SEGLIST_NUM * WSIZE
        cleared == memset(start.s, BASE, SEGLIST_NUM * WSIZE, NULL)
        grown == extend_heap(PUT(PUT(cleared, lo, PACK(0, 1)), lo + WSIZE, PACK(0, 1)),
                             4 * MIN_BLOCK)
    IN  IF start.p = NULL THEN [start.s EXCEPT !.status = "init failed"]
        ELSE IF grown.p = NULL THEN [grown.s EXCEPT !.status = "init failed"]
        ELSE grown.s

\* For a small block the heap grows by several of its size.
grow(t, size) ==
    LET grown == extend_heap(t, IF size > CHUNKSIZE THEN size ELSE 4 * CHUNKSIZE)
    IN  IF grown.p = NULL \/ size > CHUNKSIZE THEN grown
        ELSE [s |-> chop_block(grown.s, grown.p, size), p |-> grown.p]

malloc_from(found, size) ==
    IF found.p = NULL THEN found ELSE place(found.s, found.p, size)

mm_malloc(t, size) ==
    LET asize == asize_of(size)
        bp == find_fit(t, asize)
    IN  IF size = 0 THEN [s |-> t, p |-> NULL]
        ELSE IF bp \in {HANG, FAULT} THEN [s |-> LoopEnds(t, bp), p |-> bp]
        ELSE malloc_from(IF bp = NULL THEN grow(t, asize) ELSE [s |-> t, p |-> bp], asize)

mm_free(t, bp) == coalesce(link_block(SET_ALLOC(t, bp, 0), bp), bp)

reallocate_block(moved, ptr, size) ==
    LET payload == PAYLOAD_SIZE(moved.s, ptr)
        copy_size == IF payload < size THEN payload ELSE size
    IN  IF moved.p \in NoBlock THEN moved
        ELSE [s |-> mm_free(memcpy(moved.s, moved.p, ptr, copy_size), ptr),
              p |-> moved.p]

\* The free blocks after bp, and those before it, nearest first.
FreeAfter(t, bp) ==
    LET Free(b) == IF IS_FREE(t, b) THEN b ELSE NULL
    IN  Chain(Free(NEXT_BLKP(t, bp)), LAMBDA b : Free(NEXT_BLKP(t, b)))
FreeBefore(t, bp) ==
    LET Before(b) == IF GET_ALLOC(t, b - DSIZE) = 0 THEN PREV_BLKP(t, b) ELSE NULL
    IN  Chain(Before(bp), Before)

\* As many of them as it takes, or all.
Needed(nodes, Enough(_)) ==
    LET ks == {k \in DOMAIN nodes : Enough(nodes[k])}
    IN  IF ks = {} THEN nodes ELSE SubSeq(nodes, 1, CHOOSE k \in ks : \A j \in ks : k <= j)

\* What can_expand looks at and expand_block takes: the blocks after, and then
\* those before, until the room from at to end is enough.
Expansion(t, bp, size) ==
    LET after == Needed(FreeAfter(t, bp), LAMBDA b : NEXT_BLKP(t, b) - bp >= size)
        end == NEXT_BLKP(t, Last(<<bp>> \o after))
        before == IF end - bp >= size THEN << >>
                  ELSE Needed(FreeBefore(t, bp), LAMBDA b : end - b >= size)
    IN  [taken |-> after \o before, at |-> Last(<<bp>> \o before), end |-> end]

can_expand(x, size) == x.end - x.at >= size

\* expand_block that leaves the payload where it was.
expand_block_unmoved(t, bp, x) ==
    [s |-> SetTags(FoldLeft(unlink_block, t, x.taken), x.at, x.end - x.at, 1), p |-> x.at]

\* The payload moves to the front before the tags are written.
expand_block(t, bp, x) ==
    LET unlinked == FoldLeft(unlink_block, t, x.taken)
        moved == IF x.at = bp THEN unlinked
                 ELSE memcpy(unlinked, x.at, bp, PAYLOAD_SIZE(t, bp))
    IN  [s |-> SetTags(moved, x.at, x.end - x.at, 1), p |-> x.at]

resize_block(t, bp, size) ==
    LET asize == asize_of(size)
        bsize == GET_SIZE(t, HDRP(bp))
        x == Expansion(t, bp, asize)
    IN  IF asize > bsize
        THEN IF can_expand(x, asize) THEN expand_block(t, bp, x)
             ELSE reallocate_block(mm_malloc(t, size), bp, size)
        ELSE IF bsize - asize >= 4 * MIN_BLOCK
        THEN [s |-> NewFree(SetTags(t, bp, asize, 1), bp + asize, bsize - asize), p |-> bp]
        ELSE [s |-> t, p |-> bp]

mm_realloc(t, ptr, size) ==
    IF ptr = NULL THEN mm_malloc(t, size)
    ELSE IF size = 0 THEN [s |-> mm_free(t, ptr), p |-> NULL]
    ELSE resize_block(t, ptr, size)

-----------------------------------------------------------------------------
(* What should hold of a state.                                            *)

FIRST == BASE + (SEGLIST_NUM + 2) * WSIZE
HeapBlocks(t) == BlocksAfter(t, FIRST)
FreeBlocks(t) == {bp \in HeapBlocks(t) : IS_FREE(t, bp)}

\* mm_check, mm.c.bestscore:537 to 588: head and tail word stand, the headers
\* tile the heap up to the break, and every footer repeats its header.
TagsConsistent(t) ==
    /\ GET(t, FIRST - DSIZE) = PACK(0, 1)
    /\ EndsAfter(t, FIRST) = {t.brk} /\ GET(t, HDRP(t.brk)) = PACK(0, 1)
    /\ \A bp \in HeapBlocks(t) :
          /\ GET(t, HDRP(bp)) = GET(t, FTRP(t, bp))
          /\ bp % 8 = 0 /\ GET_SIZE(t, HDRP(bp)) >= MIN_BLOCK

\* The lists hold the free blocks, each once and in the class of its size, and
\* the links of neighbours mirror each other.
ListsExact(t) ==
    /\ \A index \in Classes :
          LET nodes == ListOf(t, index)
          IN  \A k \in 1 .. Len(nodes) :
                 /\ seg_index(GET_SIZE(t, HDRP(nodes[k]))) = index
                 /\ GET_PRED(t, nodes[k]) = IF k = 1 THEN NULL ELSE nodes[k - 1]
    /\ UNION {Range(ListOf(t, index)) : index \in Classes} = FreeBlocks(t)

\* find_fit starts at the class of the size asked for, and still finds a block
\* if there is one that fits.
SearchComplete(t, Requests) ==
    \A n \in Requests \ {0} :
        LET fitting == {bp \in FreeBlocks(t) : GET_SIZE(t, HDRP(bp)) >= asize_of(n)}
            found == find_fit(t, asize_of(n))
        IN  IF fitting = {} THEN found = NULL ELSE found \in fitting

=============================================================================
