-------------------------------- MODULE DS2 ---------------------------------
(***************************************************************************)
(* mm-ds2.c, word by word: segregated free lists, a header and a footer    *)
(* around every block, and a round-up of requests that leaves room for the *)
(* header only.                                                            *)
(*                                                                         *)
(* The static beside those of HeapWords is                                 *)
(*   lists   seg_list: class -> its first node or NULL                     *)
(***************************************************************************)
EXTENDS BoundaryTags

CONSTANT NUM_LISTS    \* 12 in the code; the last class takes all larger sizes

Classes == 0 .. NUM_LISTS - 1
MIN_BLOCK == 16

NoLists == [c \in Classes |-> NULL]
Fresh == [mem |-> FreshMemory, brk |-> BASE, status |-> "ok", lists |-> NoLists]

ALIGN(size) == (Wrap(size + 7) \div 8) * 8

\* The block size that mm_malloc takes, and the one that mm_realloc takes.
asize_of(size) == MaxOf(ALIGN(Wrap(size + WSIZE)), MIN_BLOCK)
new_size_of(size) == ALIGN(Wrap(size + WSIZE))

-----------------------------------------------------------------------------
(* The lists.                                                              *)

PREV_FREE(t, bp) == GET(t, bp)
NEXT_FREE(t, bp) == GET(t, bp + WSIZE)

\* The first class whose limit, a power of two from 16 on, is not exceeded.
get_index(size) ==
    CHOOSE c \in Classes :
        /\ c = NUM_LISTS - 1 \/ size <= 2 ^ (c + 4)
        /\ \A d \in 0 .. c - 1 : size > 2 ^ (d + 4)

LinkBack(t, next, prev) == IF next # NULL THEN PUT(t, next, prev) ELSE t
LinkForward(t, idx, prev, next) ==
    IF prev # NULL THEN PUT(t, prev + WSIZE, next) ELSE [t EXCEPT !.lists[idx] = next]

AddFirst(t, bp, idx) ==
    [LinkBack(PUT(PUT(t, bp + WSIZE, t.lists[idx]), bp, NULL), t.lists[idx], bp)
        EXCEPT !.lists[idx] = bp]
add_free_block(t, bp) == AddFirst(t, bp, get_index(GET_SIZE(t, HDRP(bp))))

\* remove_free_block that leaves the back link of the next node.
remove_free_block_one_way(t, bp) ==
    LinkForward(t, get_index(GET_SIZE(t, HDRP(bp))), PREV_FREE(t, bp), NEXT_FREE(t, bp))

remove_free_block(t, bp) ==
    LinkBack(LinkForward(t, get_index(GET_SIZE(t, HDRP(bp))),
                         PREV_FREE(t, bp), NEXT_FREE(t, bp)),
             NEXT_FREE(t, bp), PREV_FREE(t, bp))

\* The first fit in the first class, from the one of asize on, that has one.
InList(t, asize, idx) ==
    FirstFit(t.lists[idx], NULL, LAMBDA b : NEXT_FREE(t, b),
                                 LAMBDA b : GET_SIZE(t, HDRP(b)) >= asize)
find_fit(t, asize) ==
    LET hits == {idx \in get_index(asize) .. NUM_LISTS - 1 :
                    InList(t, asize, idx) # NULL}
    IN  IF hits = {} THEN NULL
        ELSE InList(t, asize, CHOOSE idx \in hits : \A other \in hits : idx <= other)

-----------------------------------------------------------------------------
(* Blocks.                                                                 *)

Without(t, bp, is_free) == IF is_free THEN remove_free_block(t, bp) ELSE t

\* coalesce that does not look at the block before.
coalesce_forward(t, bp) ==
    LET next == NEXT_BLKP(t, bp)
        next_free == GET_ALLOC(t, HDRP(next)) = 0
        size == GET_SIZE(t, HDRP(bp)) + (IF next_free THEN GET_SIZE(t, HDRP(next)) ELSE 0)
    IN  [s |-> add_free_block(SetTags(Without(t, next, next_free), bp, size, 0), bp),
         p |-> bp]

\* The merged block goes to the list of its size.
coalesce(t, bp) ==
    LET prev == PREV_BLKP(t, bp)
        next == NEXT_BLKP(t, bp)
        prev_free == GET_ALLOC(t, HDRP(prev)) = 0
        next_free == GET_ALLOC(t, HDRP(next)) = 0
        at == IF prev_free THEN prev ELSE bp
        size == GET_SIZE(t, HDRP(bp))
                  + (IF prev_free THEN GET_SIZE(t, HDRP(prev)) ELSE 0)
                  + (IF next_free THEN GET_SIZE(t, HDRP(next)) ELSE 0)
    IN  [s |-> add_free_block(SetTags(Without(Without(t, prev, prev_free),
                                              next, next_free), at, size, 0), at),
         p |-> at]

\* A free block of size bytes is made at bp, and merged.
MakeFree(t, bp, size) == coalesce(SetTags(t, bp, size, 0), bp).s

\* The block is cut to asize bytes if the rest can be a block.
Cut(t, bp, asize, csize) ==
    IF csize - asize >= MIN_BLOCK
    THEN MakeFree(SetTags(t, bp, asize, 1), bp + asize, csize - asize)
    ELSE SetTags(t, bp, csize, 1)

place(t, bp, asize) ==
    Cut(remove_free_block(t, bp), bp, asize, GET_SIZE(t, HDRP(bp)))

extend_heap(t, bytes) ==
    LET size == ExtendBytes(bytes)
        grown == mem_sbrk(t, ToInt(size))
    IN  IF grown.p = NULL THEN grown
        ELSE coalesce(SetEpilogue(SetTags(grown.s, grown.p, size, 0), grown.p),
                      grown.p)

-----------------------------------------------------------------------------
(* The interface.                                                          *)

InitEnds(r) == IF r.p = NULL THEN [r.s EXCEPT !.status = "init failed"] ELSE r.s

mm_init(t) ==
    LET start == mem_sbrk([t EXCEPT !.lists = NoLists], 4 * WSIZE)
        lo == start.p
    IN  IF lo = NULL THEN InitEnds(start)
        ELSE InitEnds(extend_heap(PUT(PUT(PUT(PUT(start.s, lo, 0),
                                      lo + WSIZE, PACK(DSIZE, 1)),
                                      lo + 2 * WSIZE, PACK(DSIZE, 1)),
                                      lo + 3 * WSIZE, PACK(0, 1)), CHUNKSIZE))

malloc_from_grown(grown, asize) ==
    IF grown.p = NULL THEN grown
    ELSE [s |-> place(grown.s, grown.p, asize), p |-> grown.p]

malloc_from_fit(t, bp, asize) ==
    IF bp \in {HANG, FAULT} THEN [s |-> LoopEnds(t, bp), p |-> bp]
    ELSE IF bp # NULL THEN [s |-> place(t, bp, asize), p |-> bp]
    ELSE malloc_from_grown(extend_heap(t, MaxOf(asize, CHUNKSIZE)), asize)

mm_malloc(t, size) ==
    IF size = 0 THEN [s |-> t, p |-> NULL]
    ELSE malloc_from_fit(t, find_fit(t, asize_of(size)), asize_of(size))

mm_free(t, bp) ==
    IF bp = NULL THEN t ELSE MakeFree(t, bp, GET_SIZE(t, HDRP(bp)))

\* The end of mm_realloc, with what mm_malloc returned: all of the old block
\* is copied, its footer too.
realloc_moved(moved, ptr, old_size) ==
    IF moved.p \in NoBlock THEN moved
    ELSE [s |-> mm_free(memcpy(moved.s, moved.p, ptr, old_size - WSIZE), ptr),
          p |-> moved.p]

\* A block that is too large is cut; one that is too small takes the free
\* block after it, if that is enough, and gives back the rest.
mm_realloc(t, ptr, size) ==
    LET old_size == GET_SIZE(t, HDRP(ptr))
        new_size == new_size_of(size)
        next == NEXT_BLKP(t, ptr)
        total == old_size + GET_SIZE(t, HDRP(next))
    IN  IF ptr = NULL THEN mm_malloc(t, size)
        ELSE IF size = 0 THEN [s |-> mm_free(t, ptr), p |-> NULL]
        ELSE IF new_size <= old_size /\ old_size - new_size < MIN_BLOCK
        THEN [s |-> t, p |-> ptr]
        ELSE IF new_size < old_size
        THEN [s |-> Cut(t, ptr, new_size, old_size), p |-> ptr]
        ELSE IF GET_ALLOC(t, HDRP(next)) = 0 /\ total >= new_size
        THEN [s |-> Cut(remove_free_block(t, next), ptr, new_size, total), p |-> ptr]
        ELSE realloc_moved(mm_malloc(t, size), ptr, old_size)

-----------------------------------------------------------------------------
(* What should hold of a state.                                            *)

FIRST == BASE + 4 * WSIZE
HeapBlocks(t) == BlocksAfter(t, FIRST)
FreeBlocks(t) == {bp \in HeapBlocks(t) : GET_ALLOC(t, HDRP(bp)) = 0}
ListOf(t, idx) == Chain(t.lists[idx], LAMBDA bp : NEXT_FREE(t, bp))

\* mm_checkheap 1, 2-1 to 2-4, 2-6 and "Uncoalesced free blocks", mm-ds2.c:239
\* to 291: the prologue stands, the headers tile the heap up to the epilogue at
\* the break, every footer repeats its header, which coalesce trusts, and free
\* blocks are apart.
TagsConsistent(t) ==
    /\ GET(t, BASE + WSIZE) = PACK(DSIZE, 1)
    /\ GET(t, BASE + 2 * WSIZE) = PACK(DSIZE, 1)
    /\ EndsAfter(t, FIRST) = {t.brk} /\ GET(t, HDRP(t.brk)) = PACK(0, 1)
    /\ \A bp \in HeapBlocks(t) :
          /\ GET(t, HDRP(bp)) = GET(t, FTRP(t, bp))
          /\ bp % 8 = 0 /\ GET_SIZE(t, HDRP(bp)) >= MIN_BLOCK
    /\ \A bp \in FreeBlocks(t) : NEXT_BLKP(t, bp) \notin FreeBlocks(t)

\* The lists hold the free blocks, each once and in the class of its size, and
\* the links of neighbours mirror each other.
ListsExact(t) ==
    /\ \A idx \in Classes :
          LET nodes == ListOf(t, idx)
          IN  \A k \in 1 .. Len(nodes) :
                 /\ get_index(GET_SIZE(t, HDRP(nodes[k]))) = idx
                 /\ PREV_FREE(t, nodes[k]) = IF k = 1 THEN NULL ELSE nodes[k - 1]
    /\ UNION {Range(ListOf(t, idx)) : idx \in Classes} = FreeBlocks(t)

\* find_fit starts at the class of the size asked for and so skips smaller
\* ones: it still finds a block if there is one that fits.
SearchComplete(t, Requests) ==
    \A n \in Requests \ {0} :
        LET fitting == {bp \in FreeBlocks(t) : GET_SIZE(t, HDRP(bp)) >= asize_of(n)}
            found == find_fit(t, asize_of(n))
        IN  IF fitting = {} THEN found = NULL ELSE found \in fitting

=============================================================================
