-------------------------------- MODULE CG45 --------------------------------
(***************************************************************************)
(* mm-cg45.c, word by word: segregated free lists, blocks that have a      *)
(* footer only while they are free, and in every header a second bit that  *)
(* says whether the block before is allocated.  The header of the first    *)
(* block lies one word after the epilogue that mm_init writes, and every   *)
(* later epilogue lies at the break, one word past the heap.               *)
(*                                                                         *)
(* The static beside those of HeapWords is                                 *)
(*   lists   seg_free_lists: class -> its first node or NULL               *)
(***************************************************************************)
EXTENDS BoundaryTags

CONSTANT LIST_COUNT   \* 16 in the code; the last class takes all larger sizes

Classes == 0 .. LIST_COUNT - 1
MIN_BLOCK == 2 * DSIZE

NoLists == [c \in Classes |-> NULL]
Fresh == [mem |-> FreshMemory, brk |-> BASE, status |-> "ok", lists |-> NoLists]

ALIGN(size) == (Wrap(size + 7) \div 8) * 8

\* The block size that mm_malloc and mm_realloc take.
asize_of(size) ==
    IF size <= DSIZE THEN MIN_BLOCK ELSE MaxOf(ALIGN(Wrap(size + WSIZE)), MIN_BLOCK)

-----------------------------------------------------------------------------
(* Words: a block is named by its payload pointer bp or by its header hdr. *)

TAG(size, prev_alloc, alloc) == PACK(size + 2 * prev_alloc, alloc)
GET_PREV_ALLOC(t, a) == (GET(t, a) \div 2) % 2

NEXT_FREE(t, bp) == GET(t, bp)
PREV_FREE(t, bp) == GET(t, bp + WSIZE)

\* Header and footer of a free block.
SetFree(t, hdr, size, prev_alloc) ==
    PUT(PUT(t, hdr, TAG(size, prev_alloc, 0)), hdr + size - WSIZE,
        TAG(size, prev_alloc, 0))

\* The block, or the epilogue, at hdr learns whether the one before is allocated.
TellNext(t, hdr, alloc) ==
    PUT(t, hdr, IF GET_SIZE(t, hdr) # 0
                THEN TAG(GET_SIZE(t, hdr), alloc, GET_ALLOC(t, hdr))
                ELSE TAG(0, alloc, 1))

-----------------------------------------------------------------------------
(* The lists.                                                              *)

\* The first class whose limit, a power of two from 32 on, is not exceeded.
get_list_index(size) ==
    CHOOSE c \in Classes :
        /\ c = LIST_COUNT - 1 \/ size <= 2 ^ (c + 5)
        /\ \A d \in 0 .. c - 1 : size > 2 ^ (d + 5)

ClassOf(t, bp) == get_list_index(GET_SIZE(t, HDRP(bp)))

LinkBack(t, next, prev) == IF next # NULL THEN PUT(t, next + WSIZE, prev) ELSE t
LinkForward(t, index, prev, next) ==
    IF prev # NULL THEN PUT(t, prev, next) ELSE [t EXCEPT !.lists[index] = next]

InsertFirst(t, bp, index) ==
    [PUT(PUT(LinkBack(t, t.lists[index], bp), bp, t.lists[index]), bp + WSIZE, NULL)
        EXCEPT !.lists[index] = bp]
insert_free_block(t, bp) == InsertFirst(t, bp, ClassOf(t, bp))

remove_free_block(t, bp) ==
    LinkBack(LinkForward(t, ClassOf(t, bp), PREV_FREE(t, bp), NEXT_FREE(t, bp)),
             NEXT_FREE(t, bp), PREV_FREE(t, bp))

InList(t, asize, index) ==
    FirstFit(t.lists[index], NULL, LAMBDA b : NEXT_FREE(t, b),
                                   LAMBDA b : GET_SIZE(t, HDRP(b)) >= asize)

\* find_fit that looks into the class of asize only.
find_fit_one_class(t, asize) == InList(t, asize, get_list_index(asize))

\* The first fit in the first class, from the one of asize on, that has one.
find_fit(t, asize) ==
    LET hits == {index \in get_list_index(asize) .. LIST_COUNT - 1 :
                    InList(t, asize, index) # NULL}
    IN  IF hits = {} THEN NULL
        ELSE InList(t, asize, CHOOSE i \in hits : \A other \in hits : i <= other)

-----------------------------------------------------------------------------
(* Blocks.                                                                 *)

\* The two merges of coalesce, on the records of a state and of the free
\* block at hdr that has come about so far.
MergePrev(t, hdr, size) ==
    LET prev_size == GET_SIZE(t, hdr - WSIZE)
    IN  IF GET_PREV_ALLOC(t, hdr) = 1 THEN [s |-> t, hdr |-> hdr, size |-> size]
        ELSE [s |-> remove_free_block(t, hdr - prev_size + WSIZE),
              hdr |-> hdr - prev_size, size |-> size + prev_size]

MergeNext(m, next_hdr) ==
    IF GET_ALLOC(m.s, next_hdr) = 1 THEN m
    ELSE [s |-> remove_free_block(m.s, next_hdr + WSIZE),
          hdr |-> m.hdr, size |-> m.size + GET_SIZE(m.s, next_hdr)]

Merged(m) ==
    [s |-> TellNext(SetFree(m.s, m.hdr, m.size, GET_PREV_ALLOC(m.s, m.hdr)),
                    m.hdr + m.size, 0),
     p |-> m.hdr + WSIZE]

\* coalesce returns the merged block without listing it.
coalesce(t, bp) ==
    Merged(MergeNext(MergePrev(t, HDRP(bp), GET_SIZE(t, HDRP(bp))),
                     HDRP(bp) + GET_SIZE(t, HDRP(bp))))

InsertMerged(c) == [s |-> insert_free_block(c.s, c.p), p |-> c.p]

\* The new block has its prev_alloc bit from the word at the old break.
Grown(t, hdr, asize, prev_alloc) ==
    PUT(SetFree(t, hdr, asize, prev_alloc), hdr + asize, TAG(0, 0, 1))

extend_heap(t, bytes) ==
    LET asize == MaxOf(ALIGN(bytes), DSIZE)
        grown == mem_sbrk(t, ToInt(asize))
        hdr == grown.p
    IN  IF hdr = NULL THEN grown
        ELSE InsertMerged(
               IF GET_PREV_ALLOC(t, hdr) = 0
               THEN coalesce(Grown(grown.s, hdr, asize, 0), hdr + WSIZE)
               ELSE [s |-> Grown(grown.s, hdr, asize, 1), p |-> hdr + WSIZE])

\* Of the csize bytes at hdr, all but the first asize become a free block,
\* which is not yet listed.  The header gets the size that is given.
SplitOff(t, hdr, size, asize, csize) ==
    TellNext(SetFree(PUT(t, hdr, TAG(size, GET_PREV_ALLOC(t, hdr), 1)),
                     hdr + asize, csize - asize, 1),
             hdr + csize, 0)
UseAll(t, hdr, csize) ==
    TellNext(PUT(t, hdr, TAG(csize, GET_PREV_ALLOC(t, hdr), 1)), hdr + csize, 1)

\* place that leaves the next block's prev_alloc bit when it takes all.
PlaceIn_untold(t, hdr, asize, csize) ==
    IF csize - asize >= MIN_BLOCK
    THEN insert_free_block(SplitOff(t, hdr, asize, asize, csize), hdr + asize + WSIZE)
    ELSE PUT(t, hdr, TAG(csize, GET_PREV_ALLOC(t, hdr), 1))

PlaceIn(t, hdr, asize, csize) ==
    IF csize - asize >= MIN_BLOCK
    THEN insert_free_block(SplitOff(t, hdr, asize, asize, csize), hdr + asize + WSIZE)
    ELSE UseAll(t, hdr, csize)

place(t, bp, asize) ==
    PlaceIn(remove_free_block(t, bp), HDRP(bp), asize, GET_SIZE(t, HDRP(bp)))

-----------------------------------------------------------------------------
(* The interface.                                                          *)

InitEnds(r) == IF r.p = NULL THEN [r.s EXCEPT !.status = "init failed"] ELSE r.s

mm_init(t) ==
    LET start == mem_sbrk([t EXCEPT !.lists = NoLists], 4 * WSIZE)
        heap == start.p
    IN  IF heap = NULL THEN InitEnds(start)
        ELSE InitEnds(extend_heap(PUT(PUT(PUT(PUT(start.s, heap, 0),
                                      heap + WSIZE, TAG(DSIZE, 1, 1)),
                                      heap + 2 * WSIZE, TAG(DSIZE, 1, 1)),
                                      heap + 3 * WSIZE, TAG(0, 1, 1)), CHUNKSIZE))

malloc_from_grown(grown, asize) ==
    IF grown.p = NULL THEN grown
    ELSE [s |-> place(grown.s, grown.p, asize), p |-> grown.p]

malloc_from_fit(t, bp, asize) ==
    IF bp \in {HANG, FAULT} THEN [s |-> LoopEnds(t, bp), p |-> bp]
    ELSE IF bp # NULL THEN [s |-> place(t, bp, asize), p |-> bp]
    ELSE malloc_from_grown(extend_heap(t, MaxOf(asize, CHUNKSIZE)), asize)

mm_malloc(t, size) ==
    IF size = 0 THEN [s |-> t, p |-> NULL]
    ELSE malloc_from_fit(t, find_fit(t, asize_of(size)), asize_of(size))

FreeAt(t, hdr, size) ==
    TellNext(SetFree(t, hdr, size, GET_PREV_ALLOC(t, hdr)), hdr + size, 0)

mm_free(t, ptr) ==
    IF ptr = NULL THEN t
    ELSE InsertMerged(coalesce(FreeAt(t, HDRP(ptr), GET_SIZE(t, HDRP(ptr))), ptr)).s

\* A block larger than asked for is cut, and the rest of it is merged.
Shrunk(t, ptr, asize, old_size) ==
    IF old_size - asize >= MIN_BLOCK
    THEN InsertMerged(coalesce(SplitOff(t, HDRP(ptr), asize, asize, old_size),
                               ptr + asize)).s
    ELSE t

\* The block takes the free block after it.  A rest that could be a block
\* becomes one, but stays in the size that the header has.
Absorbed(t, ptr, asize, combined_size) ==
    IF combined_size - asize >= MIN_BLOCK
    THEN insert_free_block(SplitOff(t, HDRP(ptr), combined_size, asize, combined_size),
                           ptr + asize)
    ELSE UseAll(t, HDRP(ptr), combined_size)
Absorb(t, ptr, asize, next) ==
    [s |-> Absorbed(remove_free_block(t, next), ptr, asize,
                    GET_SIZE(t, HDRP(ptr)) + GET_SIZE(t, HDRP(next))),
     p |-> ptr]

\* The last block grows with the heap.
grown_at_end(grown, ptr, asize, next) ==
    IF grown.p = NULL THEN grown ELSE Absorb(grown.s, ptr, asize, next)

copy_size(old_size, size) == IF size < old_size - WSIZE THEN size ELSE old_size - WSIZE

realloc_moved(moved, ptr, size) ==
    IF moved.p \in NoBlock THEN moved
    ELSE [s |-> mm_free(memcpy(moved.s, moved.p, ptr,
                               copy_size(GET_SIZE(moved.s, HDRP(ptr)), size)), ptr),
          p |-> moved.p]

mm_realloc(t, ptr, size) ==
    LET asize == asize_of(size)
        old_size == GET_SIZE(t, HDRP(ptr))
        next == NEXT_BLKP(t, ptr)
        next_size == GET_SIZE(t, HDRP(next))
    IN  IF ptr = NULL THEN mm_malloc(t, size)
        ELSE IF size = 0 THEN [s |-> mm_free(t, ptr), p |-> NULL]
        ELSE IF asize <= old_size
        THEN [s |-> Shrunk(t, ptr, asize, old_size), p |-> ptr]
        ELSE IF GET_ALLOC(t, HDRP(next)) = 0 /\ old_size + next_size >= asize
        THEN Absorb(t, ptr, asize, next)
        ELSE IF next_size = 0
        THEN grown_at_end(extend_heap(t, MaxOf(asize - old_size, CHUNKSIZE)),
                          ptr, asize, next)
        ELSE realloc_moved(mm_malloc(t, size), ptr, size)

-----------------------------------------------------------------------------
(* What should hold of a state.                                            *)

FIRST == BASE + 5 * WSIZE
HeapBlocks(t) == BlocksAfter(t, FIRST)
FreeBlocks(t) == {bp \in HeapBlocks(t) : GET_ALLOC(t, HDRP(bp)) = 0}
ListOf(t, index) == Chain(t.lists[index], LAMBDA bp : NEXT_FREE(t, bp))

\* The headers tile the heap up to the epilogue at the break; a free block has
\* its size at its other end too, which is where coalesce looks for it; every
\* header after the first says truly whether the block before is allocated;
\* and free blocks are apart.
TagsConsistent(t) ==
    /\ EndsAfter(t, FIRST) = {t.brk + WSIZE} /\ GET_ALLOC(t, t.brk) = 1
    /\ \A bp \in HeapBlocks(t) :
          /\ bp % 8 = 0 /\ GET_SIZE(t, HDRP(bp)) >= MIN_BLOCK
          /\ GET_PREV_ALLOC(t, HDRP(NEXT_BLKP(t, bp))) = GET_ALLOC(t, HDRP(bp))
    /\ \A bp \in FreeBlocks(t) :
          /\ GET_SIZE(t, FTRP(t, bp)) = GET_SIZE(t, HDRP(bp))
          /\ NEXT_BLKP(t, bp) \notin FreeBlocks(t)

\* The lists hold the free blocks, each once and in the class of its size, and
\* the links of neighbours mirror each other.
ListsExact(t) ==
    /\ \A index \in Classes :
          LET nodes == ListOf(t, index)
          IN  \A k \in 1 .. Len(nodes) :
                 /\ ClassOf(t, nodes[k]) = index
                 /\ PREV_FREE(t, nodes[k]) = IF k = 1 THEN NULL ELSE nodes[k - 1]
    /\ UNION {Range(ListOf(t, index)) : index \in Classes} = FreeBlocks(t)

\* find_fit skips the classes of smaller blocks, and still finds a block if
\* there is one that fits.
SearchComplete(t, Requests) ==
    \A n \in Requests \ {0} :
        LET fitting == {bp \in FreeBlocks(t) : GET_SIZE(t, HDRP(bp)) >= asize_of(n)}
            found == find_fit(t, asize_of(n))
        IN  IF fitting = {} THEN found = NULL ELSE found \in fitting

\* The calls that the package does not serve: a block that is the first of the
\* heap, whose prev_alloc bit says that a free block precedes it, comes back;
\* and a block grows in place and leaves a rest.
ReturnsFirst(ptr) == ptr = FIRST
LeavesRest(t, ptr, size) ==
    LET asize == asize_of(size)
        old_size == GET_SIZE(t, HDRP(ptr))
        next_size == GET_SIZE(t, HDRP(NEXT_BLKP(t, ptr)))
        total == old_size + (IF next_size = 0 THEN MaxOf(asize - old_size, CHUNKSIZE)
                             ELSE next_size)
    IN  /\ asize > old_size
        /\ next_size = 0 \/ GET_ALLOC(t, HDRP(NEXT_BLKP(t, ptr))) = 0
        /\ total - asize >= MIN_BLOCK

=============================================================================
