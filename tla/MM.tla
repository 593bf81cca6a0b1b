--------------------------------- MODULE MM ---------------------------------
(***************************************************************************)
(* mm.c at the level of its memory words: boundary tags, the doubly linked *)
(* free list threaded through the payloads of the free blocks, the list    *)
(* head and the next-fit rover.                                            *)
(*                                                                         *)
(* The statics are fields of the state, beside those of HeapWords:         *)
(*   head    free_list_head                                                *)
(*   rover   the next-fit pointer                                          *)
(* A function of mm.c maps a state to the state it leaves, or to the       *)
(* record of that state s and the value p it returns.                      *)
(***************************************************************************)
EXTENDS BoundaryTags

\* The statics are NULL, and the region is zero, before the first mm_init.
Fresh == [mem |-> FreshMemory, brk |-> BASE, status |-> "ok",
          head |-> NULL, rover |-> NULL]

-----------------------------------------------------------------------------
(* The free list.                                                          *)

GET_PRED(t, bp) == GET(t, bp)
GET_SUCC(t, bp) == GET(t, bp + PTR_SIZE)
SET_PRED(t, bp, p) == PUT(t, bp, p)
SET_SUCC(t, bp, q) == PUT(t, bp + PTR_SIZE, q)

\* The node after, and the node before, or the head, learn of each other.
LinkBack(t, succ, pred) == IF succ # NULL THEN SET_PRED(t, succ, pred) ELSE t
LinkForward(t, pred, succ) ==
    IF pred # NULL THEN SET_SUCC(t, pred, succ) ELSE [t EXCEPT !.head = succ]

\* insert_node without the back link of the old head.
insert_node_one_way(t, bp) ==
    [SET_PRED(SET_SUCC(t, bp, t.head), bp, NULL) EXCEPT
        !.rover = IF @ = NULL THEN bp ELSE @, !.head = bp]

\* LIFO; a first node also becomes the rover.
insert_node(t, bp) ==
    [LinkBack(SET_PRED(SET_SUCC(t, bp, t.head), bp, NULL), t.head, bp) EXCEPT
        !.rover = IF @ = NULL THEN bp ELSE @, !.head = bp]

\* remove_node that leaves the rover on the block it takes out.
remove_node_keeps_rover(t, bp) ==
    LinkBack(LinkForward(t, GET_PRED(t, bp), GET_SUCC(t, bp)),
             GET_SUCC(t, bp), GET_PRED(t, bp))

\* A rover on the node moves to its successor, else its predecessor, else the
\* head as it is by then.
MoveRover(t, bp, pred, succ) ==
    IF t.rover # bp THEN t
    ELSE [t EXCEPT !.rover = IF succ # NULL THEN succ
                             ELSE IF pred # NULL THEN pred ELSE t.head]

remove_node(t, bp) ==
    LET pred == GET_PRED(t, bp)
        succ == GET_SUCC(t, bp)
    IN  MoveRover(LinkBack(LinkForward(t, pred, succ), succ, pred), bp, pred, succ)

\* The node leaves the list, and a rover that still was on it moves to bp.
Unlink(t, node, bp) ==
    [remove_node(t, node) EXCEPT !.rover = IF @ = node THEN bp ELSE @]

\* The loops of find_fit, from bp to the tail or to stop.
Scan(t, asize, bp, stop) ==
    FirstFit(bp, stop, LAMBDA b : GET_SUCC(t, b),
                       LAMBDA b : GET_SIZE(t, HDRP(b)) >= asize)

\* What find_fit leaves and returns: the rover stays on the block found.
Found(t, bp) ==
    [s |-> [LoopEnds(t, bp) EXCEPT !.rover = IF bp \in NoBlock THEN @ ELSE bp],
     p |-> bp]

RoverSet(t) == [t EXCEPT !.rover = IF @ = NULL THEN t.head ELSE @]

\* find_fit without the second loop, from the head to the rover.
find_fit_no_wrap(t, asize) ==
    Found(RoverSet(t), Scan(t, asize, RoverSet(t).rover, NULL))

\* Next fit: from the rover to the tail, then from the head to the rover.
find_fit(t, asize) ==
    LET rover == RoverSet(t).rover
        tail == Scan(t, asize, rover, NULL)
    IN  Found(RoverSet(t),
              IF tail # NULL THEN tail ELSE Scan(t, asize, t.head, rover))

-----------------------------------------------------------------------------
(* Splitting, merging and extending.                                       *)

\* place, with the block out of the list: the rest of it goes back.
SplitRest(t, rest, size) == insert_node(SetTags(t, rest, size, 0), rest)
PlaceIn(t, bp, csize, asize) ==
    IF csize - asize >= MIN_BLOCK_SIZE
    THEN SplitRest(SetTags(t, bp, asize, 1), bp + asize, csize - asize)
    ELSE SetTags(t, bp, csize, 1)

place(t, bp, asize) ==
    PlaceIn(Unlink(t, bp, GET_SUCC(t, bp)), bp, GET_SIZE(t, HDRP(bp)), asize)

\* A free block at bp of size bytes and of those of another block.
Join(t, bp, size, other) == SetTags(t, bp, size + GET_SIZE(t, HDRP(other)), 0)
JoinBoth(t, prev, size, next) ==
    Join(t, prev, size + GET_SIZE(t, HDRP(next)), prev)

\* coalesce with case 4 treated as case 3: the block after bp is not merged.
coalesce_three_cases(t, bp) ==
    LET prev == PREV_BLKP(t, bp)
        next == NEXT_BLKP(t, bp)
        size == GET_SIZE(t, HDRP(bp))
    IN  IF GET_ALLOC(t, HDRP(prev)) = 0
        THEN [s |-> Join(Unlink(t, prev, bp), prev, size, prev), p |-> prev]
        ELSE IF GET_ALLOC(t, HDRP(next)) = 0
        THEN [s |-> Join(Unlink(t, next, bp), bp, size, next), p |-> bp]
        ELSE [s |-> t, p |-> bp]

coalesce(t, bp) ==
    LET prev == PREV_BLKP(t, bp)
        next == NEXT_BLKP(t, bp)
        size == GET_SIZE(t, HDRP(bp))
        prev_alloc == GET_ALLOC(t, HDRP(prev)) = 1
        next_alloc == GET_ALLOC(t, HDRP(next)) = 1
    IN  CASE prev_alloc /\ next_alloc -> [s |-> t, p |-> bp]
          [] prev_alloc /\ ~next_alloc ->
               [s |-> Join(Unlink(t, next, bp), bp, size, next), p |-> bp]
          [] ~prev_alloc /\ next_alloc ->
               [s |-> Join(Unlink(t, prev, bp), prev, size, prev), p |-> prev]
          [] ~prev_alloc /\ ~next_alloc ->
               [s |-> JoinBoth(Unlink(Unlink(t, prev, bp), next, bp), prev, size, next),
                p |-> prev]

\* extend_heap without the new epilogue header.
extend_heap_no_epilogue(t, bytes) ==
    LET size == ExtendBytes(bytes)
        grown == mem_sbrk(t, ToInt(size))
    IN  IF grown.p = NULL THEN grown
        ELSE coalesce(SetTags(grown.s, grown.p, size, 0), grown.p)

extend_heap(t, bytes) ==
    LET size == ExtendBytes(bytes)
        grown == mem_sbrk(t, ToInt(size))
    IN  IF grown.p = NULL THEN grown
        ELSE coalesce(SetEpilogue(SetTags(grown.s, grown.p, size, 0), grown.p),
                      grown.p)

-----------------------------------------------------------------------------
(* The interface.                                                          *)

InitFailed(t) == [t EXCEPT !.status = "init failed"]

\* The two extensions of mm_init, which lists neither, and its last
\* assignment.
Extended(r) == IF r.p = NULL THEN r ELSE extend_heap(r.s, 4 * WSIZE)
RoverAtHead(r) ==
    IF r.p = NULL THEN InitFailed(r.s) ELSE [r.s EXCEPT !.rover = r.s.head]

\* The list head, the rover and all memory keep what the last heap left in
\* them until the last assignment, which copies the head to the rover.
mm_init(t) ==
    LET start == mem_sbrk(t, 4 * WSIZE)
        lo == start.p
        prologue == PUT(PUT(PUT(PUT(start.s, lo, 0),
                        lo + WSIZE, PACK(DSIZE, 1)),
                        lo + 2 * WSIZE, PACK(DSIZE, 1)),
                        lo + 3 * WSIZE, PACK(0, 1))
    IN  IF lo = NULL THEN InitFailed(start.s)
        ELSE RoverAtHead(Extended(extend_heap(prologue, CHUNKSIZE)))

\* The end of mm_malloc, with what extend_heap returned, which is not listed.
malloc_from_grown(grown, asize) ==
    IF grown.p = NULL THEN grown
    ELSE [s |-> place(insert_node(grown.s, grown.p), grown.p, asize), p |-> grown.p]

\* The rest of mm_malloc, with what find_fit returned.
malloc_from_fit(fit, asize) ==
    IF fit.s.status # "ok" THEN fit
    ELSE IF fit.p # NULL THEN [s |-> place(fit.s, fit.p, asize), p |-> fit.p]
    ELSE malloc_from_grown(extend_heap(fit.s, MaxOf(asize, CHUNKSIZE)), asize)

mm_malloc(t, n) ==
    IF n = 0 THEN [s |-> t, p |-> NULL]
    ELSE malloc_from_fit(find_fit(t, adjust_block(n)), adjust_block(n))

InsertMerged(c) == insert_node(c.s, c.p)

mm_free(t, bp) ==
    InsertMerged(coalesce(SetTags(t, bp, GET_SIZE(t, HDRP(bp)), 0), bp))

\* A copy that takes the tags off the old size twice.
copy_size_short(oldsize, size) ==
    IF size < oldsize - DSIZE THEN size ELSE oldsize - 2 * DSIZE

\* What mm_realloc copies: all of the old payload, and no more than the new.
copy_size(oldsize, size) == IF size < oldsize - DSIZE THEN size ELSE oldsize - DSIZE

\* The end of mm_realloc, with what mm_malloc returned: the payload moves.
realloc_moved(moved, ptr, oldsize, size) ==
    IF moved.p \in NoBlock THEN moved
    ELSE [s |-> mm_free(memcpy(moved.s, moved.p, ptr, copy_size(oldsize, size)), ptr),
          p |-> moved.p]

mm_realloc(t, ptr, size) ==
    LET oldsize == GET_SIZE(t, HDRP(ptr))
        asize == adjust_block(size)
        next == NEXT_BLKP(t, ptr)
        newsize == oldsize + GET_SIZE(t, HDRP(next))
    IN  IF ptr = NULL THEN mm_malloc(t, size)
        ELSE IF size = 0 THEN [s |-> mm_free(t, ptr), p |-> NULL]
        ELSE IF asize <= oldsize THEN [s |-> t, p |-> ptr]
        ELSE IF GET_ALLOC(t, HDRP(next)) = 0 /\ newsize >= asize
        THEN [s |-> SetTags(remove_node(t, next), ptr, newsize, 1), p |-> ptr]
        ELSE realloc_moved(mm_malloc(t, size), ptr, oldsize, size)

-----------------------------------------------------------------------------
(* The heap and the list as a walk through memory finds them.              *)

\* heap_listp, which mm_init leaves on the prologue.
heap_listp == BASE + 2 * WSIZE

HeapBlocks(t) == BlocksAfter(t, NEXT_BLKP(t, heap_listp))
HeapEnds(t) == EndsAfter(t, NEXT_BLKP(t, heap_listp))

FreeList(t) == Chain(t.head, LAMBDA bp : GET_SUCC(t, bp))

OutOfBounds(t, bp) == HDRP(bp) < BASE \/ FTRP(t, bp) > t.brk - 1

\* The errors that mm_checkheap reports, each with its number in the code.
mm_checkheap(t) ==
    LET blocks == HeapBlocks(t)
        nodes == FreeList(t)
        listed == Range(nodes)
        Allocated(bp) == GET_ALLOC(t, HDRP(bp)) = 1
        Report(check, at) == {<<check, bp>> : bp \in at}
    IN  UNION {
          Report("0", {bp \in {heap_listp} :
                          GET_SIZE(t, HDRP(bp)) # DSIZE \/ ~Allocated(bp)}),
          Report("1-A", {bp \in blocks : GET(t, HDRP(bp)) # GET(t, FTRP(t, bp))}),
          Report("1-B", {bp \in blocks : bp % DSIZE # 0}),
          Report("1-C", {bp \in blocks : GET_SIZE(t, HDRP(bp)) < MIN_BLOCK_SIZE}),
          Report("1-D", {bp \in blocks : OutOfBounds(t, bp)}),
          Report("1-E", {bp \in blocks : /\ ~Allocated(bp)
                                         /\ GET_SIZE(t, HDRP(NEXT_BLKP(t, bp))) > 0
                                         /\ ~Allocated(NEXT_BLKP(t, bp))}),
          Report("2", {bp \in HeapEnds(t) : ~Allocated(bp)}),
          Report("3-A", {f \in listed : Allocated(f)}),
          Report("3-B", {f \in listed : OutOfBounds(t, f)}),
          Report("3-C", {f \in listed :
                            LET p == GET_PRED(t, f)
                                q == GET_SUCC(t, f)
                            IN  \/ p # NULL /\ GET_SUCC(t, p) # f
                                \/ q # NULL /\ GET_PRED(t, q) # f}),
          Report("3-D", IF Len(nodes) = NumWords THEN {t.head} ELSE {}),
          Report("4", {bp \in blocks \ listed : ~Allocated(bp)}) }

-----------------------------------------------------------------------------
(* What should hold of every state that calls reach.                       *)

\* What mm_checkheap leaves out: the prologue's footer, an epilogue that is at
\* the break, and, as only next fit needs it, the rover, which is on the
\* list, for find_fit hands out a block it starts from.
BeyondCheckheap(t) ==
    /\ GET(t, heap_listp) = PACK(DSIZE, 1)
    /\ HeapEnds(t) = {t.brk}
    /\ t.rover \in Range(FreeList(t)) \cup {NULL}

\* mm_checkheap finds nothing wrong after any sequence of calls, with two
\* exceptions that are the allocator's own: the first block, which mm_init
\* leaves free and on no list, and, in the 64-bit build, blocks at multiples
\* of 8 that are no multiples of its ALIGNMENT of 16.
CheckheapQuiet(t) ==
    \A r \in mm_checkheap(t) :
        \/ r = <<"4", BASE + 4 * WSIZE>> /\ t.head = NULL
        \/ r[1] = "1-B" /\ WSIZE = 8 /\ r[2] % 8 = 0

\* Next fit misses nothing: wherever the rover stands, find_fit returns a
\* listed block that is large enough, if there is one, and else NULL.  (A
\* miss would show in BlocksSpec only if the heap could still grow.)
SearchComplete(t, Requests) ==
    \A n \in Requests \ {0} :
        LET asize == adjust_block(n)
            fitting == {bp \in Range(FreeList(t)) : GET_SIZE(t, HDRP(bp)) >= asize}
            found == find_fit(t, asize).p
        IN  IF fitting = {} THEN found = NULL ELSE found \in fitting

\* mm_checkheap 3-B: what mm_init, which makes "an empty heap" (mm.c:351),
\* should establish whatever the last heap was.
ListInHeap(t) == \A r \in mm_checkheap(t) : r[1] # "3-B"

\* The state of MMBlocks that a state of the words and of the client stands for.
HeapOfWords(t) ==
    [size |-> [bp \in HeapBlocks(t) |-> GET_SIZE(t, HDRP(bp))],
     used |-> {bp \in HeapBlocks(t) : GET_ALLOC(t, HDRP(bp)) = 1},
     listed |-> Range(FreeList(t)),
     brk |-> t.brk]

=============================================================================
