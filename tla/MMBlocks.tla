------------------------------ MODULE MMBlocks ------------------------------
(***************************************************************************)
(* mm.c as the blocks of its heap: which blocks tile it, which are         *)
(* allocated, which are on the explicit free list.  The boundary tags, the *)
(* order of the list and the next-fit rover are abstracted: find_fit is    *)
(* any listed block that fits.  MM has them, and implements this module.   *)
(*                                                                         *)
(* A heap is a record:                                                     *)
(*   size    block pointer -> size of the block, for every block           *)
(*   used    the allocated blocks (the alloc bit of the tags)              *)
(*   listed  the blocks that the free list holds                           *)
(*   brk     mem_brk, the end of the heap                                  *)
(* An operation that can return different blocks is the set of its         *)
(* outcomes [h |-> heap, p |-> returned pointer].                          *)
(***************************************************************************)
EXTENDS Region

VARIABLES heap,   \* the allocator's heap
          live    \* pointer the client holds -> size it asked for

vars == <<heap, live>>

-----------------------------------------------------------------------------
(* Parts of a heap.                                                        *)

Heap(size, used, listed, brk) ==
    [size |-> size, used |-> used, listed |-> listed, brk |-> brk]

Blocks(h) == DOMAIN h.size
Free(h) == Blocks(h) \ h.used
EndOf(h, b) == b + h.size[b]

\* The heap that mm_init leaves: one block, free, and on no list.  The second
\* extension coalesces with the first, neither is inserted.
InitialHeap ==
    LET bytes == ExtendBytes(CHUNKSIZE) + 4 * WSIZE
    IN  Heap([b \in {FIRST} |-> bytes], {}, {}, FIRST + bytes)

-----------------------------------------------------------------------------
(* The static functions of mm.c.                                           *)

insert_node(h, b) == Heap(h.size, h.used, h.listed \cup {b}, h.brk)
remove_node(h, b) == Heap(h.size, h.used, h.listed \ {b}, h.brk)

\* The alloc bit in the two tags of b.
SetUsed(h, b) == Heap(h.size, h.used \cup {b}, h.listed, h.brk)
SetFree(h, b) == Heap(h.size, h.used \ {b}, h.listed, h.brk)

\* A split that any remainder allows.
can_split_any(csize, asize) == csize - asize > 0

\* What is left must be able to hold its tags and its two links.
can_split(csize, asize) == csize - asize >= MIN_BLOCK_SIZE

\* The first asize bytes of b and the rest of it as two blocks.
Split(h, b, asize) ==
    Heap([x \in Blocks(h) \cup {b + asize} |->
            IF x = b THEN asize
            ELSE IF x = b + asize THEN h.size[b] - asize
            ELSE h.size[x]],
         h.used, h.listed, h.brk)

\* Allocates asize bytes of the listed block b; a tail of at least
\* MIN_BLOCK_SIZE bytes becomes a block of its own, free and listed.
place(h, b, asize) ==
    LET taken == SetUsed(remove_node(h, b), b)
    IN  IF can_split(h.size[b], asize)
        THEN insert_node(Split(taken, b, asize), b + asize)
        ELSE taken

\* b and the block after it as one block.
Merged(h, b) ==
    LET next == EndOf(h, b)
    IN  Heap([x \in Blocks(h) \ {next} |->
                IF x = b THEN h.size[b] + h.size[next] ELSE h.size[x]],
             h.used, h.listed, h.brk)

\* Absorb without the remove_node that coalesce and mm_realloc begin with.
AbsorbListed(h, b) == Merged(h, b)

\* b takes in the block after it, which leaves the list.
Absorb(h, b) == Merged(remove_node(h, EndOf(h, b)), b)

\* coalesce without its cases 3 and 4.
coalesce_forward(h, b) ==
    [h |-> IF EndOf(h, b) \in Free(h) THEN Absorb(h, b) ELSE h, p |-> b]

\* The four cases on the alloc bits of the neighbours: the next block, if it
\* is free, joins b, and b joins the block before it, if that is free.
coalesce(h, b) ==
    LET h1 == IF EndOf(h, b) \in Free(h) THEN Absorb(h, b) ELSE h
        prev == CHOOSE p \in Free(h) : EndOf(h, p) = b
    IN  IF \E p \in Free(h) : EndOf(h, p) = b
        THEN [h |-> Merged(remove_node(h1, prev), prev), p |-> prev]
        ELSE [h |-> h1, p |-> b]

\* The block that mem_sbrk adds at the end of the heap, on no list yet.
Grown(h, bytes) ==
    Heap([x \in Blocks(h) \cup {h.brk} |-> IF x = h.brk THEN bytes ELSE h.size[x]],
         h.used, h.listed, h.brk + bytes)

\* No memory for bytes more, in which case extend_heap returns NULL.
extend_fails(h, bytes) == sbrk_refuses(h.brk, ToInt(ExtendBytes(bytes)), MAX_ADDR)

extend_heap(h, bytes) == coalesce(Grown(h, ExtendBytes(bytes)), h.brk)

-----------------------------------------------------------------------------
(* The interface.                                                          *)

find_fit(h, asize) == {b \in h.listed : h.size[b] >= asize}

mm_malloc(h, n) ==
    LET asize == adjust_block(n)
        ext == MaxOf(asize, CHUNKSIZE)
        grown == extend_heap(h, ext)
    IN  IF n = 0 THEN {[h |-> h, p |-> NULL]}
        ELSE IF find_fit(h, asize) # {}
        THEN {[h |-> place(h, b, asize), p |-> b] : b \in find_fit(h, asize)}
        ELSE IF extend_fails(h, ext) THEN {[h |-> h, p |-> NULL]}
        ELSE {[h |-> place(insert_node(grown.h, grown.p), grown.p, asize),
               p |-> grown.p]}

\* mm_free that inserts the block it was given and not the merged one.
mm_free_inserts_part(h, b) ==
    insert_node(coalesce(SetFree(h, b), b).h, b)

mm_free(h, b) ==
    LET c == coalesce(SetFree(h, b), b)
    IN  insert_node(c.h, c.p)

\* mm_realloc that takes the next block without looking at its alloc bit.
mm_realloc_takes_next(h, p, n) ==
    IF p = NULL THEN mm_malloc(h, n)
    ELSE IF n = 0 THEN {[h |-> mm_free(h, p), p |-> NULL]}
    ELSE IF adjust_block(n) <= h.size[p] THEN {[h |-> h, p |-> p]}
    ELSE IF /\ EndOf(h, p) \in Blocks(h)
            /\ h.size[p] + h.size[EndOf(h, p)] >= adjust_block(n)
    THEN {[h |-> Absorb(h, p), p |-> p]}
    ELSE {[h |-> IF r.p = NULL THEN r.h ELSE mm_free(r.h, p), p |-> r.p] :
            r \in mm_malloc(h, n)}

mm_realloc(h, p, n) ==
    LET asize == adjust_block(n)
        next == EndOf(h, p)
    IN  IF p = NULL THEN mm_malloc(h, n)
        ELSE IF n = 0 THEN {[h |-> mm_free(h, p), p |-> NULL]}
        ELSE IF asize <= h.size[p] THEN {[h |-> h, p |-> p]}
        ELSE IF next \in Free(h) /\ h.size[p] + h.size[next] >= asize
        THEN {[h |-> Absorb(h, p), p |-> p]}
        ELSE {[h |-> IF r.p = NULL THEN r.h ELSE mm_free(r.h, p), p |-> r.p] :
                r \in mm_malloc(h, n)}

-----------------------------------------------------------------------------
(* The allocator and its client, which frees and resizes what it holds and *)
(* starts again, as the driver does, when it holds nothing.                *)

Bind(f, p, n) == [q \in DOMAIN f \cup {p} |-> IF q = p THEN n ELSE f[q]]
Unbind(f, p) == [q \in DOMAIN f \ {p} |-> f[q]]

Init ==
    /\ heap = InitialHeap
    /\ live = [p \in {} |-> 0]

Malloc(n) ==
    \E r \in mm_malloc(heap, n) :
        /\ heap' = r.h
        /\ live' = IF r.p = NULL THEN live ELSE Bind(live, r.p, n)

Dispose(p) ==
    /\ heap' = mm_free(heap, p)
    /\ live' = Unbind(live, p)

Realloc(p, n) ==
    \E r \in mm_realloc(heap, p, n) :
        /\ heap' = r.h
        /\ live' = IF n = 0 THEN Unbind(live, p)
                   ELSE IF r.p = NULL THEN live
                   ELSE Bind(Unbind(live, p), r.p, n)

\* mem_reset_brk and mm_init, at the start of each evaluation of a trace.
Restart ==
    /\ DOMAIN live = {}
    /\ heap' = InitialHeap
    /\ UNCHANGED live

Next ==
    \/ \E n \in Requests : Malloc(n)
    \/ \E p \in DOMAIN live : Dispose(p)
    \/ \E p \in DOMAIN live \cup {NULL}, n \in Requests : Realloc(p, n)
    \/ Restart

Spec == Init /\ [][Next]_vars

-----------------------------------------------------------------------------
(* Properties.                                                             *)

TypeOK ==
    /\ Blocks(heap) \subseteq Nat
    /\ heap = Heap(heap.size, heap.used, heap.listed, heap.brk)
    /\ heap.size \in [Blocks(heap) -> Nat]
    /\ heap.used \subseteq Blocks(heap)
    /\ heap.listed \subseteq Blocks(heap)
    /\ heap.brk \in Nat
    /\ live \in [DOMAIN live -> Requests \ {0}]

\* Blocks and their sizes are multiples of 8, so that the low bits of a size
\* are free for the alloc bit, and a block can hold its tags and links.
WellSized(h) ==
    \A b \in Blocks(h) :
        /\ b % 8 = 0
        /\ h.size[b] % 8 = 0
        /\ h.size[b] >= MIN_BLOCK_SIZE

\* The blocks cover the heap from FIRST to the break without gap or overlap.
Tiled(h) ==
    /\ FIRST \in Blocks(h)
    /\ h.brk <= MAX_ADDR
    /\ \E b \in Blocks(h) : EndOf(h, b) = h.brk
    /\ \A b \in Blocks(h) :
          /\ FIRST <= b /\ EndOf(h, b) <= h.brk
          /\ EndOf(h, b) = h.brk \/ EndOf(h, b) \in Blocks(h)
          /\ b = FIRST \/ \E p \in Blocks(h) : EndOf(h, p) = b
          /\ \A c \in Blocks(h) : b < c => EndOf(h, b) <= c

\* The blocks tile the heap whatever splits, merges and extensions made
\* them (mm_checkheap 1 and 2, which stop at the first wrong tag).
HeapConsistent == WellSized(heap) /\ Tiled(heap)

NoNeighbours(h) == \A b \in Free(h) : EndOf(h, b) \notin Free(h)

ListExact(h) ==
    \/ h.listed = Free(h)
    \/ /\ Blocks(h) = {FIRST}
       /\ h.used = {}
       /\ h.listed = {}

\* mm_checkheap 1-E: no two free blocks are neighbours; mm_realloc, which
\* takes a free neighbour without calling coalesce, must keep this too.
NoAdjacentFree == NoNeighbours(heap)

\* mm_checkheap 3-A and 4: the list holds the free blocks and nothing else.
\* The one exception is the first block from mm_init to the first malloc.
FreeListExact == ListExact(heap)

\* The client holds exactly the allocated blocks, none is lost or handed out
\* twice, and each has room for the size asked for beside its two tags.
LiveAreUsed ==
    /\ DOMAIN live = heap.used
    /\ \A p \in DOMAIN live : live[p] + DSIZE <= heap.size[p]

\* Nothing is lost to fragmentation for ever: a client that has given all
\* back leaves one free block that is the whole heap.
AllGivenBack ==
    DOMAIN live = {} => /\ Blocks(heap) = {FIRST}
                       /\ EndOf(heap, FIRST) = heap.brk

\* The allocator keeps the promise of the interface.
API == INSTANCE MallocAPI WITH Lo <- BASE, Hi <- MAX_ADDR, Alignment <- 8
APISpec == API!Spec

=============================================================================
