------------------------------ MODULE MMClient ------------------------------
(***************************************************************************)
(* mm.c word by word (W) under the client of mdriver.c (C), beside the     *)
(* blocks of MMBlocks that its words stand for.  heap and live, the        *)
(* variables of MMBlocks, are auxiliary here: each step sets them to what  *)
(* the new words and the new client stand for.                             *)
(***************************************************************************)
EXTENDS MMBlocks, Client

W == INSTANCE MM

\* mm.c serves every call.
Serves(t, p, n) == TRUE

C == INSTANCE EvalClient WITH
    Fresh <- W!Fresh, NoBlock <- W!NoBlock, mm_init <- W!mm_init,
    mm_malloc <- W!mm_malloc, mm_free <- W!mm_free, mm_realloc <- W!mm_realloc,
    memset <- W!memset, Filled <- W!Filled

allvars == <<s, held, calls, heap, live>>

Mapped ==
    /\ heap = W!HeapOfWords(s)
    /\ live = C!LiveOf(held)

WordsInit == C!Init /\ Mapped

WordsNext ==
    /\ C!Next
    /\ \E t \in {s'}, h \in {held'} : heap' = W!HeapOfWords(t) /\ live' = C!LiveOf(h)

WordsSpec == WordsInit /\ [][WordsNext]_allvars

-----------------------------------------------------------------------------
(* Properties.                                                             *)

\* No payload changes under the client.
PayloadsIntact == C!PayloadsIntact

\* mm_checkheap finds nothing that the allocator does not mean: no tag, link
\* or membership of the list goes wrong through the merges and splits.
CheckheapQuiet == W!CheckheapQuiet(s)

\* The epilogue is at the break and the rover is on the list, which
\* mm_checkheap does not look at and extend_heap and find_fit rely on.
BeyondCheckheap == W!BeyondCheckheap(s)

\* find_fit misses no block that fits: none is behind the rover.
SearchComplete == W!SearchComplete(s, Requests)

\* mm_checkheap 3-B of every state, mm.c:533, "Free-list block out of heap
\* bounds", across an mm_init that keeps the old list head.
ListInHeap == W!ListInHeap(s)

\* The words of mm.c implement the blocks of MMBlocks: every call does to the
\* blocks, the alloc bits, the free list and the break what MMBlocks allows.
BlocksSpec == Spec

=============================================================================
