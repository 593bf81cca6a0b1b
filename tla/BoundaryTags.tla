---------------------------- MODULE BoundaryTags ----------------------------
(***************************************************************************)
(* What the packages have in common: a heap of blocks, each with a header  *)
(* word before its payload that holds the size, a multiple of 8, and in    *)
(* its low bits what is allocated, between a prologue and an epilogue of   *)
(* size zero.  A block is named by its payload pointer bp.                 *)
(***************************************************************************)
EXTENDS HeapWords, Functions

PACK(size, alloc) == size + alloc
GET_SIZE(t, a) == (GET(t, a) \div 8) * 8
GET_ALLOC(t, a) == GET(t, a) % 2

HDRP(bp) == bp - WSIZE
FTRP(t, bp) == bp + GET_SIZE(t, HDRP(bp)) - DSIZE
NEXT_BLKP(t, bp) == bp + GET_SIZE(t, HDRP(bp))
PREV_BLKP(t, bp) == bp - GET_SIZE(t, bp - DSIZE)

\* The place of the footer is given by the header just written.
SET_HEADER(t, bp, size, alloc) == PUT(t, HDRP(bp), PACK(size, alloc))
SET_FOOTER(t, bp, size, alloc) == PUT(t, FTRP(t, bp), PACK(size, alloc))
SetTags(t, bp, size, alloc) ==
    SET_FOOTER(SET_HEADER(t, bp, size, alloc), bp, size, alloc)

SetEpilogue(t, bp) == PUT(t, HDRP(NEXT_BLKP(t, bp)), PACK(0, 1))

-----------------------------------------------------------------------------
(* What a walk through memory finds, from header to header.                *)

BlocksFrom(t, first) ==
    Range(Chain(first, LAMBDA bp : IF GET_SIZE(t, HDRP(bp)) = 0 THEN NULL
                                   ELSE NEXT_BLKP(t, bp)))
BlocksAfter(t, first) == {bp \in BlocksFrom(t, first) : GET_SIZE(t, HDRP(bp)) > 0}
EndsAfter(t, first) == BlocksFrom(t, first) \ BlocksAfter(t, first)

=============================================================================
