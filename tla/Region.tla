------------------------------- MODULE Region -------------------------------
(***************************************************************************)
(* The region of memory that a package manages, the sizes that its client  *)
(* asks for, and what is assumed of their numbers.                         *)
(***************************************************************************)
EXTENDS Geometry

CONSTANTS BASE,        \* address of the region, mem_start_brk
          Requests,    \* sizes the client asks for
          MaxRequest   \* bound on them

MAX_ADDR == BASE + MAX_HEAP

\* The arithmetic on a request stays in size_t, in int and in the address
\* space, and mm_init does not run out of memory.  A trace's sizes are ints,
\* far from the limit.
ASSUME BlocksAssumption ==
    /\ BASE \in Nat \ {0}
    /\ BASE % 8 = 0
    /\ ExtendBytes(CHUNKSIZE) + 8 * WSIZE <= MAX_HEAP
    /\ MaxRequest \in Nat
    /\ Requests \subseteq 0 .. MaxRequest
    /\ MAX_ADDR + MaxRequest + CHUNKSIZE + 8 * WSIZE < SIZE_MOD
    /\ 2 * (MaxRequest + CHUNKSIZE + 8 * WSIZE) < INT_MOD

NULL == 0

\* Block pointer of the first block: after the padding, the prologue and the
\* header word that the epilogue leaves to the block.
FIRST == BASE + 4 * WSIZE

=============================================================================
