------------------------------ MODULE Geometry ------------------------------
(***************************************************************************)
(* The sizes and the integer arithmetic that mm.c and memlib.c share: the  *)
(* block geometry macros, the rounding of a request, and the conversion    *)
(* and pointer addition inside mem_sbrk.  An address or a size is a        *)
(* natural number of bytes.                                                *)
(*                                                                         *)
(* The build fixes the constants: -m32 (the Makefile) gives WSIZE = 4 and  *)
(* SIZE_MOD = INT_MOD = 2^32, the 64-bit driver WSIZE = 8, SIZE_MOD = 2^64 *)
(* and INT_MOD = 2^32.  Arithmetic on size_t and on char pointers is       *)
(* modulo SIZE_MOD, conversion to int is modulo INT_MOD.                   *)
(***************************************************************************)
EXTENDS Integers

CONSTANTS WSIZE,      \* sizeof(uintptr_t) = sizeof(void *)
          CHUNKSIZE,  \* smallest extension of the heap, 4096 in mm.c
          MAX_HEAP,   \* bytes of simulated memory, 20 MB in config.h
          SIZE_MOD,   \* number of values of size_t and of a pointer
          INT_MOD     \* number of values of int

ASSUME GeometryAssumption ==
    /\ WSIZE \in {4, 8}
    /\ CHUNKSIZE \in Nat \ {0}
    /\ CHUNKSIZE % 8 = 0
    /\ MAX_HEAP \in Nat
    /\ SIZE_MOD \in Nat
    /\ INT_MOD \in Nat
    /\ INT_MOD <= SIZE_MOD
    /\ INT_MOD % 2 = 0

-----------------------------------------------------------------------------
(* Block geometry.                                                         *)

DSIZE == 2 * WSIZE
PTR_SIZE == WSIZE

\* Rounded down to a multiple of 8, and not of ALIGNMENT, by "& ~0x7".
MIN_BLOCK_SIZE == (((2 * WSIZE) + 2 * PTR_SIZE + (DSIZE - 1)) \div 8) * 8

MaxOf(x, y) == IF x > y THEN x ELSE y

-----------------------------------------------------------------------------
(* Machine arithmetic.                                                     *)

\* The sum of two values of size_t, or of a pointer and an offset.
Wrap(n) == IF n >= SIZE_MOD THEN n - SIZE_MOD ELSE n

\* The conversion of a size_t to the int that mem_sbrk takes.
ToInt(n) ==
    LET low == n % INT_MOD
    IN  IF 2 * low >= INT_MOD THEN low - INT_MOD ELSE low

-----------------------------------------------------------------------------
(* Rounding of a request, and of an extension of the heap.                 *)

\* A request without the round-up of DSIZE - 1: the footer can be cut off.
adjust_block_floor(size) ==
    MaxOf(MIN_BLOCK_SIZE, DSIZE * (Wrap(size + DSIZE) \div DSIZE))

\* The size of the block that a payload of size bytes needs.
adjust_block(size) ==
    MaxOf(MIN_BLOCK_SIZE, DSIZE * (Wrap(size + 2 * DSIZE - 1) \div DSIZE))

\* Words rounded up to an even number, back in bytes.
ExtendBytes(bytes) ==
    LET words == bytes \div WSIZE
    IN  (IF words % 2 = 1 THEN words + 1 ELSE words) * WSIZE

\* The bound mem_sbrk tests: the sum wraps around before it is compared.
sbrk_refuses(brk, incr, max_addr) ==
    incr < 0 \/ Wrap(brk + incr) > max_addr

=============================================================================
