------------------------------- MODULE MemLib -------------------------------
(***************************************************************************)
(* memlib.c: the simulated memory that the allocator grows its heap in.    *)
(* One region of MAX_HEAP bytes is taken from libc; mem_sbrk moves a break *)
(* up in it, mem_reset_brk moves it back to the start.                     *)
(***************************************************************************)
EXTENDS Geometry, Sequences

CONSTANTS Bases,   \* addresses at which libc may place the region
          Incrs    \* arguments of mem_sbrk

ASSUME MemLibAssumption ==
    /\ Bases \subseteq Nat \ {0}
    /\ Incrs \subseteq Int
    /\ \A base \in Bases : base + MAX_HEAP < SIZE_MOD
    /\ \A incr \in Incrs : incr < SIZE_MOD

VARIABLES mem_start_brk,  \* first byte of the heap
          mem_brk,        \* first byte after the heap
          mem_max_addr,   \* first byte after the region
          region,         \* "held" between mem_init and mem_deinit, else "none"
          chunks          \* history: the areas handed out since the last reset, in order

vars == <<mem_start_brk, mem_brk, mem_max_addr, region, chunks>>

\* No addition in mem_sbrk leaves the address space.
NoWrap ==
    \A base \in Bases, incr \in Incrs : base + MAX_HEAP + incr < SIZE_MOD

-----------------------------------------------------------------------------
\* The three pointers are static and start as NULL.
Init ==
    /\ mem_start_brk = 0
    /\ mem_brk = 0
    /\ mem_max_addr = 0
    /\ region = "none"
    /\ chunks = << >>

\* Allocates the region; the program exits if libc has no memory for it.
mem_init ==
    /\ region = "none"
    /\ region' = "held"
    /\ mem_start_brk' \in Bases
    /\ mem_max_addr' = mem_start_brk' + MAX_HEAP
    /\ mem_brk' = mem_start_brk'
    /\ chunks' = << >>

\* Frees the region; the three pointers dangle.
mem_deinit ==
    /\ region = "held"
    /\ region' = "none"
    /\ chunks' = << >>
    /\ UNCHANGED <<mem_start_brk, mem_brk, mem_max_addr>>

mem_reset_brk ==
    /\ region = "held"
    /\ mem_brk' = mem_start_brk
    /\ chunks' = << >>
    /\ UNCHANGED <<mem_start_brk, mem_max_addr, region>>

\* What the history keeps of a granted request; nothing is handed out by 0.
Record(incr) ==
    IF incr = 0 THEN chunks
    ELSE Append(chunks, [lo |-> mem_brk, hi |-> mem_brk + incr])

\* A bound test that looks at the break before it moves, not after.
mem_sbrk_late_test(incr) ==
    /\ region = "held"
    /\ ~(incr < 0 \/ mem_brk > mem_max_addr)
    /\ mem_brk' = Wrap(mem_brk + incr)
    /\ chunks' = Record(incr)
    /\ UNCHANGED <<mem_start_brk, mem_max_addr, region>>

\* A bound test without the check of the sign.
mem_sbrk_signed(incr) ==
    /\ region = "held"
    /\ mem_brk + incr <= mem_max_addr
    /\ mem_brk' = mem_brk + incr
    /\ chunks' = Record(incr)
    /\ UNCHANGED <<mem_start_brk, mem_max_addr, region>>

\* Returns the old break and moves it up, or refuses and moves nothing.
mem_sbrk(incr) ==
    /\ region = "held"
    /\ \/ /\ sbrk_refuses(mem_brk, incr, mem_max_addr)
          /\ UNCHANGED <<mem_brk, chunks>>
       \/ /\ ~sbrk_refuses(mem_brk, incr, mem_max_addr)
          /\ mem_brk' = Wrap(mem_brk + incr)
          /\ chunks' = Record(incr)
    /\ UNCHANGED <<mem_start_brk, mem_max_addr, region>>

Next ==
    \/ mem_init
    \/ mem_deinit
    \/ mem_reset_brk
    \/ \E incr \in Incrs : mem_sbrk(incr)

Spec == Init /\ [][Next]_vars

-----------------------------------------------------------------------------
(* The queries of the interface.                                           *)

mem_heap_lo == mem_start_brk
mem_heap_hi == mem_brk - 1
mem_heapsize == mem_brk - mem_start_brk

-----------------------------------------------------------------------------
(* Properties.                                                             *)

\* The break stays inside the region and the heap size never exceeds it,
\* whatever sequence of increments and resets is asked for (the one test in
\* mem_sbrk is all that guards it).
HeapBounded ==
    region = "held" =>
        /\ mem_max_addr = mem_start_brk + MAX_HEAP
        /\ mem_brk \in mem_start_brk .. mem_max_addr
        /\ mem_heapsize <= MAX_HEAP

\* The areas that mem_sbrk has handed out since the last reset lie in the
\* heap and do not overlap: no byte is given to the allocator twice.
ChunksDisjoint ==
    /\ \A i \in DOMAIN chunks :
          /\ mem_heap_lo <= chunks[i].lo
          /\ chunks[i].lo < chunks[i].hi
          /\ chunks[i].hi <= mem_heap_hi + 1
    /\ \A i, j \in DOMAIN chunks : i < j => chunks[i].hi <= chunks[j].lo

\* memlib.c:56, "the heap cannot be shrunk": only a reset, after which no
\* area is handed out, lowers the break.
HeapNeverShrinks == [][chunks' # << >> => mem_brk' >= mem_brk]_vars

=============================================================================
