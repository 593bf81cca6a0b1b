---------------------------- MODULE MemLib_proofs ----------------------------
(***************************************************************************)
(* The simulated memory, proved for every size of the region, every set of *)
(* increments and every place the region may have, provided that no        *)
(* addition in mem_sbrk leaves the address space (NoWrap).  Without that   *)
(* HeapNeverShrinks is false, as the run memlib_high_region shows.         *)
(***************************************************************************)
EXTENDS MemLib, SequenceTheorems, TLAPS

\* The inductive invariant: the properties, the types they need, and that
\* nothing is handed out while there is no region.
IInv ==
    /\ region \in {"held", "none"}
    /\ mem_start_brk \in Nat /\ mem_brk \in Nat /\ mem_max_addr \in Nat
    /\ region = "held" => mem_start_brk \in Bases
    /\ chunks \in Seq([lo : Int, hi : Int])
    /\ region = "none" => chunks = << >>
    /\ HeapBounded
    /\ ChunksDisjoint

\* A granted request ends inside the region, without wrapping around.
LEMMA SbrkGrants ==
    ASSUME NoWrap, IInv, region = "held", NEW incr \in Incrs,
           ~sbrk_refuses(mem_brk, incr, mem_max_addr)
    PROVE  /\ incr >= 0
           /\ Wrap(mem_brk + incr) = mem_brk + incr
           /\ mem_brk + incr <= mem_max_addr
<1>1. incr \in Int
  BY MemLibAssumption
<1>2. mem_brk <= mem_start_brk + MAX_HEAP /\ mem_start_brk + MAX_HEAP + incr < SIZE_MOD
  BY GeometryAssumption, MemLibAssumption DEF NoWrap, IInv, HeapBounded
<1> QED
  BY <1>1, <1>2, GeometryAssumption DEF sbrk_refuses, Wrap, IInv

\* The area a request is granted comes after all that was granted before.
LEMMA SbrkAppends ==
    ASSUME IInv, region = "held", NEW incr \in Int, incr >= 0,
           mem_brk' = mem_brk + incr, mem_brk + incr <= mem_max_addr,
           chunks' = Record(incr), mem_start_brk' = mem_start_brk
    PROVE  /\ chunks' \in Seq([lo : Int, hi : Int])
           /\ ChunksDisjoint'
<1> DEFINE new == [lo |-> mem_brk, hi |-> mem_brk + incr]
<1>1. CASE incr = 0
  BY <1>1 DEF IInv, Record, ChunksDisjoint, mem_heap_lo, mem_heap_hi
<1>2. CASE incr # 0
  <2>1. chunks' = Append(chunks, new) /\ new \in [lo : Int, hi : Int]
    BY <1>2 DEF Record, IInv
  <2>2. /\ DOMAIN chunks = 1 .. Len(chunks)
        /\ DOMAIN chunks' = 1 .. Len(chunks) + 1
        /\ \A i \in DOMAIN chunks : chunks'[i] = chunks[i]
        /\ chunks'[Len(chunks) + 1] = new
        /\ Len(chunks) \in Nat
    BY <2>1 DEF IInv
  <2>3. \A i \in DOMAIN chunks :
            /\ chunks[i] \in [lo : Int, hi : Int]
            /\ mem_start_brk <= chunks[i].lo
            /\ chunks[i].lo < chunks[i].hi
            /\ chunks[i].hi <= mem_brk
    <3>1. \A i \in DOMAIN chunks : chunks[i] \in [lo : Int, hi : Int]
      <4>1. chunks \in Seq([lo : Int, hi : Int])
        BY DEF IInv
      <4> QED
        BY <4>1, <2>2, ElementOfSeq
    <3>2. \A i \in DOMAIN chunks : chunks[i].lo \in Int /\ chunks[i].hi \in Int
      BY <3>1
    <3>3. mem_heap_lo = mem_start_brk /\ mem_heap_hi + 1 = mem_brk
      BY DEF mem_heap_lo, mem_heap_hi, IInv
    <3> QED
      BY <3>1, <3>2, <3>3 DEF IInv, ChunksDisjoint
  <2>4. new.lo = mem_brk /\ new.hi = mem_brk + incr /\ mem_start_brk <= mem_brk
    BY DEF IInv, HeapBounded
  <2>5. ASSUME NEW i \in DOMAIN chunks'
        PROVE  /\ mem_start_brk <= chunks'[i].lo
               /\ chunks'[i].lo < chunks'[i].hi
               /\ chunks'[i].hi <= mem_brk + incr
    <3>1. CASE i \in DOMAIN chunks
      BY <3>1, <2>2, <2>3 DEF IInv
    <3>2. CASE i = Len(chunks) + 1
      BY <3>2, <1>2, <2>2, <2>4 DEF IInv
    <3> QED
      BY <3>1, <3>2, <2>2
  <2>6. ASSUME NEW i \in DOMAIN chunks', NEW j \in DOMAIN chunks', i < j
        PROVE  chunks'[i].hi <= chunks'[j].lo
    <3>1. i \in DOMAIN chunks
      BY <2>2, <2>6
    <3>2. CASE j \in DOMAIN chunks
      BY <3>1, <3>2, <2>2, <2>6 DEF IInv, ChunksDisjoint
    <3>3. CASE j = Len(chunks) + 1
      BY <3>1, <3>3, <2>2, <2>3, <2>4
    <3> QED
      BY <3>2, <3>3, <2>2
  <2>7. mem_heap_lo' = mem_start_brk /\ mem_heap_hi' + 1 = mem_brk + incr
    BY DEF mem_heap_lo, mem_heap_hi, IInv
  <2>8. chunks' \in Seq([lo : Int, hi : Int])
    BY <2>1 DEF IInv
  <2> QED
    BY <2>5, <2>6, <2>7, <2>8 DEF ChunksDisjoint
<1> QED
  BY <1>1, <1>2

\* Nothing handed out overlaps nothing.
LEMMA NoChunks ==
    /\ << >> \in Seq([lo : Int, hi : Int])
    /\ DOMAIN << >> = {}
<1>1. << >> \in Seq([lo : Int, hi : Int])
  OBVIOUS
<1>2. DOMAIN << >> = {}
  OBVIOUS
<1> QED
  BY <1>1, <1>2

LEMMA InitInv == Init => IInv
<1>1. Init => ChunksDisjoint
  BY NoChunks DEF Init, ChunksDisjoint
<1> QED
  BY <1>1, NoChunks DEF Init, IInv, HeapBounded

LEMMA NextInv ==
    ASSUME NoWrap, IInv, [Next]_vars
    PROVE  IInv'
<1>1. CASE mem_init
  <2>1. PICK base \in Bases :
            /\ mem_start_brk' = base
            /\ mem_brk' = base
            /\ mem_max_addr' = base + MAX_HEAP
    BY <1>1 DEF mem_init
  <2>2. region' = "held" /\ chunks' = << >>
    BY <1>1 DEF mem_init
  <2>3. base \in Nat /\ MAX_HEAP \in Nat
    BY MemLibAssumption, GeometryAssumption
  <2>4. HeapBounded'
    BY <2>1, <2>2, <2>3 DEF HeapBounded, mem_heapsize
  <2>5. ChunksDisjoint'
    BY <2>2, NoChunks DEF ChunksDisjoint
  <2> QED
    BY <2>1, <2>2, <2>3, <2>4, <2>5, NoChunks DEF IInv
<1>2. CASE mem_deinit
  <2>1. ChunksDisjoint'
    BY <1>2, NoChunks DEF mem_deinit, ChunksDisjoint
  <2> QED
    BY <1>2, <2>1, NoChunks DEF mem_deinit, IInv, HeapBounded
<1>3. CASE mem_reset_brk
  <2>1. ChunksDisjoint'
    BY <1>3, NoChunks DEF mem_reset_brk, ChunksDisjoint
  <2> QED
    BY <1>3, <2>1, NoChunks, GeometryAssumption DEF mem_reset_brk, IInv, HeapBounded, mem_heapsize
<1>4. ASSUME NEW incr \in Incrs, mem_sbrk(incr)
      PROVE  IInv'
  <2>1. CASE UNCHANGED vars
    BY <2>1 DEF vars, IInv, HeapBounded, ChunksDisjoint,
         mem_heapsize, mem_heap_lo, mem_heap_hi
  <2>2. CASE ~sbrk_refuses(mem_brk, incr, mem_max_addr)
    <3>1. region = "held" /\ mem_brk' = mem_brk + incr /\ chunks' = Record(incr) /\ incr \in Nat
          /\ mem_brk + incr <= mem_max_addr
      BY <1>4, <2>2, SbrkGrants, MemLibAssumption DEF mem_sbrk
    <3>2. UNCHANGED <<mem_start_brk, mem_max_addr, region>>
      BY <1>4 DEF mem_sbrk
    <3>3. chunks' \in Seq([lo : Int, hi : Int]) /\ ChunksDisjoint'
      BY <3>1, <3>2, SbrkAppends
    <3>4. HeapBounded'
      BY <3>1, <3>2, GeometryAssumption DEF IInv, HeapBounded, mem_heapsize
    <3> QED
      BY <3>1, <3>2, <3>3, <3>4 DEF IInv
  <2> QED
    BY <1>4, <2>1, <2>2 DEF mem_sbrk, vars
<1>5. CASE UNCHANGED vars
  BY <1>5 DEF vars, IInv, HeapBounded, ChunksDisjoint,
       mem_heapsize, mem_heap_lo, mem_heap_hi
<1> QED
  BY <1>1, <1>2, <1>3, <1>4, <1>5 DEF Next

\* The break of memlib.c stays in the region, whatever mem_sbrk is asked for.
THEOREM HeapStaysBounded ==
    ASSUME NoWrap
    PROVE  Spec => []HeapBounded
<1>1. IInv => HeapBounded
  BY DEF IInv
<1>2. IInv /\ [Next]_vars => IInv'
  BY NextInv
<1> QED
  BY InitInv, <1>1, <1>2, PTL DEF Spec

\* mem_sbrk gives no byte to the allocator twice between two resets.
THEOREM ChunksStayDisjoint ==
    ASSUME NoWrap
    PROVE  Spec => []ChunksDisjoint
<1>1. IInv => ChunksDisjoint
  BY DEF IInv
<1>2. IInv /\ [Next]_vars => IInv'
  BY NextInv
<1> QED
  BY InitInv, <1>1, <1>2, PTL DEF Spec

\* memlib.c:56: only a reset lowers the break.
THEOREM BreakOnlyRises ==
    ASSUME NoWrap
    PROVE  Spec => HeapNeverShrinks
<1>1. ASSUME IInv, Next, chunks' # << >>
      PROVE  mem_brk' >= mem_brk
  <2>1. PICK incr \in Incrs : mem_sbrk(incr)
    BY <1>1 DEF Next, mem_init, mem_deinit, mem_reset_brk
  <2>2. CASE sbrk_refuses(mem_brk, incr, mem_max_addr)
    BY <2>1, <2>2, <1>1 DEF mem_sbrk, IInv
  <2>3. CASE ~sbrk_refuses(mem_brk, incr, mem_max_addr)
    <3>1. mem_brk' = mem_brk + incr /\ incr >= 0
      BY <2>1, <2>3, <1>1, SbrkGrants DEF mem_sbrk
    <3> QED
      BY <3>1, <1>1, MemLibAssumption DEF IInv
  <2> QED
    BY <2>2, <2>3
<1>2. IInv /\ [Next]_vars => [chunks' # << >> => mem_brk' >= mem_brk]_vars
  BY <1>1
<1>3. IInv /\ [Next]_vars => IInv'
  BY NextInv
<1> QED
  BY InitInv, <1>2, <1>3, PTL DEF Spec, HeapNeverShrinks

=============================================================================
