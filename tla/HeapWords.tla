----------------------------- MODULE HeapWords -----------------------------
(***************************************************************************)
(* The simulated memory as a package sees it, word by word, and the calls  *)
(* of the C library and of memlib.c that read and write it.                *)
(*                                                                         *)
(* A package's state is a record t with at least the fields                *)
(*   mem     address of a word -> its value, for the whole region          *)
(*   brk     mem_brk                                                       *)
(*   status  "ok", or how the program failed                               *)
(* and one field for each of the package's statics.                        *)
(***************************************************************************)
EXTENDS Geometry, Sequences, FiniteSets

CONSTANT BASE        \* mem_start_brk

MAX_ADDR == BASE + MAX_HEAP

HeapWordsAssumption ==
    /\ BASE \in Nat \ {0}
    /\ BASE % 8 = 0
    /\ MAX_HEAP % WSIZE = 0
    /\ MAX_ADDR < SIZE_MOD

NULL == 0

\* What a loop over a list ends with, beside a node or NULL: it goes round
\* for ever, or it follows a link out of memory.
HANG == -1
FAULT == -2
NoBlock == {NULL, HANG, FAULT}

-----------------------------------------------------------------------------
(* A stray write fails; a stray read gives a word of zero.                 *)

Words == {a \in BASE .. MAX_ADDR - 1 : a % WSIZE = 0}
NumWords == MAX_HEAP \div WSIZE

GET(t, a) == IF BASE <= a /\ a < MAX_ADDR /\ a % WSIZE = 0 THEN t.mem[a] ELSE 0
PUT(t, a, v) ==
    IF BASE <= a /\ a < MAX_ADDR /\ a % WSIZE = 0
    THEN [t EXCEPT !.mem[a] = v]
    ELSE [t EXCEPT !.status = "fault"]

\* mem_sbrk: NULL stands for (void *)-1.
mem_sbrk(t, incr) ==
    IF sbrk_refuses(t.brk, incr, MAX_ADDR) THEN [s |-> t, p |-> NULL]
    ELSE [s |-> [t EXCEPT !.brk = Wrap(t.brk + incr)], p |-> t.brk]

\* The words of a payload of n bytes at p.
PayloadWords(p, n) == {p + k * WSIZE : k \in 0 .. (n \div WSIZE) - 1}

memcpy(t, to, from, n) ==
    [t EXCEPT !.mem = [a \in DOMAIN t.mem |->
        IF a \in PayloadWords(to, n) THEN GET(t, from + (a - to)) ELSE t.mem[a]]]

memset(t, p, n, c) ==
    IF PayloadWords(p, n) \subseteq Words
    THEN [t EXCEPT !.mem = [a \in DOMAIN t.mem |->
            IF a \in PayloadWords(p, n) THEN c ELSE t.mem[a]]]
    ELSE [t EXCEPT !.status = "fault"]

\* The payload of n bytes at p holds only the word c.
Filled(t, p, n, c) == \A a \in PayloadWords(p, n) : GET(t, a) = c

\* Memory fresh from the system.
FreshMemory == [a \in Words |-> 0]

-----------------------------------------------------------------------------
(* Walks through lists and through the heap.                               *)

\* By a number of nodes and by where they start: the nodes that next leads to,
\* up to NULL.
Walk(next) ==
    LET from[k \in 0 .. NumWords] ==
            [bp \in Int |-> IF k = 0 \/ bp = NULL THEN << >>
                           ELSE <<bp>> \o from[k - 1][next[bp]]]
    IN  from

\* The nodes from first on.  A walk of as many nodes as there are words meets
\* one of them twice, and is cut off there.
Chain(first, Next(_)) == Walk([bp \in Int |-> Next(bp)])[NumWords][first]

\* for (bp = first; bp != NULL && bp != stop; bp = Next(bp))
\*     if (Fits(bp)) return bp;
\* return NULL;
FirstFit(first, stop, Next(_), Fits(_)) ==
    LET nodes == Chain(first, Next)
        ends == {k \in 1 .. Len(nodes) :
                    nodes[k] = stop \/ nodes[k] \notin Words \/ Fits(nodes[k])}
        bp == nodes[CHOOSE k \in ends : \A j \in ends : k <= j]
    IN  CASE ends = {} /\ Len(nodes) = NumWords -> HANG
          [] ends = {} /\ Len(nodes) < NumWords -> NULL
          [] ends # {} -> IF bp = stop THEN NULL
                          ELSE IF bp \notin Words THEN FAULT ELSE bp

\* The state that such a loop leaves.
LoopEnds(t, bp) ==
    CASE bp = HANG -> [t EXCEPT !.status = "hang"]
      [] bp = FAULT -> [t EXCEPT !.status = "fault"]
      [] OTHER -> t

=============================================================================
