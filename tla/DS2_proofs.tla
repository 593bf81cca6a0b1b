------------------------------ MODULE DS2_proofs ------------------------------
(***************************************************************************)
(* mm-ds2.c word by word under the client of mdriver.c, for every size of  *)
(* the region, every chunk size of at least a block, every number of       *)
(* lists, every set of requests that leave room for the footer, any number *)
(* of blocks and of calls.                                                 *)
(*                                                                         *)
(* Its words are those of a heap of MMBlocks, as the words of mm.c are:    *)
(* the memory of a state is a state of mm.c without a list, and each class *)
(* of its lists with the memory is a state of mm.c with that one list.     *)
(* What is proved of the tags and of one list then holds here as well.     *)
(***************************************************************************)
EXTENDS SegClient, MMClient_proofs

-----------------------------------------------------------------------------
(* The words, as mm.c would see them.                                      *)

\* The memory without any list, and with the list of one class.
Mem(t) == [mem |-> t.mem, brk |-> t.brk, status |-> t.status, head |-> NULL, rover |-> NULL]
Shelf(t, c) ==
    [mem |-> t.mem, brk |-> t.brk, status |-> t.status, head |-> t.lists[c], rover |-> NULL]

\* A state of mm-ds2.c, and one in which nothing has failed.
Form(t) ==
    /\ t = [mem |-> t.mem, brk |-> t.brk, status |-> t.status, lists |-> t.lists]
    /\ t.lists \in [D!Classes -> Int]
DGood(t) == Form(t) /\ Good(Mem(t))

LEMMA SameDefs ==
    /\ D!Words = W!Words /\ D!NumWords = W!NumWords /\ D!MAX_ADDR = MAX_ADDR
    /\ D!NULL = NULL /\ D!DSIZE = DSIZE /\ D!FIRST = FIRST
    /\ D!NoBlock = W!NoBlock /\ D!HANG = W!HANG /\ D!FAULT = W!FAULT
BY DEF D!Words, W!Words, D!NumWords, W!NumWords, D!MAX_ADDR, W!MAX_ADDR, MAX_ADDR,
       D!NULL, W!NULL, NULL, D!DSIZE, DSIZE, D!FIRST, FIRST, D!NoBlock, W!NoBlock,
       D!HANG, W!HANG, D!FAULT, W!FAULT

LEMMA SameOperators ==
    ASSUME NEW n
    PROVE  /\ D!ExtendBytes(n) = ExtendBytes(n)
           /\ D!ToInt(n) = ToInt(n) /\ D!Wrap(n) = Wrap(n)
           /\ \A m : D!MaxOf(n, m) = MaxOf(n, m)
           /\ \A m, a : D!sbrk_refuses(n, m, a) = sbrk_refuses(n, m, a)
           /\ D!HDRP(n) = W!HDRP(n)
           /\ \A m : D!PayloadWords(n, m) = W!PayloadWords(n, m)
BY DEF D!ExtendBytes, ExtendBytes, D!ToInt, ToInt, D!Wrap, Wrap, D!MaxOf, MaxOf,
       D!sbrk_refuses, sbrk_refuses, D!HDRP, W!HDRP, D!PayloadWords, W!PayloadWords

\* What the code reads does not depend on the lists.
LEMMA SameReads ==
    ASSUME NEW t, NEW v, v.mem = t.mem
    PROVE  /\ \A a : D!GET(t, a) = W!GET(v, a)
           /\ \A a : D!GET_SIZE(t, a) = W!GET_SIZE(v, a)
           /\ \A a : D!GET_ALLOC(t, a) = W!GET_ALLOC(v, a)
           /\ \A a : D!NEXT_BLKP(t, a) = W!NEXT_BLKP(v, a)
           /\ \A a : D!PREV_BLKP(t, a) = W!PREV_BLKP(v, a)
           /\ \A a : D!FTRP(t, a) = W!FTRP(v, a)
           /\ \A a : D!PREV_FREE(t, a) = W!GET_PRED(v, a)
           /\ \A a : D!NEXT_FREE(t, a) = W!GET_SUCC(v, a)
<1>1. \A a : D!GET(t, a) = W!GET(v, a)
  BY DEF D!GET, W!GET, D!MAX_ADDR, W!MAX_ADDR
<1>2. \A a : D!GET_SIZE(t, a) = W!GET_SIZE(v, a) /\ D!GET_ALLOC(t, a) = W!GET_ALLOC(v, a)
  BY <1>1 DEF D!GET_SIZE, W!GET_SIZE, D!GET_ALLOC, W!GET_ALLOC
<1>3. \A a : D!HDRP(a) = W!HDRP(a) /\ D!DSIZE = W!DSIZE
  BY DEF D!HDRP, W!HDRP, D!DSIZE, W!DSIZE
<1>4. \A a : /\ D!NEXT_BLKP(t, a) = W!NEXT_BLKP(v, a)
             /\ D!PREV_BLKP(t, a) = W!PREV_BLKP(v, a)
             /\ D!FTRP(t, a) = W!FTRP(v, a)
  BY <1>2, <1>3 DEF D!NEXT_BLKP, W!NEXT_BLKP, D!PREV_BLKP, W!PREV_BLKP, D!FTRP, W!FTRP
<1>5. \A a : D!PREV_FREE(t, a) = W!GET_PRED(v, a) /\ D!NEXT_FREE(t, a) = W!GET_SUCC(v, a)
  BY <1>1 DEF D!PREV_FREE, W!GET_PRED, D!NEXT_FREE, W!GET_SUCC, W!PTR_SIZE
<1> QED
  BY <1>1, <1>2, <1>4, <1>5

\* The walks of both are the same.
LEMMA SameWalk ==
    ASSUME NEW next
    PROVE  D!Walk(next) = W!Walk(next)
BY DEF D!Walk, W!Walk, D!NumWords, W!NumWords, D!NULL, W!NULL

\* A store changes the memory as it does for mm.c, and no list.
LEMMA PutMem ==
    ASSUME NEW t, Form(t), NEW a, NEW v
    PROVE  /\ Form(D!PUT(t, a, v)) /\ D!PUT(t, a, v).lists = t.lists
           /\ Mem(D!PUT(t, a, v)) = W!PUT(Mem(t), a, v)
           /\ \A c : Shelf(D!PUT(t, a, v), c) = W!PUT(Shelf(t, c), a, v)
BY DEF Form, Mem, Shelf, D!PUT, W!PUT, D!MAX_ADDR, W!MAX_ADDR

LEMMA SetTagsMem ==
    ASSUME NEW t, Form(t), NEW b, NEW size, NEW alloc
    PROVE  /\ Form(D!SetTags(t, b, size, alloc))
           /\ D!SetTags(t, b, size, alloc).lists = t.lists
           /\ Mem(D!SetTags(t, b, size, alloc)) = W!SetTags(Mem(t), b, size, alloc)
<1> DEFINE u == D!SET_HEADER(t, b, size, alloc)
           v == D!SetTags(t, b, size, alloc)
<1>1. /\ Form(u) /\ u.lists = t.lists
      /\ Mem(u) = W!SET_HEADER(Mem(t), b, size, alloc)
  BY PutMem DEF D!SET_HEADER, W!SET_HEADER, D!HDRP, W!HDRP, D!PACK, W!PACK
<1>2. D!FTRP(u, b) = W!FTRP(Mem(u), b)
  BY SameReads DEF Mem
<1>3. v = D!PUT(u, D!FTRP(u, b), D!PACK(size, alloc))
  BY DEF D!SetTags, D!SET_FOOTER
<1>4. W!SetTags(Mem(t), b, size, alloc) = W!PUT(Mem(u), W!FTRP(Mem(u), b), D!PACK(size, alloc))
  BY <1>1 DEF W!SetTags, W!SET_FOOTER, D!PACK, W!PACK
<1> HIDE DEF u, v
<1>5. Form(v) /\ v.lists = t.lists
  BY <1>1, <1>3, PutMem
<1>6. Mem(v) = W!PUT(Mem(u), D!FTRP(u, b), D!PACK(size, alloc))
  BY <1>1, <1>3, PutMem
<1> QED
  BY <1>2, <1>4, <1>5, <1>6 DEF v

LEMMA SetEpilogueMem ==
    ASSUME NEW t, Form(t), NEW b
    PROVE  /\ Form(D!SetEpilogue(t, b)) /\ D!SetEpilogue(t, b).lists = t.lists
           /\ Mem(D!SetEpilogue(t, b)) = W!SetEpilogue(Mem(t), b)
<1>1. D!NEXT_BLKP(t, b) = W!NEXT_BLKP(Mem(t), b)
  BY SameReads DEF Mem
<1> QED
  BY <1>1, PutMem DEF D!SetEpilogue, W!SetEpilogue, D!HDRP, W!HDRP, D!PACK, W!PACK

LEMMA SbrkMem ==
    ASSUME NEW t, Form(t), NEW m
    PROVE  /\ Form(D!mem_sbrk(t, m).s) /\ D!mem_sbrk(t, m).s.lists = t.lists
           /\ Mem(D!mem_sbrk(t, m).s) = W!mem_sbrk(Mem(t), m).s
           /\ D!mem_sbrk(t, m).p = W!mem_sbrk(Mem(t), m).p
BY DEF Form, Mem, D!mem_sbrk, W!mem_sbrk, D!sbrk_refuses, W!sbrk_refuses, D!Wrap, W!Wrap,
       D!MAX_ADDR, W!MAX_ADDR, D!NULL, W!NULL

LEMMA MemsetMem ==
    ASSUME NEW t, Form(t), NEW p, NEW n, NEW c
    PROVE  /\ Form(D!memset(t, p, n, c)) /\ D!memset(t, p, n, c).lists = t.lists
           /\ Mem(D!memset(t, p, n, c)) = W!memset(Mem(t), p, n, c)
BY DEF Form, Mem, D!memset, W!memset, D!PayloadWords, W!PayloadWords, D!Words, W!Words,
       D!MAX_ADDR, W!MAX_ADDR

LEMMA MemcpyMem ==
    ASSUME NEW t, Form(t), NEW p, NEW q, NEW n
    PROVE  /\ Form(D!memcpy(t, p, q, n)) /\ D!memcpy(t, p, q, n).lists = t.lists
           /\ Mem(D!memcpy(t, p, q, n)) = W!memcpy(Mem(t), p, q, n)
<1>1. \A a : D!GET(t, a) = W!GET(Mem(t), a)
  BY SameReads DEF Mem
<1> QED
  BY <1>1 DEF Form, Mem, D!memcpy, W!memcpy, D!PayloadWords, W!PayloadWords

LEMMA FilledMem ==
    ASSUME NEW t, NEW p, NEW n, NEW c
    PROVE  D!Filled(t, p, n, c) <=> W!Filled(Mem(t), p, n, c)
<1>1. \A a : D!GET(t, a) = W!GET(Mem(t), a)
  BY SameReads DEF Mem
<1> QED
  BY <1>1 DEF D!Filled, W!Filled, D!PayloadWords, W!PayloadWords

\* Of the lists only their heads are beside the memory.
LEMMA ShelfFacts ==
    ASSUME NEW t, DGood(t), NEW c \in D!Classes
    PROVE  /\ Good(Shelf(t, c)) /\ Shelf(t, c).head = t.lists[c] /\ t.lists[c] \in Int
           /\ Shelf(t, c).mem = t.mem /\ Shelf(t, c).rover = NULL
           /\ \A a : W!GET(Shelf(t, c), a) = W!GET(Mem(t), a)
<1>1. t.lists[c] \in Int
  BY DEF DGood, Form
<1>2. \A a : W!GET(Shelf(t, c), a) = W!GET(Mem(t), a)
  BY SameMemory DEF Shelf, Mem
<1> QED
  BY <1>1, <1>2 DEF DGood, Good, Shelf, Mem

-----------------------------------------------------------------------------
(* The classes.                                                            *)

Limit(c) == 2 ^ (c + 4)
Class(n) == D!get_index(n)

LEMMA ClassNumbers ==
    /\ NUM_LISTS \in Nat \ {0} /\ D!Classes = 0 .. NUM_LISTS - 1
    /\ 0 \in D!Classes
    /\ \A c \in Nat : Limit(c) \in Int
<1>1. NUM_LISTS \in Nat \ {0}
  BY SegAssumption
<1>2. D!Classes = 0 .. NUM_LISTS - 1
  BY DEF D!Classes
<1>3. 0 \in 0 .. NUM_LISTS - 1
  BY <1>1
<1>4. \A c \in Nat : 2 ^ (c + 4) \in Int
  OBVIOUS
<1>5. \A c \in Nat : Limit(c) \in Int
  BY <1>4, Zenon DEF Limit
<1> QED
  BY <1>1, <1>2, <1>3, <1>5

\* get_index finds the first class whose limit is not exceeded, else the last.
LEMMA ClassIs ==
    ASSUME NEW n \in Int
    PROVE  /\ Class(n) \in D!Classes
           /\ Class(n) = NUM_LISTS - 1 \/ n <= Limit(Class(n))
           /\ \A d \in 0 .. Class(n) - 1 : n > Limit(d)
<1> DEFINE P(c) == (c = NUM_LISTS - 1 \/ n <= Limit(c)) /\ \A d \in 0 .. c - 1 : n > Limit(d)
           S == {c \in D!Classes : c = NUM_LISTS - 1 \/ n <= Limit(c)}
<1>1. S \subseteq Nat /\ NUM_LISTS - 1 \in S
  BY ClassNumbers
<1>2. PICK m \in S : \A k \in S : m <= k
  BY <1>1, Least
<1>3. P(m)
  <2>1. ASSUME NEW d \in 0 .. m - 1 PROVE n > Limit(d)
    <3>1. d \in D!Classes /\ d \notin S /\ d \in Nat
      BY <1>2, <2>1, ClassNumbers
    <3>2. ~(n <= Limit(d)) /\ Limit(d) \in Int
      BY <3>1, ClassNumbers
    <3> QED
      BY <3>2
  <2> QED
    BY <2>1
<1>4. m \in D!Classes
  OBVIOUS
<1>5. Class(n) = CHOOSE c \in D!Classes : P(c)
  BY DEF Class, D!get_index, Limit
<1> HIDE DEF P
<1>6. Class(n) \in D!Classes /\ P(Class(n))
  BY <1>3, <1>4, <1>5
<1> QED
  BY <1>6 DEF P

\* A larger size is in no lower class.
LEMMA ClassGrows ==
    ASSUME NEW a \in Int, NEW b \in Int, a <= b
    PROVE  Class(a) <= Class(b)
<1>1. /\ Class(a) \in D!Classes /\ Class(b) \in D!Classes
      /\ Class(a) \in Nat /\ Class(b) \in Nat
  <2>1. Class(a) \in D!Classes /\ Class(b) \in D!Classes
    BY ClassIs
  <2>2. D!Classes \subseteq Nat
    BY ClassNumbers
  <2> QED
    BY ONLY <2>1, <2>2
<1> SUFFICES ASSUME Class(b) < Class(a) PROVE FALSE
  BY <1>1
<1>2. Class(b) # NUM_LISTS - 1
  BY <1>1, ClassNumbers
<1>3. b <= Limit(Class(b))
  BY <1>2, ClassIs
<1>4. a > Limit(Class(b))
  <2>1. Class(b) \in 0 .. Class(a) - 1
    BY <1>1
  <2> QED
    BY <2>1, ClassIs
<1> QED
  BY <1>1, <1>3, <1>4, ClassNumbers

-----------------------------------------------------------------------------
(* The lists.                                                              *)

\* The blocks of L in class c, and the lists that hold L by their classes.
InClass(h, L, c) == {b \in L : Class(h.size[b]) = c}
Shelved(t, h, L) == \A c \in D!Classes : Linked(Shelf(t, c), InClass(h, L, c))

\* The lists are in the links of their nodes and in the heads.
LEMMA ShelvedSame ==
    ASSUME NEW t, NEW h, NEW L, Shelved(t, h, L),
           NEW u, u.lists = t.lists,
           \A x \in L : /\ W!GET(Mem(u), x) = W!GET(Mem(t), x)
                        /\ W!GET(Mem(u), x + WSIZE) = W!GET(Mem(t), x + WSIZE),
           NEW g, \A x \in L : g.size[x] = h.size[x]
    PROVE  Shelved(u, g, L)
<1> SUFFICES ASSUME NEW c \in D!Classes
             PROVE  Linked(Shelf(u, c), InClass(g, L, c))
  BY DEF Shelved
<1>1. Linked(Shelf(t, c), InClass(h, L, c))
  BY DEF Shelved
<1>2. InClass(g, L, c) = InClass(h, L, c)
  BY DEF InClass
<1>3. /\ Shelf(u, c).head = Shelf(t, c).head
      /\ Shelf(u, c).rover \in InClass(h, L, c) \cup {NULL, Shelf(t, c).rover}
  BY DEF Shelf
<1>4. \A a : /\ W!GET(Shelf(u, c), a) = W!GET(Mem(u), a)
             /\ W!GET(Shelf(t, c), a) = W!GET(Mem(t), a)
  BY SameMemory DEF Shelf, Mem
<1>5. InClass(h, L, c) \subseteq L
  BY DEF InClass
<1> QED
  BY <1>1, <1>2, <1>3, <1>4, <1>5, LinkedSame

\* u is t with the memory of w, and its head in class c.
Alike(t, u, w, c) ==
    /\ Form(u) /\ u.mem = w.mem /\ u.brk = w.brk /\ u.status = w.status
    /\ u.lists = [t.lists EXCEPT ![c] = w.head]

\* L and N differ in class c only, to which the nodes K belong.
OthersStay(h, L, N, c, K) ==
    \A d \in D!Classes : d # c => /\ InClass(h, N, d) = InClass(h, L, d)
                                  /\ K \cap InClass(h, L, d) = {}

\* What a change to the list of one class, in the links of the nodes K and in
\* the head, leaves of the lists.
LEMMA OneList ==
    ASSUME NEW t, DGood(t), NEW h, NEW L, Shelved(t, h, L),
           NEW M, Spaced(M), L \subseteq M, NEW N,
           NEW c \in D!Classes, NEW K, K \subseteq M,
           NEW w, LinksOnly(Shelf(t, c), w, K), Linked(w, InClass(h, N, c)),
           NEW u, Alike(t, u, w, c), OthersStay(h, L, N, c, K)
    PROVE  /\ DGood(u) /\ u.brk = t.brk
           /\ LinksOnly(Mem(t), Mem(u), M)
           /\ Shelved(u, h, N)
<1>1. Good(w) /\ w.brk = t.brk
  BY DEF LinksOnly, Shelf
<1>2. DGood(u) /\ u.brk = t.brk
  BY <1>1 DEF Alike, DGood, Good, Mem
<1>3. \A a : W!GET(Mem(u), a) = W!GET(w, a) /\ W!GET(Mem(t), a) = W!GET(Shelf(t, c), a)
  BY SameMemory DEF Alike, Mem, Shelf
<1>4. \A a \in Int : (\A x \in K : a # x /\ a # x + WSIZE)
                     => W!GET(Mem(u), a) = W!GET(Mem(t), a)
  BY <1>3 DEF LinksOnly
<1>5. LinksOnly(Mem(t), Mem(u), M)
  <2>1. Good(Mem(u)) /\ Mem(u).brk = Mem(t).brk
    BY <1>2 DEF DGood, Mem
  <2> QED
    BY <1>4, <2>1 DEF LinksOnly
<1>6. Shelved(u, h, N)
  <2> SUFFICES ASSUME NEW d \in D!Classes PROVE Linked(Shelf(u, d), InClass(h, N, d))
    BY DEF Shelved
  <2>1. \A a : W!GET(Shelf(u, d), a) = W!GET(Mem(u), a)
    BY SameMemory DEF Mem, Shelf
  <2>2. \A a : W!GET(Shelf(t, d), a) = W!GET(Mem(t), a)
    BY SameMemory DEF Mem, Shelf
  <2>3. Shelf(u, d).rover = NULL /\ Shelf(u, d).head = u.lists[d]
    BY DEF Shelf
  <2>4. CASE d = c
    <3>1. u.lists[c] = w.head
      BY DEF Alike, DGood, Form
    <3>2. \A a : W!GET(Shelf(u, c), a) = W!GET(w, a)
      BY <1>3, <2>1, <2>4
    <3> QED
      BY <2>3, <2>4, <3>1, <3>2, LinkedSame
  <2>5. CASE d # c
    <3>1. /\ InClass(h, N, d) = InClass(h, L, d) /\ K \cap InClass(h, L, d) = {}
          /\ Linked(Shelf(t, d), InClass(h, L, d)) /\ InClass(h, L, d) \subseteq M
      BY <2>5 DEF OthersStay, Shelved, InClass
    <3>2. Shelf(u, d).head = Shelf(t, d).head
      BY <2>5 DEF Alike, Shelf, DGood, Form
    <3>3. ASSUME NEW x \in InClass(h, L, d)
          PROVE  /\ W!GET(Shelf(u, d), x) = W!GET(Shelf(t, d), x)
                 /\ W!GET(Shelf(u, d), x + WSIZE) = W!GET(Shelf(t, d), x + WSIZE)
      <4>1. /\ x \in M /\ x \in Int /\ x + WSIZE \in Int /\ x \notin K
            /\ \A y \in K : y \in M
            /\ \A y \in M : y + WSIZE # x /\ x + WSIZE # y /\ (x + WSIZE = y + WSIZE => x = y)
        BY <3>1, SpacedFacts
      <4>2. \A y \in K : x # y /\ x # y + WSIZE /\ x + WSIZE # y /\ x + WSIZE # y + WSIZE
        BY <4>1
      <4>3. W!GET(Mem(u), x) = W!GET(Mem(t), x)
        BY <1>4, <4>1, <4>2
      <4>4. W!GET(Mem(u), x + WSIZE) = W!GET(Mem(t), x + WSIZE)
        BY <1>4, <4>1, <4>2
      <4> QED
        BY <2>1, <2>2, <4>3, <4>4
    <3> QED
      BY <2>3, <3>1, <3>2, <3>3, LinkedSame
  <2> QED
    BY <2>4, <2>5
<1> QED
  BY <1>2, <1>5, <1>6

\* AddFirst on the list of a class is insert_node of mm.c, and
\* remove_free_block is its remove_node.
LEMMA AddMem ==
    ASSUME NEW t, Form(t), NEW c \in D!Classes, NEW b \in Int
    PROVE  Alike(t, D!AddFirst(t, b, c), W!insert_node(Shelf(t, c), b), c)
<1> DEFINE x1 == D!PUT(t, b + WSIZE, t.lists[c])
           x2 == D!PUT(x1, b, NULL)
           x3 == D!LinkBack(x2, t.lists[c], b)
           y3 == W!LinkBack(W!SET_PRED(W!SET_SUCC(Shelf(t, c), b, t.lists[c]), b, NULL),
                            t.lists[c], b)
<1>1. Form(x1) /\ x1.lists = t.lists /\ Shelf(x1, c) = W!SET_SUCC(Shelf(t, c), b, t.lists[c])
  BY PutMem DEF W!SET_SUCC, W!PTR_SIZE
<1>2. /\ Form(x2) /\ x2.lists = t.lists
      /\ Shelf(x2, c) = W!SET_PRED(W!SET_SUCC(Shelf(t, c), b, t.lists[c]), b, NULL)
  <2> HIDE DEF x1
  <2>1. Form(x2) /\ x2.lists = t.lists /\ Shelf(x2, c) = W!PUT(Shelf(x1, c), b, NULL)
    BY <1>1, PutMem
  <2> QED
    BY <1>1, <2>1 DEF W!SET_PRED
<1>3. Form(x3) /\ x3.lists = t.lists /\ Shelf(x3, c) = y3
  <2> HIDE DEF x2
  <2>1. CASE t.lists[c] # NULL
    <3>1. x3 = D!PUT(x2, t.lists[c], b)
      BY <2>1 DEF D!LinkBack, D!NULL, NULL
    <3>2. Form(x3) /\ x3.lists = t.lists /\ Shelf(x3, c) = W!PUT(Shelf(x2, c), t.lists[c], b)
      BY <1>2, <3>1, PutMem
    <3>3. y3 = W!PUT(Shelf(x2, c), t.lists[c], b)
      BY <1>2, <2>1 DEF W!LinkBack, W!SET_PRED, W!NULL, NULL
    <3> QED
      BY <3>2, <3>3
  <2>2. CASE t.lists[c] = NULL
    BY <1>2, <2>2 DEF W!LinkBack, D!LinkBack, D!NULL, W!NULL, NULL
  <2> QED
    BY <2>1, <2>2
<1>4. D!AddFirst(t, b, c) = [x3 EXCEPT !.lists = [@ EXCEPT ![c] = b]]
  BY DEF D!AddFirst, D!NULL, NULL
<1>5. W!insert_node(Shelf(t, c), b)
        = [y3 EXCEPT !.rover = IF @ = NULL THEN b ELSE @, !.head = b]
  BY DEF W!insert_node, W!NULL, NULL, Shelf
<1> HIDE DEF x3, y3
<1>6. D!AddFirst(t, b, c)
        = [mem |-> x3.mem, brk |-> x3.brk, status |-> x3.status,
           lists |-> [t.lists EXCEPT ![c] = b]]
  <2>1. x3 = [mem |-> x3.mem, brk |-> x3.brk, status |-> x3.status, lists |-> x3.lists]
    BY <1>3 DEF Form
  <2> QED
    BY <1>3, <1>4, <2>1
<1>7. /\ W!insert_node(Shelf(t, c), b).mem = x3.mem
      /\ W!insert_node(Shelf(t, c), b).brk = x3.brk
      /\ W!insert_node(Shelf(t, c), b).status = x3.status
      /\ W!insert_node(Shelf(t, c), b).head = b
  BY <1>3, <1>5 DEF Shelf
<1>8. [t.lists EXCEPT ![c] = b] \in [D!Classes -> Int]
  BY DEF Form
<1> QED
  BY <1>6, <1>7, <1>8 DEF Alike, Form

LEMMA RemoveMem ==
    ASSUME NEW t, Form(t), NEW c \in D!Classes, NEW b \in Int, b # NULL,
           D!NEXT_FREE(t, b) \in Int
    PROVE  Alike(t, D!LinkBack(D!LinkForward(t, c, D!PREV_FREE(t, b), D!NEXT_FREE(t, b)),
                               D!NEXT_FREE(t, b), D!PREV_FREE(t, b)),
                 W!remove_node(Shelf(t, c), b), c)
<1> DEFINE p == D!PREV_FREE(t, b)
           n == D!NEXT_FREE(t, b)
           x1 == D!LinkForward(t, c, p, n)
           x2 == D!LinkBack(x1, n, p)
           y1 == W!LinkForward(Shelf(t, c), p, n)
           y2 == W!LinkBack(y1, n, p)
<1>1. W!GET_PRED(Shelf(t, c), b) = p /\ W!GET_SUCC(Shelf(t, c), b) = n
  BY SameReads DEF Shelf
<1>2. W!remove_node(Shelf(t, c), b) = W!MoveRover(y2, b, p, n)
  BY <1>1 DEF W!remove_node
<1>3. Form(x1) /\ Shelf(x1, c) = y1 /\ x1.lists = [t.lists EXCEPT ![c] = y1.head]
  <2>1. CASE p # NULL
    <3>1. x1 = D!PUT(t, p + WSIZE, n)
      BY <2>1 DEF D!LinkForward, D!NULL, NULL
    <3>2. y1 = W!PUT(Shelf(t, c), p + WSIZE, n)
      BY <2>1 DEF W!LinkForward, W!SET_SUCC, W!PTR_SIZE, W!NULL, NULL
    <3>3. Form(x1) /\ x1.lists = t.lists /\ Shelf(x1, c) = y1
      BY <3>1, <3>2, PutMem
    <3>4. y1.head = t.lists[c]
      BY <3>3 DEF Shelf
    <3> QED
      BY <3>3, <3>4 DEF Form
  <2>2. CASE p = NULL
    <3>1. x1 = [t EXCEPT !.lists = [@ EXCEPT ![c] = n]]
      BY <2>2 DEF D!LinkForward, D!NULL, NULL
    <3>2. y1 = [Shelf(t, c) EXCEPT !.head = n]
      BY <2>2 DEF W!LinkForward, W!NULL, NULL
    <3>3. n \in Int
      OBVIOUS
    <3> HIDE DEF n
    <3>4. x1 = [mem |-> t.mem, brk |-> t.brk, status |-> t.status,
                lists |-> [t.lists EXCEPT ![c] = n]]
      <4>1. t = [mem |-> t.mem, brk |-> t.brk, status |-> t.status, lists |-> t.lists]
        BY DEF Form
      <4> QED
        BY <3>1, <4>1
    <3>5. y1 = [mem |-> t.mem, brk |-> t.brk, status |-> t.status, head |-> n, rover |-> NULL]
      BY <3>2 DEF Shelf
    <3>6. [t.lists EXCEPT ![c] = n] \in [D!Classes -> Int]
      BY <3>3 DEF Form
    <3>7. [t.lists EXCEPT ![c] = n][c] = n
      BY DEF Form
    <3> HIDE DEF x1, y1
    <3> QED
      BY <3>4, <3>5, <3>6, <3>7 DEF Form, Shelf
  <2> QED
    BY <2>1, <2>2
<1>4. Form(x2) /\ Shelf(x2, c) = y2 /\ x2.lists = [t.lists EXCEPT ![c] = y2.head]
  <2> HIDE DEF x1, y1
  <2>1. CASE n # NULL
    <3>1. x2 = D!PUT(x1, n, p)
      BY <2>1 DEF D!LinkBack, D!NULL, NULL
    <3>2. y2 = W!PUT(Shelf(x1, c), n, p)
      BY <1>3, <2>1 DEF W!LinkBack, W!SET_PRED, W!NULL, NULL
    <3>3. Form(x2) /\ x2.lists = x1.lists /\ Shelf(x2, c) = y2
      BY <1>3, <3>1, <3>2, PutMem
    <3>4. y2.head = x2.lists[c] /\ y1.head = x1.lists[c]
      BY <1>3, <3>3 DEF Shelf
    <3> QED
      BY <1>3, <3>3, <3>4
  <2>2. CASE n = NULL
    BY <1>3, <2>2 DEF W!LinkBack, D!LinkBack, D!NULL, W!NULL, NULL
  <2> QED
    BY <2>1, <2>2
<1>5. y2.rover = NULL
  BY <1>4 DEF Shelf
<1> HIDE DEF x2, y2
<1>6. W!remove_node(Shelf(t, c), b) = y2
  BY <1>2, <1>5 DEF W!MoveRover
<1>7. y2.mem = x2.mem /\ y2.brk = x2.brk /\ y2.status = x2.status
  BY <1>4 DEF Shelf
<1>8. Alike(t, x2, W!remove_node(Shelf(t, c), b), c)
  BY <1>4, <1>6, <1>7 DEF Alike
<1> QED
  BY <1>8 DEF x2

\* A free block goes to the list of the class of its size.
LEMMA AddShelved ==
    ASSUME NEW t, DGood(t), NEW h, NEW L, Shelved(t, h, L),
           NEW b, b \notin L, Spaced(L \cup {b}),
           h.size[b] \in Int, D!GET_SIZE(t, D!HDRP(b)) = h.size[b],
           NEW u, u = D!add_free_block(t, b)
    PROVE  /\ DGood(u) /\ u.brk = t.brk
           /\ LinksOnly(Mem(t), Mem(u), L \cup {b})
           /\ Shelved(u, h, L \cup {b})
<1> DEFINE c == Class(h.size[b])
           K == InClass(h, L, c)
           w == W!insert_node(Shelf(t, c), b)
<1>1. c \in D!Classes /\ b \in Int
  BY ClassIs, SpacedFacts
<1>2. u = D!AddFirst(t, b, c)
  BY DEF D!add_free_block, Class
<1>3. Alike(t, u, w, c)
  BY <1>1, <1>2, AddMem DEF DGood
<1>4. Spaced(K \cup {b}) /\ b \notin K /\ K \cup {b} \subseteq L \cup {b}
  BY DEF InClass, Spaced, Places
<1>5. Good(Shelf(t, c)) /\ Linked(Shelf(t, c), K)
  BY <1>1, ShelfFacts DEF Shelved
<1>6. InClass(h, L \cup {b}, c) = K \cup {b}
  BY DEF InClass
<1>7. OthersStay(h, L, L \cup {b}, c, K \cup {b})
  BY DEF OthersStay, InClass
<1> HIDE DEF c, K
<1>8. LinksOnly(Shelf(t, c), w, K \cup {b}) /\ Linked(w, K \cup {b})
  BY <1>4, <1>5, InsertLinked
<1> HIDE DEF w
<1>9. L \subseteq L \cup {b}
  OBVIOUS
<1> QED
  BY <1>1, <1>3, <1>4, <1>6, <1>7, <1>8, <1>9, OneList

\* A block leaves the list that it is on.
LEMMA RemoveShelved ==
    ASSUME NEW t, DGood(t), NEW h, NEW L, Shelved(t, h, L),
           NEW b \in L, Spaced(L),
           h.size[b] \in Int, D!GET_SIZE(t, D!HDRP(b)) = h.size[b],
           NEW u, u = D!remove_free_block(t, b)
    PROVE  /\ DGood(u) /\ u.brk = t.brk
           /\ LinksOnly(Mem(t), Mem(u), L)
           /\ Shelved(u, h, L \ {b})
<1> DEFINE c == Class(h.size[b])
           K == InClass(h, L, c)
           w == W!remove_node(Shelf(t, c), b)
<1>1. c \in D!Classes /\ b \in Int /\ b # NULL /\ b + WSIZE \in Int
  BY ClassIs, SpacedFacts
<1>2. u = D!LinkBack(D!LinkForward(t, c, D!PREV_FREE(t, b), D!NEXT_FREE(t, b)),
                     D!NEXT_FREE(t, b), D!PREV_FREE(t, b))
  BY DEF D!remove_free_block, Class
<1>3. D!NEXT_FREE(t, b) \in Int
  <2>1. D!NEXT_FREE(t, b) = W!GET(Mem(t), b + WSIZE)
    BY SameReads, LinkWords DEF Mem
  <2> QED
    BY <1>1, <2>1, GetInt DEF DGood
<1>4. Alike(t, u, w, c)
  BY <1>1, <1>2, <1>3, RemoveMem DEF DGood
<1>5. Spaced(K) /\ b \in K /\ K \subseteq L
  BY DEF InClass, Spaced, Places
<1>6. Good(Shelf(t, c)) /\ Linked(Shelf(t, c), K)
  BY <1>1, ShelfFacts DEF Shelved
<1>7. InClass(h, L \ {b}, c) = K \ {b}
  BY DEF InClass
<1>8. OthersStay(h, L, L \ {b}, c, K)
  BY DEF OthersStay, InClass
<1> HIDE DEF c, K
<1>9. LinksOnly(Shelf(t, c), w, K) /\ Linked(w, K \ {b})
  BY <1>5, <1>6, RemoveLinked
<1> HIDE DEF w
<1>10. Linked(w, InClass(h, L \ {b}, c)) /\ L \subseteq L
  BY <1>7, <1>9
<1> DEFINE N == L \ {b}
<1>11. Linked(w, InClass(h, N, c)) /\ OthersStay(h, L, N, c, K)
  BY <1>8, <1>10
<1> HIDE DEF N
<1>12. DGood(u) /\ u.brk = t.brk /\ LinksOnly(Mem(t), Mem(u), L) /\ Shelved(u, h, N)
  <2>1. /\ DGood(t) /\ Shelved(t, h, L) /\ Spaced(L) /\ L \subseteq L
        /\ c \in D!Classes /\ K \subseteq L /\ Alike(t, u, w, c)
        /\ LinksOnly(Shelf(t, c), w, K) /\ Linked(w, InClass(h, N, c))
        /\ OthersStay(h, L, N, c, K)
    BY <1>1, <1>4, <1>5, <1>9, <1>10, <1>11
  <2> QED
    BY ONLY <2>1, OneList
<1> QED
  BY <1>12 DEF N

-----------------------------------------------------------------------------
(* Words of a heap.                                                        *)

\* t is the words of h, with L on the lists.
Holding(t, h, L) ==
    /\ DGood(t) /\ t.brk = h.brk
    /\ Tags(Mem(t), h)
    /\ Shelved(t, h, L)
DShows(t, h) == Sound(h) /\ h.listed \cap h.used = {} /\ Holding(t, h, h.listed)

\* Between calls: the lists hold all that is free.
DMirrors(t, h) == WF(h) /\ DShows(t, h) /\ h.listed = Free(h)

\* What DS2 reads in the header of a block.
LEMMA DReadBlock ==
    ASSUME NEW h, Sound(h), NEW t, Tags(Mem(t), h), NEW b \in Blocks(h)
    PROVE  /\ D!GET_SIZE(t, D!HDRP(b)) = h.size[b]
           /\ D!GET_ALLOC(t, D!HDRP(b)) = Alloc(h, b)
           /\ D!NEXT_BLKP(t, b) = EndOf(h, b)
           /\ D!FTRP(t, b) = EndOf(h, b) - DSIZE
<1>1. Mem(t).mem = t.mem
  BY DEF Mem
<1>2. D!HDRP(b) = W!HDRP(b)
  BY SameOperators
<1> QED
  BY <1>1, <1>2, SameReads, ReadBlock

\* The alloc bits and sizes that coalesce reads around b.
DNeighbours(t, h, b) ==
    /\ D!NEXT_BLKP(t, b) = EndOf(h, b)
    /\ D!GET_ALLOC(t, D!HDRP(EndOf(h, b))) = 0 <=> EndOf(h, b) \in Free(h)
    /\ EndOf(h, b) \in Free(h) =>
          D!GET_SIZE(t, D!HDRP(EndOf(h, b))) = h.size[EndOf(h, b)]
    /\ EndOf(h, b) \notin Blocks(h) => D!GET_SIZE(t, D!HDRP(EndOf(h, b))) = 0
    /\ EndOf(h, b) \in Blocks(h) =>
          D!GET_SIZE(t, D!HDRP(EndOf(h, b))) = h.size[EndOf(h, b)]
    /\ D!GET_ALLOC(t, D!HDRP(D!PREV_BLKP(t, b))) = 0
          <=> \E p \in Free(h) : EndOf(h, p) = b
    /\ \A p \in Free(h) : EndOf(h, p) = b =>
          D!PREV_BLKP(t, b) = p /\ D!GET_SIZE(t, D!HDRP(p)) = h.size[p]

LEMMA DReadAround ==
    ASSUME NEW h, Sound(h), NEW t, Tags(Mem(t), h), NEW b \in Blocks(h)
    PROVE  DNeighbours(t, h, b)
<1> DEFINE n == EndOf(h, b)
<1>1. Mem(t).mem = t.mem
  BY DEF Mem
<1>2. /\ \A a : D!HDRP(a) = W!HDRP(a)
      /\ \A a : D!GET_SIZE(t, a) = W!GET_SIZE(Mem(t), a)
      /\ \A a : D!GET_ALLOC(t, a) = W!GET_ALLOC(Mem(t), a)
      /\ D!PREV_BLKP(t, b) = W!PREV_BLKP(Mem(t), b)
  BY <1>1, SameOperators, SameReads
<1>3. D!NEXT_BLKP(t, b) = n
  BY DReadBlock
<1>4. /\ D!GET_ALLOC(t, D!HDRP(n)) = 0 <=> n \in Free(h)
      /\ n \notin Blocks(h) => D!GET_SIZE(t, D!HDRP(n)) = 0
  BY <1>2, ReadNext
<1>5. \A x \in Blocks(h) : /\ D!GET_SIZE(t, D!HDRP(x)) = h.size[x]
                           /\ D!GET_ALLOC(t, D!HDRP(x)) = Alloc(h, x)
  BY DReadBlock
<1>6. /\ \A p \in Blocks(h) : EndOf(h, p) = b => D!PREV_BLKP(t, b) = p
      /\ (\A p \in Blocks(h) : EndOf(h, p) # b) =>
            D!GET_ALLOC(t, D!HDRP(D!PREV_BLKP(t, b))) = 1
  BY <1>2, ReadPrev
<1>7. \A p \in Blocks(h) : p \in Free(h) <=> Alloc(h, p) = 0
  BY DEF Alloc, Free
<1>8. D!GET_ALLOC(t, D!HDRP(D!PREV_BLKP(t, b))) = 0
         <=> \E p \in Free(h) : EndOf(h, p) = b
  <2>1. CASE \E p \in Blocks(h) : EndOf(h, p) = b
    <3>1. PICK p \in Blocks(h) : EndOf(h, p) = b
      BY <2>1
    <3>2. D!PREV_BLKP(t, b) = p
      BY <1>6, <3>1
    <3>3. D!GET_ALLOC(t, D!HDRP(D!PREV_BLKP(t, b))) = Alloc(h, p)
      BY <1>5, <3>2
    <3>4. \A q \in Free(h) : EndOf(h, q) = b => q = p
      BY <3>1, EndsDiffer DEF Free
    <3> QED
      BY <1>7, <3>1, <3>3, <3>4
  <2>2. CASE \A p \in Blocks(h) : EndOf(h, p) # b
    BY <1>6, <2>2 DEF Free
  <2> QED
    BY <2>1, <2>2
<1>9. Free(h) \subseteq Blocks(h)
  BY DEF Free
<1> QED
  BY <1>3, <1>4, <1>5, <1>6, <1>8, <1>9 DEF DNeighbours

\* Nothing of the words depends on what else h says.
LEMMA HoldingSame ==
    ASSUME NEW t, NEW h, NEW L, Holding(t, h, L),
           NEW g, g.size = h.size, g.used = h.used, g.brk = h.brk
    PROVE  Holding(t, g, L)
<1>1. Blocks(g) = Blocks(h) /\ \A b : EndOf(g, b) = EndOf(h, b) /\ Tag(g, b) = Tag(h, b)
  BY DEF Blocks, EndOf, Tag, Alloc
<1>2. Tags(Mem(t), g)
  BY <1>1 DEF Holding, Tags, Edges, Tagged
<1>3. Shelved(t, g, L)
  BY DEF Holding, Shelved, InClass
<1> QED
  BY <1>2, <1>3 DEF Holding

\* A block leaves its list.
LEMMA DRemoved ==
    ASSUME NEW h, Sound(h), NEW L, L \subseteq Free(h), NEW t, Holding(t, h, L),
           NEW b \in L, NEW u, u = D!remove_free_block(t, b)
    PROVE  Holding(u, h, L \ {b}) /\ Kept(Mem(t), Mem(u), h)
<1>1. L \subseteq Blocks(h) /\ L \cap h.used = {} /\ b \in Blocks(h)
  BY DEF Free
<1>2. Spaced(L)
  BY <1>1, BlocksSpaced
<1>3. D!GET_SIZE(t, D!HDRP(b)) = h.size[b] /\ h.size[b] \in Int
  BY <1>1, DReadBlock, BlockFacts DEF Holding
<1>4. DGood(t) /\ Shelved(t, h, L) /\ Tags(Mem(t), h)
  BY DEF Holding
<1>5. /\ DGood(u) /\ u.brk = t.brk
      /\ LinksOnly(Mem(t), Mem(u), L)
      /\ Shelved(u, h, L \ {b})
  BY <1>2, <1>3, <1>4, RemoveShelved
<1>6. Tags(Mem(u), h) /\ Kept(Mem(t), Mem(u), h)
  BY <1>1, <1>4, <1>5, LinksAside
<1> QED
  BY <1>5, <1>6 DEF Holding

\* A free block goes on its list.
LEMMA DAdded ==
    ASSUME NEW h, Sound(h), NEW L, L \subseteq Free(h), NEW t, Holding(t, h, L),
           NEW b \in Free(h), b \notin L, NEW u, u = D!add_free_block(t, b)
    PROVE  Holding(u, h, L \cup {b}) /\ Kept(Mem(t), Mem(u), h)
<1>1. /\ L \cup {b} \subseteq Blocks(h) /\ (L \cup {b}) \cap h.used = {}
      /\ b \in Blocks(h)
  BY DEF Free
<1>2. Spaced(L \cup {b})
  BY <1>1, BlocksSpaced
<1>3. D!GET_SIZE(t, D!HDRP(b)) = h.size[b] /\ h.size[b] \in Int
  BY <1>1, DReadBlock, BlockFacts DEF Holding
<1>4. DGood(t) /\ Shelved(t, h, L) /\ Tags(Mem(t), h)
  BY DEF Holding
<1>5. /\ DGood(u) /\ u.brk = t.brk
      /\ LinksOnly(Mem(t), Mem(u), L \cup {b})
      /\ Shelved(u, h, L \cup {b})
  BY <1>2, <1>3, <1>4, AddShelved
<1>6. Tags(Mem(u), h) /\ Kept(Mem(t), Mem(u), h)
  BY <1>1, <1>4, <1>5, LinksAside
<1> QED
  BY <1>5, <1>6 DEF Holding

\* The tags of one block complete those of the heap.
LEMMA DRetag ==
    ASSUME NEW g, Sound(g), NEW q \in Blocks(g), NEW t, DGood(t), t.brk = g.brk,
           Edges(Mem(t), g), \A x \in Blocks(g) \ {q} : Tagged(Mem(t), g, x),
           NEW L, L \subseteq Blocks(g), Shelved(t, g, L),
           NEW u, u = D!SetTags(t, q, g.size[q], Alloc(g, q))
    PROVE  Holding(u, g, L) /\ Kept(Mem(t), Mem(u), g)
<1>1. Form(u) /\ u.lists = t.lists
  BY SetTagsMem DEF DGood
<1>2. Mem(u) = W!SetTags(Mem(t), q, g.size[q], Alloc(g, q))
  BY SetTagsMem DEF DGood
<1>3. Good(Mem(t))
  BY DEF DGood
<1>4. /\ Good(Mem(u))
      /\ Mem(u).brk = Mem(t).brk
      /\ Tags(Mem(u), g)
      /\ Kept(Mem(t), Mem(u), g)
      /\ \A x \in Blocks(g) : /\ W!GET(Mem(u), x) = W!GET(Mem(t), x)
                              /\ W!GET(Mem(u), x + WSIZE) = W!GET(Mem(t), x + WSIZE)
  BY <1>2, <1>3, Retag
<1>5. Shelved(u, g, L)
  BY <1>1, <1>4, ShelvedSame
<1>6. u.brk = g.brk
  BY <1>4 DEF Mem
<1> QED
  BY <1>1, <1>4, <1>5, <1>6 DEF Holding, DGood

-----------------------------------------------------------------------------
(* coalesce.                                                               *)

\* What is merged goes to the list of its size.
LEMMA DJoined ==
    ASSUME NEW h, Sound(h), h.listed \cap h.used = {},
           NEW g, NEW q, NEW size, NEW gone, Coalesced(h, g, q, size, gone),
           NEW t, Holding(t, h, h.listed \ gone), q \notin h.listed \ gone,
           NEW u, u = D!add_free_block(D!SetTags(t, q, size, 0), q),
           NEW k, k = insert_node(g, q)
    PROVE  DShows(u, k) /\ Kept(Mem(t), Mem(u), h)
<1> DEFINE L == h.listed \ gone
           v == D!SetTags(t, q, size, 0)
<1>1. /\ Sound(g) /\ g.used = h.used /\ g.brk = h.brk /\ Blocks(g) \subseteq Blocks(h)
      /\ q \in Blocks(g) /\ q \notin g.used /\ g.size[q] = size /\ g.listed = L
      /\ \A x \in Blocks(g) : x # q => g.size[x] = h.size[x]
  BY DEF Coalesced
<1>2. L \subseteq Blocks(g) /\ L \subseteq Free(g) /\ q \in Free(g)
  <2>1. g.listed \subseteq Blocks(g)
    BY <1>1 DEF Sound, HeapType
  <2> QED
    BY <1>1, <2>1 DEF Free
<1>3. Alloc(g, q) = 0
  BY <1>1 DEF Alloc
<1>4. /\ DGood(t) /\ t.brk = g.brk /\ Edges(Mem(t), g) /\ Shelved(t, h, L)
      /\ \A x \in Blocks(h) : Tagged(Mem(t), h, x)
  BY <1>1 DEF Holding, Tags, Edges
<1>5. \A x \in Blocks(g) \ {q} : Tagged(Mem(t), g, x)
  BY <1>1, <1>4 DEF Tagged, Tag, Alloc, EndOf
<1>6. Shelved(t, g, L)
  <2>1. \A x \in L : g.size[x] = h.size[x]
    BY <1>1, <1>2
  <2>2. t.lists = t.lists
    OBVIOUS
  <2> QED
    BY <1>4, <2>1, <2>2, ShelvedSame
<1>7. v = D!SetTags(t, q, g.size[q], Alloc(g, q))
  BY <1>1, <1>3
<1> HIDE DEF v, L
<1>8. Holding(v, g, L) /\ Kept(Mem(t), Mem(v), g)
  BY <1>1, <1>2, <1>4, <1>5, <1>6, <1>7, DRetag
<1>9. u = D!add_free_block(v, q)
  BY DEF v
<1>10. q \notin L
  BY DEF L
<1>11. Holding(u, g, L \cup {q}) /\ Kept(Mem(v), Mem(u), g)
  BY <1>1, <1>2, <1>8, <1>9, <1>10, DAdded
<1>12. Kept(Mem(t), Mem(u), h)
  <2>1. Kept(Mem(t), Mem(u), g)
    BY <1>8, <1>11, KeptTrans
  <2>2. \A x \in h.used : x \in g.used /\ g.size[x] = h.size[x]
    BY <1>1 DEF Sound, HeapType
  <2> QED
    BY <2>1, <2>2 DEF Kept, EndOf
<1>13. /\ k.size = g.size /\ k.used = g.used /\ k.brk = g.brk
       /\ k.listed = L \cup {q} /\ Sound(k)
  <2>1. L \cup {q} \subseteq Blocks(g) /\ g.used \subseteq Blocks(g)
    BY <1>1, <1>2 DEF Sound, HeapType
  <2> DEFINE M == L \cup {q}
  <2>2. k = Heap(g.size, g.used, M, g.brk) /\ M \subseteq Blocks(g)
    BY <1>1, <2>1 DEF insert_node
  <2> HIDE DEF M
  <2>3. Sound(g) /\ g.used \subseteq Blocks(g)
    BY <1>1, <2>1
  <2>4. Sound(k) /\ k.size = g.size /\ k.used = g.used /\ k.listed = M /\ k.brk = g.brk
    <3>1. Relabeled(g, Heap(g.size, g.used, M, g.brk), g.used, M)
      BY ONLY <2>2, <2>3, RelabelHeap
    <3>2. Relabeled(g, k, g.used, M)
      BY ONLY <2>2, <3>1
    <3> QED
      BY ONLY <3>2 DEF Relabeled
  <2> QED
    BY <2>4 DEF M
<1>14. Holding(u, k, k.listed)
  BY <1>11, <1>13, HoldingSame
<1>15. k.listed \cap k.used = {}
  BY <1>1, <1>2, <1>13 DEF Free
<1> QED
  BY <1>12, <1>13, <1>14, <1>15 DEF DShows

\* The neighbours that coalesce merges leave their lists.
LEMMA DWithout ==
    ASSUME NEW h, Sound(h), NEW L, L \subseteq Free(h), NEW t, Holding(t, h, L),
           NEW b, NEW is_free \in BOOLEAN, is_free => b \in L,
           NEW u, u = D!Without(t, b, is_free), NEW M, M = IF is_free THEN L \ {b} ELSE L
    PROVE  Holding(u, h, M) /\ Kept(Mem(t), Mem(u), h)
<1>1. CASE is_free
  <2>1. u = D!remove_free_block(t, b) /\ M = L \ {b} /\ b \in L
    BY <1>1 DEF D!Without
  <2> QED
    BY <2>1, DRemoved
<1>2. CASE ~is_free
  BY <1>2 DEF D!Without, Kept
<1> QED
  BY <1>1, <1>2

\* coalesce of mm-ds2.c does to the words what coalesce of mm.c and insert_node
\* do to the blocks.
LEMMA DCoalesceWords ==
    ASSUME NEW h, NEW t, DShows(t, h), NEW b \in Free(h), h.listed = Free(h) \ {b},
           NEW r, r = D!coalesce(t, b), NEW c, c = coalesce(h, b)
    PROVE  /\ r.p = c.p
           /\ DShows(r.s, insert_node(c.h, c.p))
           /\ Kept(Mem(t), Mem(r.s), h)
<1> DEFINE n == EndOf(h, b)
           prev == D!PREV_BLKP(t, b)
           pf == D!GET_ALLOC(t, D!HDRP(prev)) = 0
           nf == D!GET_ALLOC(t, D!HDRP(n)) = 0
           at == IF pf THEN prev ELSE b
           size == D!GET_SIZE(t, D!HDRP(b))
                     + (IF pf THEN D!GET_SIZE(t, D!HDRP(prev)) ELSE 0)
                     + (IF nf THEN D!GET_SIZE(t, D!HDRP(n)) ELSE 0)
           u1 == D!Without(t, prev, pf)
           u2 == D!Without(u1, n, nf)
           L1 == IF pf THEN h.listed \ {prev} ELSE h.listed
           L2 == IF nf THEN L1 \ {n} ELSE L1
           gone == (IF pf THEN {prev} ELSE {}) \cup (IF nf THEN {n} ELSE {})
<1>1. /\ Sound(h) /\ h.listed \cap h.used = {} /\ Holding(t, h, h.listed)
      /\ Tags(Mem(t), h) /\ b \in Blocks(h) /\ b \notin h.listed /\ b \notin h.used
  BY DEF DShows, Holding, Free
<1>2. DNeighbours(t, h, b) /\ D!GET_SIZE(t, D!HDRP(b)) = h.size[b]
  BY <1>1, DReadAround, DReadBlock
<1>3. r = [s |-> D!add_free_block(D!SetTags(u2, at, size, 0), at), p |-> at]
  <2>1. D!NEXT_BLKP(t, b) = n
    BY <1>2 DEF DNeighbours
  <2> QED
    BY <2>1 DEF D!coalesce
<1>4. nf <=> n \in Free(h)
  BY <1>2 DEF DNeighbours
<1>5. pf <=> \E p \in Free(h) : EndOf(h, p) = b
  BY <1>2 DEF DNeighbours
<1>6. n # b /\ h.listed \subseteq Free(h)
  BY <1>1, BlockFacts DEF Free
<1>7. pf => /\ prev \in Free(h) /\ EndOf(h, prev) = b
            /\ D!GET_SIZE(t, D!HDRP(prev)) = h.size[prev] /\ prev # b /\ prev # n
            /\ h.size[prev] \in Nat
  <2> SUFFICES ASSUME pf
               PROVE  /\ prev \in Free(h) /\ EndOf(h, prev) = b
                      /\ D!GET_SIZE(t, D!HDRP(prev)) = h.size[prev] /\ prev # b /\ prev # n
                      /\ h.size[prev] \in Nat
    OBVIOUS
  <2>1. PICK p \in Free(h) : EndOf(h, p) = b
    BY <1>5
  <2>2. prev = p /\ D!GET_SIZE(t, D!HDRP(p)) = h.size[p]
    BY <1>2, <2>1 DEF DNeighbours
  <2>3. p \in Blocks(h)
    BY DEF Free
  <2>4. p < b /\ b < n /\ p \in Nat /\ b \in Nat /\ n \in Nat /\ h.size[p] \in Nat
    BY <1>1, <2>1, <2>3, BlockFacts
  <2> HIDE DEF prev, n
  <2> QED
    BY <2>1, <2>2, <2>4
<1>8. nf => D!GET_SIZE(t, D!HDRP(n)) = h.size[n] /\ h.size[n] \in Nat /\ n \in Free(h)
  <2>1. n \in Free(h) => h.size[n] \in Nat
    BY <1>1, BlockFacts DEF Free
  <2> QED
    BY <1>2, <1>4, <2>1 DEF DNeighbours
<1>9. h.size[b] \in Nat
  BY <1>1, BlockFacts
<1>10. pf \in BOOLEAN /\ nf \in BOOLEAN
  OBVIOUS
<1> HIDE DEF prev, pf, nf, n
<1>11. Holding(u1, h, L1) /\ Kept(Mem(t), Mem(u1), h) /\ L1 \subseteq Free(h)
  <2>1. pf => prev \in h.listed
    BY <1>7
  <2>2. L1 \subseteq Free(h)
    BY <1>6
  <2> DEFINE M == L1  w == u1
  <2>3. M = (IF pf THEN h.listed \ {prev} ELSE h.listed) /\ w = D!Without(t, prev, pf)
    OBVIOUS
  <2> HIDE DEF M, w
  <2>4. Holding(w, h, M) /\ Kept(Mem(t), Mem(w), h)
    BY <1>1, <1>6, <1>10, <2>1, <2>3, DWithout
  <2> QED
    BY <2>2, <2>4 DEF M, w
<1> HIDE DEF u1
<1>12. Holding(u2, h, L2) /\ Kept(Mem(u1), Mem(u2), h)
  <2>1. nf => n \in L1
    BY <1>6, <1>7, <1>8
  <2> DEFINE M == L1  N == L2  w == u2
  <2>2. N = (IF nf THEN M \ {n} ELSE M) /\ w = D!Without(u1, n, nf)
    OBVIOUS
  <2>3. Holding(u1, h, M) /\ M \subseteq Free(h) /\ (nf => n \in M)
    BY <1>11, <2>1
  <2> HIDE DEF M, N, w
  <2>4. Holding(w, h, N) /\ Kept(Mem(u1), Mem(w), h)
    BY <1>1, <1>10, <2>2, <2>3, DWithout
  <2> QED
    BY <2>4 DEF N, w
<1>13. L2 = h.listed \ gone
  OBVIOUS
<1>14. c.p = at /\ Coalesced(h, c.h, at, size, gone)
  <2>1. /\ (\A p \in Free(h) : EndOf(h, p) # b) =>
             /\ c.p = b
             /\ n \notin Free(h) => Coalesced(h, c.h, b, h.size[b], {})
             /\ n \in Free(h) => Coalesced(h, c.h, b, h.size[b] + h.size[n], {n})
        /\ \A p \in Free(h) : EndOf(h, p) = b =>
             /\ c.p = p /\ p # b /\ p # n
             /\ n \notin Free(h) => Coalesced(h, c.h, p, h.size[p] + h.size[b], {p})
             /\ n \in Free(h) =>
                   Coalesced(h, c.h, p, h.size[p] + (h.size[b] + h.size[n]), {p, n})
    BY <1>1, CoalesceShape DEF n
  <2>2. CASE pf /\ nf
    <3>1. c.p = prev /\ Coalesced(h, c.h, prev, h.size[prev] + (h.size[b] + h.size[n]), {prev, n})
      BY <1>4, <1>7, <2>1, <2>2
    <3>2. size = h.size[prev] + (h.size[b] + h.size[n])
      BY <1>2, <1>7, <1>8, <1>9, <2>2
    <3>3. gone = {prev, n} /\ at = prev
      BY <2>2
    <3> QED
      BY <3>1, <3>2, <3>3
  <2>3. CASE pf /\ ~nf
    <3>1. c.p = prev /\ Coalesced(h, c.h, prev, h.size[prev] + h.size[b], {prev})
      BY <1>4, <1>7, <2>1, <2>3
    <3>2. size = h.size[prev] + h.size[b]
      BY <1>2, <1>7, <1>9, <2>3
    <3>3. gone = {prev} /\ at = prev
      BY <2>3
    <3> QED
      BY <3>1, <3>2, <3>3
  <2>4. CASE ~pf /\ nf
    <3>1. c.p = b /\ Coalesced(h, c.h, b, h.size[b] + h.size[n], {n})
      BY <1>4, <1>5, <2>1, <2>4
    <3>2. size = h.size[b] + h.size[n]
      BY <1>2, <1>8, <1>9, <2>4
    <3>3. gone = {n} /\ at = b
      BY <2>4
    <3> QED
      BY <3>1, <3>2, <3>3
  <2>5. CASE ~pf /\ ~nf
    <3>1. c.p = b /\ Coalesced(h, c.h, b, h.size[b], {})
      BY <1>4, <1>5, <2>1, <2>5
    <3>2. size = h.size[b]
      BY <1>2, <1>9, <2>5
    <3>3. gone = {} /\ at = b
      BY <2>5
    <3> QED
      BY <3>1, <3>2, <3>3
  <2> QED
    BY <1>10, <2>2, <2>3, <2>4, <2>5
<1>15. at \notin h.listed \ gone
  BY <1>1
<1>16. Holding(u2, h, h.listed \ gone)
  BY <1>12, <1>13
<1> HIDE DEF u2, at, size, gone
<1>17. r.s = D!add_free_block(D!SetTags(u2, at, size, 0), at) /\ r.p = at
  BY <1>3
<1>18. DShows(r.s, insert_node(c.h, at)) /\ Kept(Mem(u2), Mem(r.s), h)
  BY <1>1, <1>14, <1>15, <1>16, <1>17, DJoined
<1>19. Kept(Mem(t), Mem(r.s), h)
  BY <1>11, <1>12, <1>18, KeptTrans
<1> QED
  BY <1>14, <1>17, <1>18, <1>19

-----------------------------------------------------------------------------
(* Making a free block, and cutting one off.                               *)

\* The blocks after MakeFree.
Settled(k, b) == LET c == coalesce(k, b) IN insert_node(c.h, c.p)

LEMMA SettledDone ==
    ASSUME NEW k, NEW b, Pending(k, b), NEW g, g = Settled(k, b)
    PROVE  /\ WF(g) /\ g.listed = Free(g) /\ SameUsed(k, g) /\ g.brk = k.brk
           /\ g.used \subseteq Blocks(g)
<1> DEFINE c == coalesce(k, b)
<1>1. Ready(c.h, c.p) /\ SameUsed(k, c.h) /\ c.h.brk = k.brk
  BY CoalesceReady
<1>2. g = insert_node(c.h, c.p)
  BY DEF Settled
<1> HIDE DEF c
<1>3. WF(g) /\ g.listed = Free(g) /\ SameUsed(c.h, g) /\ g.brk = c.h.brk
  BY <1>1, <1>2, InsertDone
<1>4. SameUsed(k, g)
  BY <1>1, <1>3 DEF SameUsed
<1> QED
  BY <1>1, <1>3, <1>4 DEF WF, Sound, HeapType

\* t is the words of k but for the tags of the block b.
DOpen(t, k, b) ==
    /\ Sound(k) /\ b \in Blocks(k)
    /\ DGood(t) /\ t.brk = k.brk
    /\ Edges(Mem(t), k)
    /\ \A x \in Blocks(k) \ {b} : Tagged(Mem(t), k, x)
    /\ Shelved(t, k, k.listed)

\* The block b is made free: it gets its tags, and is merged and listed.
LEMMA DMadeFree ==
    ASSUME NEW t, NEW k, NEW b, DOpen(t, k, b), Pending(k, b), k.listed = Free(k) \ {b},
           NEW u, u = D!MakeFree(t, b, k.size[b])
    PROVE  DMirrors(u, Settled(k, b)) /\ Kept(Mem(t), Mem(u), k)
<1> DEFINE v == D!SetTags(t, b, k.size[b], 0)
           g == Settled(k, b)
<1>1. b \in Free(k) /\ b \in Blocks(k) /\ Alloc(k, b) = 0 /\ k.listed \subseteq Blocks(k)
  BY DEF Pending, Free, Alloc
<1>2. Holding(v, k, k.listed) /\ Kept(Mem(t), Mem(v), k)
  <2> DEFINE L == k.listed  w == v
  <2>1. w = D!SetTags(t, b, k.size[b], Alloc(k, b)) /\ L \subseteq Blocks(k) /\ Shelved(t, k, L)
    BY <1>1 DEF DOpen
  <2>2. /\ Sound(k) /\ DGood(t) /\ t.brk = k.brk /\ Edges(Mem(t), k)
        /\ \A x \in Blocks(k) \ {b} : Tagged(Mem(t), k, x)
    BY DEF DOpen
  <2> HIDE DEF L, w
  <2>3. Holding(w, k, L) /\ Kept(Mem(t), Mem(w), k)
    BY <1>1, <2>1, <2>2, DRetag
  <2> QED
    BY <2>3 DEF L, w
<1>3. u = D!coalesce(v, b).s
  BY DEF D!MakeFree
<1> HIDE DEF v
<1>4. DShows(v, k)
  BY <1>2 DEF DShows, DOpen, Free
<1>5. DShows(D!coalesce(v, b).s, g) /\ Kept(Mem(v), Mem(D!coalesce(v, b).s), k)
  BY <1>1, <1>4, DCoalesceWords DEF Settled
<1>6. WF(g) /\ g.listed = Free(g)
  BY SettledDone
<1> HIDE DEF g
<1>7. DMirrors(u, g)
  BY <1>3, <1>5, <1>6 DEF DMirrors
<1>8. Kept(Mem(t), Mem(u), k)
  BY <1>2, <1>3, <1>5, KeptTrans
<1> QED
  BY <1>7, <1>8 DEF g

LEMMA DSizes ==
    /\ WSIZE = 4 /\ DSIZE = 8 /\ D!MIN_BLOCK = 16 /\ MIN_BLOCK_SIZE = 16
BY SegAssumption, MinBlockSize DEF D!MIN_BLOCK

\* g is k with at least a bytes of the block p, and a free block of the rest.
Trimmed(k, g, p, a) ==
    /\ WF(g) /\ p \in Blocks(g)
    /\ g.used = k.used
    /\ \A x \in k.used : x # p => g.size[x] = k.size[x]
    /\ g.size[p] >= a

\* What is left of the block p after its first a bytes is a block, and pending.
LEMMA SplitPending ==
    ASSUME NEW k, Sound(k), NoNeighbours(k), k.listed = Free(k), NEW p \in k.used,
           NEW a \in Nat, a % 8 = 0, a >= MIN_BLOCK_SIZE,
           k.size[p] - a >= MIN_BLOCK_SIZE,
           NEW g, g = Split(k, p, a)
    PROVE  /\ Pending(g, p + a)
           /\ g.listed = Free(g) \ {p + a}
           /\ g.listed = k.listed /\ Free(g) = Free(k) \cup {p + a}
<1>1. p \in Blocks(k) /\ k.used \subseteq Blocks(k)
  BY DEF Sound, HeapType
<1> DEFINE r == p + a
<1>2. /\ Sound(g)
      /\ r \notin Blocks(k)
      /\ Blocks(g) = Blocks(k) \cup {r}
      /\ g.used = k.used /\ g.listed = k.listed
      /\ \A x \in Blocks(k) : x # p => EndOf(g, x) = EndOf(k, x)
  BY <1>1, SplitSound
<1> HIDE DEF r
<1>3. Free(g) = Free(k) \cup {r} /\ r \notin Free(k) /\ r \in Free(g)
  BY <1>1, <1>2 DEF Free
<1>4. g.listed = Free(g) \ {r}
  BY <1>2, <1>3
<1>5. ASSUME NEW x \in Free(g), EndOf(g, x) \in Free(g), x # r, EndOf(g, x) # r PROVE FALSE
  <2>1. x \in Free(k) /\ x \in Blocks(k) /\ x # p
    BY <1>3, <1>5 DEF Free
  <2>2. EndOf(k, x) \in Free(k)
    BY <1>2, <1>3, <1>5, <2>1
  <2> QED
    BY <2>1, <2>2 DEF NoNeighbours
<1>6. Pending(g, r)
  BY <1>2, <1>3, <1>4, <1>5 DEF Pending
<1> QED
  BY <1>2, <1>3, <1>4, <1>6 DEF r

\* Cut, on an allocated block whose tags may be wrong.
LEMMA DCutWords ==
    ASSUME NEW t, NEW k, NEW p, DOpen(t, k, p), NoNeighbours(k), k.listed = Free(k),
           p \in k.used,
           NEW a \in Nat, a % 8 = 0, a >= MIN_BLOCK_SIZE, k.size[p] >= a,
           NEW u, u = D!Cut(t, p, a, k.size[p])
    PROVE  \E g : DMirrors(u, g) /\ Trimmed(k, g, p, a) /\ Kept(Mem(t), Mem(u), g)
<1>1. /\ Sound(k) /\ p \in Blocks(k) /\ DGood(t) /\ t.brk = k.brk /\ Edges(Mem(t), k)
      /\ \A x \in Blocks(k) \ {p} : Tagged(Mem(t), k, x)
      /\ Shelved(t, k, k.listed)
      /\ k.listed \subseteq Blocks(k) /\ k.used \subseteq Blocks(k) /\ Alloc(k, p) = 1
  BY DEF DOpen, Free, Sound, HeapType, Alloc
<1>2. k.size[p] \in Nat /\ p \in Nat
  BY <1>1, BlockFacts
<1>3. CASE k.size[p] - a >= 16
  <2> DEFINE h == Split(k, p, a)
             r == p + a
             v == D!SetTags(t, p, a, 1)
             g == Settled(h, r)
  <2>1. u = D!MakeFree(v, r, k.size[p] - a)
    BY <1>3, DSizes DEF D!Cut
  <2>2. /\ Sound(h)
        /\ r \notin Blocks(k)
        /\ Blocks(h) = Blocks(k) \cup {r}
        /\ h.used = k.used /\ h.listed = k.listed /\ h.brk = k.brk
        /\ \A x \in Blocks(k) :
              x # p => h.size[x] = k.size[x] /\ EndOf(h, x) = EndOf(k, x)
        /\ h.size[p] = a /\ EndOf(h, p) = p + a
        /\ EndOf(h, p + a) = EndOf(k, p)
    BY <1>1, <1>3, DSizes, SplitSound
  <2>3. Pending(h, r) /\ h.listed = Free(h) \ {r}
    BY <1>1, <1>3, DSizes, SplitPending
  <2>4. h.size[r] = k.size[p] - a
    <3>1. h.size = [x \in Blocks(k) \cup {p + a} |->
                      IF x = p THEN a ELSE IF x = p + a THEN k.size[p] - a ELSE k.size[x]]
      BY DEF Split, Heap
    <3>2. p # p + a
      BY <1>2, DSizes
    <3> QED
      BY <3>1, <3>2
  <2>5. Alloc(h, p) = 1 /\ p \in Blocks(h)
    BY <1>1, <2>2 DEF Alloc
  <2> HIDE DEF h, r
  <2>6. Form(v) /\ v.lists = t.lists /\ Mem(v) = W!SetTags(Mem(t), p, h.size[p], Alloc(h, p))
    BY <1>1, <2>2, <2>5, SetTagsMem DEF DGood
  <2> HIDE DEF v
  <2>7. TagsOf(Mem(t), Mem(v), h, p)
    <3>1. Good(Mem(t))
      BY <1>1 DEF DGood
    <3> QED
      BY <2>2, <2>5, <2>6, <3>1, TagBlock
  <2>8. \A x \in Blocks(h) \ {r, p} : Tagged(Mem(t), h, x)
    BY <1>1, <2>2 DEF Tagged, Tag, Alloc
  <2>9. \A x \in Blocks(h) \ {r} : Tagged(Mem(v), h, x)
    BY <2>7, <2>8 DEF TagsOf
  <2>10. Edges(Mem(v), h)
    BY <1>1, <2>2, <2>7 DEF TagsOf, Edges
  <2>11. Shelved(v, h, h.listed)
    <3> DEFINE L == k.listed
    <3>1. \A x \in L : h.size[x] = k.size[x]
      BY <1>1, <2>2 DEF Free
    <3>2. \A x \in L : /\ W!GET(Mem(v), x) = W!GET(Mem(t), x)
                       /\ W!GET(Mem(v), x + WSIZE) = W!GET(Mem(t), x + WSIZE)
      BY <1>1, <2>2, <2>7 DEF TagsOf
    <3>3. Shelved(t, k, L) /\ v.lists = t.lists
      BY <1>1, <2>6
    <3> HIDE DEF L
    <3>4. Shelved(v, h, L)
      BY <3>1, <3>2, <3>3, ShelvedSame
    <3> QED
      BY <2>2, <3>4 DEF L
  <2>12. DGood(v) /\ v.brk = h.brk
    BY <1>1, <2>2, <2>6, <2>7 DEF TagsOf, DGood, Mem
  <2>13. DOpen(v, h, r)
    BY <2>2, <2>9, <2>10, <2>11, <2>12 DEF DOpen
  <2>14. DMirrors(u, g) /\ Kept(Mem(v), Mem(u), h)
    BY <2>1, <2>3, <2>4, <2>13, DMadeFree
  <2>15. WF(g) /\ SameUsed(h, g) /\ g.used \subseteq Blocks(g)
    BY <2>3, SettledDone
  <2> HIDE DEF g
  <2>16. Trimmed(k, g, p, a)
    <3>1. g.used = k.used /\ g.size[p] = a /\ \A x \in k.used : x # p => g.size[x] = k.size[x]
      BY <1>1, <2>2, <2>15 DEF SameUsed
    <3> QED
      BY <2>15, <3>1 DEF Trimmed
  <2>17. Kept(Mem(t), Mem(u), h)
    BY <2>7, <2>14, KeptTrans DEF TagsOf
  <2>18. Kept(Mem(t), Mem(u), g)
    BY <2>15, <2>17, KeptIn DEF SameUsed
  <2> QED
    BY <2>14, <2>16, <2>18
<1>4. CASE k.size[p] - a < 16
  <2>1. u = D!SetTags(t, p, k.size[p], Alloc(k, p))
    BY <1>1, <1>2, <1>4, DSizes DEF D!Cut
  <2> DEFINE L == k.listed
  <2>2. L \subseteq Blocks(k) /\ Shelved(t, k, L)
    BY <1>1
  <2> HIDE DEF L
  <2>3. Holding(u, k, L) /\ Kept(Mem(t), Mem(u), k)
    BY <1>1, <2>1, <2>2, DRetag
  <2>4. WF(k) /\ k.listed \cap k.used = {}
    BY <1>1 DEF WF, ListExact, Free
  <2>5. DMirrors(u, k)
    BY <1>1, <2>3, <2>4 DEF DMirrors, DShows, L
  <2>6. Trimmed(k, k, p, a)
    BY <1>1, <2>4 DEF Trimmed
  <2> QED
    BY <2>3, <2>5, <2>6
<1> QED
  BY <1>2, <1>3, <1>4

-----------------------------------------------------------------------------
(* The calls.                                                              *)

\* h with other alloc bits and another list, for the words.
LEMMA DRelabeled ==
    ASSUME NEW h, Sound(h), NEW U, U \subseteq Blocks(h), NEW L, L \subseteq Blocks(h),
           NEW k, k = Heap(h.size, U, L, h.brk),
           NEW t, Holding(t, h, L), NEW b \in Blocks(h),
           \A x \in Blocks(h) : x # b => (x \in U <=> x \in h.used)
    PROVE  DOpen(t, k, b) /\ Relabeled(h, k, U, L)
<1>1. Relabeled(h, k, U, L)
  BY RelabelHeap
<1>2. /\ Sound(k) /\ Blocks(k) = Blocks(h) /\ k.size = h.size /\ k.used = U
      /\ k.listed = L /\ k.brk = h.brk /\ \A x : EndOf(k, x) = EndOf(h, x)
  BY <1>1 DEF Relabeled
<1>3. \A x \in Blocks(k) \ {b} : Tagged(Mem(t), k, x)
  BY <1>2 DEF Holding, Tags, Tagged, Tag, Alloc
<1>4. Edges(Mem(t), k) /\ DGood(t) /\ t.brk = k.brk
  BY <1>2 DEF Holding, Tags, Edges
<1>5. Shelved(t, k, L)
  BY <1>2 DEF Holding, Shelved, InClass
<1> QED
  BY <1>1, <1>2, <1>3, <1>4, <1>5 DEF DOpen

LEMMA DMirrorsFacts ==
    ASSUME NEW t, NEW h, DMirrors(t, h)
    PROVE  /\ WF(h) /\ Sound(h) /\ NoNeighbours(h) /\ h.listed = Free(h)
           /\ Holding(t, h, h.listed) /\ DGood(t) /\ t.brk = h.brk /\ Tags(Mem(t), h)
           /\ h.used \subseteq Blocks(h) /\ Free(h) \subseteq Blocks(h)
           /\ Free(h) \cap h.used = {}
BY DEF DMirrors, DShows, Holding, WF, Sound, HeapType, Free

LEMMA DFreeWords ==
    ASSUME NEW h, NEW t, DMirrors(t, h), NEW b \in h.used,
           NEW u, u = D!mm_free(t, b)
    PROVE  DMirrors(u, mm_free(h, b)) /\ Kept(Mem(t), Mem(u), mm_free(h, b))
<1> DEFINE k == SetFree(h, b)
           g == mm_free(h, b)
<1>1. /\ WF(h) /\ Sound(h) /\ NoNeighbours(h) /\ h.listed = Free(h)
      /\ Holding(t, h, h.listed) /\ Tags(Mem(t), h)
      /\ h.used \subseteq Blocks(h) /\ Free(h) \subseteq Blocks(h) /\ b \in Blocks(h)
  BY DMirrorsFacts
<1>2. k = Heap(h.size, h.used \ {b}, h.listed, h.brk)
  BY DEF SetFree
<1> HIDE DEF k
<1>3. DOpen(t, k, b) /\ Relabeled(h, k, h.used \ {b}, h.listed)
  <2> DEFINE U == h.used \ {b}  L == h.listed
  <2>1. /\ U \subseteq Blocks(h) /\ L \subseteq Blocks(h) /\ k = Heap(h.size, U, L, h.brk)
        /\ Holding(t, h, L) /\ \A x \in Blocks(h) : x # b => (x \in U <=> x \in h.used)
    BY <1>1, <1>2
  <2> HIDE DEF U, L
  <2>2. DOpen(t, k, b) /\ Relabeled(h, k, U, L)
    BY <1>1, <2>1, DRelabeled
  <2> QED
    BY <2>2 DEF U, L
<1>4. /\ Sound(k) /\ Blocks(k) = Blocks(h) /\ k.size = h.size /\ k.used = h.used \ {b}
      /\ k.listed = h.listed /\ \A x : EndOf(k, x) = EndOf(h, x)
  BY <1>3 DEF Relabeled
<1>5. Free(k) = Free(h) \cup {b} /\ b \notin Free(h)
  BY <1>1, <1>4 DEF Free
<1>6. k.listed = Free(k) \ {b}
  BY <1>1, <1>4, <1>5
<1>7. Pending(k, b)
  <2>1. \A x \in Free(k) : EndOf(k, x) \in Free(k) => x = b \/ EndOf(k, x) = b
    BY <1>1, <1>4, <1>5 DEF NoNeighbours
  <2> QED
    BY <1>4, <1>5, <1>6, <2>1 DEF Pending
<1>8. u = D!MakeFree(t, b, k.size[b])
  <2>1. D!GET_SIZE(t, D!HDRP(b)) = h.size[b] /\ b # D!NULL
    BY <1>1, DReadBlock, BlockNotNull, SameDefs
  <2> QED
    BY <1>4, <2>1 DEF D!mm_free
<1>9. DMirrors(u, Settled(k, b)) /\ Kept(Mem(t), Mem(u), k)
  BY <1>3, <1>6, <1>7, <1>8, DMadeFree
<1>10. g = Settled(k, b)
  BY DEF mm_free, Settled, k
<1>11. g.used = k.used /\ \A x \in g.used : g.size[x] = k.size[x]
  BY <1>1, <1>4, FreeDone
<1> HIDE DEF g
<1>12. Kept(Mem(t), Mem(u), g)
  BY <1>9, <1>11, KeptIn
<1> QED
  BY <1>9, <1>10, <1>12 DEF g

\* place serves a request from a free block.
LEMMA DPlaceWords ==
    ASSUME NEW h, NEW t, DMirrors(t, h), NEW b \in Free(h),
           NEW n \in Nat, NEW a \in Nat, a % 8 = 0, a >= MIN_BLOCK_SIZE, a >= n + DSIZE,
           h.size[b] >= a,
           NEW u, u = D!place(t, b, a)
    PROVE  \E g : DMirrors(u, g) /\ Served(h, g, b, n) /\ Kept(Mem(t), Mem(u), h)
<1>1. /\ WF(h) /\ Sound(h) /\ NoNeighbours(h) /\ h.listed = Free(h)
      /\ Holding(t, h, h.listed) /\ Tags(Mem(t), h)
      /\ h.used \subseteq Blocks(h) /\ Free(h) \subseteq Blocks(h) /\ b \in Blocks(h)
      /\ b \notin h.used
  BY DMirrorsFacts
<1> DEFINE U == h.used \cup {b}
           L == h.listed \ {b}
           k == Heap(h.size, U, L, h.brk)
           v == D!remove_free_block(t, b)
<1>2. Holding(v, h, L) /\ Kept(Mem(t), Mem(v), h)
  <2> DEFINE M == h.listed  w == v
  <2>1. M \subseteq Free(h) /\ b \in M /\ Holding(t, h, M) /\ w = D!remove_free_block(t, b)
    BY <1>1
  <2> HIDE DEF M, w
  <2>2. Holding(w, h, M \ {b}) /\ Kept(Mem(t), Mem(w), h)
    BY <1>1, <2>1, DRemoved
  <2> QED
    BY <2>2 DEF M, w
<1>3. u = D!Cut(v, b, a, h.size[b])
  BY <1>1, DReadBlock DEF D!place
<1>4. /\ U \subseteq Blocks(h) /\ L \subseteq Blocks(h)
      /\ \A x \in Blocks(h) : x # b => (x \in U <=> x \in h.used)
      /\ b \in U /\ L = Blocks(h) \ U
  BY <1>1 DEF Free
<1>5. k = Heap(h.size, U, L, h.brk)
  OBVIOUS
<1> HIDE DEF v, U, L, k
<1>6. DOpen(v, k, b) /\ Relabeled(h, k, U, L)
  BY <1>1, <1>2, <1>4, <1>5, DRelabeled
<1>7. /\ Sound(k) /\ Blocks(k) = Blocks(h) /\ k.size = h.size /\ k.used = U
      /\ k.listed = L /\ k.brk = h.brk /\ \A x : EndOf(k, x) = EndOf(h, x)
  BY <1>6 DEF Relabeled
<1>8. k.listed = Free(k) /\ b \in k.used
  BY <1>4, <1>7 DEF Free
<1>9. NoNeighbours(k)
  <2>1. Free(k) \subseteq Free(h)
    BY <1>7 DEF Free, U
  <2> QED
    BY <1>1, <1>7, <2>1 DEF NoNeighbours
<1>10. u = D!Cut(v, b, a, k.size[b]) /\ k.size[b] >= a
  BY <1>3, <1>7
<1>11. PICK g : DMirrors(u, g) /\ Trimmed(k, g, b, a) /\ Kept(Mem(v), Mem(u), g)
  BY <1>6, <1>8, <1>9, <1>10, DCutWords
<1>12. /\ WF(g) /\ b \in Blocks(g) /\ g.used = U /\ g.size[b] >= a /\ g.size[b] \in Nat
       /\ \A x \in h.used : x # b => g.size[x] = h.size[x]
  <2>1. /\ WF(g) /\ b \in Blocks(g) /\ g.used = k.used /\ g.size[b] >= a
        /\ \A x \in k.used : x # b => g.size[x] = k.size[x]
    BY <1>11 DEF Trimmed
  <2>2. g.size[b] \in Nat
    BY <2>1, BlockFacts DEF WF
  <2> QED
    BY <1>7, <2>1, <2>2 DEF U
<1>13. Served(h, g, b, n)
  <2>1. g.size[b] >= n + DSIZE
    BY <1>12, DSizes
  <2> QED
    BY <1>1, <1>12, <2>1 DEF Served, U
<1>14. Kept(Mem(t), Mem(u), h)
  <2>1. Kept(Mem(v), Mem(u), h)
    BY <1>1, <1>11, <1>12 DEF Kept, EndOf, U
  <2> QED
    BY <1>2, <2>1, KeptTrans
<1> QED
  BY <1>11, <1>13, <1>14

\* A request of n bytes, in both calls, and what the heap may have to grow by.
Size(n) == D!asize_of(n)

LEMMA RequestSizes ==
    ASSUME NEW n \in Requests \ {0}
    PROVE  /\ n \in Nat /\ n # 0
           /\ Size(n) \in Nat /\ Size(n) % 8 = 0
           /\ Size(n) >= MIN_BLOCK_SIZE /\ Size(n) >= n + DSIZE
           /\ D!new_size_of(n) = Size(n)
           /\ Size(n) <= n + 11 /\ n <= MaxRequest
<1>1. /\ n \in Nat /\ n # 0 /\ n <= MaxRequest /\ MaxRequest \in Nat
      /\ CHUNKSIZE \in Nat /\ SIZE_MOD \in Nat /\ n + 32 < SIZE_MOD
  <2>1. /\ n \in Nat /\ n # 0 /\ n <= MaxRequest /\ MaxRequest \in Nat
        /\ CHUNKSIZE \in Nat /\ SIZE_MOD \in Nat
    BY BlocksAssumption, GeometryAssumption
  <2>2. MAX_ADDR \in Nat /\ MAX_ADDR + MaxRequest + CHUNKSIZE + 8 * 4 < SIZE_MOD
    BY BlocksAssumption, WordSizes, DSizes
  <2> QED
    BY <2>1, <2>2
<1> DEFINE a == ((n + 11) \div 8) * 8
<1>2. D!new_size_of(n) = a
  <2>1. D!Wrap(n + WSIZE) = n + 4
    BY <1>1, DSizes DEF D!Wrap
  <2>2. D!Wrap(n + 4 + 7) = n + 11
    BY <1>1 DEF D!Wrap
  <2> QED
    BY <2>1, <2>2 DEF D!new_size_of, D!ALIGN
<1>3. a \in Nat /\ a % 8 = 0 /\ a <= n + 11
  BY <1>1
<1>4. n + DSIZE <= D!new_size_of(n)
  BY SegAssumption
<1> HIDE DEF a
<1>5. a >= n + 8
  BY <1>2, <1>4, DSizes
<1>6. a >= 16
  BY <1>1, <1>3, <1>5
<1>7. Size(n) = a
  <2>1. Size(n) = D!MaxOf(a, 16)
    BY <1>2, DSizes DEF Size, D!asize_of, D!new_size_of
  <2> QED
    BY <1>3, <1>6, <2>1 DEF D!MaxOf
<1> QED
  BY <1>1, <1>2, <1>3, <1>5, <1>6, <1>7, DSizes

\* The round-up of mm-ds2.c, which adds one tag only, leaves room for both tags
\* when the request is 5, 6, 7 or 0 modulo 8, and for no other request.
THEOREM FooterRoom ==
    ASSUME NEW n \in Nat, n + 11 < SIZE_MOD
    PROVE  n + DSIZE <= D!new_size_of(n) <=> n % 8 \in {0, 5, 6, 7}
<1>1. D!new_size_of(n) = ((n + 11) \div 8) * 8
  <2>1. SIZE_MOD \in Nat
    BY GeometryAssumption
  <2>2. D!Wrap(n + WSIZE) = n + 4
    BY <2>1, DSizes DEF D!Wrap
  <2>3. D!Wrap(n + 4 + 7) = n + 11
    BY <2>1 DEF D!Wrap
  <2> QED
    BY <2>2, <2>3 DEF D!new_size_of, D!ALIGN
<1>2. n + 8 <= ((n + 11) \div 8) * 8 <=> n % 8 \in {0, 5, 6, 7}
  OBVIOUS
<1> QED
  BY <1>1, <1>2, DSizes

\* How far it makes the heap grow.
LEMMA GrowthSizes ==
    ASSUME NEW n \in Requests \ {0}, NEW ext, ext = D!MaxOf(Size(n), CHUNKSIZE),
           NEW m, m = ExtendBytes(ext)
    PROVE  /\ ext \in Nat
           /\ m \in Nat /\ m % 8 = 0 /\ m >= MIN_BLOCK_SIZE /\ m >= Size(n)
           /\ m <= MaxRequest + CHUNKSIZE + 8 * WSIZE
<1>1. /\ n \in Nat /\ Size(n) \in Nat /\ Size(n) % 8 = 0 /\ Size(n) >= 16
      /\ Size(n) <= n + 11 /\ n <= MaxRequest
  BY RequestSizes, DSizes
<1>2. CHUNKSIZE \in Nat /\ CHUNKSIZE % 8 = 0 /\ MaxRequest \in Nat
  BY GeometryAssumption, BlocksAssumption
<1>3. ext \in Nat /\ ext % 8 = 0 /\ ext >= Size(n) /\ ext <= MaxRequest + CHUNKSIZE + 11
  BY <1>1, <1>2 DEF D!MaxOf
<1>4. m \in Nat /\ m % 8 = 0 /\ m >= ext /\ m <= ext + 8
  BY <1>3, Extension
<1> QED
  BY <1>1, <1>2, <1>3, <1>4, DSizes

\* The block that mem_sbrk adds, before coalesce.
LEMMA DGrowWords ==
    ASSUME NEW h, NEW t, DMirrors(t, h),
           NEW m \in Nat, m % 8 = 0, m >= MIN_BLOCK_SIZE, h.brk + m <= MAX_ADDR,
           NEW v, Form(v), v.lists = t.lists, Mem(v) = [Mem(t) EXCEPT !.brk = h.brk + m],
           NEW u, u = D!SetEpilogue(D!SetTags(v, h.brk, m, 0), h.brk),
           NEW g, g = Grown(h, m)
    PROVE  /\ DShows(u, g) /\ Kept(Mem(t), Mem(u), h) /\ SameUsed(h, g)
           /\ Pending(g, h.brk) /\ g.listed = Free(g) \ {h.brk} /\ g.size[h.brk] = m
<1> DEFINE e == h.brk
<1>1. /\ WF(h) /\ Sound(h) /\ NoNeighbours(h) /\ h.listed = Free(h)
      /\ DGood(t) /\ t.brk = e /\ Tags(Mem(t), h) /\ Shelved(t, h, h.listed)
      /\ h.used \subseteq Blocks(h) /\ Free(h) \subseteq Blocks(h) /\ Free(h) \cap h.used = {}
      /\ e \in Nat
  BY DMirrorsFacts DEF Holding, Sound, HeapType
<1>2. /\ Sound(g)
      /\ e \notin Blocks(h)
      /\ Blocks(g) = Blocks(h) \cup {e}
      /\ g.used = h.used /\ g.listed = h.listed /\ g.brk = e + m
      /\ \A x \in Blocks(h) : g.size[x] = h.size[x] /\ EndOf(g, x) = EndOf(h, x)
      /\ g.size[e] = m /\ EndOf(g, e) = g.brk
  BY <1>1, GrownSound
<1>3. /\ Good(Mem(v)) /\ Mem(v).brk = e + m /\ v.brk = e + m
      /\ \A a : W!GET(Mem(v), a) = W!GET(Mem(t), a)
  <2>1. Good(Mem(t))
    BY <1>1 DEF DGood
  <2>2. e + m \in Int
    BY <1>1
  <2>3. Good(Mem(v)) /\ Mem(v).brk = e + m /\ Mem(v).mem = Mem(t).mem
    BY <2>1, <2>2 DEF Good
  <2>4. v.brk = e + m
    BY <2>3 DEF Mem
  <2> QED
    BY <2>3, <2>4, SameMemory
<1> HIDE DEF e
<1>4. \A x \in Blocks(g) \ {e} : Tagged(Mem(v), g, x)
  BY <1>1, <1>2, <1>3 DEF Tags, Tagged, Tag, Alloc
<1>5. W!GET(Mem(v), BASE + WSIZE) = DSIZE + 1 /\ W!GET(Mem(v), BASE + 2 * WSIZE) = DSIZE + 1
  BY <1>1, <1>3 DEF Tags, Edges
<1>6. /\ Form(u) /\ u.lists = t.lists
      /\ Mem(u) = W!SetEpilogue(W!SetTags(Mem(v), e, g.size[e], 0), e)
  <2> DEFINE w == D!SetTags(v, e, m, 0)
  <2>1. Form(w) /\ w.lists = v.lists /\ Mem(w) = W!SetTags(Mem(v), e, m, 0)
    BY SetTagsMem
  <2>2. u = D!SetEpilogue(w, e)
    BY DEF e
  <2> HIDE DEF w
  <2>3. Form(u) /\ u.lists = w.lists /\ Mem(u) = W!SetEpilogue(Mem(w), e)
    BY <2>1, <2>2, SetEpilogueMem
  <2> QED
    BY <1>2, <2>1, <2>3
<1>7. LastAdded(Mem(v), Mem(u), g)
  <2>1. e \in Blocks(g) /\ e \notin g.used
    BY <1>1, <1>2
  <2> QED
    BY <1>2, <1>3, <1>4, <1>5, <1>6, <2>1, AddLast
<1>8. DGood(u) /\ u.brk = g.brk /\ Tags(Mem(u), g)
  <2>1. Mem(u).brk = u.brk
    BY DEF Mem
  <2> QED
    BY <1>2, <1>3, <1>6, <1>7, <2>1 DEF LastAdded, DGood
<1>9. Shelved(u, g, g.listed)
  <2> DEFINE L == h.listed
  <2>1. \A x \in L : g.size[x] = h.size[x]
    BY <1>1, <1>2
  <2>2. \A x \in L : /\ W!GET(Mem(u), x) = W!GET(Mem(t), x)
                     /\ W!GET(Mem(u), x + WSIZE) = W!GET(Mem(t), x + WSIZE)
    BY <1>1, <1>2, <1>3, <1>7 DEF LastAdded
  <2>3. Shelved(t, h, L) /\ u.lists = t.lists
    BY <1>1, <1>6
  <2> HIDE DEF L
  <2>4. Shelved(u, g, L)
    BY <2>1, <2>2, <2>3, ShelvedSame
  <2> QED
    BY <1>2, <2>4 DEF L
<1>10. Kept(Mem(t), Mem(u), h)
  <2>1. \A x \in h.used : EndOf(g, x) = EndOf(h, x)
    BY <1>1, <1>2
  <2> QED
    BY <1>2, <1>3, <1>7, <2>1 DEF LastAdded, Kept
<1>11. DShows(u, g) /\ SameUsed(h, g)
  BY <1>1, <1>2, <1>8, <1>9 DEF DShows, Holding, SameUsed
<1>12. Free(g) = Free(h) \cup {e} /\ e \notin Free(h)
  BY <1>1, <1>2 DEF Free
<1>13. g.listed = Free(g) \ {e}
  BY <1>1, <1>2, <1>12
<1>14. Pending(g, e)
  <2>1. ASSUME NEW x \in Free(g), EndOf(g, x) \in Free(g), x # e, EndOf(g, x) # e PROVE FALSE
    <3>1. x \in Free(h) /\ x \in Blocks(h)
      BY <1>1, <1>12, <2>1
    <3>2. EndOf(h, x) \in Free(h)
      BY <1>2, <1>12, <2>1, <3>1
    <3> QED
      BY <1>1, <3>1, <3>2 DEF NoNeighbours
  <2> QED
    BY <1>2, <1>12, <1>13, <2>1 DEF Pending
<1> QED
  BY <1>2, <1>10, <1>11, <1>13, <1>14 DEF e

\* extend_heap changes nothing, or returns a free block of the size asked for.
DExtended(t, h, g, r, m) ==
    /\ DMirrors(r.s, g)
    /\ r.p \in Free(g) /\ r.p # NULL /\ g.size[r.p] >= m
    /\ SameUsed(h, g)
    /\ Kept(Mem(t), Mem(r.s), h)

LEMMA DExtendWords ==
    ASSUME NEW h, NEW t, DMirrors(t, h), NEW n \in Nat, NEW m, m = ExtendBytes(n),
           m \in Nat, m % 8 = 0, m >= MIN_BLOCK_SIZE,
           m <= MaxRequest + CHUNKSIZE + 8 * WSIZE,
           NEW r, r = D!extend_heap(t, n)
    PROVE  r = [s |-> t, p |-> NULL] \/ \E g : DExtended(t, h, g, r, m)
<1> DEFINE grown == D!mem_sbrk(t, m)
           g == Grown(h, m)
           u == D!SetEpilogue(D!SetTags(grown.s, h.brk, m, 0), h.brk)
           c == coalesce(g, h.brk)
           k == Settled(g, h.brk)
<1>1. /\ WF(h) /\ Sound(h) /\ t.brk = h.brk /\ h.brk \in Nat /\ h.brk <= MAX_ADDR
      /\ DGood(t) /\ Form(t) /\ Mem(t).brk = h.brk
  BY DMirrorsFacts DEF DGood, Sound, HeapType, Tiled, Mem
<1>2. /\ ToInt(m) = m
      /\ sbrk_refuses(h.brk, m, MAX_ADDR) <=> h.brk + m > MAX_ADDR
      /\ h.brk + m <= MAX_ADDR =>
            W!mem_sbrk(Mem(t), m) = [s |-> [Mem(t) EXCEPT !.brk = h.brk + m], p |-> h.brk]
  BY <1>1, SbrkWords
<1>3. D!ExtendBytes(n) = m /\ D!ToInt(m) = m
  BY <1>2, SameOperators
<1>4. r = IF grown.p = NULL THEN grown
          ELSE D!coalesce(D!SetEpilogue(D!SetTags(grown.s, grown.p, m, 0), grown.p), grown.p)
  BY <1>3, SameDefs DEF D!extend_heap
<1>5. CASE h.brk + m > MAX_ADDR
  <2>1. D!sbrk_refuses(t.brk, m, D!MAX_ADDR)
    BY <1>1, <1>2, <1>5, SameOperators, SameDefs
  <2>2. grown = [s |-> t, p |-> NULL]
    BY <2>1, SameDefs DEF D!mem_sbrk
  <2> QED
    BY <1>4, <2>2
<1>6. CASE h.brk + m <= MAX_ADDR
  <2>1. /\ Form(grown.s) /\ grown.s.lists = t.lists
        /\ Mem(grown.s) = [Mem(t) EXCEPT !.brk = h.brk + m]
        /\ grown.p = h.brk
    BY <1>1, <1>2, <1>6, SbrkMem
  <2>2. h.brk # NULL
    <3>1. FIRST \in Blocks(h)
      BY <1>1 DEF Sound, Tiled
    <3>2. FIRST + 4 * WSIZE <= EndOf(h, FIRST) /\ EndOf(h, FIRST) <= h.brk
          /\ EndOf(h, FIRST) \in Nat
      BY <1>1, <3>1, BlockWords
    <3> QED
      BY <1>1, <3>2, WordSizes DEF NULL
  <2>3. r = D!coalesce(u, h.brk)
    BY <1>4, <2>1, <2>2
  <2> HIDE DEF grown
  <2> DEFINE e == h.brk
  <2>4. /\ DShows(u, g) /\ Kept(Mem(t), Mem(u), h) /\ SameUsed(h, g)
        /\ Pending(g, h.brk) /\ g.listed = Free(g) \ {h.brk} /\ g.size[h.brk] = m
    BY <1>6, <2>1, DGrowWords
  <2> HIDE DEF u, g
  <2>5. h.brk \in Free(g)
    BY <2>4 DEF Pending
  <2> HIDE DEF c
  <2>6. c = coalesce(g, h.brk) /\ k = insert_node(c.h, c.p)
    BY DEF c, Settled
  <2> HIDE DEF k
  <2>7. r.p = c.p /\ DShows(r.s, k) /\ Kept(Mem(u), Mem(r.s), g)
    BY <2>3, <2>4, <2>5, <2>6, DCoalesceWords
  <2>8. Ready(c.h, c.p) /\ SameUsed(g, c.h) /\ c.h.size[c.p] >= m
    BY <2>4, <2>6, CoalesceReady
  <2>9. /\ WF(k) /\ k.listed = Free(k) /\ SameUsed(c.h, k) /\ Free(k) = Free(c.h)
        /\ k.size = c.h.size
    BY <2>6, <2>8, InsertDone
  <2>10. c.p \in Free(k) /\ k.size[c.p] >= m /\ c.p # NULL
    <3>1. c.p \in Free(k) /\ k.size[c.p] >= m
      BY <2>8, <2>9 DEF Ready
    <3> QED
      BY <2>9, <3>1, BlockNotNull DEF WF, Free
  <2>11. SameUsed(h, k)
    BY <2>4, <2>8, <2>9 DEF SameUsed
  <2>12. Kept(Mem(t), Mem(r.s), h)
    <3>1. Kept(Mem(u), Mem(r.s), h)
      BY <2>4, <2>7 DEF SameUsed, Kept, EndOf
    <3> QED
      BY <2>4, <3>1, KeptTrans
  <2>13. DExtended(t, h, k, r, m)
    BY <2>7, <2>9, <2>10, <2>11, <2>12 DEF DExtended, DMirrors
  <2> QED
    BY <2>13
<1>7. h.brk + m \in Nat /\ MAX_ADDR \in Nat
  BY <1>1, WordSizes
<1> QED
  BY <1>5, <1>6, <1>7

-----------------------------------------------------------------------------
(* The search.                                                             *)

\* The loop over one list is that of mm.c.
LEMMA InListIs ==
    ASSUME NEW t, NEW a, NEW c
    PROVE  D!InList(t, a, c) = W!Scan(Shelf(t, c), a, t.lists[c], NULL)
<1>1. \A b : D!NEXT_FREE(t, b) = W!GET_SUCC(Shelf(t, c), b)
  BY SameReads DEF Shelf
<1>2. \A b : D!GET_SIZE(t, D!HDRP(b)) = W!GET_SIZE(Shelf(t, c), W!HDRP(b))
  BY SameReads DEF Shelf, D!HDRP, W!HDRP
<1> DEFINE next == [bp \in Int |-> D!NEXT_FREE(t, bp)]
           nodes == W!Walk(SuccOf(Shelf(t, c)))[W!NumWords][t.lists[c]]
<1>3. next = SuccOf(Shelf(t, c))
  BY <1>1 DEF SuccOf
<1>4. D!Walk(next)[D!NumWords][t.lists[c]] = nodes
  BY <1>3, SameWalk, SameDefs
<1> DEFINE R == D!Walk(next)[D!NumWords][t.lists[c]]
           S == {k \in 1 .. Len(R) : R[k] = NULL \/ R[k] \notin D!Words
                                       \/ D!GET_SIZE(t, D!HDRP(R[k])) >= a}
           T == {k \in 1 .. Len(nodes) : nodes[k] = NULL \/ nodes[k] \notin W!Words
                                           \/ W!GET_SIZE(Shelf(t, c), W!HDRP(nodes[k])) >= a}
           First(Q, N) == N[CHOOSE k \in Q : \A j \in Q : k <= j]
           Outcome(Q, N) == CASE Q = {} /\ Len(N) = W!NumWords -> W!HANG
                              [] Q = {} /\ Len(N) < W!NumWords -> NULL
                              [] Q # {} -> IF First(Q, N) = NULL THEN NULL
                                           ELSE IF First(Q, N) \notin W!Words THEN W!FAULT
                                           ELSE First(Q, N)
<1>5. D!InList(t, a, c) = Outcome(S, R)
  BY SameDefs DEF D!InList, D!FirstFit, D!Chain
<1>6. W!Scan(Shelf(t, c), a, t.lists[c], NULL) = Outcome(T, nodes)
  BY SameNumbers DEF W!Scan, W!FirstFit, W!Chain, SuccOf
<1>7. S = T
  BY <1>2, <1>4, SameDefs
<1> HIDE DEF S, T, R, nodes
<1>8. R = nodes
  BY <1>4 DEF R
<1> QED
  BY <1>5, <1>6, <1>7, <1>8

\* The loop finds a block of its class that fits, if there is one.
LEMMA InListWords ==
    ASSUME NEW h, NEW t, DMirrors(t, h), NEW a, NEW c \in D!Classes
    PROVE  LET p == D!InList(t, a, c) IN
           \/ p \in InClass(h, Free(h), c) /\ h.size[p] >= a
           \/ p = NULL /\ \A b \in InClass(h, Free(h), c) : ~(h.size[b] >= a)
<1> DEFINE v == Shelf(t, c)
           L == InClass(h, Free(h), c)
           p == D!InList(t, a, c)
           d == W!Walk(SuccOf(v))[W!NumWords][v.head]
<1>1. /\ Sound(h) /\ h.listed = Free(h) /\ DGood(t) /\ Tags(Mem(t), h)
      /\ Shelved(t, h, Free(h)) /\ Free(h) \subseteq Blocks(h)
  BY DMirrorsFacts DEF Holding
<1>2. Good(v) /\ Linked(v, L) /\ v.head = t.lists[c] /\ v.mem = t.mem
  BY <1>1, ShelfFacts DEF Shelved
<1>3. L \subseteq Blocks(h) /\ Spaced(L)
  <2>1. L \subseteq Blocks(h)
    BY <1>1 DEF InClass
  <2> HIDE DEF L
  <2> QED
    BY <1>1, <2>1, BlocksSpaced
<1>4. \A b \in L : Fits(v, a, b) <=> h.size[b] >= a
  <2>1. \A b \in Blocks(h) : W!GET_SIZE(Mem(t), W!HDRP(b)) = h.size[b]
    BY <1>1, ReadBlock
  <2>2. \A b : W!GET_SIZE(v, W!HDRP(b)) = W!GET_SIZE(Mem(t), W!HDRP(b))
    <3>1. \A x : W!GET(v, x) = W!GET(Mem(t), x)
      BY SameMemory DEF Shelf, Mem
    <3> QED
      BY <3>1 DEF W!GET_SIZE
  <2> QED
    BY <1>3, <2>1, <2>2 DEF Fits
<1>5. p = W!Scan(v, a, v.head, NULL)
  BY <1>2, InListIs
<1> HIDE DEF v, L, p
<1>6. v.head \in L \cup {NULL} /\ (v.head = NULL => L = {})
  BY <1>2 DEF Linked, Ranked
<1> HIDE DEF d
<1>7. d = W!Walk(SuccOf(v))[W!NumWords][v.head]
  BY DEF d
<1>8. \/ p \in L /\ Fits(v, a, p)
      \/ p = NULL /\ \A i \in 1 .. Len(d) : Fits(v, a, d[i]) =>
                        \E k \in 1 .. Len(d) : k <= i /\ d[k] = NULL
  BY <1>2, <1>3, <1>5, <1>6, <1>7, ScanFinds
<1>9. Goes(SuccOf(v), L, v.head, Len(d), d)
  BY <1>2, <1>3, <1>6, <1>7, ListWalk
<1>10. \A b \in L : \E i \in 1 .. Len(d) : d[i] = b
  <2>1. d = W!FreeList(v)
    BY <1>7, ListChain DEF W!FreeList
  <2> QED
    BY <1>2, <1>3, <2>1, FreeListWalk
<1>11. \A k \in 1 .. Len(d) : d[k] # NULL
  BY <1>9 DEF Goes
<1>12. \/ p \in L /\ h.size[p] >= a
       \/ p = NULL /\ \A b \in L : ~(h.size[b] >= a)
  BY <1>4, <1>8, <1>10, <1>11
<1> QED
  BY <1>12 DEF L, p

\* find_fit finds a free block that fits, if there is one: what fits is in no
\* class before the one of the size asked for.
LEMMA DFitWords ==
    ASSUME NEW h, NEW t, DMirrors(t, h), NEW a \in Int,
           NEW p, p = D!find_fit(t, a)
    PROVE  IF \E b \in Free(h) : h.size[b] >= a THEN p \in Free(h) /\ h.size[p] >= a
                                               ELSE p = NULL
<1> DEFINE hits == {c \in D!get_index(a) .. NUM_LISTS - 1 : D!InList(t, a, c) # NULL}
<1>1. p = IF hits = {} THEN NULL
          ELSE D!InList(t, a, CHOOSE c \in hits : \A d \in hits : c <= d)
  BY SameDefs DEF D!find_fit
<1>2. Class(a) \in Nat /\ D!Classes = 0 .. NUM_LISTS - 1 /\ NUM_LISTS \in Nat
  BY ClassIs, ClassNumbers
<1>3. hits \subseteq D!Classes /\ hits \subseteq Nat
  BY <1>2 DEF Class
<1>4. \A c \in D!Classes : \/ /\ D!InList(t, a, c) \in InClass(h, Free(h), c)
                              /\ h.size[D!InList(t, a, c)] >= a
                           \/ /\ D!InList(t, a, c) = NULL
                              /\ \A b \in InClass(h, Free(h), c) : ~(h.size[b] >= a)
  BY InListWords
<1>5. Sound(h) /\ Free(h) \subseteq Blocks(h)
  BY DMirrorsFacts
<1>6. ASSUME NEW b \in Free(h), h.size[b] >= a PROVE hits # {}
  <2> DEFINE c == Class(h.size[b])
  <2>1. h.size[b] \in Int /\ b \in Blocks(h)
    BY <1>5, BlockFacts
  <2>2. c \in D!Classes /\ Class(a) <= c
    BY <1>6, <2>1, ClassIs, ClassGrows
  <2>3. b \in InClass(h, Free(h), c)
    BY DEF InClass
  <2> HIDE DEF c
  <2>4. D!InList(t, a, c) \in Blocks(h)
    BY <1>4, <1>5, <1>6, <2>2, <2>3 DEF InClass
  <2>5. D!InList(t, a, c) # NULL
    BY <1>5, <2>4, BlockNotNull
  <2>6. c \in Class(a) .. NUM_LISTS - 1
    BY <1>2, <2>2
  <2>7. c \in hits
    BY <2>5, <2>6 DEF Class
  <2> QED
    BY <2>7
<1>7. ASSUME hits # {} PROVE p \in Free(h) /\ h.size[p] >= a
  <2> DEFINE c == CHOOSE c \in hits : \A d \in hits : c <= d
  <2>1. c \in hits
    BY <1>3, <1>7, Least
  <2>2. p = D!InList(t, a, c)
    BY <1>1, <1>7
  <2>3. D!InList(t, a, c) # NULL /\ c \in D!Classes
    BY <1>3, <2>1
  <2> HIDE DEF c
  <2> QED
    BY <1>4, <2>2, <2>3 DEF InClass
<1> HIDE DEF hits
<1> QED
  BY <1>1, <1>6, <1>7

-----------------------------------------------------------------------------
(* mm_malloc.                                                              *)

\* r is what mm_malloc returns: g is h with a block for n bytes more, as large
\* as mm_malloc rounds them.
DServed(t, h, g, r, n) ==
    /\ DMirrors(r.s, g)
    /\ Served(h, g, r.p, n) /\ g.size[r.p] >= Size(n)
    /\ Kept(Mem(t), Mem(r.s), h)

LEMMA DMallocWords ==
    ASSUME NEW h, NEW t, DMirrors(t, h), NEW n \in Requests, NEW r, r = D!mm_malloc(t, n)
    PROVE  \/ r = [s |-> t, p |-> NULL]
           \/ n # 0 /\ r.p # NULL /\ \E g : DServed(t, h, g, r, n)
<1>1. CASE n = 0
  BY <1>1, SameDefs DEF D!mm_malloc
<1>2. CASE n # 0
  <2> DEFINE a == Size(n)
             p == D!find_fit(t, a)
             ext == D!MaxOf(a, CHUNKSIZE)
             grown == D!extend_heap(t, ext)
  <2>1. n \in Requests \ {0}
    BY <1>2
  <2>2. /\ n \in Nat /\ a \in Nat /\ a % 8 = 0 /\ a >= MIN_BLOCK_SIZE /\ a >= n + DSIZE
    BY <2>1, RequestSizes
  <2>3. r = D!malloc_from_fit(t, p, a)
    BY <1>2 DEF D!mm_malloc, Size
  <2>4. Sound(h) /\ Free(h) \subseteq Blocks(h)
    BY DMirrorsFacts
  <2>5. ASSUME NEW hh, NEW tt, DMirrors(tt, hh), NEW b \in Free(hh), hh.size[b] >= a,
               NEW u, u = D!place(tt, b, a)
        PROVE  \E g : /\ DMirrors(u, g) /\ Served(hh, g, b, n) /\ g.size[b] >= a
                      /\ Kept(Mem(tt), Mem(u), hh)
    <3> DEFINE m == a - DSIZE
    <3>1. m \in Nat /\ a >= m + DSIZE /\ m >= n
      BY <2>2, DSizes
    <3> HIDE DEF m, a
    <3>2. PICK g : DMirrors(u, g) /\ Served(hh, g, b, m) /\ Kept(Mem(tt), Mem(u), hh)
      BY <2>2, <2>5, <3>1, DPlaceWords
    <3>3. g.size[b] >= m + DSIZE /\ g.size[b] \in Nat
      BY <3>2, BlockFacts DEF Served, WF
    <3>4. m + DSIZE = a
      BY <2>2, DSizes DEF m
    <3>5. g.size[b] >= a /\ g.size[b] >= n + DSIZE
      BY <2>2, <3>3, <3>4, DSizes
    <3> QED
      BY <3>2, <3>5 DEF Served
  <2> HIDE DEF a, p
  <2>6. CASE \E b \in Free(h) : h.size[b] >= a
    <3>1. p \in Free(h) /\ h.size[p] >= a
      BY <2>2, <2>6, DFitWords DEF p
    <3>2. p # NULL /\ p \in Nat
      BY <2>4, <3>1, BlockNotNull
    <3>3. r = [s |-> D!place(t, p, a), p |-> p]
      BY <2>3, <3>2, SameDefs DEF D!malloc_from_fit, D!HANG, D!FAULT
    <3>4. PICK g : /\ DMirrors(r.s, g) /\ Served(h, g, p, n) /\ g.size[p] >= a
                   /\ Kept(Mem(t), Mem(r.s), h)
      BY <2>5, <3>1, <3>3
    <3>5. DServed(t, h, g, r, n)
      BY <3>3, <3>4 DEF DServed, a
    <3> QED
      BY <1>2, <3>2, <3>3, <3>5
  <2>7. CASE ~\E b \in Free(h) : h.size[b] >= a
    <3>1. p = NULL
      BY <2>2, <2>7, DFitWords DEF p
    <3>2. r = D!malloc_from_grown(grown, a)
      BY <2>3, <3>1, SameDefs DEF D!malloc_from_fit, D!HANG, D!FAULT, NULL
    <3> DEFINE m == ExtendBytes(ext)
    <3>3. /\ ext \in Nat /\ m \in Nat /\ m % 8 = 0 /\ m >= MIN_BLOCK_SIZE /\ m >= a
          /\ m <= MaxRequest + CHUNKSIZE + 8 * WSIZE
      BY <2>1, GrowthSizes DEF a
    <3>4. m = ExtendBytes(ext)
      OBVIOUS
    <3> HIDE DEF m, ext
    <3>5. grown = [s |-> t, p |-> NULL] \/ \E k : DExtended(t, h, k, grown, m)
      BY <3>3, <3>4, DExtendWords
    <3> HIDE DEF grown
    <3>6. CASE grown = [s |-> t, p |-> NULL]
      BY <3>2, <3>6, SameDefs DEF D!malloc_from_grown
    <3>7. CASE \E k : DExtended(t, h, k, grown, m)
      <4>1. PICK k : DExtended(t, h, k, grown, m)
        BY <3>7
      <4>2. /\ DMirrors(grown.s, k) /\ grown.p \in Free(k) /\ grown.p # NULL
            /\ k.size[grown.p] >= m /\ SameUsed(h, k) /\ Kept(Mem(t), Mem(grown.s), h)
        BY <4>1 DEF DExtended
      <4>3. r = [s |-> D!place(grown.s, grown.p, a), p |-> grown.p]
        BY <3>2, <4>2, SameDefs DEF D!malloc_from_grown
      <4>4. k.size[grown.p] >= a
        <5>1. k.size[grown.p] \in Nat
          BY <4>2, DMirrorsFacts, BlockFacts
        <5> QED
          BY <2>2, <3>3, <4>2, <5>1
      <4>5. PICK g : /\ DMirrors(r.s, g) /\ Served(k, g, grown.p, n) /\ g.size[grown.p] >= a
                     /\ Kept(Mem(grown.s), Mem(r.s), k)
        BY <2>5, <4>2, <4>3, <4>4
      <4>6. Served(h, g, grown.p, n)
        BY <4>2, <4>5 DEF Served, SameUsed
      <4>7. Kept(Mem(t), Mem(r.s), h)
        <5>1. Kept(Mem(grown.s), Mem(r.s), h)
          BY <4>2, <4>5 DEF SameUsed, Kept, EndOf
        <5> QED
          BY <4>2, <5>1, KeptTrans
      <4>8. DServed(t, h, g, r, n)
        BY <4>3, <4>5, <4>6, <4>7 DEF DServed, a
      <4> QED
        BY <1>2, <4>2, <4>3, <4>8
    <3> QED
      BY <3>5, <3>6, <3>7
  <2> QED
    BY <2>6, <2>7
<1> QED
  BY <1>1, <1>2

-----------------------------------------------------------------------------
(* mm_realloc.                                                             *)

\* The tags, the lists and the other payloads stay when a payload is written.
LEMMA DOverwroteWords ==
    ASSUME NEW h, NEW t, DMirrors(t, h), NEW b \in h.used,
           NEW u, Form(u), u.lists = t.lists, Overwrote(Mem(t), Mem(u), h, b)
    PROVE  DMirrors(u, h) /\ KeptBut(Mem(t), Mem(u), h, b)
<1>1. /\ WF(h) /\ Sound(h) /\ h.listed = Free(h) /\ h.listed \cap h.used = {}
      /\ DGood(t) /\ t.brk = h.brk /\ Tags(Mem(t), h) /\ Shelved(t, h, h.listed)
      /\ h.used \subseteq Blocks(h) /\ Free(h) \subseteq Blocks(h) /\ b \in Blocks(h)
  BY DMirrorsFacts DEF Holding
<1>2. /\ b \in Nat /\ EndOf(h, b) \in Nat /\ b + 4 * WSIZE <= EndOf(h, b)
      /\ FIRST <= b /\ EndOf(h, b) <= h.brk /\ h.brk \in Nat
  BY <1>1, BlockWords
<1>3. /\ Good(Mem(u)) /\ Mem(u).brk = Mem(t).brk
      /\ \A a \in Int : a < b \/ EndOf(h, b) - DSIZE <= a
                        => W!GET(Mem(u), a) = W!GET(Mem(t), a)
  BY DEF Overwrote
<1>4. ASSUME NEW x \in Blocks(h), x # b, NEW a \in Int, x - WSIZE <= a, a < EndOf(h, x)
      PROVE  W!GET(Mem(u), a) = W!GET(Mem(t), a)
  <2>1. EndOf(h, b) <= x \/ EndOf(h, x) <= b
    BY <1>1, <1>4, InOrder
  <2>2. x \in Nat /\ EndOf(h, x) \in Nat
    BY <1>1, BlockWords
  <2>3. a < b \/ EndOf(h, b) - DSIZE <= a
    BY <1>2, <1>4, <2>1, <2>2, WordSizes
  <2> QED
    BY <1>3, <2>3
<1>5. \A x \in Blocks(h) : x # b => /\ W!GET(Mem(u), x) = W!GET(Mem(t), x)
                                    /\ W!GET(Mem(u), x + WSIZE) = W!GET(Mem(t), x + WSIZE)
  <2> SUFFICES ASSUME NEW x \in Blocks(h), x # b
               PROVE  /\ W!GET(Mem(u), x) = W!GET(Mem(t), x)
                      /\ W!GET(Mem(u), x + WSIZE) = W!GET(Mem(t), x + WSIZE)
    OBVIOUS
  <2>1. x \in Nat /\ EndOf(h, x) \in Nat /\ x + 4 * WSIZE <= EndOf(h, x)
    BY <1>1, BlockWords
  <2>2. x \in Int /\ x - WSIZE <= x /\ x < EndOf(h, x)
    BY <2>1, WordSizes
  <2>3. x + WSIZE \in Int /\ x - WSIZE <= x + WSIZE /\ x + WSIZE < EndOf(h, x)
    BY <2>1, WordSizes
  <2> QED
    BY <1>4, <2>2, <2>3
<1>6. Edges(Mem(u), h)
  <2>1. /\ BASE + WSIZE \in Int /\ BASE + WSIZE < b
        /\ BASE + 2 * WSIZE \in Int /\ BASE + 2 * WSIZE < b
        /\ h.brk - WSIZE \in Int /\ EndOf(h, b) - DSIZE <= h.brk - WSIZE
    BY <1>2, WordSizes
  <2> QED
    BY <1>1, <1>3, <2>1 DEF Tags, Edges
<1>7. ASSUME NEW x \in Blocks(h) PROVE Tagged(Mem(u), h, x)
  <2>1. Tagged(Mem(t), h, x)
    BY <1>1 DEF Tags
  <2>2. CASE x = b
    <3>1. /\ b - WSIZE \in Int /\ b - WSIZE < b
          /\ EndOf(h, b) - DSIZE \in Int /\ EndOf(h, b) - DSIZE <= EndOf(h, b) - DSIZE
      BY <1>2, WordSizes
    <3> QED
      BY <1>3, <2>1, <2>2, <3>1 DEF Tagged
  <2>3. CASE x # b
    <3>1. x \in Nat /\ EndOf(h, x) \in Nat /\ x + 4 * WSIZE <= EndOf(h, x)
      BY <1>1, BlockWords
    <3>2. x - WSIZE \in Int /\ x - WSIZE <= x - WSIZE /\ x - WSIZE < EndOf(h, x)
      BY <3>1, WordSizes
    <3>3. /\ EndOf(h, x) - DSIZE \in Int /\ x - WSIZE <= EndOf(h, x) - DSIZE
          /\ EndOf(h, x) - DSIZE < EndOf(h, x)
      BY <3>1, WordSizes
    <3> QED
      BY <1>4, <2>1, <2>3, <3>2, <3>3 DEF Tagged
  <2> QED
    BY <2>2, <2>3
<1>8. Shelved(u, h, h.listed)
  <2> DEFINE L == h.listed
  <2>1. /\ \A x \in L : /\ W!GET(Mem(u), x) = W!GET(Mem(t), x)
                        /\ W!GET(Mem(u), x + WSIZE) = W!GET(Mem(t), x + WSIZE)
        /\ \A x \in L : h.size[x] = h.size[x]
        /\ Shelved(t, h, L)
    BY <1>1, <1>5
  <2> HIDE DEF L
  <2>2. Shelved(u, h, L)
    BY <2>1, ShelvedSame
  <2> QED
    BY <2>2 DEF L
<1>9. DGood(u) /\ u.brk = h.brk
  BY <1>1, <1>3 DEF DGood, Mem
<1>10. KeptBut(Mem(t), Mem(u), h, b)
  <2> SUFFICES ASSUME NEW x \in h.used \ {b}, NEW a \in Int, x <= a, a < EndOf(h, x) - DSIZE
               PROVE  W!GET(Mem(u), a) = W!GET(Mem(t), a)
    BY DEF KeptBut
  <2>1. x \in Blocks(h) /\ x \in Nat /\ EndOf(h, x) \in Nat
    BY <1>1, BlockWords
  <2>2. x - WSIZE <= a /\ a < EndOf(h, x)
    BY <2>1, WordSizes
  <2> QED
    BY <1>4, <2>1, <2>2
<1>11. DMirrors(u, h)
  BY <1>1, <1>6, <1>7, <1>8, <1>9 DEF DMirrors, DShows, Holding, Tags
<1> QED
  BY <1>10, <1>11

\* What a block that is cut keeps: v is t with the block after p taken from its
\* list at most, and u is v after the cut.
LEMMA DTrimmedIs ==
    ASSUME NEW h, WF(h), NEW p \in h.used, NEW n \in Requests \ {0},
           NEW k \in Nat, k + DSIZE <= h.size[p], k <= n,
           NEW j, j.used = h.used, \A x \in h.used : x # p => j.size[x] = h.size[x],
           NEW g, Trimmed(j, g, p, Size(n)),
           NEW t, NEW v, NEW u, Kept(t, v, h), Kept(v, u, g)
    PROVE  Resized(h, g, p, p, n) /\ KeptBut(t, u, h, p) /\ Carried(t, u, p, p, k)
<1>1. /\ WF(g) /\ Sound(g) /\ p \in Blocks(g) /\ g.used = h.used /\ g.size[p] >= Size(n)
      /\ \A x \in h.used : x # p => g.size[x] = h.size[x]
      /\ Sound(h) /\ h.used \subseteq Blocks(h) /\ p \in Blocks(h)
  BY DEF Trimmed, WF, Sound, HeapType
<1>2. /\ n \in Nat /\ Size(n) \in Nat /\ Size(n) >= n + DSIZE
      /\ g.size[p] \in Nat /\ h.size[p] \in Nat /\ p \in Nat /\ DSIZE \in Nat
      /\ EndOf(g, p) = p + g.size[p] /\ EndOf(h, p) = p + h.size[p]
  BY <1>1, RequestSizes, BlockFacts, WordSizes
<1>3. g.size[p] >= n + DSIZE /\ k + DSIZE <= g.size[p]
  BY <1>1, <1>2
<1>4. Resized(h, g, p, p, n)
  BY <1>1, <1>3 DEF Resized
<1>5. KeptBut(t, u, h, p)
  <2> SUFFICES ASSUME NEW x \in h.used \ {p}, NEW a \in Int, x <= a, a < EndOf(h, x) - DSIZE
               PROVE  W!GET(u, a) = W!GET(t, a)
    BY DEF KeptBut
  <2>1. x \in g.used /\ EndOf(g, x) = EndOf(h, x)
    BY <1>1 DEF EndOf
  <2> QED
    BY <2>1 DEF Kept
<1>6. Carried(t, u, p, p, k)
  <2> SUFFICES ASSUME NEW a \in W!PayloadWords(p, k)
               PROVE  W!GET(u, a) = W!GET(t, p + (a - p))
    BY DEF Carried
  <2>1. a \in Int /\ p <= a /\ a < EndOf(g, p) - DSIZE
    BY <1>1, <1>3, PayloadRange
  <2>2. a < EndOf(h, p) - DSIZE
    BY <1>1, PayloadRange
  <2>3. p + (a - p) = a
    BY <1>2, <2>1
  <2> QED
    BY <1>1, <2>1, <2>2, <2>3 DEF Kept
<1> QED
  BY <1>4, <1>5, <1>6

\* r is what mm_realloc of the block p to n bytes returns: a block for them,
\* with the first k bytes that were in p.
DMoved(t, h, r, p, n, k) ==
    /\ r.p # NULL
    /\ \E g : DMirrors(r.s, g) /\ Resized(h, g, p, r.p, n)
    /\ KeptBut(Mem(t), Mem(r.s), h, p)
    /\ Carried(Mem(t), Mem(r.s), p, r.p, k)

\* The block gives back what it does not need.
LEMMA DShrunkWords ==
    ASSUME NEW h, NEW t, DMirrors(t, h), NEW p \in h.used, NEW n \in Requests \ {0},
           NEW k \in Nat, k + DSIZE <= h.size[p], k <= n, Size(n) <= h.size[p],
           NEW r, r = [s |-> D!Cut(t, p, Size(n), h.size[p]), p |-> p]
    PROVE  DMoved(t, h, r, p, n, k)
<1>1. /\ WF(h) /\ Sound(h) /\ NoNeighbours(h) /\ h.listed = Free(h)
      /\ DGood(t) /\ t.brk = h.brk /\ Tags(Mem(t), h) /\ Shelved(t, h, h.listed)
      /\ h.used \subseteq Blocks(h) /\ p \in Blocks(h)
  BY DMirrorsFacts DEF Holding
<1>2. DOpen(t, h, p)
  BY <1>1 DEF DOpen, Tags
<1> DEFINE a == Size(n)  u == D!Cut(t, p, a, h.size[p])
<1>3. a \in Nat /\ a % 8 = 0 /\ a >= MIN_BLOCK_SIZE /\ h.size[p] >= a
  <2>1. a \in Nat /\ a % 8 = 0 /\ a >= MIN_BLOCK_SIZE
    BY RequestSizes
  <2> QED
    BY <1>1, <2>1, BlockFacts
<1>4. u = D!Cut(t, p, a, h.size[p])
  OBVIOUS
<1> HIDE DEF a, u
<1>5. PICK g : DMirrors(u, g) /\ Trimmed(h, g, p, a) /\ Kept(Mem(t), Mem(u), g)
  BY <1>1, <1>2, <1>3, <1>4, DCutWords
<1>6. Kept(Mem(t), Mem(t), h)
  BY DEF Kept
<1>7. Resized(h, g, p, p, n) /\ KeptBut(Mem(t), Mem(u), h, p) /\ Carried(Mem(t), Mem(u), p, p, k)
  BY <1>1, <1>5, <1>6, DTrimmedIs DEF a
<1>8. r.p = p /\ r.s = u
  BY DEF u, a
<1>9. p # NULL
  BY <1>1, BlockNotNull
<1> QED
  BY <1>5, <1>7, <1>8, <1>9 DEF DMoved

\* The block takes in the free one after it, and gives back the rest.
LEMMA DTakenWords ==
    ASSUME NEW h, NEW t, DMirrors(t, h), NEW p \in h.used, NEW n \in Requests \ {0},
           NEW k \in Nat, k + DSIZE <= h.size[p], k <= n,
           NEW next, next = EndOf(h, p), next \in Free(h),
           NEW total, total = h.size[p] + h.size[next], total >= Size(n),
           NEW r, r = [s |-> D!Cut(D!remove_free_block(t, next), p, Size(n), total), p |-> p]
    PROVE  DMoved(t, h, r, p, n, k)
<1> DEFINE v == D!remove_free_block(t, next)
           j == Absorb(h, p)
           a == Size(n)
           L == h.listed
           u == D!Cut(v, p, a, total)
<1>1. /\ WF(h) /\ Sound(h) /\ NoNeighbours(h) /\ h.listed = Free(h) /\ Holding(t, h, L)
      /\ h.used \subseteq Blocks(h) /\ p \in Blocks(h) /\ L = Free(h) /\ p # NULL
      /\ p \notin Free(h)
  BY DMirrorsFacts, BlockNotNull
<1>2. v = D!remove_free_block(t, next) /\ j = Absorb(h, p) /\ u = D!Cut(v, p, a, total)
  OBVIOUS
<1>3. r.p = p /\ r.s = u
  OBVIOUS
<1>4. a \in Nat /\ a % 8 = 0 /\ a >= MIN_BLOCK_SIZE /\ total >= a
  <2>1. a \in Nat /\ a % 8 = 0 /\ a >= MIN_BLOCK_SIZE
    BY RequestSizes
  <2> QED
    BY <2>1
<1> HIDE DEF v, j, u
<1>5. Holding(v, h, L \ {next}) /\ Kept(Mem(t), Mem(v), h)
  <2>1. L \subseteq Free(h) /\ next \in L /\ Holding(t, h, L) /\ Sound(h)
    BY <1>1
  <2> HIDE DEF L
  <2> QED
    BY <1>2, <2>1, DRemoved
<1>6. /\ Sound(j) /\ Blocks(j) = Blocks(h) \ {next} /\ p \in Blocks(j)
      /\ Free(j) = Free(h) \ {next} /\ j.listed = h.listed \ {next}
      /\ j.used = h.used /\ j.brk = h.brk
      /\ \A x \in Blocks(j) : x # p => j.size[x] = h.size[x] /\ EndOf(j, x) = EndOf(h, x)
      /\ j.size[p] = total
  BY <1>1, <1>2, AbsorbSound DEF SameUsedBut
<1>7. NoNeighbours(j)
  BY <1>1, <1>2, AbsorbDone DEF WF
<1>8. DOpen(v, j, p)
  <2>1. /\ DGood(v) /\ v.brk = j.brk /\ Tags(Mem(v), h) /\ Shelved(v, h, j.listed)
    BY <1>5, <1>6 DEF Holding
  <2>2. Edges(Mem(v), j)
    BY <1>6, <2>1 DEF Tags, Edges
  <2>3. \A x \in Blocks(j) \ {p} : Tagged(Mem(v), j, x)
    BY <1>6, <2>1 DEF Tags, Tagged, Tag, Alloc
  <2>4. Shelved(v, j, j.listed)
    <3> DEFINE M == j.listed
    <3>1. Shelved(v, h, M) /\ \A x \in M : j.size[x] = h.size[x]
      <4>1. \A x \in M : x \in Blocks(j) /\ x # p
        BY <1>1, <1>6 DEF Free
      <4> QED
        BY <1>6, <2>1, <4>1
    <3>2. \A x \in M : /\ W!GET(Mem(v), x) = W!GET(Mem(v), x)
                       /\ W!GET(Mem(v), x + WSIZE) = W!GET(Mem(v), x + WSIZE)
      OBVIOUS
    <3> HIDE DEF M
    <3>3. Shelved(v, j, M)
      BY <3>1, <3>2, ShelvedSame
    <3> QED
      BY <3>3 DEF M
  <2> QED
    BY <1>6, <2>1, <2>2, <2>3, <2>4 DEF DOpen
<1>9. p \in j.used /\ j.listed = Free(j) /\ j.size[p] >= a
  BY <1>1, <1>4, <1>6
<1>10. u = D!Cut(v, p, a, j.size[p])
  BY <1>2, <1>6
<1> HIDE DEF a
<1>11. PICK g : DMirrors(u, g) /\ Trimmed(j, g, p, a) /\ Kept(Mem(v), Mem(u), g)
  BY <1>4, <1>7, <1>8, <1>9, <1>10, DCutWords
<1>12. \A x \in h.used : x # p => j.size[x] = h.size[x]
  BY <1>1, <1>6 DEF Free
<1>13. Resized(h, g, p, p, n) /\ KeptBut(Mem(t), Mem(u), h, p) /\ Carried(Mem(t), Mem(u), p, p, k)
  BY <1>1, <1>5, <1>6, <1>11, <1>12, DTrimmedIs DEF a
<1> QED
  BY <1>1, <1>3, <1>11, <1>13 DEF DMoved

\* A new block, all of the old one but its header copied there, and the old
\* one given back: the new one is larger, and so takes the footer as well.
LEMMA DMovedWords ==
    ASSUME NEW h, NEW t, DMirrors(t, h), NEW p \in h.used, NEW n \in Requests \ {0},
           NEW k \in Nat, k + DSIZE <= h.size[p], k <= n, Size(n) > h.size[p],
           NEW r, r = D!realloc_moved(D!mm_malloc(t, n), p, h.size[p])
    PROVE  r = [s |-> t, p |-> NULL] \/ DMoved(t, h, r, p, n, k)
<1> DEFINE mv == D!mm_malloc(t, n)
<1>1. /\ WF(h) /\ Sound(h) /\ p \in Blocks(h) /\ h.used \subseteq Blocks(h)
  BY DMirrorsFacts
<1>2. mv = [s |-> t, p |-> NULL] \/ (mv.p # NULL /\ \E g : DServed(t, h, g, mv, n))
  BY DMallocWords
<1>3. r = D!realloc_moved(mv, p, h.size[p])
  OBVIOUS
<1> HIDE DEF mv
<1>4. CASE mv = [s |-> t, p |-> NULL]
  <2>1. mv.p \in D!NoBlock
    BY <1>4, SameDefs, Nulls
  <2> QED
    BY <1>3, <1>4, <2>1 DEF D!realloc_moved
<1>5. CASE mv.p # NULL /\ \E g : DServed(t, h, g, mv, n)
  <2>1. PICK j : DServed(t, h, j, mv, n)
    BY <1>5
  <2> DEFINE q == mv.p
             x == mv.s
             size == h.size[p] - WSIZE
             y == D!memcpy(x, q, p, size)
             u == D!mm_free(y, p)
             g == mm_free(j, p)
  <2>2. /\ DMirrors(x, j) /\ WF(j) /\ Sound(j) /\ q \in Blocks(j) /\ q \notin h.used
        /\ j.used = h.used \cup {q}
        /\ \A z \in h.used : j.size[z] = h.size[z]
        /\ j.size[q] >= n + DSIZE /\ j.size[q] >= Size(n)
        /\ Kept(Mem(t), Mem(x), h)
    BY <2>1 DEF DServed, Served, WF
  <2>3. /\ q \in Nat /\ q # NULL /\ j.size[q] \in Nat /\ p \in Nat /\ h.size[p] \in Nat
        /\ n \in Nat /\ Size(n) \in Nat /\ EndOf(h, p) = p + h.size[p]
    BY <1>1, <2>2, BlockNotNull, BlockFacts, RequestSizes
  <2>4. r = [s |-> u, p |-> q]
    <3>1. mv.p \notin D!NoBlock
      BY <2>2, NotNoBlock, SameDefs
    <3> QED
      BY <1>3, <3>1 DEF D!realloc_moved
  <2>5. size \in Nat /\ size + DSIZE <= j.size[q] /\ k <= size
    <3>1. h.size[p] % 8 = 0 /\ Size(n) % 8 = 0
      BY <1>1, BlockFacts, RequestSizes
    <3>2. Size(n) >= h.size[p] + 8
      <4> DEFINE A == Size(n)  B1 == h.size[p]
      <4>1. A \in Nat /\ B1 \in Nat /\ A % 8 = 0 /\ B1 % 8 = 0 /\ A > B1
        BY <2>3, <3>1
      <4> HIDE DEF A, B1
      <4>2. A >= B1 + 8
        BY <4>1
      <4> QED
        BY <4>2 DEF A, B1
    <3> QED
      BY <2>2, <2>3, <3>2, DSizes
  <2>6. /\ y = D!memcpy(x, q, p, size) /\ u = D!mm_free(y, p) /\ g = mm_free(j, p)
    OBVIOUS
  <2> HIDE DEF q, x, size, y, u, g
  <2>7. DGood(x) /\ Form(x) /\ Good(Mem(x))
    BY <2>2, DMirrorsFacts DEF DGood
  <2>8. Form(y) /\ y.lists = x.lists /\ Mem(y) = W!memcpy(Mem(x), q, p, size)
    BY <2>6, <2>7, MemcpyMem
  <2>9. /\ Overwrote(Mem(x), Mem(y), j, q)
        /\ \A a \in W!PayloadWords(q, size) : W!GET(Mem(y), a) = W!GET(Mem(x), p + (a - q))
    <3>1. p \in Int
      BY <2>3
    <3> QED
      BY <2>2, <2>5, <2>7, <2>8, <3>1, MemcpyWords
  <2>10. DMirrors(y, j) /\ KeptBut(Mem(x), Mem(y), j, q)
    BY <2>2, <2>8, <2>9, DOverwroteWords
  <2>11. DMirrors(u, g) /\ Kept(Mem(y), Mem(u), g)
    BY <2>2, <2>6, <2>10, DFreeWords
  <2>12. WF(g) /\ g.used = j.used \ {p} /\ \A z \in g.used : g.size[z] = j.size[z]
    BY <2>2, <2>6, FreeDone
  <2>13. KeptBut(Mem(t), Mem(u), h, p)
    <3> SUFFICES ASSUME NEW z \in h.used \ {p}, NEW a \in Int, z <= a, a < EndOf(h, z) - DSIZE
                 PROVE  W!GET(Mem(u), a) = W!GET(Mem(t), a)
      BY DEF KeptBut
    <3>1. z \in h.used /\ z \in j.used \ {q} /\ z \in g.used
      BY <2>2, <2>12
    <3>2. EndOf(j, z) = EndOf(h, z) /\ EndOf(g, z) = EndOf(h, z)
      BY <2>2, <2>12, <3>1 DEF EndOf
    <3>3. W!GET(Mem(x), a) = W!GET(Mem(t), a)
      BY <2>2, <3>1 DEF Kept
    <3>4. W!GET(Mem(y), a) = W!GET(Mem(x), a)
      BY <2>10, <3>1, <3>2 DEF KeptBut
    <3>5. W!GET(Mem(u), a) = W!GET(Mem(y), a)
      BY <2>11, <3>1, <3>2 DEF Kept
    <3> QED
      BY <3>3, <3>4, <3>5
  <2>14. q \in g.used /\ g.size[q] = j.size[q] /\ EndOf(g, q) = EndOf(j, q) /\ q # p
    BY <2>2, <2>12 DEF EndOf
  <2>15. Carried(Mem(t), Mem(u), p, q, k)
    <3> SUFFICES ASSUME NEW a \in W!PayloadWords(q, k)
                 PROVE  W!GET(Mem(u), a) = W!GET(Mem(t), p + (a - q))
      BY DEF Carried
    <3>1. a \in W!PayloadWords(q, size)
      BY <2>3, <2>5, PayloadGrows
    <3>2. a \in Int /\ q <= a /\ a < q + k /\ a < EndOf(j, q) - DSIZE
      <4>1. k + DSIZE <= j.size[q]
        BY <2>3, <2>5, WordSizes
      <4> QED
        BY <2>2, <4>1, PayloadRange
    <3>3. p <= p + (a - q) /\ p + (a - q) < EndOf(h, p) - DSIZE /\ p + (a - q) \in Int
      BY <2>3, <3>2, WordSizes
    <3>4. W!GET(Mem(y), a) = W!GET(Mem(x), p + (a - q))
      BY <2>9, <3>1
    <3>5. W!GET(Mem(x), p + (a - q)) = W!GET(Mem(t), p + (a - q))
      BY <2>2, <3>3 DEF Kept
    <3>6. W!GET(Mem(u), a) = W!GET(Mem(y), a)
      BY <2>11, <2>14, <3>2 DEF Kept
    <3> QED
      BY <3>4, <3>5, <3>6
  <2>16. Resized(h, g, p, q, n)
    <3>1. q \in Blocks(g)
      BY <2>12, <2>14 DEF WF, Sound, HeapType
    <3>2. g.used = (h.used \ {p}) \cup {q} /\ \A z \in h.used : z # p => g.size[z] = h.size[z]
      BY <2>2, <2>12, <2>14
    <3> QED
      BY <2>2, <2>12, <2>14, <3>1, <3>2 DEF Resized
  <2>17. r.s = u /\ r.p = q
    BY <2>4
  <2> QED
    BY <2>3, <2>11, <2>13, <2>15, <2>16, <2>17 DEF DMoved
<1> QED
  BY <1>2, <1>4, <1>5

\* mm_realloc of a block frees it, changes nothing, or gives the block another
\* size, where it is or elsewhere.
LEMMA DReallocWords ==
    ASSUME NEW h, NEW t, DMirrors(t, h), NEW p \in h.used, NEW n \in Requests,
           NEW k \in Nat, k + DSIZE <= h.size[p], k <= n,
           NEW r, r = D!mm_realloc(t, p, n)
    PROVE  \/ n = 0 /\ r = [s |-> D!mm_free(t, p), p |-> NULL]
           \/ n # 0 /\ r = [s |-> t, p |-> NULL]
           \/ n # 0 /\ DMoved(t, h, r, p, n, k)
<1> DEFINE new == Size(n)
           old == h.size[p]
           next == EndOf(h, p)
<1>1. /\ WF(h) /\ Sound(h) /\ Tags(Mem(t), h) /\ p \in Blocks(h) /\ p # NULL
      /\ Free(h) \subseteq Blocks(h)
  BY DMirrorsFacts, BlockNotNull
<1>2. DNeighbours(t, h, p) /\ D!GET_SIZE(t, D!HDRP(p)) = old
  BY <1>1, DReadAround, DReadBlock
<1>3. /\ D!NEXT_BLKP(t, p) = next
      /\ D!GET_ALLOC(t, D!HDRP(next)) = 0 <=> next \in Free(h)
      /\ next \in Free(h) => D!GET_SIZE(t, D!HDRP(next)) = h.size[next]
  BY <1>2 DEF DNeighbours
<1>4. CASE n = 0
  BY <1>1, <1>4, SameDefs DEF D!mm_realloc
<1>5. CASE n # 0
  <2>1. n \in Requests \ {0}
    BY <1>5
  <2>2. D!new_size_of(n) = new /\ new \in Nat /\ new >= n + DSIZE /\ n \in Nat
    BY <2>1, RequestSizes
  <2>3. old \in Nat
    BY <1>1, BlockFacts
  <2> DEFINE total == old + D!GET_SIZE(t, D!HDRP(next))
             fits == next \in Free(h) /\ total >= new
  <2>4. r = IF new <= old /\ old - new < 16 THEN [s |-> t, p |-> p]
            ELSE IF new < old THEN [s |-> D!Cut(t, p, new, old), p |-> p]
            ELSE IF fits
            THEN [s |-> D!Cut(D!remove_free_block(t, next), p, new, total), p |-> p]
            ELSE D!realloc_moved(D!mm_malloc(t, n), p, old)
    BY <1>1, <1>2, <1>3, <1>5, <2>2, DSizes, SameDefs DEF D!mm_realloc
  <2> HIDE DEF new, old, next, fits, total
  <2>5. CASE new <= old /\ old - new < 16
    <3>1. r = [s |-> t, p |-> p]
      BY <2>4, <2>5
    <3>2. Trimmed(h, h, p, new)
      BY <1>1, <2>5 DEF Trimmed, old
    <3>3. Kept(Mem(t), Mem(t), h)
      BY DEF Kept
    <3>4. Resized(h, h, p, p, n) /\ KeptBut(Mem(t), Mem(t), h, p) /\ Carried(Mem(t), Mem(t), p, p, k)
      BY <1>1, <2>1, <3>2, <3>3, DTrimmedIs DEF new
    <3> QED
      BY <1>1, <1>5, <3>1, <3>4 DEF DMoved
  <2>6. CASE new < old /\ ~(new <= old /\ old - new < 16)
    <3>1. r = [s |-> D!Cut(t, p, Size(n), h.size[p]), p |-> p]
      BY <2>4, <2>6 DEF new, old
    <3>2. Size(n) <= h.size[p]
      BY <2>2, <2>3, <2>6 DEF new, old
    <3> QED
      BY <1>5, <2>1, <3>1, <3>2, DShrunkWords
  <2>7. CASE ~(new < old) /\ ~(new <= old /\ old - new < 16) /\ fits
    <3>1. total = h.size[p] + h.size[next] /\ next \in Free(h) /\ total >= Size(n)
      BY <1>3, <2>7 DEF total, fits, old, new
    <3>2. r = [s |-> D!Cut(D!remove_free_block(t, next), p, Size(n), total), p |-> p]
      BY <2>4, <2>7 DEF new
    <3>3. next = EndOf(h, p)
      BY DEF next
    <3>4. DMoved(t, h, r, p, n, k)
      BY <2>1, <3>1, <3>2, <3>3, DTakenWords
    <3> QED
      BY <1>5, <3>4
  <2>8. CASE ~(new < old) /\ ~(new <= old /\ old - new < 16) /\ ~fits
    <3>1. r = D!realloc_moved(D!mm_malloc(t, n), p, h.size[p])
      BY <2>4, <2>8 DEF old
    <3>2. new > old
      BY <2>2, <2>3, <2>8
    <3>3. Size(n) > h.size[p]
      BY <3>2 DEF new, old
    <3>4. r = [s |-> t, p |-> NULL] \/ DMoved(t, h, r, p, n, k)
      BY <2>1, <3>1, <3>3, DMovedWords
    <3> QED
      BY <1>5, <3>4
  <2> QED
    BY <2>5, <2>6, <2>7, <2>8
<1> QED
  BY <1>4, <1>5

-----------------------------------------------------------------------------
(* mm_init, on whatever the last heap left in memory and in the lists.     *)

\* The prologue is written, and the lists are empty.
DStarted(t, u) ==
    /\ DGood(u) /\ u.brk = FIRST /\ u.lists = D!NoLists
    /\ W!GET(Mem(u), BASE + WSIZE) = DSIZE + 1
    /\ W!GET(Mem(u), BASE + 2 * WSIZE) = DSIZE + 1
    /\ D!mm_init(t) = D!InitEnds(D!extend_heap(u, CHUNKSIZE))

LEMMA DInitPrologue ==
    ASSUME NEW t, DGood(t), t.brk = BASE
    PROVE  \E u : DStarted(t, u)
<1> DEFINE w == [t EXCEPT !.lists = D!NoLists]
           start == D!mem_sbrk(w, 4 * WSIZE)
           t1 == D!PUT(start.s, BASE, 0)
           t2 == D!PUT(t1, BASE + WSIZE, DSIZE + 1)
           t3 == D!PUT(t2, BASE + 2 * WSIZE, DSIZE + 1)
           u == D!PUT(t3, BASE + 3 * WSIZE, 1)
<1>1. Form(t) /\ Good(Mem(t)) /\ Mem(t).brk = BASE
  BY DEF DGood, Mem
<1>2. Form(w) /\ w.lists = D!NoLists /\ Mem(w) = Mem(t)
  <2>1. D!NoLists \in [D!Classes -> Int]
    BY SameDefs DEF D!NoLists, NULL
  <2>2. w = [mem |-> t.mem, brk |-> t.brk, status |-> t.status, lists |-> D!NoLists]
    BY <1>1 DEF Form
  <2> HIDE DEF w
  <2> QED
    BY <2>1, <2>2 DEF Form, Mem
<1>3. /\ Started(Mem(t), Prologue(Mem(t)))
      /\ W!mem_sbrk(Mem(t), 4 * WSIZE) = [s |-> Fetched(Mem(t)), p |-> BASE] /\ BASE # NULL
  BY <1>1, InitPrologue
<1>4. start = D!mem_sbrk(w, 4 * WSIZE)
  OBVIOUS
<1>5. D!mm_init(t) = IF start.p = NULL THEN D!InitEnds(start)
        ELSE D!InitEnds(D!extend_heap(
               D!PUT(D!PUT(D!PUT(D!PUT(start.s, start.p, 0), start.p + WSIZE, D!PACK(DSIZE, 1)),
                           start.p + 2 * WSIZE, D!PACK(DSIZE, 1)),
                     start.p + 3 * WSIZE, D!PACK(0, 1)), CHUNKSIZE))
  BY SameDefs DEF D!mm_init
<1> HIDE DEF w, start
<1>6. Form(start.s) /\ start.s.lists = D!NoLists /\ Mem(start.s) = Fetched(Mem(t)) /\ start.p = BASE
  <2> DEFINE bytes == 4 * WSIZE
  <2>1. start = D!mem_sbrk(w, bytes)
    BY <1>4
  <2>2. W!mem_sbrk(Mem(w), bytes) = [s |-> Fetched(Mem(t)), p |-> BASE]
    BY <1>2, <1>3
  <2> HIDE DEF bytes
  <2>3. /\ Form(start.s) /\ start.s.lists = w.lists
        /\ Mem(start.s) = W!mem_sbrk(Mem(w), bytes).s /\ start.p = W!mem_sbrk(Mem(w), bytes).p
    BY <1>2, <2>1, SbrkMem
  <2> QED
    BY <1>2, <2>2, <2>3
<1>7. D!PACK(DSIZE, 1) = DSIZE + 1 /\ D!PACK(0, 1) = 1
  BY DEF D!PACK
<1>8. D!mm_init(t) = D!InitEnds(D!extend_heap(u, CHUNKSIZE))
  BY <1>3, <1>5, <1>6, <1>7
<1>9. Form(t1) /\ t1.lists = D!NoLists /\ Mem(t1) = W!PUT(Fetched(Mem(t)), BASE, 0)
  BY <1>6, PutMem
<1>10. t2 = D!PUT(t1, BASE + WSIZE, DSIZE + 1)
  OBVIOUS
<1>11. t3 = D!PUT(t2, BASE + 2 * WSIZE, DSIZE + 1)
  OBVIOUS
<1>12. u = D!PUT(t3, BASE + 3 * WSIZE, 1)
  OBVIOUS
<1> HIDE DEF t1, t2, t3, u
<1>13. Form(t2) /\ t2.lists = D!NoLists /\ Mem(t2) = W!PUT(Mem(t1), BASE + WSIZE, DSIZE + 1)
  BY <1>9, <1>10, PutMem
<1>14. Form(t3) /\ t3.lists = D!NoLists /\ Mem(t3) = W!PUT(Mem(t2), BASE + 2 * WSIZE, DSIZE + 1)
  BY <1>11, <1>13, PutMem
<1>15. Form(u) /\ u.lists = D!NoLists /\ Mem(u) = W!PUT(Mem(t3), BASE + 3 * WSIZE, 1)
  BY <1>12, <1>14, PutMem
<1>16. Mem(u) = Prologue(Mem(t))
  BY <1>9, <1>13, <1>14, <1>15 DEF Prologue
<1>17. /\ DGood(u) /\ u.brk = FIRST
       /\ W!GET(Mem(u), BASE + WSIZE) = DSIZE + 1
       /\ W!GET(Mem(u), BASE + 2 * WSIZE) = DSIZE + 1
  <2>1. Good(Mem(u)) /\ Mem(u).brk = FIRST
    BY <1>3, <1>16 DEF Started
  <2>2. Mem(u).brk = u.brk
    BY DEF Mem
  <2> QED
    BY <1>3, <1>15, <1>16, <2>1, <2>2 DEF Started, DGood
<1> QED
  BY <1>8, <1>15, <1>17 DEF DStarted

\* A heap of one free block, which is on no list yet.
Single(m) == Heap([b \in {FIRST} |-> m], {}, {}, FIRST + m)

LEMMA SingleFacts ==
    ASSUME NEW m \in Nat, m % 8 = 0, m >= MIN_BLOCK_SIZE, FIRST + m <= MAX_ADDR,
           NEW g, g = Single(m)
    PROVE  /\ Sound(g) /\ Pending(g, FIRST) /\ g.listed = Free(g) \ {FIRST}
           /\ Blocks(g) = {FIRST} /\ Free(g) = {FIRST} /\ g.size[FIRST] = m
           /\ g.used = {} /\ g.listed = {} /\ g.brk = FIRST + m /\ EndOf(g, FIRST) = FIRST + m
<1>1. FIRST \in Nat /\ FIRST % 8 = 0 /\ m > 0 /\ FIRST + m \in Nat
  <2>1. BASE \in Nat /\ BASE % 8 = 0
    BY BlocksAssumption
  <2> QED
    BY <2>1, DSizes DEF FIRST
<1>2. /\ g.size = [b \in {FIRST} |-> m] /\ g.used = {} /\ g.listed = {}
      /\ g.brk = FIRST + m /\ g = Heap(g.size, g.used, g.listed, g.brk)
  BY HeapFields DEF Single
<1>3. /\ Blocks(g) = {FIRST} /\ g.size[FIRST] = m /\ Free(g) = {FIRST}
      /\ EndOf(g, FIRST) = FIRST + m
  BY <1>2 DEF Blocks, Free, EndOf
<1>4. HeapType(g) /\ WellSized(g)
  BY <1>1, <1>2, <1>3 DEF HeapType, WellSized
<1>5. Tiled(g)
  BY <1>1, <1>2, <1>3 DEF Tiled
<1>6. Pending(g, FIRST)
  BY <1>1, <1>2, <1>3, <1>4, <1>5 DEF Pending, Sound
<1> QED
  BY <1>2, <1>3, <1>4, <1>5, <1>6 DEF Sound

\* The heap that mm_init leaves: one free block, on the list of its class.
FirstHeap == Settled(Single(ExtendBytes(CHUNKSIZE)), FIRST)

\* No list at all.
LEMMA ShelvedNone ==
    ASSUME NEW u, DGood(u), u.lists = D!NoLists, NEW h
    PROVE  Shelved(u, h, {})
<1> SUFFICES ASSUME NEW c \in D!Classes
             PROVE  Linked(Shelf(u, c), InClass(h, {}, c))
  BY DEF Shelved
<1>1. Shelf(u, c).head = NULL /\ Shelf(u, c).rover = NULL
  <2>1. Shelf(u, c).head = u.lists[c] /\ Shelf(u, c).rover = NULL
    BY ShelfFacts
  <2>2. u.lists[c] = NULL
    BY SameDefs DEF D!NoLists
  <2> QED
    BY <2>1, <2>2
<1>2. InClass(h, {}, c) = {}
  BY DEF InClass
<1> DEFINE r == [x \in {} |-> 0]
<1>3. r \in [{} -> Nat]
  OBVIOUS
<1>4. Ranked(Shelf(u, c), {}, r)
  BY <1>1 DEF Ranked
<1> QED
  BY <1>2, <1>3, <1>4 DEF Linked

LEMMA DInitWords ==
    ASSUME NEW t, DGood(t), t.brk = BASE
    PROVE  DMirrors(D!mm_init(t), FirstHeap) /\ FirstHeap.used = {}
<1> DEFINE m == ExtendBytes(CHUNKSIZE)
           k == FirstHeap
           g == Single(m)
           c == coalesce(g, FIRST)
<1>1. /\ m \in Nat /\ m % 8 = 0 /\ m >= MIN_BLOCK_SIZE
      /\ m <= MaxRequest + CHUNKSIZE + 8 * WSIZE /\ FIRST + m <= MAX_ADDR
  <2>1. CHUNKSIZE >= MIN_BLOCK_SIZE /\ CHUNKSIZE \in Nat /\ CHUNKSIZE % 8 = 0
    BY ClientAssumption, GeometryAssumption
  <2>2. /\ m \in Nat /\ m % 8 = 0 /\ m <= CHUNKSIZE + 8 * WSIZE
        /\ FIRST + m + 4 * WSIZE <= MAX_ADDR
    BY <2>1, InitSizes
  <2>3. m >= CHUNKSIZE
    BY <2>1, Extension
  <2>4. MaxRequest \in Nat /\ FIRST \in Nat /\ MAX_ADDR \in Nat
    BY BlocksAssumption, WordSizes
  <2> HIDE DEF m
  <2> QED
    BY <2>1, <2>2, <2>3, <2>4, DSizes
<1>2. /\ g = Single(m) /\ k = Settled(g, FIRST) /\ c = coalesce(g, FIRST)
      /\ m = ExtendBytes(CHUNKSIZE)
  BY DEF FirstHeap
<1> HIDE DEF m, k, g, c
<1>3. /\ Sound(g) /\ Pending(g, FIRST) /\ g.listed = Free(g) \ {FIRST}
      /\ Blocks(g) = {FIRST} /\ Free(g) = {FIRST} /\ g.size[FIRST] = m
      /\ g.used = {} /\ g.listed = {} /\ g.brk = FIRST + m /\ EndOf(g, FIRST) = FIRST + m
  BY <1>1, <1>2, SingleFacts
<1>4. PICK u : DStarted(t, u)
  BY DInitPrologue
<1>5. /\ DGood(u) /\ Form(u) /\ Good(Mem(u)) /\ u.brk = FIRST /\ Mem(u).brk = FIRST
      /\ u.lists = D!NoLists
      /\ W!GET(Mem(u), BASE + WSIZE) = DSIZE + 1
      /\ W!GET(Mem(u), BASE + 2 * WSIZE) = DSIZE + 1
      /\ D!mm_init(t) = D!InitEnds(D!extend_heap(u, CHUNKSIZE))
  BY <1>4 DEF DStarted, DGood, Mem
<1>6. FIRST \in Nat /\ FIRST % 8 = 0 /\ FIRST # NULL /\ FIRST <= MAX_ADDR
  <2>1. BASE \in Nat /\ BASE % 8 = 0 /\ MAX_ADDR \in Nat
    BY BlocksAssumption, WordSizes
  <2> QED
    BY <1>1, <2>1, DSizes DEF FIRST, NULL
<1> DEFINE grown == D!mem_sbrk(u, m)
           v == grown.s
           w == D!SetTags(v, FIRST, m, 0)
           x == D!SetEpilogue(w, FIRST)
<1>7. /\ ToInt(m) = m
      /\ W!mem_sbrk(Mem(u), m) = [s |-> [Mem(u) EXCEPT !.brk = FIRST + m], p |-> FIRST]
  BY <1>1, <1>5, <1>6, SbrkWords
<1>8. /\ Form(v) /\ v.lists = D!NoLists /\ Mem(v) = [Mem(u) EXCEPT !.brk = FIRST + m]
      /\ grown.p = FIRST
  BY <1>5, <1>7, SbrkMem
<1>9. D!extend_heap(u, CHUNKSIZE) = D!coalesce(x, FIRST)
  <2>1. D!ExtendBytes(CHUNKSIZE) = m /\ D!ToInt(m) = m
    BY <1>2, <1>7, SameOperators
  <2> QED
    BY <1>6, <1>8, <2>1, SameDefs DEF D!extend_heap
<1>10. w = D!SetTags(v, FIRST, m, 0) /\ x = D!SetEpilogue(w, FIRST)
  OBVIOUS
<1> HIDE DEF grown, v, w, x
<1>11. /\ Good(Mem(v)) /\ Mem(v).brk = FIRST + m
       /\ \A a : W!GET(Mem(v), a) = W!GET(Mem(u), a)
  <2>1. FIRST + m \in Int
    BY <1>1, <1>6
  <2>2. Good(Mem(v)) /\ Mem(v).brk = FIRST + m /\ Mem(v).mem = Mem(u).mem
    BY <1>5, <1>8, <2>1 DEF Good
  <2> QED
    BY <2>2, SameMemory
<1>12. Form(w) /\ w.lists = D!NoLists /\ Mem(w) = W!SetTags(Mem(v), FIRST, m, 0)
  BY <1>8, <1>10, SetTagsMem
<1>13. Form(x) /\ x.lists = D!NoLists /\ Mem(x) = W!SetEpilogue(Mem(w), FIRST)
  BY <1>10, <1>12, SetEpilogueMem
<1>14. Appended(Mem(v), Mem(x), FIRST, m)
  <2>1. m >= 4 * WSIZE /\ FIRST <= FIRST
    BY <1>1, <1>6, DSizes
  <2>2. Appended(Mem(v), W!SetEpilogue(W!SetTags(Mem(v), FIRST, m, 0), FIRST), FIRST, m)
    BY <1>1, <1>6, <1>11, <2>1, AppendWords
  <2> QED
    BY <1>12, <1>13, <2>2
<1>15. DGood(x) /\ x.brk = g.brk
  BY <1>3, <1>13, <1>14 DEF Appended, DGood, Mem
<1>16. Tags(Mem(x), g)
  <2>1. /\ W!GET(Mem(x), FIRST - WSIZE) = m /\ W!GET(Mem(x), FIRST + m - DSIZE) = m
        /\ W!GET(Mem(x), FIRST + m - WSIZE) = 1
        /\ \A a \in Int : a # FIRST - WSIZE /\ a # FIRST + m - DSIZE /\ a # FIRST + m - WSIZE
                          => W!GET(Mem(x), a) = W!GET(Mem(v), a)
    BY <1>14 DEF Appended
  <2>2. FIRST + m - DSIZE = (FIRST + m) - DSIZE /\ FIRST + m - WSIZE = (FIRST + m) - WSIZE
    BY <1>1, <1>6, DSizes
  <2>3. /\ W!GET(Mem(x), (FIRST + m) - DSIZE) = m
        /\ W!GET(Mem(x), (FIRST + m) - WSIZE) = 1
    BY <2>1, <2>2
  <2>4. ASSUME NEW a \in {BASE + WSIZE, BASE + 2 * WSIZE}
        PROVE  W!GET(Mem(x), a) = DSIZE + 1
    <3>1. BASE \in Nat /\ FIRST = BASE + 16 /\ m \in Nat /\ m >= 16
      BY <1>1, BlocksAssumption, DSizes DEF FIRST
    <3>2. a \in Int /\ a # FIRST - WSIZE /\ a # FIRST + m - DSIZE /\ a # FIRST + m - WSIZE
      BY <2>2, <3>1, DSizes
    <3> QED
      BY <1>5, <1>11, <2>1, <3>2
  <2>5. Edges(Mem(x), g)
    BY <1>3, <2>3, <2>4 DEF Edges
  <2>6. Tag(g, FIRST) = m
    BY <1>1, <1>3 DEF Tag, Alloc
  <2>7. Tagged(Mem(x), g, FIRST)
    BY <1>3, <2>1, <2>3, <2>6 DEF Tagged
  <2> QED
    BY <1>3, <2>5, <2>7 DEF Tags
<1>17. DShows(x, g)
  <2>1. Shelved(x, g, g.listed)
    BY <1>3, <1>13, <1>15, ShelvedNone
  <2> QED
    BY <1>3, <1>15, <1>16, <2>1 DEF DShows, Holding
<1>18. k = insert_node(c.h, c.p)
  BY <1>2 DEF Settled
<1> DEFINE r == D!coalesce(x, FIRST)
<1>19. r = D!coalesce(x, FIRST)
  OBVIOUS
<1> HIDE DEF r
<1>20. r.p = c.p /\ DShows(r.s, k)
  <2>1. FIRST \in Free(g)
    BY <1>3
  <2> QED
    BY <1>2, <1>3, <1>17, <1>18, <1>19, <2>1, DCoalesceWords
<1>21. WF(k) /\ k.listed = Free(k) /\ SameUsed(g, k)
  BY <1>2, <1>3, SettledDone
<1>22. DMirrors(r.s, k) /\ k.used = {}
  BY <1>3, <1>20, <1>21 DEF DMirrors, SameUsed
<1>23. D!mm_init(t) = r.s
  <2>1. r.p # NULL
    <3>1. c.p \in Free(c.h) /\ Sound(c.h)
      BY <1>2, <1>3, CoalesceReady DEF Ready
    <3> QED
      BY <1>20, <3>1, BlockNotNull DEF Free
  <2> QED
    BY <1>5, <1>9, <1>19, <2>1, SameDefs DEF D!InitEnds
<1> QED
  BY <1>22, <1>23 DEF k

\* A new process.
LEMMA FreshGood == DGood(D!Fresh) /\ D!Fresh.brk = BASE
<1>1. D!FreshMemory \in [W!Words -> Int]
  BY SameDefs DEF D!FreshMemory
<1>2. D!NoLists \in [D!Classes -> Int]
  BY SameDefs DEF D!NoLists, NULL
<1>3. BASE \in Int /\ NULL \in Int
  BY BlocksAssumption DEF NULL
<1> QED
  BY <1>1, <1>2, <1>3 DEF D!Fresh, DGood, Form, Mem, Good

-----------------------------------------------------------------------------
(* The client of mm-ds2.c.                                                 *)

\* It is that of mm.c, but for the package it calls.
LEMMA SameClient ==
    /\ DC!Unheld = C!Unheld /\ DC!Nobody = C!Nobody /\ DC!NULL = NULL
    /\ \A i : DC!Fill(i) = C!Fill(i)
    /\ \A f : DC!LiveOf(f) = C!LiveOf(f)
    /\ \A i : DC!IsHeld(i) <=> C!IsHeld(i)
<1>1. DC!NULL = NULL /\ C!NULL = NULL
  BY DEF DC!NULL, C!NULL, NULL
<1>2. DC!Unheld = C!Unheld
  BY <1>1 DEF DC!Unheld, C!Unheld
<1>3. DC!Nobody = C!Nobody
  BY <1>2 DEF DC!Nobody, C!Nobody
<1>4. \A i : DC!Fill(i) = C!Fill(i)
  BY DEF DC!Fill, C!Fill
<1>5. \A f : DC!LiveOf(f) = C!LiveOf(f)
  BY <1>2 DEF DC!LiveOf, C!LiveOf
<1>6. \A i : DC!IsHeld(i) <=> C!IsHeld(i)
  BY <1>1 DEF DC!IsHeld, C!IsHeld
<1> QED
  BY <1>1, <1>2, <1>3, <1>4, <1>5, <1>6

\* What the client holds fits into the blocks.
LEMMA HoldsAgrees ==
    ASSUME NEW t, NEW h, Sound(h), NEW f, Holds(t, h, f)
    PROVE  Agrees(h, C!LiveOf(f))
<1> DEFINE l == C!LiveOf(f)
<1>1. Lives(l, h, f)
  BY LiveIs
<1> HIDE DEF l
<1>2. l = [p \in h.used |-> l[p]]
  BY <1>1 DEF Lives
<1>3. ASSUME NEW p \in h.used
      PROVE  l[p] \in Requests \ {0} /\ l[p] + DSIZE <= h.size[p]
  <2>1. p # NULL
    BY BlockNotNull DEF Sound, HeapType
  <2>2. PICK i \in Ids : f[i].p = p
    BY DEF Holds
  <2>3. l[p] = f[i].n
    BY <1>1, <2>1, <2>2, LivesAt
  <2>4. Owns(t, h, i, f[i])
    BY <2>1, <2>2, HeldBlock
  <2> QED
    BY <2>2, <2>3, <2>4 DEF Owns
<1>4. l \in [h.used -> Requests \ {0}]
  BY <1>2, <1>3
<1> QED
  BY <1>3, <1>4 DEF Agrees, l

\* The words t are those of the heap h, whose blocks f holds.
DStands(t, h, f) == DMirrors(t, h) /\ Holds(Mem(t), h, f)

LEMMA DStandsFacts ==
    ASSUME NEW t, NEW h, NEW f, DStands(t, h, f)
    PROVE  /\ DMirrors(t, h) /\ Holds(Mem(t), h, f) /\ WF(h) /\ Sound(h)
           /\ DGood(t) /\ Form(t) /\ Good(Mem(t))
           /\ h.used \subseteq Blocks(h) /\ NULL \notin h.used
           /\ Agrees(h, C!LiveOf(f))
<1>1. DMirrors(t, h) /\ Holds(Mem(t), h, f)
  BY DEF DStands
<1>2. WF(h) /\ Sound(h) /\ DGood(t) /\ h.used \subseteq Blocks(h)
  BY <1>1, DMirrorsFacts
<1>3. NULL \notin h.used
  BY <1>2, BlockNotNull
<1>4. Agrees(h, C!LiveOf(f))
  BY <1>1, <1>2, HoldsAgrees
<1> QED
  BY <1>1, <1>2, <1>3, <1>4 DEF DGood

\* The client has filled the n bytes that it got for i at q.
DRefilled(v, q, n, i, g, f, l) ==
    /\ DStands(D!memset(v, q, n, C!Fill(i)), g, [f EXCEPT ![i] = [p |-> q, n |-> n]])
    /\ C!LiveOf([f EXCEPT ![i] = [p |-> q, n |-> n]]) = Bind(l, q, n)

LEMMA DRefilledIs ==
    ASSUME NEW t, NEW h, NEW f, DStands(t, h, f), NEW i \in Ids,
           NEW p, p = f[i].p,
           NEW g, NEW q \in Blocks(g), q = p \/ q \notin h.used,
           g.used = (h.used \ {p}) \cup {q},
           \A x \in h.used : x # p => g.size[x] = h.size[x],
           NEW n \in Requests \ {0}, g.size[q] >= n + DSIZE,
           NEW v, DMirrors(v, g), KeptBut(Mem(t), Mem(v), h, p)
    PROVE  DRefilled(v, q, n, i, g, f, Unbind(C!LiveOf(f), p))
<1> DEFINE u == D!memset(v, q, n, C!Fill(i))
           e == [f EXCEPT ![i] = [p |-> q, n |-> n]]
<1>1. /\ Sound(h) /\ Holds(Mem(t), h, f) /\ Sound(g)
      /\ Form(v) /\ Good(Mem(v))
  BY DStandsFacts, DMirrorsFacts DEF DGood
<1>2. n \in Nat /\ n + DSIZE <= g.size[q] /\ C!Fill(i) \in Int
  <2>1. g.size[q] \in Nat /\ DSIZE \in Nat /\ n \in Nat
    BY <1>1, RequestRange, WordSizes DEF Sound, HeapType
  <2> QED
    BY <2>1, FillInt
<1>3. Form(u) /\ u.lists = v.lists /\ Mem(u) = W!memset(Mem(v), q, n, C!Fill(i))
  BY <1>1, MemsetMem
<1>4. Changed(f, e, i, [p |-> q, n |-> n])
  BY <1>1, ChangedIs
<1> HIDE DEF u, e
<1>5. Overwrote(Mem(v), Mem(u), g, q) /\ W!Filled(Mem(u), q, n, C!Fill(i))
  BY <1>1, <1>2, <1>3, MemsetWords
<1>6. DMirrors(u, g) /\ KeptBut(Mem(v), Mem(u), g, q)
  <2>1. q \in g.used
    OBVIOUS
  <2> QED
    BY <1>3, <1>5, <2>1, DOverwroteWords
<1>7. KeptBut(Mem(t), Mem(u), h, p)
  BY <1>6, KeptButTwice
<1>8. Holds(Mem(u), g, e) /\ C!LiveOf(e) = Bind(Unbind(C!LiveOf(f), p), q, n)
  BY <1>1, <1>4, <1>5, <1>7, HoldsMore
<1> QED
  BY <1>6, <1>8 DEF DStands, DRefilled, u, e

\* The client got a payload of n bytes for i, beside l, and has filled it.
DGave(r, n, i, f, l) ==
    /\ n # 0 /\ r.p \notin D!NoBlock
    /\ r.p \in BASE .. MAX_ADDR /\ API!Acceptable(l, r.p, n)
    /\ \E g : DRefilled(r.s, r.p, n, i, g, f, l)

LEMMA DMallocGave ==
    ASSUME NEW t, NEW h, NEW f, DStands(t, h, f), NEW i \in Ids,
           f[i].p = NULL, NEW n \in Requests, NEW r, r = D!mm_malloc(t, n)
    PROVE  r = [s |-> t, p |-> NULL] \/ DGave(r, n, i, f, C!LiveOf(f))
<1> DEFINE l == C!LiveOf(f)
<1>1. DMirrors(t, h) /\ WF(h) /\ Sound(h) /\ NULL \notin h.used /\ Agrees(h, l)
  BY DStandsFacts
<1> HIDE DEF l
<1>2. \/ r = [s |-> t, p |-> NULL]
      \/ n # 0 /\ r.p # NULL /\ \E g : DServed(t, h, g, r, n)
  BY <1>1, DMallocWords
<1>3. ASSUME NEW g, n # 0, DServed(t, h, g, r, n)
      PROVE  DGave(r, n, i, f, l)
  <2>1. DMirrors(r.s, g) /\ Served(h, g, r.p, n) /\ Kept(Mem(t), Mem(r.s), h)
    BY <1>3 DEF DServed
  <2>2. /\ r.p \in Blocks(g) /\ r.p \notin h.used /\ g.used = h.used \cup {r.p}
        /\ \A x \in h.used : g.size[x] = h.size[x]
        /\ g.size[r.p] >= n + DSIZE /\ n \in Requests \ {0} /\ Sound(g)
    BY <1>3, <2>1 DEF Served, WF
  <2>3. g.used = (h.used \ {NULL}) \cup {r.p} /\ Unbind(l, NULL) = l
    <3>1. l = [x \in h.used |-> l[x]]
      BY <1>1 DEF Agrees
    <3>2. h.used \ {NULL} = h.used
      BY <1>1
    <3>3. Unbind(l, NULL) = l
      BY <3>1, <3>2 DEF Unbind
    <3> QED
      BY <2>2, <3>2, <3>3
  <2>4. KeptBut(Mem(t), Mem(r.s), h, NULL)
    BY <2>1 DEF Kept, KeptBut
  <2>5. DRefilled(r.s, r.p, n, i, g, f, Unbind(C!LiveOf(f), NULL))
    BY <2>1, <2>2, <2>3, <2>4, DRefilledIs
  <2>6. r.p \notin D!NoBlock
    BY <2>2, NotNoBlock, SameDefs
  <2>7. r.p \in BASE .. MAX_ADDR /\ API!Acceptable(l, r.p, n)
    BY <1>1, <2>1, <2>2, MallocAccepted
  <2> QED
    BY <1>3, <2>3, <2>5, <2>6, <2>7 DEF DGave, l
<1> QED
  BY <1>2, <1>3 DEF l

\* i has given its block p back.
DFreed(u, g, i, f, l, p) ==
    /\ DStands(u, g, [f EXCEPT ![i] = C!Unheld])
    /\ C!LiveOf([f EXCEPT ![i] = C!Unheld]) = Unbind(l, p)

LEMMA DDisposeGave ==
    ASSUME NEW t, NEW h, NEW f, DStands(t, h, f), NEW i \in Ids,
           NEW p \in h.used, p = f[i].p
    PROVE  DFreed(D!mm_free(t, p), mm_free(h, p), i, f, C!LiveOf(f), p)
<1> DEFINE g == mm_free(h, p)
           u == D!mm_free(t, p)
           e == [f EXCEPT ![i] = C!Unheld]
<1>1. /\ DMirrors(t, h) /\ WF(h) /\ Sound(h) /\ Holds(Mem(t), h, f)
      /\ g = mm_free(h, p) /\ u = D!mm_free(t, p)
  BY DStandsFacts
<1>2. Changed(f, e, i, C!Unheld)
  BY <1>1, ChangedIs
<1> HIDE DEF g, u, e
<1>3. DMirrors(u, g) /\ Kept(Mem(t), Mem(u), g)
  BY <1>1, DFreeWords
<1>4. WF(g) /\ Sound(g) /\ g.used = h.used \ {p} /\ \A x \in g.used : g.size[x] = h.size[x]
  BY <1>1, FreeDone DEF WF
<1>5. KeptBut(Mem(t), Mem(u), h, p)
  <2> SUFFICES ASSUME NEW x \in h.used \ {p}, NEW a \in Int, x <= a, a < EndOf(h, x) - DSIZE
               PROVE  W!GET(Mem(u), a) = W!GET(Mem(t), a)
    BY DEF KeptBut
  <2>1. x \in g.used /\ EndOf(g, x) = EndOf(h, x)
    BY <1>4 DEF EndOf
  <2> QED
    BY <1>3, <2>1 DEF Kept
<1>6. Holds(Mem(u), g, e) /\ C!LiveOf(e) = Unbind(C!LiveOf(f), p)
  BY <1>1, <1>2, <1>4, <1>5, HoldsLess
<1> QED
  BY <1>3, <1>6 DEF DFreed, DStands, g, u, e

LEMMA DReallocGave ==
    ASSUME NEW t, NEW h, NEW f, DStands(t, h, f), NEW i \in Ids,
           NEW p \in h.used, p = f[i].p, NEW n \in Requests, NEW r, r = D!mm_realloc(t, p, n)
    PROVE  \/ n = 0 /\ DFreed(r.s, mm_free(h, p), i, f, C!LiveOf(f), p)
           \/ n # 0 /\ r = [s |-> t, p |-> NULL]
           \/ /\ DGave(r, n, i, f, Unbind(C!LiveOf(f), p))
              /\ D!Filled(r.s, r.p, CopyOf(f, i, n), C!Fill(i))
<1> DEFINE k == CopyOf(f, i, n)
           l == C!LiveOf(f)
<1>1. /\ DMirrors(t, h) /\ Holds(Mem(t), h, f) /\ WF(h) /\ Sound(h) /\ n \in Nat
      /\ h.used \subseteq Blocks(h) /\ Agrees(h, l)
  BY DStandsFacts, RequestRange
<1>2. /\ p \in Blocks(h) /\ p # NULL /\ p \in Nat
      /\ f[i].n \in Nat /\ f[i].n + DSIZE <= h.size[p] /\ W!Filled(Mem(t), p, f[i].n, C!Fill(i))
  <2>1. p \in Blocks(h) /\ p # NULL /\ p \in Nat
    BY <1>1, BlockNotNull
  <2>2. Owns(Mem(t), h, i, f[i])
    BY <1>1, <2>1, HeldBlock
  <2> QED
    BY <2>1, <2>2, RequestRange DEF Owns
<1>3. k \in Nat /\ k + DSIZE <= h.size[p] /\ k <= n /\ k <= f[i].n
  <2>1. h.size[p] \in Nat /\ DSIZE \in Nat
    BY <1>1, <1>2, WordSizes DEF Sound, HeapType
  <2> QED
    BY <1>1, <1>2, <2>1 DEF CopyOf
<1> HIDE DEF k, l
<1>4. \/ n = 0 /\ r = [s |-> D!mm_free(t, p), p |-> NULL]
      \/ n # 0 /\ r = [s |-> t, p |-> NULL]
      \/ n # 0 /\ DMoved(t, h, r, p, n, k)
  BY <1>1, <1>3, DReallocWords
<1>5. CASE n = 0 /\ r = [s |-> D!mm_free(t, p), p |-> NULL]
  <2>1. DFreed(D!mm_free(t, p), mm_free(h, p), i, f, C!LiveOf(f), p)
    BY DDisposeGave
  <2>2. r.s = D!mm_free(t, p)
    BY <1>5
  <2> QED
    BY <1>5, <2>1, <2>2
<1>6. ASSUME n # 0, DMoved(t, h, r, p, n, k)
      PROVE  DGave(r, n, i, f, Unbind(l, p)) /\ D!Filled(r.s, r.p, k, C!Fill(i))
  <2>1. PICK g : DMirrors(r.s, g) /\ Resized(h, g, p, r.p, n)
    BY <1>6 DEF DMoved
  <2>2. KeptBut(Mem(t), Mem(r.s), h, p) /\ Carried(Mem(t), Mem(r.s), p, r.p, k)
    BY <1>6 DEF DMoved
  <2>3. /\ r.p \in Blocks(g) /\ (r.p = p \/ r.p \notin h.used)
        /\ g.used = (h.used \ {p}) \cup {r.p}
        /\ \A x \in h.used : x # p => g.size[x] = h.size[x]
        /\ g.size[r.p] >= n + DSIZE /\ n \in Requests \ {0} /\ Sound(g)
    BY <1>6, <2>1 DEF Resized, WF
  <2>4. DRefilled(r.s, r.p, n, i, g, f, Unbind(C!LiveOf(f), p))
    BY <2>1, <2>2, <2>3, DRefilledIs
  <2>5. r.p \notin D!NoBlock /\ r.p \in Int
    BY <2>3, NotNoBlock, SameDefs
  <2>6. r.p \in BASE .. MAX_ADDR /\ API!Acceptable(Unbind(l, p), r.p, n)
    BY <1>1, <2>1, <2>3, ReallocAccepted
  <2>7. W!Filled(Mem(r.s), r.p, k, C!Fill(i))
    BY <1>2, <1>3, <2>2, <2>5, CarriedFilled
  <2>8. D!Filled(r.s, r.p, k, C!Fill(i))
    BY <2>7, FilledMem
  <2> QED
    BY <1>6, <2>4, <2>5, <2>6, <2>8 DEF DGave, l
<1> QED
  BY <1>4, <1>5, <1>6 DEF k, l

-----------------------------------------------------------------------------
(* The steps of the client.                                                *)

\* What a step of the client of mm-ds2.c leaves.
Stood == \E g : DStands(s', g, held')

\* live, as MallocAPI has it, and the operators on it.
LEMMA PromiseWords ==
    /\ DC!LiveOf(held) = C!LiveOf(held) /\ DC!LiveOf(held)' = C!LiveOf(held')
    /\ \A f, p, n : Promise!Acceptable(f, p, n) <=> API!Acceptable(f, p, n)
    /\ \A f, p, n : Promise!Bind(f, p, n) = Bind(f, p, n)
    /\ \A f, p : Promise!Unbind(f, p) = Unbind(f, p)
<1>1. DC!Unheld = C!Unheld
  BY SameClient
<1>2. DC!LiveOf(held) = C!LiveOf(held)
  BY SameClient
<1>3. DC!LiveOf(held)' = C!LiveOf(held')
  BY DEF DC!LiveOf, C!LiveOf, DC!Unheld, C!Unheld, DC!NULL, C!NULL
<1>4. \A f, p, n : Promise!Acceptable(f, p, n) <=> API!Acceptable(f, p, n)
  BY DEF Promise!Acceptable, API!Acceptable
<1>5. \A f, p, n : Promise!Bind(f, p, n) = Bind(f, p, n)
  BY DEF Promise!Bind, Bind
<1>6. \A f, p : Promise!Unbind(f, p) = Unbind(f, p)
  BY DEF Promise!Unbind, Unbind
<1> QED
  BY <1>2, <1>3, <1>4, <1>5, <1>6

\* What the client gets, after it has filled it, is promised.
LEMMA GaveStands ==
    ASSUME NEW r, NEW i, NEW n, NEW l, DGave(r, n, i, held, l),
           s' = D!memset(r.s, r.p, n, DC!Fill(i)),
           held' = [held EXCEPT ![i] = [p |-> r.p, n |-> n]]
    PROVE  /\ Stood
           /\ r.p \in BASE .. MAX_ADDR /\ Promise!Acceptable(l, r.p, n)
           /\ DC!LiveOf(held)' = Promise!Bind(l, r.p, n)
<1>1. PICK g : DRefilled(r.s, r.p, n, i, g, held, l)
  BY DEF DGave
<1>2. s' = D!memset(r.s, r.p, n, C!Fill(i))
  BY SameClient
<1>3. DStands(s', g, held') /\ C!LiveOf(held') = Bind(l, r.p, n)
  BY <1>1, <1>2 DEF DRefilled
<1> QED
  BY <1>3, PromiseWords DEF Stood, DGave

LEMMA DMallocStep ==
    ASSUME NEW h, DStands(s, h, held), NEW i \in Ids, NEW n \in Requests, DC!Malloc(i, n)
    PROVE  Stood /\ Promise!Malloc(n)
<1> DEFINE r == D!mm_malloc(s, n)
<1>1. /\ ~DC!IsHeld(i)
      /\ r.p \in D!NoBlock => s' = r.s /\ held' = held
      /\ r.p \notin D!NoBlock => /\ s' = D!memset(r.s, r.p, n, DC!Fill(i))
                                 /\ held' = [held EXCEPT ![i] = [p |-> r.p, n |-> n]]
  BY DEF DC!Malloc, DC!NextId
<1>2. r = D!mm_malloc(s, n)
  OBVIOUS
<1> HIDE DEF r
<1>3. held[i].p = NULL
  BY <1>1, SameClient, Nulls DEF C!IsHeld
<1>4. r = [s |-> s, p |-> NULL] \/ DGave(r, n, i, held, C!LiveOf(held))
  BY <1>2, <1>3, DMallocGave
<1>5. CASE r = [s |-> s, p |-> NULL]
  <2>1. r.p = NULL /\ r.s = s
    BY <1>5
  <2>2. s' = s /\ held' = held
    BY <1>1, <2>1, SameDefs, Nulls
  <2>3. DC!LiveOf(held)' = DC!LiveOf(held)
    BY <2>2, PromiseWords
  <2> QED
    BY <2>2, <2>3 DEF Stood, Promise!Malloc
<1>6. CASE DGave(r, n, i, held, C!LiveOf(held))
  <2>1. r.p \notin D!NoBlock /\ n # 0
    BY <1>6 DEF DGave
  <2>2. /\ Stood
        /\ r.p \in BASE .. MAX_ADDR /\ Promise!Acceptable(C!LiveOf(held), r.p, n)
        /\ DC!LiveOf(held)' = Promise!Bind(C!LiveOf(held), r.p, n)
    BY <1>1, <1>6, <2>1, GaveStands
  <2> QED
    BY <2>1, <2>2, PromiseWords DEF Promise!Malloc
<1> QED
  BY <1>4, <1>5, <1>6

\* The name holds an allocated block, or nothing.
LEMMA DHeld ==
    ASSUME NEW t, NEW h, NEW f, DStands(t, h, f), NEW i \in Ids
    PROVE  /\ f[i].p # NULL => f[i].p \in h.used /\ f[i].p \in DOMAIN C!LiveOf(f)
           /\ f[i].p = NULL => f[i] = C!Unheld /\ f[i].n = 0
<1>1. Sound(h) /\ Holds(Mem(t), h, f) /\ Agrees(h, C!LiveOf(f))
  BY DStandsFacts
<1>2. DOMAIN C!LiveOf(f) = h.used
  BY <1>1 DEF Agrees
<1>3. f[i].p # NULL => f[i].p \in h.used
  BY <1>1, HeldBlock DEF Owns
<1>4. f[i].p = NULL => f[i] = C!Unheld
  BY <1>1, HeldBlock
<1> QED
  BY <1>2, <1>3, <1>4, Nulls

LEMMA DDisposeStep ==
    ASSUME NEW h, DStands(s, h, held), NEW i \in Ids, DC!Dispose(i)
    PROVE  /\ Stood /\ Promise!Dispose(held[i].p)
           /\ held[i].p \in DOMAIN DC!LiveOf(held)
<1> DEFINE p == held[i].p
<1>1. DC!IsHeld(i) /\ s' = D!mm_free(s, p) /\ held' = [held EXCEPT ![i] = DC!Unheld]
  BY DEF DC!Dispose
<1>2. p \in h.used /\ p \in DOMAIN C!LiveOf(held) /\ p = held[i].p
  BY <1>1, DHeld, SameClient, Nulls DEF C!IsHeld
<1> HIDE DEF p
<1>3. DFreed(D!mm_free(s, p), mm_free(h, p), i, held, C!LiveOf(held), p)
  BY <1>2, DDisposeGave
<1>4. DStands(s', mm_free(h, p), held') /\ C!LiveOf(held') = Unbind(C!LiveOf(held), p)
  BY <1>1, <1>3, SameClient DEF DFreed
<1>5. DC!LiveOf(held)' = Promise!Unbind(DC!LiveOf(held), p)
  BY <1>4, PromiseWords
<1> QED
  BY <1>2, <1>4, <1>5, PromiseWords DEF Stood, Promise!Dispose

\* mm_realloc, by what it returns and what the client then does.
LEMMA ReallocDoes ==
    ASSUME NEW i \in Ids, NEW n \in Requests, DC!Realloc(i, n),
           NEW r, r = D!mm_realloc(s, held[i].p, n)
    PROVE  /\ n = 0 => s' = r.s /\ held' = [held EXCEPT ![i] = C!Unheld]
           /\ n # 0 /\ r.p \in D!NoBlock => s' = r.s /\ held' = held
           /\ n # 0 /\ r.p \notin D!NoBlock =>
                 /\ D!Filled(r.s, r.p, CopyOf(held, i, n), C!Fill(i))
                       => s' = D!memset(r.s, r.p, n, DC!Fill(i))
                 /\ held' = [held EXCEPT ![i] = [p |-> r.p, n |-> n]]
<1> DEFINE q == D!mm_realloc(s, held[i].p, n)
<1>0. DC!Realloc(i, n)
  OBVIOUS
<1>1. n = 0 => s' = q.s /\ held' = [held EXCEPT ![i] = DC!Unheld]
  BY ONLY <1>0 DEF DC!Realloc
<1>2. ASSUME n # 0, q.p \in D!NoBlock PROVE s' = q.s /\ held' = held
  BY ONLY <1>0, <1>2, Zenon DEF DC!Realloc
<1>3. n # 0 /\ q.p \notin D!NoBlock /\ D!Filled(q.s, q.p, CopyOf(held, i, n), DC!Fill(i))
         => s' = D!memset(q.s, q.p, n, DC!Fill(i))
  BY ONLY <1>0 DEF DC!Realloc, CopyOf
<1>4. ASSUME n # 0, q.p \notin D!NoBlock PROVE held' = [held EXCEPT ![i] = [p |-> q.p, n |-> n]]
  BY ONLY <1>0, <1>4, Zenon DEF DC!Realloc
<1>5. DC!Unheld = C!Unheld /\ DC!Fill(i) = C!Fill(i)
  BY SameClient
<1> QED
  BY <1>1, <1>2, <1>3, <1>4, <1>5

LEMMA DReallocStep ==
    ASSUME NEW h, DStands(s, h, held), NEW i \in Ids, NEW n \in Requests,
           DC!Realloc(i, n), held[i].p # NULL
    PROVE  /\ Stood /\ Promise!Realloc(held[i].p, n)
           /\ held[i].p \in DOMAIN DC!LiveOf(held)
<1> DEFINE p == held[i].p
           r == D!mm_realloc(s, p, n)
           l == Unbind(C!LiveOf(held), p)
<1>1. /\ n = 0 => s' = r.s /\ held' = [held EXCEPT ![i] = C!Unheld]
      /\ n # 0 /\ r.p \in D!NoBlock => s' = r.s /\ held' = held
      /\ n # 0 /\ r.p \notin D!NoBlock =>
            /\ D!Filled(r.s, r.p, CopyOf(held, i, n), C!Fill(i))
                  => s' = D!memset(r.s, r.p, n, DC!Fill(i))
            /\ held' = [held EXCEPT ![i] = [p |-> r.p, n |-> n]]
  BY ReallocDoes
<1>2. p \in h.used /\ p \in DOMAIN C!LiveOf(held) /\ p = held[i].p
  BY DHeld
<1>3. r = D!mm_realloc(s, p, n) /\ l = Promise!Unbind(DC!LiveOf(held), p)
  BY PromiseWords
<1> HIDE DEF r, p
<1>4. \/ n = 0 /\ DFreed(r.s, mm_free(h, p), i, held, C!LiveOf(held), p)
      \/ n # 0 /\ r = [s |-> s, p |-> NULL]
      \/ /\ DGave(r, n, i, held, l)
         /\ D!Filled(r.s, r.p, CopyOf(held, i, n), C!Fill(i))
  BY <1>2, <1>3, DReallocGave
<1>5. CASE n = 0 /\ DFreed(r.s, mm_free(h, p), i, held, C!LiveOf(held), p)
  <2>1. DStands(s', mm_free(h, p), held') /\ C!LiveOf(held') = l
    BY <1>1, <1>5 DEF DFreed
  <2>2. DC!LiveOf(held)' = Promise!Unbind(DC!LiveOf(held), p)
    BY <1>3, <2>1, PromiseWords
  <2> QED
    BY <1>2, <1>5, <2>1, <2>2, PromiseWords DEF Stood, Promise!Realloc
<1>6. CASE n # 0 /\ r = [s |-> s, p |-> NULL]
  <2>1. r.p = NULL /\ r.s = s
    BY <1>6
  <2>2. s' = s /\ held' = held
    BY <1>1, <1>6, <2>1, SameDefs, Nulls
  <2>3. DC!LiveOf(held)' = DC!LiveOf(held)
    BY <2>2, PromiseWords
  <2> QED
    BY <1>2, <1>6, <2>2, <2>3, PromiseWords DEF Stood, Promise!Realloc
<1>7. CASE DGave(r, n, i, held, l) /\ D!Filled(r.s, r.p, CopyOf(held, i, n), C!Fill(i))
  <2>1. r.p \notin D!NoBlock /\ n # 0
    BY <1>7 DEF DGave
  <2> HIDE DEF l
  <2>2. /\ Stood
        /\ r.p \in BASE .. MAX_ADDR /\ Promise!Acceptable(l, r.p, n)
        /\ DC!LiveOf(held)' = Promise!Bind(l, r.p, n)
    BY <1>1, <1>7, <2>1, GaveStands
  <2>3. Promise!Realloc(p, n)
    BY <1>3, <2>1, <2>2 DEF Promise!Realloc
  <2> QED
    BY <1>2, <2>2, <2>3, PromiseWords
<1> QED
  BY <1>4, <1>5, <1>6, <1>7

\* mm_realloc of nothing is mm_malloc.
LEMMA DReallocNullStep ==
    ASSUME NEW h, DStands(s, h, held), NEW i \in Ids, NEW n \in Requests,
           DC!Realloc(i, n), held[i].p = NULL
    PROVE  Stood /\ Promise!Malloc(n)
<1> DEFINE r == D!mm_malloc(s, n)
<1>1. held[i] = C!Unheld /\ held[i].n = 0
  BY DHeld
<1>2. r = D!mm_realloc(s, held[i].p, n)
  BY SameDefs DEF D!mm_realloc
<1>3. r = D!mm_malloc(s, n)
  OBVIOUS
<1> HIDE DEF r
<1>4. /\ n = 0 => s' = r.s /\ held' = [held EXCEPT ![i] = C!Unheld]
      /\ n # 0 /\ r.p \in D!NoBlock => s' = r.s /\ held' = held
      /\ n # 0 /\ r.p \notin D!NoBlock =>
            /\ D!Filled(r.s, r.p, CopyOf(held, i, n), C!Fill(i))
                  => s' = D!memset(r.s, r.p, n, DC!Fill(i))
            /\ held' = [held EXCEPT ![i] = [p |-> r.p, n |-> n]]
  BY <1>2, ReallocDoes
<1>5. D!Filled(r.s, r.p, CopyOf(held, i, n), C!Fill(i))
  <2>1. n \in Nat
    BY RequestRange
  <2>2. CopyOf(held, i, n) = 0
    BY <1>1, <2>1 DEF CopyOf
  <2> QED
    BY <2>2, NothingFilled, FilledMem
<1>6. r = [s |-> s, p |-> NULL] \/ DGave(r, n, i, held, C!LiveOf(held))
  BY <1>3, DMallocGave
<1>7. CASE r = [s |-> s, p |-> NULL]
  <2>1. r.p = NULL /\ r.s = s
    BY <1>7
  <2>2. [held EXCEPT ![i] = C!Unheld] = held
    <3>1. held = [j \in Ids |-> held[j]]
      BY DStandsFacts DEF Holds
    <3> QED
      BY <1>1, <3>1
  <2>3. s' = s /\ held' = held
    BY <1>4, <2>1, <2>2, SameDefs, Nulls
  <2>4. DC!LiveOf(held)' = DC!LiveOf(held)
    BY <2>3, PromiseWords
  <2> QED
    BY <2>3, <2>4 DEF Stood, Promise!Malloc
<1>8. CASE DGave(r, n, i, held, C!LiveOf(held))
  <2>1. r.p \notin D!NoBlock /\ n # 0
    BY <1>8 DEF DGave
  <2>2. /\ Stood
        /\ r.p \in BASE .. MAX_ADDR /\ Promise!Acceptable(C!LiveOf(held), r.p, n)
        /\ DC!LiveOf(held)' = Promise!Bind(C!LiveOf(held), r.p, n)
    BY <1>4, <1>5, <1>8, <2>1, GaveStands
  <2> QED
    BY <2>1, <2>2, PromiseWords DEF Promise!Malloc
<1> QED
  BY <1>6, <1>7, <1>8

\* mm_init on a region that is empty again, with whatever is in its words.
LEMMA DNobodyHolds ==
    ASSUME NEW t, DGood(t), t.brk = BASE
    PROVE  /\ DStands(D!mm_init(t), FirstHeap, C!Nobody)
           /\ C!LiveOf(C!Nobody) = [p \in {} |-> 0]
<1>1. DMirrors(D!mm_init(t), FirstHeap) /\ FirstHeap.used = {}
  BY DInitWords
<1>2. /\ C!Nobody = [i \in Ids |-> C!Nobody[i]]
      /\ \A i \in Ids : C!Nobody[i] = C!Unheld
  BY DEF C!Nobody
<1> HIDE DEF C!Nobody
<1>3. Holds(Mem(D!mm_init(t)), FirstHeap, C!Nobody)
  BY <1>1, <1>2 DEF Holds
<1>4. {C!Nobody[i].p : i \in {j \in Ids : C!Nobody[j] # C!Unheld}} = {}
  BY <1>2
<1>5. C!LiveOf(C!Nobody) = [p \in {} |-> 0]
  BY <1>4 DEF C!LiveOf
<1> QED
  BY <1>1, <1>3, <1>5 DEF DStands

LEMMA BrkReset ==
    ASSUME NEW t, DGood(t), NEW u, u = [t EXCEPT !.brk = BASE]
    PROVE  DGood(u) /\ u.brk = BASE
<1>1. /\ t = [mem |-> t.mem, brk |-> t.brk, status |-> t.status, lists |-> t.lists]
      /\ t.lists \in [D!Classes -> Int] /\ Good(Mem(t))
  BY DEF DGood, Form
<1>2. u = [mem |-> t.mem, brk |-> BASE, status |-> t.status, lists |-> t.lists]
  BY <1>1
<1>3. u.mem = t.mem /\ u.brk = BASE /\ u.status = t.status /\ u.lists = t.lists
  BY <1>2
<1>4. Form(u)
  BY <1>1, <1>2, <1>3 DEF Form
<1>5. Mem(u) = [Mem(t) EXCEPT !.brk = BASE]
  BY <1>3 DEF Mem
<1>6. BASE \in Int
  BY BlocksAssumption
<1>7. Good(Mem(u))
  BY <1>1, <1>5, <1>6 DEF Good
<1> QED
  BY <1>3, <1>4, <1>7 DEF DGood

\* A new trace, whether or not the last one has freed what it allocated.
LEMMA DRestartStep ==
    ASSUME NEW h, DStands(s, h, held), DC!Restart
    PROVE  Stood /\ (Balanced => UNCHANGED DC!LiveOf(held))
<1> DEFINE t == [s EXCEPT !.brk = BASE]
<1>1. /\ Balanced => held = DC!Nobody
      /\ s' = D!mm_init(t) /\ held' = DC!Nobody
  BY DEF DC!Restart
<1>2. DGood(s) /\ t = [s EXCEPT !.brk = BASE]
  BY DStandsFacts
<1> HIDE DEF t
<1>3. DGood(t) /\ t.brk = BASE
  BY <1>2, BrkReset
<1>4. DStands(s', FirstHeap, held')
  BY <1>1, <1>3, DNobodyHolds, SameClient
<1>5. Balanced => DC!LiveOf(held)' = DC!LiveOf(held)
  BY <1>1, PromiseWords
<1> QED
  BY <1>4, <1>5 DEF Stood

LEMMA DInitStep ==
    ASSUME DC!Init
    PROVE  (\E h : DStands(s, h, held)) /\ Promise!Init
<1>1. s = D!mm_init(D!Fresh) /\ held = C!Nobody
  BY SameClient DEF DC!Init
<1>2. DStands(s, FirstHeap, held) /\ C!LiveOf(held) = [p \in {} |-> 0]
  BY <1>1, FreshGood, DNobodyHolds
<1> QED
  BY <1>2, PromiseWords DEF Promise!Init

LEMMA DCallStep ==
    ASSUME NEW h, DStands(s, h, held), DC!Next
    PROVE  Stood /\ (Balanced => Promise!Next \/ UNCHANGED DC!LiveOf(held))
<1>1. CASE DC!Ended
  <2>1. s' = s /\ held' = held
    BY <1>1 DEF DC!Ended, DC!vars
  <2> QED
    BY <2>1, PromiseWords DEF Stood
<1>2. ASSUME NEW i \in Ids, NEW n \in Requests, DC!Malloc(i, n)
      PROVE  Stood /\ Promise!Next
  BY <1>2, DMallocStep DEF Promise!Next
<1>3. ASSUME NEW i \in Ids, DC!Dispose(i)
      PROVE  Stood /\ Promise!Next
  BY <1>3, DDisposeStep DEF Promise!Next
<1>4. ASSUME NEW i \in Ids, NEW n \in Requests, DC!Realloc(i, n)
      PROVE  Stood /\ Promise!Next
  <2>1. CASE held[i].p # NULL
    <3>1. /\ Stood /\ Promise!Realloc(held[i].p, n)
          /\ held[i].p \in DOMAIN DC!LiveOf(held)
      BY <1>4, <2>1, DReallocStep
    <3> QED
      BY <3>1 DEF Promise!Next
  <2>2. CASE held[i].p = NULL
    <3>1. Stood /\ Promise!Malloc(n)
      BY <1>4, <2>2, DReallocNullStep
    <3> QED
      BY <3>1 DEF Promise!Next
  <2> QED
    BY <2>1, <2>2
<1>5. CASE DC!Restart
  BY <1>5, DRestartStep
<1>6. \/ DC!Ended
      \/ \E i \in Ids, n \in Requests : DC!Malloc(i, n)
      \/ \E i \in Ids : DC!Dispose(i)
      \/ \E i \in Ids, n \in Requests : DC!Realloc(i, n)
      \/ DC!Restart
  BY DEF DC!Next, DC!Call
<1> QED
  BY <1>1, <1>2, <1>3, <1>4, <1>5, <1>6

-----------------------------------------------------------------------------
(* The invariant.                                                          *)

DInv == package = "ds2" => \E h : DStands(s, h, held)

LEMMA DInvInit == SegInit => DInv
<1> SUFFICES ASSUME SegInit, package = "ds2" PROVE \E h : DStands(s, h, held)
  BY DEF DInv
<1>1. DC!Init
  BY DEF SegInit
<1> QED
  BY <1>1, DInitStep

LEMMA SegStep ==
    ASSUME package = "ds2", [SegNext]_<<package, s, held, calls>>
    PROVE  package' = "ds2" /\ (DC!Next \/ (s' = s /\ held' = held))
<1>1. CASE SegNext
  <2>1. package' = package
    BY <1>1 DEF SegNext
  <2>2. package # "cg45" /\ package # "best"
    OBVIOUS
  <2>3. DC!Next
    BY <1>1, <2>2 DEF SegNext
  <2> QED
    BY <2>1, <2>3
<1>2. CASE UNCHANGED <<package, s, held, calls>>
  BY <1>2
<1> QED
  BY <1>1, <1>2

LEMMA DInvNext == DInv /\ [SegNext]_<<package, s, held, calls>> => DInv'
<1> SUFFICES ASSUME DInv, [SegNext]_<<package, s, held, calls>>, package' = "ds2"
             PROVE  \E h : DStands(s', h, held')
  BY DEF DInv
<1>1. package = "ds2"
  BY DEF SegNext
<1>2. PICK h : DStands(s, h, held)
  BY <1>1 DEF DInv
<1>3. DC!Next \/ (s' = s /\ held' = held)
  BY <1>1, SegStep
<1>4. CASE DC!Next
  BY <1>2, <1>4, DCallStep DEF Stood
<1>5. CASE s' = s /\ held' = held
  BY <1>2, <1>5
<1> QED
  BY <1>3, <1>4, <1>5

LEMMA AlwaysDInv == SegSpec => []DInv
BY DInvInit, DInvNext, PTL DEF SegSpec

\* No call of mm-ds2.c writes outside the region, follows a list for ever or
\* loses a byte of a block that mm_realloc moves, whether or not a trace frees
\* what it allocates: mm_init empties the lists.
THEOREM SegNothingFails == SegSpec => [](package = "ds2" => NoFailure)
<1>1. DInv => (package = "ds2" => NoFailure)
  <2> SUFFICES ASSUME DInv, package = "ds2" PROVE s.status = "ok"
    BY DEF NoFailure
  <2>1. PICK h : DStands(s, h, held)
    BY DEF DInv
  <2>2. Good(Mem(s))
    BY <2>1, DStandsFacts
  <2> QED
    BY <2>2 DEF Good, Mem
<1> QED
  BY <1>1, AlwaysDInv, PTL

\* No tag and no link lands in a payload that the client holds.
THEOREM SegBytesStayIntact == SegSpec => [](package = "ds2" => BytesIntact)
<1>1. DInv => (package = "ds2" => BytesIntact)
  <2> SUFFICES ASSUME DInv, package = "ds2", NEW i \in Ids, DC!IsHeld(i)
               PROVE  D!Filled(s, held[i].p, held[i].n, DC!Fill(i))
    BY DEF BytesIntact, DC!PayloadsIntact
  <2>1. PICK h : DStands(s, h, held)
    BY DEF DInv
  <2>2. Sound(h) /\ Holds(Mem(s), h, held)
    BY <2>1, DStandsFacts
  <2>3. Owns(Mem(s), h, i, held[i])
    BY <2>2, HeldBlock, SameClient, Nulls DEF C!IsHeld
  <2> QED
    BY <2>3, FilledMem, SameClient DEF Owns
<1> QED
  BY <1>1, AlwaysDInv, PTL

\* The payloads that mm_malloc and mm_realloc return, while they are held,
\* share no byte and lie aligned in the region.
THEOREM SegPayloadsNeverOverlap == SegSpec => [](package = "ds2" => PayloadsSound)
<1>1. DInv => (package = "ds2" => PayloadsSound)
  <2> SUFFICES ASSUME DInv, package = "ds2" PROVE PayloadsSound
    OBVIOUS
  <2> DEFINE l == DC!LiveOf(held)
  <2>1. PICK h : DStands(s, h, held)
    BY DEF DInv
  <2>2. l = C!LiveOf(held)
    BY SameClient
  <2>3. Sound(h) /\ h.used \subseteq Blocks(h) /\ Agrees(h, l)
    BY <2>1, <2>2, DStandsFacts
  <2> HIDE DEF l
  <2>4. DOMAIN l = h.used /\ \A q \in DOMAIN l : l[q] \in Nat /\ l[q] + DSIZE <= h.size[q]
    BY <2>3, RequestRange DEF Agrees
  <2>5. ASSUME NEW p \in DOMAIN l
        PROVE  /\ p % 8 = 0
               /\ BASE <= p /\ p + l[p] <= MAX_ADDR
               /\ \A q \in DOMAIN l : p # q => p + l[p] <= q \/ q + l[q] <= p
    <3>1. p \in Blocks(h) /\ l[p] \in Nat /\ l[p] + DSIZE <= h.size[p]
      BY <2>3, <2>4
    <3>2. p % 8 = 0 /\ p \in BASE .. MAX_ADDR /\ p + l[p] <= MAX_ADDR
      BY <2>3, <3>1, BlockInRegion
    <3>3. ASSUME NEW q \in DOMAIN l, p # q
          PROVE  p + l[p] <= q \/ q + l[q] <= p
      <4>1. q \in Blocks(h) /\ l[q] \in Nat /\ l[q] + DSIZE <= h.size[q]
        BY <2>3, <2>4
      <4> QED
        BY <2>3, <3>1, <3>3, <4>1, BlocksApart
    <3> QED
      BY <3>2, <3>3
  <2> QED
    BY <2>5 DEF PayloadsSound, Promise!PayloadsSound, l
<1> QED
  BY <1>1, AlwaysDInv, PTL

\* What a program that calls mm-ds2.c relies on: every step of the words, seen
\* through the blocks that the client holds, is one that MallocAPI promises.
\* Between two traces the driver takes nothing back that it has not freed.
THEOREM SegKeepsThePromise ==
    ASSUME Balanced
    PROVE  package = "ds2" /\ SegSpec => Promise!Spec
<1>1. package = "ds2" /\ SegInit => Promise!Init
  <2>1. ASSUME package = "ds2", SegInit PROVE DC!Init
    BY <2>1 DEF SegInit
  <2> QED
    BY <2>1, DInitStep
<1>2. DInv /\ package = "ds2" /\ [SegNext]_<<package, s, held, calls>>
         => (package = "ds2")' /\ [Promise!Next]_(DC!LiveOf(held))
  <2> SUFFICES ASSUME DInv, package = "ds2", [SegNext]_<<package, s, held, calls>>
               PROVE  (package = "ds2")' /\ [Promise!Next]_(DC!LiveOf(held))
    OBVIOUS
  <2>1. package' = "ds2" /\ (DC!Next \/ (s' = s /\ held' = held))
    BY SegStep
  <2>2. PICK h : DStands(s, h, held)
    BY DEF DInv
  <2>3. CASE DC!Next
    BY <2>1, <2>2, <2>3, DCallStep
  <2>4. CASE s' = s /\ held' = held
    <3>1. DC!LiveOf(held)' = DC!LiveOf(held)
      BY <2>4, PromiseWords
    <3> QED
      BY <2>1, <3>1
  <2> QED
    BY <2>1, <2>3, <2>4
<1> QED
  BY <1>1, <1>2, AlwaysDInv, PTL DEF SegSpec, Promise!Spec

-----------------------------------------------------------------------------
(* The walks through the heap and through the lists.                       *)

LEMMA SameRange ==
    ASSUME NEW c
    PROVE  D!Range(c) = W!Range(c)
BY DEF D!Range, W!Range

\* The memory alone is that of the heap without its list.
LEMMA MemShows ==
    ASSUME NEW t, NEW h, DMirrors(t, h), NEW g, g = Heap(h.size, h.used, {}, h.brk)
    PROVE  Shows(Mem(t), g) /\ Relabeled(h, g, h.used, {})
<1>1. Sound(h) /\ h.used \subseteq Blocks(h) /\ Good(Mem(t)) /\ t.brk = h.brk /\ Tags(Mem(t), h)
  BY DMirrorsFacts DEF DGood
<1>2. Relabeled(h, g, h.used, {})
  BY <1>1, RelabelHeap
<1>3. Tags(Mem(t), g)
  BY <1>1, <1>2 DEF Relabeled, Tags, Edges, Tagged, Tag, Alloc
<1>4. Linked(Mem(t), {})
  <2>1. Mem(t).head = NULL /\ Mem(t).rover = NULL
    BY DEF Mem
  <2>2. Ranked(Mem(t), {}, [b \in {} |-> 0])
    BY <2>1 DEF Ranked
  <2>3. [b \in {} |-> 0] \in [{} -> Nat]
    OBVIOUS
  <2> QED
    BY <2>2, <2>3 DEF Linked
<1>5. Mem(t).brk = g.brk
  BY <1>1, <1>2 DEF Mem, Relabeled
<1> QED
  BY <1>1, <1>2, <1>3, <1>4, <1>5 DEF Shows, Relabeled

\* The walk meets every block, and the epilogue at the break.
LEMMA DHeapWalk ==
    ASSUME NEW t, NEW h, DMirrors(t, h)
    PROVE  /\ D!HeapBlocks(t) = Blocks(h)
           /\ D!EndsAfter(t, D!FIRST) = {h.brk}
           /\ D!FreeBlocks(t) = Free(h)
<1> DEFINE g == Heap(h.size, h.used, {}, h.brk)
           v == Mem(t)
<1>1. Shows(v, g) /\ Relabeled(h, g, h.used, {})
  BY MemShows
<1>2. v.mem = t.mem /\ Sound(h) /\ Tags(v, h)
  BY DMirrorsFacts DEF Mem
<1> HIDE DEF g, v
<1>3. W!HeapBlocks(v) = Blocks(h) /\ W!HeapEnds(v) = {h.brk}
  BY <1>1, HeapWalk DEF Relabeled
<1>4. W!NEXT_BLKP(v, W!heap_listp) = FIRST
  BY <1>1, HeapNextWords
<1>5. /\ \A b : D!GET_SIZE(t, D!HDRP(b)) = W!GET_SIZE(v, W!HDRP(b))
      /\ \A b : D!NEXT_BLKP(t, b) = W!NEXT_BLKP(v, b)
  BY <1>2, SameReads DEF D!HDRP, W!HDRP
<1> DEFINE next == [bp \in Int |-> IF D!GET_SIZE(t, D!HDRP(bp)) = 0 THEN NULL
                                   ELSE D!NEXT_BLKP(t, bp)]
<1>6. next = HeapNext(v)
  BY <1>5 DEF HeapNext
<1>7. D!BlocksFrom(t, FIRST) = D!Range(D!Walk(next)[D!NumWords][FIRST])
  BY SameDefs DEF D!BlocksFrom, D!Chain
<1>8. W!BlocksFrom(v, FIRST) = W!Range(W!Walk(HeapNext(v))[W!NumWords][FIRST])
  BY SameNumbers DEF W!BlocksFrom, W!Chain, HeapNext
<1> HIDE DEF next
<1>9. D!BlocksFrom(t, FIRST) = W!BlocksFrom(v, FIRST)
  BY <1>6, <1>7, <1>8, SameWalk, SameDefs, SameRange
<1>10. D!BlocksAfter(t, FIRST) = W!BlocksAfter(v, FIRST)
  BY <1>5, <1>9 DEF D!BlocksAfter, W!BlocksAfter
<1>11. D!HeapBlocks(t) = Blocks(h)
  BY <1>3, <1>4, <1>10, SameDefs DEF D!HeapBlocks, W!HeapBlocks
<1>12. D!EndsAfter(t, D!FIRST) = {h.brk}
  BY <1>3, <1>4, <1>9, <1>10, SameDefs DEF D!EndsAfter, W!EndsAfter, W!HeapEnds
<1>13. \A b \in Blocks(h) : D!GET_ALLOC(t, D!HDRP(b)) = 0 <=> b \notin h.used
  <2>1. \A b \in Blocks(h) : D!GET_ALLOC(t, D!HDRP(b)) = Alloc(h, b)
    BY <1>2, DReadBlock DEF v
  <2> QED
    BY <2>1 DEF Alloc
<1>14. D!FreeBlocks(t) = Free(h)
  BY <1>11, <1>13 DEF D!FreeBlocks, Free
<1> QED
  BY <1>11, <1>12, <1>14

\* What the list of a class is, node by node.
LEMMA DListWalk ==
    ASSUME NEW t, NEW h, DMirrors(t, h), NEW c \in D!Classes,
           NEW d, d = D!ListOf(t, c)
    PROVE  /\ D!Range(d) = InClass(h, Free(h), c)
           /\ Len(d) \in Nat
           /\ \A k \in 1 .. Len(d) :
                 /\ d[k] \in InClass(h, Free(h), c)
                 /\ D!PREV_FREE(t, d[k]) = IF k = 1 THEN NULL ELSE d[k - 1]
<1> DEFINE v == Shelf(t, c)
           L == InClass(h, Free(h), c)
<1>1. /\ Sound(h) /\ DGood(t) /\ Shelved(t, h, Free(h)) /\ Free(h) \subseteq Blocks(h)
  BY DMirrorsFacts DEF Holding
<1>2. Good(v) /\ Linked(v, L) /\ v.head = t.lists[c] /\ v.mem = t.mem
  BY <1>1, ShelfFacts DEF Shelved
<1>3. Spaced(L)
  <2>1. L \subseteq Blocks(h)
    BY <1>1 DEF InClass
  <2> HIDE DEF L
  <2> QED
    BY <1>1, <2>1, BlocksSpaced
<1>4. d = W!FreeList(v)
  <2> DEFINE next == [bp \in Int |-> D!NEXT_FREE(t, bp)]
  <2>1. next = SuccOf(v)
    BY <1>2, SameReads DEF SuccOf
  <2>2. d = D!Walk(next)[D!NumWords][t.lists[c]]
    BY DEF D!ListOf, D!Chain
  <2>3. W!FreeList(v) = W!Walk(SuccOf(v))[W!NumWords][v.head]
    BY ListChain DEF W!FreeList
  <2> HIDE DEF next, v
  <2> QED
    BY <1>2, <2>1, <2>2, <2>3, SameWalk, SameDefs
<1> HIDE DEF v, L
<1>5. d \in Seq(Int) /\ Goes(SuccOf(v), L, v.head, Len(d), d) /\ W!Range(d) = L
  BY <1>2, <1>3, <1>4, FreeListWalk
<1>6. PICK r \in [L -> Nat] : Ranked(v, L, r)
  BY <1>2 DEF Linked
<1>7. ASSUME NEW k \in 1 .. Len(d)
      PROVE  d[k] \in L /\ D!PREV_FREE(t, d[k]) = IF k = 1 THEN NULL ELSE d[k - 1]
  <2>0. Len(d) \in Nat
    BY <1>5
  <2>1. d[k] \in L
    BY <1>5 DEF Goes
  <2>2. D!PREV_FREE(t, d[k]) = W!GET_PRED(v, d[k])
    BY <1>2, SameReads
  <2>3. CASE k = 1
    <3>1. v.head # NULL
      BY <1>5, <2>0 DEF Goes
    <3>2. d[1] = v.head
      BY <1>5, <3>1 DEF Goes
    <3>3. W!GET_PRED(v, d[1]) = NULL
      BY <1>6, <2>1, <2>3, <3>2 DEF Ranked
    <3> QED
      BY <2>1, <2>2, <2>3, <3>3
  <2>4. CASE k # 1
    <3> DEFINE j == k - 1
    <3>1. j \in 1 .. Len(d) /\ j < Len(d) /\ k = j + 1
      BY <2>0, <2>4
    <3> HIDE DEF j
    <3>2. d[k] = SuccOf(v)[d[j]] /\ d[j] \in L /\ d[k] # NULL
      BY <1>5, <3>1 DEF Goes, Path
    <3>3. SuccOf(v)[d[j]] = W!GET_SUCC(v, d[j])
      <4>1. d[j] \in Int
        BY <1>5, <3>1
      <4> QED
        BY <4>1 DEF SuccOf
    <3>4. W!GET_PRED(v, d[k]) = d[j]
      BY <1>6, <3>2, <3>3 DEF Ranked
    <3> QED
      BY <2>1, <2>2, <2>4, <3>4 DEF j
  <2> QED
    BY <2>3, <2>4
<1>8. Len(d) \in Nat
  BY <1>5
<1> QED
  BY <1>5, <1>7, <1>8, SameRange DEF L

-----------------------------------------------------------------------------
(* What should hold of a state between two calls.                          *)

LEMMA DTagsWords ==
    ASSUME NEW t, NEW h, DMirrors(t, h)
    PROVE  D!TagsConsistent(t)
<1>1. /\ Sound(h) /\ NoNeighbours(h) /\ Tags(Mem(t), h) /\ t.brk = h.brk
      /\ Free(h) \subseteq Blocks(h)
  BY DMirrorsFacts
<1>2. /\ D!HeapBlocks(t) = Blocks(h)
      /\ D!EndsAfter(t, D!FIRST) = {h.brk}
      /\ D!FreeBlocks(t) = Free(h)
  BY DHeapWalk
<1>3. \A a : D!GET(t, a) = W!GET(Mem(t), a)
  BY SameReads DEF Mem
<1>4. D!PACK(D!DSIZE, 1) = DSIZE + 1 /\ D!PACK(0, 1) = 1
  BY SameDefs DEF D!PACK
<1>5. \A b : D!HDRP(b) = b - WSIZE
  BY DEF D!HDRP
<1>6. /\ D!GET(t, BASE + WSIZE) = D!PACK(D!DSIZE, 1)
      /\ D!GET(t, BASE + 2 * WSIZE) = D!PACK(D!DSIZE, 1)
      /\ D!GET(t, D!HDRP(t.brk)) = D!PACK(0, 1)
  BY <1>1, <1>3, <1>4, <1>5 DEF Tags, Edges
<1>7. ASSUME NEW b \in Blocks(h)
      PROVE  /\ D!GET(t, D!HDRP(b)) = D!GET(t, D!FTRP(t, b))
             /\ b % 8 = 0 /\ D!GET_SIZE(t, D!HDRP(b)) >= D!MIN_BLOCK
  <2>1. /\ W!GET(Mem(t), b - WSIZE) = Tag(h, b)
        /\ W!GET(Mem(t), EndOf(h, b) - DSIZE) = Tag(h, b)
    BY <1>1 DEF Tags, Tagged
  <2>2. D!GET_SIZE(t, D!HDRP(b)) = h.size[b] /\ D!FTRP(t, b) = EndOf(h, b) - DSIZE
    BY <1>1, DReadBlock
  <2>3. b % 8 = 0 /\ h.size[b] >= MIN_BLOCK_SIZE
    BY <1>1, BlockFacts
  <2> QED
    BY <1>3, <1>5, <2>1, <2>2, <2>3, DSizes
<1>8. ASSUME NEW b \in Free(h) PROVE D!NEXT_BLKP(t, b) \notin Free(h)
  <2>1. D!NEXT_BLKP(t, b) = EndOf(h, b)
    BY <1>1, DReadBlock
  <2> QED
    BY <1>1, <2>1 DEF NoNeighbours
<1> QED
  BY <1>1, <1>2, <1>6, <1>7, <1>8 DEF D!TagsConsistent

LEMMA DListsWords ==
    ASSUME NEW t, NEW h, DMirrors(t, h)
    PROVE  D!ListsExact(t)
<1>1. Sound(h) /\ Tags(Mem(t), h) /\ Free(h) \subseteq Blocks(h)
  BY DMirrorsFacts
<1>2. D!FreeBlocks(t) = Free(h)
  BY DHeapWalk
<1>3. ASSUME NEW b \in Free(h)
      PROVE  /\ D!get_index(D!GET_SIZE(t, D!HDRP(b))) = Class(h.size[b])
             /\ Class(h.size[b]) \in D!Classes
  <2>1. D!GET_SIZE(t, D!HDRP(b)) = h.size[b] /\ h.size[b] \in Int
    BY <1>1, DReadBlock, BlockFacts
  <2> QED
    BY <2>1, ClassIs DEF Class
<1>4. ASSUME NEW c \in D!Classes
      PROVE  /\ D!Range(D!ListOf(t, c)) = InClass(h, Free(h), c)
             /\ \A k \in 1 .. Len(D!ListOf(t, c)) :
                   /\ D!get_index(D!GET_SIZE(t, D!HDRP(D!ListOf(t, c)[k]))) = c
                   /\ D!PREV_FREE(t, D!ListOf(t, c)[k])
                        = IF k = 1 THEN NULL ELSE D!ListOf(t, c)[k - 1]
  <2> DEFINE d == D!ListOf(t, c)
  <2>1. /\ D!Range(d) = InClass(h, Free(h), c)
        /\ \A k \in 1 .. Len(d) :
              /\ d[k] \in InClass(h, Free(h), c)
              /\ D!PREV_FREE(t, d[k]) = IF k = 1 THEN NULL ELSE d[k - 1]
    BY DListWalk
  <2> HIDE DEF d
  <2>2. \A b \in InClass(h, Free(h), c) : D!get_index(D!GET_SIZE(t, D!HDRP(b))) = c
    BY <1>3 DEF InClass
  <2> SUFFICES /\ D!Range(d) = InClass(h, Free(h), c)
               /\ \A k \in 1 .. Len(d) :
                     /\ D!get_index(D!GET_SIZE(t, D!HDRP(d[k]))) = c
                     /\ D!PREV_FREE(t, d[k]) = IF k = 1 THEN NULL ELSE d[k - 1]
    BY DEF d
  <2> QED
    BY <2>1, <2>2
<1>5. UNION {D!Range(D!ListOf(t, c)) : c \in D!Classes} = Free(h)
  <2>1. UNION {D!Range(D!ListOf(t, c)) : c \in D!Classes}
          = UNION {InClass(h, Free(h), c) : c \in D!Classes}
    BY <1>4
  <2>2. \A b \in Free(h) : b \in InClass(h, Free(h), Class(h.size[b]))
    BY DEF InClass
  <2>3. \A c : InClass(h, Free(h), c) \subseteq Free(h)
    BY DEF InClass
  <2> QED
    BY <1>3, <2>1, <2>2, <2>3
<1> QED
  BY <1>2, <1>4, <1>5, SameDefs DEF D!ListsExact

LEMMA DSearchWords ==
    ASSUME NEW t, NEW h, DMirrors(t, h)
    PROVE  D!SearchComplete(t, Requests)
<1>1. Sound(h) /\ Tags(Mem(t), h) /\ Free(h) \subseteq Blocks(h)
  BY DMirrorsFacts
<1>2. D!FreeBlocks(t) = Free(h)
  BY DHeapWalk
<1>3. ASSUME NEW n \in Requests \ {0}
      PROVE  LET fitting == {b \in D!FreeBlocks(t) :
                                D!GET_SIZE(t, D!HDRP(b)) >= D!asize_of(n)}
                 found == D!find_fit(t, D!asize_of(n))
             IN  IF fitting = {} THEN found = NULL ELSE found \in fitting
  <2> DEFINE a == D!asize_of(n)
             f == D!find_fit(t, a)
  <2>1. a \in Int
    BY RequestSizes DEF Size
  <2> HIDE DEF a
  <2>2. IF \E b \in Free(h) : h.size[b] >= a THEN f \in Free(h) /\ h.size[f] >= a
                                             ELSE f = NULL
    BY <2>1, DFitWords
  <2> HIDE DEF f
  <2>3. \A b \in Free(h) : D!GET_SIZE(t, D!HDRP(b)) = h.size[b]
    BY <1>1, DReadBlock
  <2>4. {b \in D!FreeBlocks(t) : D!GET_SIZE(t, D!HDRP(b)) >= a}
          = {b \in Free(h) : h.size[b] >= a}
    BY <1>2, <2>3
  <2> SUFFICES IF {b \in Free(h) : h.size[b] >= a} = {} THEN f = NULL
               ELSE f \in {b \in Free(h) : h.size[b] >= a}
    BY <2>4 DEF f, a
  <2> QED
    BY <2>2
<1> QED
  BY <1>3, SameDefs DEF D!SearchComplete

\* Header and footer of every block agree, the headers tile the heap between
\* prologue and epilogue, and no two neighbours are free: what coalesce of
\* mm-ds2.c trusts when it reads the tags around a block.
THEOREM SegTagsStayConsistent == SegSpec => [](package = "ds2" => TagsConsistent)
<1>1. DInv => (package = "ds2" => TagsConsistent)
  <2> SUFFICES ASSUME DInv, package = "ds2" PROVE TagsConsistent
    OBVIOUS
  <2>1. PICK h : DStands(s, h, held)
    BY DEF DInv
  <2>2. D!TagsConsistent(s)
    BY <2>1, DStandsFacts, DTagsWords
  <2> QED
    BY <2>2 DEF TagsConsistent
<1> QED
  BY <1>1, AlwaysDInv, PTL

\* The lists of mm-ds2.c hold the free blocks, each in the class of its size,
\* whatever coalesce, place and mm_realloc did to the size of a block.
THEOREM SegListsStayExact == SegSpec => [](package = "ds2" => ListsExact)
<1>1. DInv => (package = "ds2" => ListsExact)
  <2> SUFFICES ASSUME DInv, package = "ds2" PROVE ListsExact
    OBVIOUS
  <2>1. PICK h : DStands(s, h, held)
    BY DEF DInv
  <2>2. D!ListsExact(s)
    BY <2>1, DStandsFacts, DListsWords
  <2> QED
    BY <2>2 DEF ListsExact
<1> QED
  BY <1>1, AlwaysDInv, PTL

\* find_fit of mm-ds2.c, which skips the classes below the one of the size it
\* looks for, finds a block whenever one fits.
THEOREM SegSearchFindsAFit == SegSpec => [](package = "ds2" => FitFound)
<1>1. DInv => (package = "ds2" => FitFound)
  <2> SUFFICES ASSUME DInv, package = "ds2" PROVE FitFound
    OBVIOUS
  <2>1. PICK h : DStands(s, h, held)
    BY DEF DInv
  <2>2. D!SearchComplete(s, Requests)
    BY <2>1, DStandsFacts, DSearchWords
  <2> QED
    BY <2>2 DEF FitFound
<1> QED
  BY <1>1, AlwaysDInv, PTL

=============================================================================
