--------------------------- MODULE Driver_proofs ---------------------------
(***************************************************************************)
(* Proofs about mdriver.c, for any package, any traces and any number of   *)
(* files and runs: what the overlap test of add_range guarantees, and that *)
(* errors and valid traces add up.  Then what the driver and a package owe *)
(* each other: the driver passes on only pointers that the package has     *)
(* given since the last reset, and it neither reports a package that keeps *)
(* its promises nor finds that it uses more than the heap.                 *)
(***************************************************************************)
EXTENDS Driver, FiniteSetTheorems, TLAPS

-----------------------------------------------------------------------------
(* The requests of a trace.                                                *)

\* Facts about sequences.
LEMMA ElementOfSeq ==
    ASSUME NEW S, NEW t \in Seq(S), NEW k \in DOMAIN t
    PROVE  t[k] \in S
OBVIOUS

LEMMA DomainOfSeq ==
    ASSUME NEW S, NEW t \in Seq(S), NEW k \in DOMAIN t
    PROVE  k \in Nat \ {0}
OBVIOUS

\* The trace in memory is one of the files, or none.
TraceKnown == trace \in Traces \cup {<< >>}

\* A request that the driver is about to make is one of a legal trace.
LEMMA RequestAt ==
    ASSUME DriverAssumption, TraceKnown, op \in DOMAIN trace
    PROVE  /\ trace[op] \in Requests
           /\ trace[op].type # "FREE" => trace[op].size > 0
<1>1. trace \in Traces
  BY DEF TraceKnown
<1>2. Legal(trace)
  BY <1>1 DEF DriverAssumption
<1> QED
  BY <1>2, ElementOfSeq DEF Legal

-----------------------------------------------------------------------------
(* The range list.                                                         *)

\* Records of at least one byte, of which no two share one unless one lies
\* strictly inside the other.
Nested(R) ==
    /\ R \subseteq [lo : Int, hi : Int]
    /\ \A r \in R : r.lo <= r.hi
    /\ \A r, q \in R :
          \/ r = q \/ r.hi < q.lo \/ q.hi < r.lo
          \/ r.lo < q.lo /\ q.hi < r.hi
          \/ q.lo < r.lo /\ r.hi < q.hi

\* What remove_range leaves is as well nested as before.
LEMMA RemoveNested ==
    ASSUME NEW R, Nested(R), NEW lo
    PROVE  Nested(remove_range(R, lo))
<1>1. remove_range(R, lo) \subseteq R
  BY DEF remove_range
<1> QED
  BY <1>1 DEF Nested

\* A new range with neither end in an old one is apart from it or around it.
LEMMA AddNested ==
    ASSUME NEW R, Nested(R), NEW lo \in Int, NEW size \in Nat, size > 0,
           NEW brk, Addable(R, lo, size, brk)
    PROVE  Nested(R \cup {RangeOf(lo, size)})
<1> DEFINE new == RangeOf(lo, size)
<1>1. /\ new \in [lo : Int, hi : Int]
      /\ new.lo <= new.hi
  BY DEF RangeOf
<1>2. \A old \in R : ~Overlaps(new, old)
  BY DEF Addable
<1>3. ASSUME NEW old \in R
      PROVE  \/ new.hi < old.lo \/ old.hi < new.lo
             \/ new.lo < old.lo /\ old.hi < new.hi
  <2>1. /\ old.lo \in Int /\ old.hi \in Int
        /\ old.lo <= old.hi
    BY DEF Nested
  <2>2. /\ new.lo \in Int /\ new.hi \in Int
    BY <1>1
  <2>3. /\ ~(new.lo >= old.lo /\ new.lo <= old.hi)
        /\ ~(new.hi >= old.lo /\ new.hi <= old.hi)
    BY <1>2 DEF Overlaps
  <2> HIDE DEF new
  <2> QED
    BY <1>1, <2>1, <2>2, <2>3
<1>4. R \cup {new} \subseteq [lo : Int, hi : Int]
  BY <1>1 DEF Nested
<1>5. \A r \in R \cup {new} : r.lo <= r.hi
  BY <1>1 DEF Nested
<1>6. ASSUME NEW r \in R \cup {new}, NEW q \in R \cup {new}
      PROVE  \/ r = q \/ r.hi < q.lo \/ q.hi < r.lo
             \/ r.lo < q.lo /\ q.hi < r.hi
             \/ q.lo < r.lo /\ r.hi < q.hi
  <2> HIDE DEF new
  <2>1. CASE r \in R /\ q \in R
    BY <2>1 DEF Nested
  <2>2. CASE r = new /\ q \in R
    BY <1>3, <2>2
  <2>3. CASE r \in R /\ q = new
    BY <1>3, <2>3
  <2>4. CASE r = new /\ q = new
    BY <2>4
  <2> QED
    BY <2>1, <2>2, <2>3, <2>4
<1> QED
  BY <1>4, <1>5, <1>6 DEF Nested

\* A package answers with a pointer.
LEMMA ReplyIsPointer ==
    ASSUME DriverAssumption, NEW n, NEW old, NEW a \in Replies(n, old)
    PROVE  a.p \in Int
<1>1. a \in Answers
  BY DEF Replies
<1>2. a.p \in Pointers \cup {NULL}
  BY <1>1 DEF Answers
<1>3. Pointers \subseteq Nat
  BY DEF DriverAssumption
<1>4. a.p \in Nat \/ a.p = 0
  BY <1>2, <1>3 DEF NULL
<1> QED
  BY <1>4

RangeInv == TraceKnown /\ Nested(ranges)

LEMMA RangeInit == Init => RangeInv
BY DEF Init, RangeInv, TraceKnown, Nested

LEMMA RangeNext ==
    ASSUME DriverAssumption, RangeInv, [Next]_vars
    PROVE  RangeInv'
<1> USE DEF RangeInv
<1> DEFINE Kept == trace' = trace /\ ranges' = ranges
<1>1. CASE Kept
  BY <1>1 DEF TraceKnown
<1>2. CASE read_trace
  BY <1>2 DEF read_trace, TraceKnown
<1>3. CASE free_trace
  BY <1>3 DEF free_trace, TraceKnown
<1>4. CASE valid_init
  BY <1>4 DEF valid_init, clear_ranges, TraceKnown, Nested
<1>5. CASE valid_alloc
  <2>1. trace[op] \in Requests /\ trace[op].size > 0
    BY <1>5, RequestAt DEF valid_alloc, At
  <2>2. trace[op].size \in Nat
    BY <2>1 DEF Requests
  <2>3. PICK a \in Replies(trace[op].size, NULL) :
          \/ /\ Addable(ranges, a.p, trace[op].size, a.brk)
             /\ ranges' = ranges \cup {RangeOf(a.p, trace[op].size)}
          \/ ranges' = ranges
    BY <1>5 DEF valid_alloc
  <2>4. a.p \in Int
    BY ReplyIsPointer
  <2>5. Nested(ranges')
    BY <2>1, <2>2, <2>3, <2>4, AddNested
  <2> QED
    BY <1>5, <2>5 DEF valid_alloc, TraceKnown
<1>6. CASE valid_realloc
  <2> DEFINE oldp == blocks[trace[op].index]
             others == remove_range(ranges, oldp)
  <2>1. trace[op] \in Requests /\ trace[op].size > 0
    BY <1>6, RequestAt DEF valid_realloc, At
  <2>2. trace[op].size \in Nat
    BY <2>1 DEF Requests
  <2>3. PICK a \in Replies(trace[op].size, oldp) :
          \/ ranges' = ranges
          \/ ranges' = others
          \/ /\ Addable(others, a.p, trace[op].size, a.brk)
             /\ ranges' = others \cup {RangeOf(a.p, trace[op].size)}
    BY <1>6 DEF valid_realloc
  <2>4. a.p \in Int
    BY ReplyIsPointer
  <2>5. Nested(others)
    BY RemoveNested
  <2>6. Nested(ranges')
    <3> HIDE DEF others
    <3> QED
      BY <2>1, <2>2, <2>3, <2>4, <2>5, AddNested
  <2> QED
    BY <1>6, <2>6 DEF valid_realloc, TraceKnown
<1>7. CASE valid_free
  BY <1>7, RemoveNested DEF valid_free, TraceKnown
<1>8. CASE valid_return \/ Util \/ Speed
  <2>1. Kept
    BY <1>8 DEF valid_return, Util, util_init, util_alloc, util_realloc,
       util_free, util_return, Speed, speed_init, speed_alloc, speed_realloc,
       speed_free, speed_return
  <2> QED
    BY <1>1, <2>1
<1>9. CASE read_trace_fails \/ LibcValid \/ LibcSpeed
  <2>1. Kept
    BY <1>9 DEF read_trace_fails, LibcValid, libc_valid_alloc,
       libc_valid_realloc, libc_valid_free, libc_valid_return, LibcSpeed,
       libc_speed_alloc, libc_speed_realloc, libc_speed_free, libc_speed_return
  <2> QED
    BY <1>1, <2>1
<1>10. CASE Ended \/ UNCHANGED vars
  BY <1>1, <1>10 DEF Ended, vars
<1> QED
  BY <1>2, <1>3, <1>4, <1>5, <1>6, <1>7, <1>8, <1>9, <1>10 DEF Next, Valid

\* The overlap test of add_range, as it is written, lets one payload overlap
\* another only by enclosing it, whatever the package answers.
THEOREM OverlapsAreEnclosures ==
    ASSUME DriverAssumption
    PROVE  Spec => []OverlapOnlyByEnclosing
<1>1. Init => RangeInv
  BY RangeInit
<1>2. RangeInv /\ [Next]_vars => RangeInv'
  BY RangeNext
<1>3. RangeInv => OverlapOnlyByEnclosing
  BY DEF RangeInv, Nested, OverlapOnlyByEnclosing
<1> QED
  BY <1>1, <1>2, <1>3, PTL DEF Spec

-----------------------------------------------------------------------------
(* The range list against the arrays of the trace.                         *)

\* One request further on, the held ids differ by its index.
LEMMA HeldAfter ==
    ASSUME NEW t, NEW k \in Nat \ {0}, t[k].index \in Ids
    PROVE  Held(t, k + 1) = IF t[k].type = "FREE" THEN Held(t, k) \ {t[k].index}
                            ELSE Held(t, k) \cup {t[k].index}
<1>1. ASSUME NEW i \in Ids, i # t[k].index
      PROVE  LastOf(t, i, k + 1) = LastOf(t, i, k)
  <2>1. ASSUME NEW j \in LastOf(t, i, k + 1)
        PROVE  j \in LastOf(t, i, k)
    <3>1. /\ j \in 1 .. k
          /\ t[j].index = i
          /\ \A l \in j + 1 .. k : t[l].index # i
      BY <2>1 DEF LastOf
    <3>2. j # k
      BY <3>1, <1>1
    <3> QED
      BY <3>1, <3>2 DEF LastOf
  <2>2. ASSUME NEW j \in LastOf(t, i, k)
        PROVE  j \in LastOf(t, i, k + 1)
    <3>1. /\ j \in 1 .. k - 1
          /\ t[j].index = i
          /\ \A l \in j + 1 .. k - 1 : t[l].index # i
      BY <2>2 DEF LastOf
    <3>2. \A l \in j + 1 .. k : l = k \/ l \in j + 1 .. k - 1
      BY <3>1
    <3> QED
      BY <1>1, <3>1, <3>2 DEF LastOf
  <2> QED
    BY <2>1, <2>2
<1>2. LastOf(t, t[k].index, k + 1) = {k}
  <2>1. ASSUME NEW j \in LastOf(t, t[k].index, k + 1)
        PROVE  j = k
    <3>1. /\ j \in 1 .. k
          /\ \A l \in j + 1 .. k : t[l].index # t[k].index
      BY <2>1 DEF LastOf
    <3>2. j < k => k \in j + 1 .. k
      BY <3>1
    <3> QED
      BY <3>1, <3>2
  <2>2. k \in LastOf(t, t[k].index, k + 1)
    BY DEF LastOf
  <2> QED
    BY <2>1, <2>2
<1>3. ASSUME NEW i \in Ids, i # t[k].index
      PROVE  i \in Held(t, k + 1) <=> i \in Held(t, k)
  BY <1>1, <1>3 DEF Held
<1>4. t[k].index \in Held(t, k + 1) <=> t[k].type # "FREE"
  BY <1>2 DEF Held
<1>5. Held(t, k) \subseteq Ids /\ Held(t, k + 1) \subseteq Ids
  BY DEF Held
<1> QED
  BY <1>3, <1>4, <1>5

\* Before the first request nothing is held.
LEMMA HeldFirst == \A t : Held(t, 1) = {}
BY DEF Held, LastOf

\* Where the arrays say that block i is.
Placed(i) == RangeOf(blocks[i], block_sizes[i])

ExactInv ==
    /\ blocks \in [Ids -> Int]
    /\ block_sizes \in [Ids -> Int]
    /\ op \in Nat
    /\ loc = "valid" /\ op > 0 =>
          /\ \A i, j \in Held(trace, op) : blocks[i] = blocks[j] => i = j
          /\ ranges = {Placed(i) : i \in Held(trace, op)}

LEMMA ExactInit == Init => ExactInv
<1> SUFFICES ASSUME Init PROVE ExactInv
  OBVIOUS
<1>1. /\ op = 0
      /\ blocks = [i \in Ids |-> JUNK]
      /\ block_sizes = [i \in Ids |-> JUNK]
  BY DEF Init
<1> QED
  BY <1>1 DEF ExactInv, JUNK

\* After Remember of a block that starts where none of the others does, and
\* with its range beside those of the others, list and arrays agree.
LEMMA ExactRemember ==
    ASSUME ExactInv, loc = "valid", op > 0,
           NEW H, H \subseteq Held(trace, op), NEW i \in Ids, i \notin H,
           NEW p \in Int, NEW size \in Nat, Remember(i, p, size),
           \A h \in H : blocks[h] # p,
           ranges' = {Placed(h) : h \in H} \cup {RangeOf(p, size)}
    PROVE  /\ blocks' \in [Ids -> Int]
           /\ block_sizes' \in [Ids -> Int]
           /\ \A h, g \in H \cup {i} : blocks'[h] = blocks'[g] => h = g
           /\ ranges' = {Placed(h)' : h \in H \cup {i}}
<1>1. H \subseteq Ids
  BY DEF Held
<1>2. /\ blocks' = [blocks EXCEPT ![i] = p]
      /\ block_sizes' = [block_sizes EXCEPT ![i] = size]
      /\ blocks \in [Ids -> Int]
      /\ block_sizes \in [Ids -> Int]
  BY DEF Remember, ExactInv
<1>3. \A h \in H : blocks'[h] = blocks[h] /\ block_sizes'[h] = block_sizes[h]
  BY <1>1, <1>2
<1>4. blocks'[i] = p /\ block_sizes'[i] = size
  BY <1>2
<1>5. \A h, g \in H : blocks[h] = blocks[g] => h = g
  BY DEF ExactInv
<1>6. \A h \in H : Placed(h)' = Placed(h)
  BY <1>3 DEF Placed
<1>7. Placed(i)' = RangeOf(p, size)
  BY <1>4 DEF Placed
<1> QED
  BY <1>2, <1>3, <1>4, <1>5, <1>6, <1>7

\* remove_range takes exactly the range of the block at that address.
LEMMA ExactRemove ==
    ASSUME ExactInv, loc = "valid", op > 0, NEW i \in Held(trace, op)
    PROVE  remove_range(ranges, blocks[i]) =
               {Placed(h) : h \in Held(trace, op) \ {i}}
<1>1. \A h \in Held(trace, op) : Placed(h).lo = blocks[h]
  BY DEF Placed, RangeOf
<1> QED
  BY <1>1 DEF ExactInv, remove_range

\* The start of an accepted range is in no other range, so it is new.
LEMMA AddableIsNew ==
    ASSUME NEW R, Nested(R), NEW lo \in Int, NEW size, NEW brk,
           Addable(R, lo, size, brk)
    PROVE  \A r \in R : r.lo # lo
<1> SUFFICES ASSUME NEW r \in R, r.lo = lo PROVE FALSE
  OBVIOUS
<1>1. ~Overlaps(RangeOf(lo, size), r)
  BY DEF Addable
<1>2. r.lo \in Int /\ r.hi \in Int /\ r.lo <= r.hi
  BY DEF Nested
<1> QED
  BY <1>1, <1>2 DEF Overlaps, RangeOf

\* An early return leaves the arrays as they are, and its evaluation.
LEMMA ExactReport ==
    ASSUME ExactInv, Report, UNCHANGED arrays
    PROVE  ExactInv'
BY DEF ExactInv, Report, Goto, arrays

LEMMA ExactAlloc ==
    ASSUME DriverAssumption, RangeInv, ExactInv, valid_alloc
    PROVE  ExactInv'
<1> DEFINE o == trace[op]
<1>1. /\ loc = "valid" /\ op \in DOMAIN trace /\ o.type = "ALLOC"
      /\ trace' = trace
  BY DEF valid_alloc, At
<1>2. /\ o \in Requests /\ o.size > 0
      /\ trace \in Traces /\ Legal(trace)
  BY <1>1, RequestAt DEF RangeInv, TraceKnown, DriverAssumption
<1>3. o.index \in Ids /\ o.size \in Nat
  BY <1>2 DEF Requests
<1>4. op \in Nat \ {0}
  BY <1>1, <1>2, DomainOfSeq DEF Legal
<1>5. o.index \notin Held(trace, op)
  BY <1>1, <1>2 DEF Legal
<1>6. Held(trace, op + 1) = Held(trace, op) \cup {o.index}
  BY <1>1, <1>3, <1>4, HeldAfter
<1>7. PICK a \in Replies(o.size, NULL) :
        \/ /\ Addable(ranges, a.p, o.size, a.brk)
           /\ ranges' = ranges \cup {RangeOf(a.p, o.size)}
           /\ Remember(o.index, a.p, o.size)
           /\ NextRequest
        \/ Report /\ UNCHANGED arrays
  BY DEF valid_alloc
<1>8. CASE Report /\ UNCHANGED arrays
  BY <1>8, ExactReport
<1>9. CASE /\ Addable(ranges, a.p, o.size, a.brk)
           /\ ranges' = ranges \cup {RangeOf(a.p, o.size)}
           /\ Remember(o.index, a.p, o.size)
           /\ NextRequest
  <2>1. a.p \in Int
    BY ReplyIsPointer
  <2>2. ranges = {Placed(h) : h \in Held(trace, op)}
    BY <1>1, <1>4 DEF ExactInv
  <2>3. \A r \in ranges : r.lo # a.p
    BY <1>9, <2>1, AddableIsNew DEF RangeInv
  <2>4. \A h \in Held(trace, op) : blocks[h] # a.p
    <3>1. \A h \in Held(trace, op) : Placed(h) \in ranges
      BY <2>2
    <3>2. \A h : Placed(h).lo = blocks[h]
      BY DEF Placed, RangeOf
    <3> QED
      BY <2>3, <3>1, <3>2
  <2> DEFINE H == Held(trace, op)
  <2>5. /\ blocks' \in [Ids -> Int]
        /\ block_sizes' \in [Ids -> Int]
        /\ \A h, g \in H \cup {o.index} : blocks'[h] = blocks'[g] => h = g
        /\ ranges' = {Placed(h)' : h \in H \cup {o.index}}
    <3>1. Remember(o.index, a.p, o.size)
      BY <1>9
    <3>2. ranges' = {Placed(h) : h \in H} \cup {RangeOf(a.p, o.size)}
      BY <1>9, <2>2
    <3>3. H \subseteq Held(trace, op) /\ o.index \notin H /\ op > 0
      BY <1>4, <1>5
    <3>4. \A h \in H : blocks[h] # a.p
      BY <2>4
    <3> HIDE DEF H, o
    <3> QED
      BY <1>1, <1>3, <2>1, <3>1, <3>2, <3>3, <3>4, ExactRemember
  <2>6. op' = op + 1
    BY <1>9 DEF NextRequest
  <2>7. Held(trace', op') = H \cup {o.index}
    BY <1>1, <1>6, <2>6
  <2> HIDE DEF H, o
  <2> QED
    BY <1>4, <2>5, <2>6, <2>7 DEF ExactInv
<1> QED
  BY <1>7, <1>8, <1>9

LEMMA ExactRealloc ==
    ASSUME DriverAssumption, RangeInv, ExactInv, valid_realloc
    PROVE  ExactInv'
<1> DEFINE o == trace[op]
           oldp == blocks[o.index]
           others == remove_range(ranges, oldp)
           H == Held(trace, op) \ {o.index}
<1>1. /\ loc = "valid" /\ op \in DOMAIN trace /\ o.type = "REALLOC"
      /\ trace' = trace
  BY DEF valid_realloc, At
<1>2. /\ o \in Requests /\ o.size > 0
      /\ trace \in Traces /\ Legal(trace)
  BY <1>1, RequestAt DEF RangeInv, TraceKnown, DriverAssumption
<1>3. o.index \in Ids /\ o.size \in Nat
  BY <1>2 DEF Requests
<1>4. op \in Nat \ {0}
  BY <1>1, <1>2, DomainOfSeq DEF Legal
<1>5. o.index \in Held(trace, op)
  BY <1>1, <1>2 DEF Legal
<1>6. Held(trace, op + 1) = H \cup {o.index}
  BY <1>1, <1>3, <1>4, <1>5, HeldAfter
<1>7. others = {Placed(h) : h \in H}
  <2>1. op > 0
    BY <1>4
  <2> HIDE DEF o
  <2> QED
    BY <1>1, <1>5, <2>1, ExactRemove
<1>8. Nested(others)
  BY RemoveNested DEF RangeInv
<1>9. PICK a \in Replies(o.size, oldp) :
        \/ /\ Addable(others, a.p, o.size, a.brk)
           /\ ranges' = others \cup {RangeOf(a.p, o.size)}
           /\ Remember(o.index, a.p, o.size)
           /\ NextRequest
        \/ Report /\ UNCHANGED arrays
  BY DEF valid_realloc
<1>10. CASE Report /\ UNCHANGED arrays
  BY <1>10, ExactReport
<1>11. CASE /\ Addable(others, a.p, o.size, a.brk)
            /\ ranges' = others \cup {RangeOf(a.p, o.size)}
            /\ Remember(o.index, a.p, o.size)
            /\ NextRequest
  <2>1. a.p \in Int
    BY ReplyIsPointer
  <2>2. \A r \in others : r.lo # a.p
    <3> HIDE DEF others
    <3> QED
      BY <1>8, <1>11, <2>1, AddableIsNew
  <2>3. \A h \in H : blocks[h] # a.p
    <3>1. \A h \in H : Placed(h) \in others
      BY <1>7
    <3>2. \A h : Placed(h).lo = blocks[h]
      BY DEF Placed, RangeOf
    <3> HIDE DEF others, H
    <3> QED
      BY <2>2, <3>1, <3>2
  <2>4. /\ blocks' \in [Ids -> Int]
        /\ block_sizes' \in [Ids -> Int]
        /\ \A h, g \in H \cup {o.index} : blocks'[h] = blocks'[g] => h = g
        /\ ranges' = {Placed(h)' : h \in H \cup {o.index}}
    <3>1. Remember(o.index, a.p, o.size)
      BY <1>11
    <3>2. ranges' = {Placed(h) : h \in H} \cup {RangeOf(a.p, o.size)}
      BY <1>11, <1>7
    <3>3. H \subseteq Held(trace, op) /\ o.index \notin H /\ op > 0
      BY <1>4
    <3> HIDE DEF H, o
    <3> QED
      BY <1>1, <1>3, <2>1, <2>3, <3>1, <3>2, <3>3, ExactRemember
  <2>5. op' = op + 1
    BY <1>11 DEF NextRequest
  <2>6. Held(trace', op') = H \cup {o.index}
    BY <1>1, <1>6, <2>5
  <2> HIDE DEF H, o
  <2> QED
    BY <1>4, <2>4, <2>5, <2>6 DEF ExactInv
<1> QED
  BY <1>9, <1>10, <1>11

LEMMA ExactFree ==
    ASSUME DriverAssumption, RangeInv, ExactInv, valid_free
    PROVE  ExactInv'
<1> DEFINE i == trace[op].index
           H == Held(trace, op) \ {i}
<1>1. /\ loc = "valid" /\ op \in DOMAIN trace /\ trace[op].type = "FREE"
      /\ ranges' = remove_range(ranges, blocks[i])
      /\ NextRequest
      /\ UNCHANGED <<trace, blocks, block_sizes>>
  BY DEF valid_free, At, arrays
<1>2. /\ trace[op] \in Requests
      /\ trace \in Traces /\ Legal(trace)
  BY <1>1, RequestAt DEF RangeInv, TraceKnown, DriverAssumption
<1>3. op \in Nat \ {0}
  BY <1>1, <1>2, DomainOfSeq DEF Legal
<1>4. i \in Held(trace, op)
  BY <1>1, <1>2 DEF Legal
<1>5. op' = op + 1 /\ Held(trace', op') = H
  <2>1. i \in Ids
    BY <1>2 DEF Requests
  <2> QED
    BY <1>1, <1>3, <2>1, HeldAfter DEF NextRequest
<1>6. ranges' = {Placed(h) : h \in H}
  BY <1>1, <1>3, <1>4, ExactRemove
<1>7. \A h \in H : Placed(h)' = Placed(h)
  BY <1>1 DEF Placed
<1>8. ranges' = {Placed(h)' : h \in H}
  BY <1>6, <1>7
<1>9. \A h, g \in H : blocks'[h] = blocks'[g] => h = g
  BY <1>1, <1>3 DEF ExactInv
<1> HIDE DEF H
<1> QED
  BY <1>1, <1>3, <1>5, <1>8, <1>9 DEF ExactInv

\* What eval_mm_util and eval_mm_speed store are pointers and sizes.
LEMMA ExactElsewhere ==
    ASSUME DriverAssumption, RangeInv, ExactInv, Util \/ Speed
    PROVE  ExactInv'
<1>1. ASSUME op \in DOMAIN trace
      PROVE  /\ trace[op].size \in Nat
             /\ op \in Nat
  BY <1>1, RequestAt DEF RangeInv, Requests, ExactInv
<1>2. loc' # "valid" /\ op' \in Nat
  BY DEF ExactInv, Util, util_init, util_alloc, util_realloc, util_free,
     util_return, Speed, speed_init, speed_alloc, speed_realloc, speed_free,
     speed_return, At, AtEnd, NextRequest, Goto, Exit
<1>3. \/ UNCHANGED arrays
      \/ \E old, n : \E a \in Replies(n, old) :
            \/ Remember(trace[op].index, a.p, trace[op].size) /\ op \in DOMAIN trace
            \/ /\ blocks' = [blocks EXCEPT ![trace[op].index] = a.p]
               /\ UNCHANGED block_sizes
  <2>1. CASE util_alloc
    BY <2>1 DEF util_alloc, At, arrays
  <2>2. CASE util_realloc
    BY <2>2 DEF util_realloc, At, arrays
  <2>3. CASE speed_alloc
    BY <2>3 DEF speed_alloc, At, arrays
  <2>4. CASE speed_realloc
    BY <2>4 DEF speed_realloc, At, arrays
  <2>5. CASE util_init \/ util_free \/ util_return
             \/ speed_init \/ speed_free \/ speed_return
    BY <2>5 DEF util_init, util_free, util_return, speed_init, speed_free,
       speed_return
  <2> QED
    BY <2>1, <2>2, <2>3, <2>4, <2>5 DEF Util, Speed
<1>4. blocks' \in [Ids -> Int] /\ block_sizes' \in [Ids -> Int]
  <2>1. CASE UNCHANGED arrays
    BY <2>1 DEF arrays, ExactInv
  <2>2. ASSUME NEW old, NEW n, NEW a \in Replies(n, old),
               \/ Remember(trace[op].index, a.p, trace[op].size)
                     /\ op \in DOMAIN trace
               \/ /\ blocks' = [blocks EXCEPT ![trace[op].index] = a.p]
                  /\ UNCHANGED block_sizes
        PROVE  blocks' \in [Ids -> Int] /\ block_sizes' \in [Ids -> Int]
    <3>1. a.p \in Int
      BY ReplyIsPointer
    <3> QED
      BY <1>1, <2>2, <3>1 DEF Remember, ExactInv
  <2> QED
    BY <1>3, <2>1, <2>2
<1> QED
  BY <1>2, <1>4 DEF ExactInv

\* What the evaluations of libc store are pointers too.
LEMMA ExactLibc ==
    ASSUME DriverAssumption, ExactInv, LibcValid \/ LibcSpeed
    PROVE  ExactInv'
<1>1. loc' # "valid" /\ op' \in Nat
  <2>1. \/ UNCHANGED loc /\ op' \in {op + 1, 1}
        \/ loc' \in {"libc_speed", "libc_free", "exit"} /\ op' \in {0, 1}
    BY DEF LibcValid, libc_valid_alloc, libc_valid_realloc, libc_valid_free,
       libc_valid_return, LibcSpeed, libc_speed_alloc, libc_speed_realloc,
       libc_speed_free, libc_speed_return, StoreLibc, LibcFailed, NextRequest,
       Goto, Exit
  <2>2. loc # "valid"
    BY DEF LibcValid, libc_valid_alloc, libc_valid_realloc, libc_valid_free,
       libc_valid_return, LibcSpeed, libc_speed_alloc, libc_speed_realloc,
       libc_speed_free, libc_speed_return, At, AtEnd
  <2> QED
    BY <2>1, <2>2 DEF ExactInv
<1>2. /\ UNCHANGED block_sizes
      /\ \/ UNCHANGED blocks
         \/ \E p \in LibcPointers :
               blocks' = [blocks EXCEPT ![trace[op].index] = p]
  BY DEF LibcValid, libc_valid_alloc, libc_valid_realloc, libc_valid_free,
     libc_valid_return, LibcSpeed, libc_speed_alloc, libc_speed_realloc,
     libc_speed_free, libc_speed_return, StoreLibc, LibcFailed, arrays
<1>3. LibcPointers \subseteq Nat
  BY DEF DriverAssumption
<1> QED
  BY <1>1, <1>2, <1>3 DEF ExactInv

LEMMA ExactNext ==
    ASSUME DriverAssumption, RangeInv, ExactInv, [Next]_vars
    PROVE  ExactInv'
<1>1. CASE read_trace \/ read_trace_fails
  <2>1. /\ UNCHANGED <<blocks, block_sizes>>
        /\ op' = 0 \/ (loc' = "libc_valid" /\ op' = 1)
    BY <1>1 DEF read_trace, read_trace_fails, Goto, Exit, arrays
  <2> QED
    BY <2>1 DEF ExactInv
<1>2. CASE free_trace
  <2>1. /\ op' = 0
        /\ blocks' = [i \in Ids |-> JUNK]
        /\ block_sizes' = [i \in Ids |-> JUNK]
    BY <1>2 DEF free_trace, Goto
  <2> QED
    BY <2>1 DEF ExactInv, JUNK
<1>3. CASE valid_init
  <2>1. CASE Report
    BY <1>3, <2>1, ExactReport DEF valid_init
  <2>2. CASE NextRequest
    <3>1. /\ op' = 1 /\ ranges' = {} /\ UNCHANGED arrays
      BY <1>3, <2>2 DEF valid_init, NextRequest, clear_ranges
    <3>2. Held(trace', op') = {}
      BY <3>1, HeldFirst
    <3> QED
      BY <3>1, <3>2 DEF ExactInv, arrays
  <2> QED
    BY <1>3, <2>1, <2>2 DEF valid_init
<1>4. CASE valid_alloc
  BY <1>4, ExactAlloc
<1>5. CASE valid_realloc
  BY <1>5, ExactRealloc
<1>6. CASE valid_free
  BY <1>6, ExactFree
<1>7. CASE valid_return
  BY <1>7 DEF valid_return, Goto, arrays, ExactInv
<1>8. CASE Util \/ Speed
  BY <1>8, ExactElsewhere
<1>9. CASE LibcValid \/ LibcSpeed
  BY <1>9, ExactLibc
<1>10. CASE Ended \/ UNCHANGED vars
  <2>1. UNCHANGED vars
    BY <1>10 DEF Ended
  <2>2. \A i : Placed(i)' = Placed(i)
    BY <2>1 DEF vars, arrays, Placed
  <2> QED
    BY <2>1, <2>2 DEF vars, arrays, ExactInv
<1> QED
  BY <1>1, <1>2, <1>3, <1>4, <1>5, <1>6, <1>7, <1>8, <1>9, <1>10
     DEF Next, Valid

\* While a trace is checked, the range list is exactly the blocks that its
\* requests so far leave allocated, for any traces, files and package.
THEOREM RangeListIsExact ==
    ASSUME DriverAssumption
    PROVE  Spec => []RangesExact
<1> DEFINE Inv == RangeInv /\ ExactInv
<1>1. Init => Inv
  BY RangeInit, ExactInit
<1>2. Inv /\ [Next]_vars => Inv'
  BY RangeNext, ExactNext
<1>3. Inv => RangesExact
  BY DEF ExactInv, RangesExact, Placed
<1> QED
  BY <1>1, <1>2, <1>3, PTL DEF Spec

-----------------------------------------------------------------------------
(* Errors and valid traces.                                                *)

\* While libc is evaluated no file has been decided on, and then all before
\* the current one; until the end of eval_mm_valid that one is not.
LibcLocations == {"libc_read", "libc_valid", "libc_speed", "libc_free"}
Decided == IF loc \in LibcLocations THEN 0
           ELSE IF loc \in {"util", "speed", "free"} THEN file
           ELSE file - 1

CountInv ==
    /\ file \in Nat \ {0}
    /\ errors \in Nat
    /\ IsFiniteSet(valid)
    /\ loc # "exit" => /\ valid \subseteq 1 .. Decided
                       /\ errors + Cardinality(valid) = Decided

LEMMA CountInit == Init => CountInv
<1> SUFFICES ASSUME Init PROVE CountInv
  OBVIOUS
<1>1. loc \in {"read", "libc_read"} /\ file = 1 /\ errors = 0 /\ valid = {}
  BY DEF Init, Reading
<1>2. IsFiniteSet(valid) /\ Cardinality(valid) = 0
  BY <1>1, FS_EmptySet
<1> QED
  BY <1>1, <1>2 DEF CountInv, Decided, LibcLocations

\* malloc_error decides on the current file.
LEMMA CountReport ==
    ASSUME CountInv, loc = "valid", Report, UNCHANGED <<file, valid>>
    PROVE  CountInv'
<1>1. Cardinality(valid) \in Nat
  BY FS_CardinalityType DEF CountInv
<1> QED
  BY <1>1 DEF CountInv, Decided, LibcLocations, Report, Goto

\* A step that stays in its evaluation.
LEMMA CountStay ==
    ASSUME CountInv, loc' = loc, UNCHANGED <<file, errors, valid>>
    PROVE  CountInv'
BY DEF CountInv, Decided

LEMMA CountNext ==
    ASSUME DriverAssumption, CountInv, [Next]_vars
    PROVE  CountInv'
<1>0. Cardinality(valid) \in Nat
  BY FS_CardinalityType DEF CountInv
<1>1. CASE read_trace \/ read_trace_fails
  BY <1>1 DEF read_trace, read_trace_fails, Reading, Goto, Exit, CountInv,
     Decided, LibcLocations
<1>2. CASE valid_init \/ valid_alloc \/ valid_realloc \/ valid_free
  <2>1. /\ loc = "valid"
        /\ UNCHANGED <<file, valid>>
        /\ Report \/ (NextRequest /\ UNCHANGED errors)
    BY <1>2 DEF valid_init, valid_alloc, valid_realloc, valid_free, At
  <2>2. CASE Report
    BY <2>1, <2>2, CountReport
  <2>3. CASE NextRequest /\ UNCHANGED errors
    BY <2>1, <2>3, CountStay DEF NextRequest
  <2> QED
    BY <2>1, <2>2, <2>3
<1>3. CASE valid_return
  <2>1. /\ loc = "valid" /\ loc' = "util"
        /\ valid' = valid \cup {file}
        /\ UNCHANGED <<file, errors>>
    BY <1>3 DEF valid_return, AtEnd, Goto
  <2>2. /\ valid \subseteq 1 .. file - 1
        /\ errors + Cardinality(valid) = file - 1
        /\ file \in Nat \ {0}
    BY <2>1 DEF CountInv, Decided, LibcLocations
  <2>3. file \notin valid
    BY <2>2
  <2>4. /\ IsFiniteSet(valid \cup {file})
        /\ Cardinality(valid \cup {file}) = Cardinality(valid) + 1
    BY <2>3, FS_AddElement DEF CountInv
  <2>5. errors' + Cardinality(valid') = file'
    BY <1>0, <2>1, <2>2, <2>4 DEF CountInv
  <2>6. valid' \subseteq 1 .. file'
    BY <2>1, <2>2
  <2> QED
    BY <2>1, <2>2, <2>4, <2>5, <2>6 DEF CountInv, Decided, LibcLocations
<1>4. CASE Util
  <2>1. /\ loc = "util"
        /\ UNCHANGED <<file, errors, valid>>
        /\ loc' \in {"util", "speed", "exit"}
    BY <1>4 DEF Util, util_init, util_alloc, util_realloc, util_free,
       util_return, At, AtEnd, NextRequest, Goto, Exit
  <2> QED
    BY <2>1 DEF CountInv, Decided, LibcLocations
<1>5. CASE Speed
  <2>1. /\ loc = "speed"
        /\ UNCHANGED <<file, errors, valid>>
        /\ loc' \in {"speed", "free", "exit"}
    BY <1>5 DEF Speed, speed_init, speed_alloc, speed_realloc, speed_free,
       speed_return, At, AtEnd, NextRequest, Goto, Exit
  <2> QED
    BY <2>1 DEF CountInv, Decided, LibcLocations
<1>6. CASE free_trace
  <2>1. /\ UNCHANGED <<errors, valid>>
        /\ \/ loc = "free" /\ loc' \in {"read", "report"} /\ file' = file + 1
           \/ loc = "libc_free" /\ loc' = "libc_read" /\ file' = file + 1
           \/ loc = "libc_free" /\ loc' = "read" /\ file' = 1
    BY <1>6 DEF free_trace, Goto
  <2>2. CASE loc = "free"
    BY <2>1, <2>2 DEF CountInv, Decided, LibcLocations
  <2>3. CASE loc = "libc_free"
    <3>1. errors + Cardinality(valid) = 0 /\ valid \subseteq 1 .. 0
      BY <2>3 DEF CountInv, Decided, LibcLocations
    <3>2. valid = {} /\ errors = 0
      BY <1>0, <3>1 DEF CountInv
    <3>3. file' \in Nat \ {0} /\ loc' \in {"libc_read", "read"}
      BY <2>1, <2>3 DEF CountInv
    <3>4. Decided' = 0
      BY <2>1, <2>3, <3>3 DEF Decided, LibcLocations
    <3> QED
      BY <2>1, <3>1, <3>3, <3>4 DEF CountInv
  <2> QED
    BY <2>1, <2>2, <2>3
<1>7. CASE LibcValid \/ LibcSpeed
  <2>1. /\ loc \in {"libc_valid", "libc_speed"}
        /\ UNCHANGED <<file, valid>>
    BY <1>7 DEF LibcValid, libc_valid_alloc, libc_valid_realloc,
       libc_valid_free, libc_valid_return, LibcSpeed, libc_speed_alloc,
       libc_speed_realloc, libc_speed_free, libc_speed_return, At, AtEnd
  <2>2. \/ loc' = "exit" /\ errors' \in {errors, errors + 1}
        \/ /\ loc' \in {"libc_valid", "libc_speed", "libc_free"}
           /\ UNCHANGED errors
    BY <1>7, <2>1 DEF LibcValid, libc_valid_alloc, libc_valid_realloc,
       libc_valid_free, libc_valid_return, LibcSpeed, libc_speed_alloc,
       libc_speed_realloc, libc_speed_free, libc_speed_return, StoreLibc,
       LibcFailed, NextRequest, Goto, Exit
  <2> QED
    BY <2>1, <2>2 DEF CountInv, Decided, LibcLocations
<1>8. CASE Ended \/ UNCHANGED vars
  BY <1>8, CountStay DEF Ended, vars
<1> QED
  BY <1>1, <1>2, <1>3, <1>4, <1>5, <1>6, <1>7, <1>8 DEF Next, Valid

\* Every file that main is done with is valid or has cost exactly one error,
\* for any number of files and whatever the package answers.
THEOREM ErrorsAndValidAddUp ==
    ASSUME DriverAssumption
    PROVE  Spec => []ErrorsAreInvalidTraces
<1>1. Init => CountInv
  BY CountInit
<1>2. CountInv /\ [Next]_vars => CountInv'
  BY CountNext
<1>3. CountInv => ErrorsAreInvalidTraces
  BY DEF CountInv, Decided, LibcLocations, ErrorsAreInvalidTraces
<1> QED
  BY <1>1, <1>2, <1>3, PTL DEF Spec


-----------------------------------------------------------------------------
(* What a package has given.                                               *)

\* g maps pointers to sizes: blocks that are in the heap below brk and
\* apart.
GivenOK(g, brk) ==
    /\ \A p \in DOMAIN g :
          /\ p \in Nat \ {0} /\ g[p] \in Nat \ {0}
          /\ Base <= p /\ p + g[p] <= brk
    /\ \A p, q \in DOMAIN g : p = q \/ p + g[p] <= q \/ q + g[q] <= p

\* A block that the package takes back.
LEMMA UnbindOK ==
    ASSUME NEW g, NEW brk, GivenOK(g, brk), NEW p
    PROVE  /\ GivenOK(Unbind(g, p), brk)
           /\ DOMAIN Unbind(g, p) = DOMAIN g \ {p}
           /\ \A q \in DOMAIN g \ {p} : Unbind(g, p)[q] = g[q]
<1>1. /\ DOMAIN Unbind(g, p) = DOMAIN g \ {p}
      /\ \A q \in DOMAIN g \ {p} : Unbind(g, p)[q] = g[q]
  BY DEF Unbind
<1> QED
  BY <1>1 DEF GivenOK

\* A block that the package gives, apart from the others.
LEMMA BindOK ==
    ASSUME DriverAssumption, NEW g, NEW brk \in Int, GivenOK(g, brk),
           NEW top \in Int, brk <= top, NEW p \in Nat, NEW n \in Nat \ {0},
           Base <= p, p + n <= top,
           \A q \in DOMAIN g : p + n <= q \/ q + g[q] <= p
    PROVE  /\ GivenOK(Bind(g, p, n), top)
           /\ DOMAIN Bind(g, p, n) = DOMAIN g \cup {p}
           /\ p \notin DOMAIN g
           /\ Bind(g, p, n)[p] = n
           /\ \A q \in DOMAIN g : Bind(g, p, n)[q] = g[q]
<1>1. ASSUME NEW q \in DOMAIN g PROVE q # p
  <2>1. q \in Nat /\ g[q] \in Nat \ {0} /\ (p + n <= q \/ q + g[q] <= p)
    BY DEF GivenOK
  <2> QED
    BY <2>1
<1> DEFINE h == Bind(g, p, n)
<1>2. /\ DOMAIN h = DOMAIN g \cup {p}
      /\ h[p] = n
      /\ \A q \in DOMAIN g : h[q] = g[q]
  BY <1>1 DEF Bind
<1>3. Base \in Nat \ {0}
  BY DEF DriverAssumption
<1>4. ASSUME NEW q \in DOMAIN h
      PROVE  /\ q \in Nat \ {0} /\ h[q] \in Nat \ {0}
             /\ Base <= q /\ q + h[q] <= top
  <2>1. CASE q = p
    BY <1>2, <1>3, <2>1
  <2>2. CASE q # p
    <3>1. /\ q \in Nat \ {0} /\ g[q] \in Nat \ {0}
          /\ Base <= q /\ q + g[q] <= brk
      BY <1>2, <2>2 DEF GivenOK
    <3>2. h[q] = g[q]
      BY <1>2, <2>2
    <3> QED
      BY <3>1, <3>2
  <2> QED
    BY <2>1, <2>2
<1>5. ASSUME NEW q \in DOMAIN h, NEW r \in DOMAIN h
      PROVE  q = r \/ q + h[q] <= r \/ r + h[r] <= q
  <2> HIDE DEF h
  <2>1. CASE q \in DOMAIN g /\ r \in DOMAIN g
    BY <1>2, <2>1 DEF GivenOK
  <2>2. CASE q = p /\ r # p
    BY <1>2, <2>2
  <2>3. CASE q # p /\ r = p
    BY <1>2, <2>3
  <2> QED
    BY <1>2, <2>1, <2>2, <2>3
<1> HIDE DEF h
<1>6. GivenOK(h, top)
  BY <1>4, <1>5 DEF GivenOK
<1> QED
  BY <1>1, <1>2, <1>6 DEF h

-----------------------------------------------------------------------------
(* What the arrays of the trace say of it.                                 *)

\* The blocks H of a trace are among what is given, each at a place of its
\* own, and, where sizes are kept, with the size of the array.
Live(H, b, bs, g, where) ==
    /\ \A i, j \in H : b[i] = b[j] => i = j
    /\ \A i \in H : /\ b[i] \in DOMAIN g
                    /\ where # "speed" => g[b[i]] = bs[i]

\* Block i goes.
LEMMA LiveUnbind ==
    ASSUME NEW H, NEW b, NEW bs, NEW g, NEW brk, GivenOK(g, brk),
           NEW where, Live(H, b, bs, g, where), NEW i \in H
    PROVE  Live(H \ {i}, b, bs, Unbind(g, b[i]), where)
<1> DEFINE h == Unbind(g, b[i])
<1>1. \A j \in H \ {i} : b[j] \in DOMAIN g \ {b[i]}
  BY DEF Live
<1>2. /\ DOMAIN h = DOMAIN g \ {b[i]}
      /\ \A q \in DOMAIN g \ {b[i]} : h[q] = g[q]
  BY UnbindOK
<1> HIDE DEF h
<1>3. \A j \in H \ {i} : b[j] \in DOMAIN h /\ h[b[j]] = g[b[j]]
  BY <1>1, <1>2
<1>4. \A j \in H \ {i} : where # "speed" => g[b[j]] = bs[j]
  BY DEF Live
<1>5. \A j, k \in H \ {i} : b[j] = b[k] => j = k
  BY DEF Live
<1>6. \A j \in H \ {i} : b[j] \in DOMAIN h /\ (where # "speed" => h[b[j]] = bs[j])
  BY <1>3, <1>4
<1>7. Live(H \ {i}, b, bs, h, where)
  BY <1>5, <1>6 DEF Live
<1> QED
  BY <1>7 DEF h

\* Block i comes.
LEMMA LiveBind ==
    ASSUME NEW H \in SUBSET Ids, NEW b \in [Ids -> Int], NEW bs \in [Ids -> Int],
           NEW g, NEW where, Live(H, b, bs, g, where),
           NEW i \in Ids \ H, NEW p \in Int \ DOMAIN g, NEW n \in Int,
           NEW b2, b2 = [b EXCEPT ![i] = p],
           NEW bs2, where # "speed" => bs2 = [bs EXCEPT ![i] = n]
    PROVE  Live(H \cup {i}, b2, bs2, Bind(g, p, n), where)
<1>1. /\ b2[i] = p /\ (where # "speed" => bs2[i] = n)
      /\ \A j \in H : b2[j] = b[j] /\ (where # "speed" => bs2[j] = bs[j])
  OBVIOUS
<1>2. /\ DOMAIN Bind(g, p, n) = DOMAIN g \cup {p}
      /\ Bind(g, p, n)[p] = n
      /\ \A q \in DOMAIN g : Bind(g, p, n)[q] = g[q]
  BY DEF Bind
<1>3. \A j \in H : b2[j] \in DOMAIN g /\ b2[j] # p
  BY <1>1 DEF Live
<1>4. \A j, k \in H \cup {i} : b2[j] = b2[k] => j = k
  BY <1>1, <1>3 DEF Live
<1>5. \A j \in H \cup {i} : /\ b2[j] \in DOMAIN Bind(g, p, n)
                            /\ where # "speed" => Bind(g, p, n)[b2[j]] = bs2[j]
  BY <1>1, <1>2, <1>3 DEF Live
<1> QED
  BY <1>4, <1>5 DEF Live

-----------------------------------------------------------------------------
(* The steps of the driver as the package sees them.                       *)

Evaluations == {"valid", "util", "speed"}

\* The evaluation goes on with the pointer p, or it is over.
Stored(p) ==
    /\ p # NULL
    /\ NextRequest
    /\ blocks' = [blocks EXCEPT ![trace[op].index] = p]
    /\ loc # "speed" => block_sizes' = [block_sizes EXCEPT ![trace[op].index] = trace[op].size]

\* The block that a request is to replace.
OldOf == IF trace[op].type = "ALLOC" THEN NULL ELSE blocks[trace[op].index]

\* mm_malloc or mm_realloc is called.
Asking ==
    /\ loc \in Evaluations /\ op \in DOMAIN trace /\ trace[op].type # "FREE"
    /\ UNCHANGED <<trace, libc>>
    /\ \E a \in Replies(trace[op].size, OldOf) :
          /\ pkg' = Booked(a, trace[op].size, OldOf)
          /\ Stored(a.p) \/ op' = 0

\* mm_free is called.
Freeing ==
    /\ loc \in Evaluations /\ op \in DOMAIN trace /\ trace[op].type = "FREE"
    /\ UNCHANGED <<trace, libc, blocks, block_sizes>>
    /\ pkg' = Returned(blocks[trace[op].index])
    /\ NextRequest

\* An evaluation begins.
Beginning ==
    /\ UNCHANGED <<trace, libc>>
    /\ \E brk \in Breaks, ok \in BOOLEAN : pkg' = Restarted(brk, ok)
    /\ op' \in {0, 1}

\* The package is not called.
Apart == pkg' = pkg /\ (op' = 0 \/ loc' \notin Evaluations)

\* There are no other steps.
LEMMA StepKinds ==
    ASSUME [Next]_vars
    PROVE  Asking \/ Freeing \/ Beginning \/ Apart \/ UNCHANGED vars
<1>1. CASE read_trace \/ read_trace_fails \/ free_trace
  BY <1>1 DEF read_trace, read_trace_fails, free_trace, Goto, Exit, Apart, Evaluations
<1>2. CASE valid_init \/ util_init \/ speed_init
  <2>1. UNCHANGED <<trace, libc>>
    BY <1>2 DEF valid_init, util_init, speed_init
  <2>2. \E brk \in Breaks, ok \in BOOLEAN : pkg' = Restarted(brk, ok)
    BY <1>2 DEF valid_init, util_init, speed_init
  <2>3. op' \in {0, 1}
    BY <1>2 DEF valid_init, util_init, speed_init, NextRequest, Report, Goto, Exit
  <2> QED
    BY <2>1, <2>2, <2>3 DEF Beginning
<1>3. CASE valid_alloc
  BY <1>3 DEF valid_alloc, At, Asking, Evaluations, OldOf, Stored, Remember, Report, Goto
<1>4. CASE valid_realloc
  <2>1. OldOf = blocks[trace[op].index]
    BY <1>4 DEF valid_realloc, At, OldOf
  <2> QED
    BY <1>4, <2>1 DEF valid_realloc, At, Asking, Evaluations, Stored, Remember,
       Report, Goto
<1>5. CASE util_alloc
  BY <1>5 DEF util_alloc, At, Asking, Evaluations, OldOf, Stored, Remember, Exit, Goto
<1>6. CASE util_realloc
  <2>1. OldOf = blocks[trace[op].index]
    BY <1>6 DEF util_realloc, At, OldOf
  <2> QED
    BY <1>6, <2>1 DEF util_realloc, At, Asking, Evaluations, Stored, Remember,
       Exit, Goto
<1>7. CASE speed_alloc
  BY <1>7 DEF speed_alloc, At, Asking, Evaluations, OldOf, Stored, Exit, Goto
<1>8. CASE speed_realloc
  <2>1. OldOf = blocks[trace[op].index]
    BY <1>8 DEF speed_realloc, At, OldOf
  <2> QED
    BY <1>8, <2>1 DEF speed_realloc, At, Asking, Evaluations, Stored, Exit, Goto
<1>9. CASE valid_free \/ util_free \/ speed_free
  BY <1>9 DEF valid_free, util_free, speed_free, At, Freeing, Evaluations, arrays
<1>10. CASE valid_return \/ util_return \/ speed_return
  BY <1>10 DEF valid_return, util_return, speed_return, Goto, Apart
<1>11. CASE LibcValid \/ LibcSpeed
  <2>1. pkg' = pkg
    BY <1>11 DEF LibcValid, libc_valid_alloc, libc_valid_realloc,
       libc_valid_free, libc_valid_return, LibcSpeed, libc_speed_alloc,
       libc_speed_realloc, libc_speed_free, libc_speed_return
  <2>2. loc' \notin Evaluations
    BY <1>11 DEF LibcValid, libc_valid_alloc, libc_valid_realloc,
       libc_valid_free, libc_valid_return, LibcSpeed, libc_speed_alloc,
       libc_speed_realloc, libc_speed_free, libc_speed_return, StoreLibc,
       LibcFailed, NextRequest, Goto, Exit, At, AtEnd, Evaluations
  <2> QED
    BY <2>1, <2>2 DEF Apart
<1>12. CASE Ended \/ UNCHANGED vars
  BY <1>12 DEF Ended
<1> QED
  BY <1>1, <1>2, <1>3, <1>4, <1>5, <1>6, <1>7, <1>8, <1>9, <1>10, <1>11, <1>12
     DEF Next, Valid, Util, Speed

-----------------------------------------------------------------------------
(* What the package has given, and what the trace knows of it.             *)

\* The package's record is one, and its break in the region.
PkgShape ==
    /\ pkg \in [given : {pkg.given}, brk : Breaks, sound : BOOLEAN,
                refused : BOOLEAN, misused : BOOLEAN]
    /\ pkg.given \in [DOMAIN pkg.given -> Nat]

PkgInv ==
    pkg.sound =>
        /\ ~pkg.misused
        /\ GivenOK(pkg.given, pkg.brk)
        /\ loc \in Evaluations /\ op > 0 =>
               Live(Held(trace, op), blocks, block_sizes, pkg.given, loc)

\* Answers.
LEMMA AnswerType ==
    ASSUME DriverAssumption, NEW n, NEW old, NEW a \in Replies(n, old)
    PROVE  /\ a.p \in Pointers \cup {NULL} /\ a.p \in Nat
           /\ a.brk \in Breaks /\ a.brk \in Int /\ Base <= a.brk
           /\ pkg.brk <= a.brk
           /\ a.p = NULL => a.kept
<1>1. /\ a \in Answers /\ a.brk >= pkg.brk
      /\ a.p = NULL => a.kept
  BY DEF Replies
<1>2. a.p \in Pointers \cup {NULL} /\ a.brk \in Breaks
  BY <1>1 DEF Answers
<1>3. Pointers \subseteq Nat /\ Base \in Nat /\ Top \in Nat
  BY DEF DriverAssumption
<1>4. a.p \in Nat
  <2>1. a.p \in Nat \/ a.p = 0
    BY <1>2, <1>3 DEF NULL
  <2> QED
    BY <2>1
<1>5. a.brk \in Int /\ Base <= a.brk
  BY <1>2, <1>3 DEF Breaks
<1> QED
  BY <1>1, <1>2, <1>4, <1>5

LEMMA BaseIsBreak ==
    ASSUME DriverAssumption
    PROVE  Base \in Breaks /\ Breaks \subseteq Nat
BY DEF DriverAssumption, Breaks

LEMMA NoneGivenOK ==
    ASSUME NEW brk
    PROVE  GivenOK(NoneGiven, brk) /\ NoneGiven \in [DOMAIN NoneGiven -> Nat]
BY DEF GivenOK, NoneGiven

LEMMA ShapeInit == DriverAssumption /\ Init => PkgShape
<1> SUFFICES ASSUME DriverAssumption, Init PROVE PkgShape
  OBVIOUS
<1>1. pkg = [given |-> NoneGiven, brk |-> Base, sound |-> TRUE,
             refused |-> FALSE, misused |-> FALSE]
  BY DEF Init
<1>2. NoneGiven \in [DOMAIN NoneGiven -> Nat]
  BY NoneGivenOK
<1> HIDE DEF NoneGiven
<1> QED
  BY <1>1, <1>2, BaseIsBreak DEF PkgShape

LEMMA ShapeBroken ==
    ASSUME NEW brk \in Breaks, pkg' = Broken(brk)
    PROVE  PkgShape'
<1>1. NoneGiven \in [DOMAIN NoneGiven -> Nat]
  BY NoneGivenOK
<1> QED
  BY <1>1 DEF PkgShape, Broken

LEMMA ShapeNext ==
    ASSUME DriverAssumption, RangeInv, PkgShape, [Next]_vars
    PROVE  PkgShape'
<1>1. CASE Asking
  <2> DEFINE n == trace[op].size
  <2>1. PICK a \in Replies(n, OldOf) : pkg' = Booked(a, n, OldOf)
    BY <1>1 DEF Asking
  <2>2. a.brk \in Breaks
    BY <2>1, AnswerType
  <2>3. n \in Nat
    BY <1>1, RequestAt DEF Asking, RangeInv, Requests
  <2> HIDE DEF n
  <2>4. CASE ~pkg.sound \/ ~Right(a, n, OldOf)
    BY <2>1, <2>2, <2>4, ShapeBroken DEF Booked
  <2>5. CASE pkg.sound /\ Right(a, n, OldOf)
    <3> DEFINE g == IF a.p = NULL THEN pkg.given
                    ELSE Bind(Unbind(pkg.given, OldOf), a.p, n)
    <3>1. g \in [DOMAIN g -> Nat]
      BY <2>3 DEF PkgShape, Bind, Unbind
    <3>2. pkg' = [given |-> g, brk |-> a.brk, sound |-> TRUE,
                  refused |-> pkg.refused \/ a.p = NULL,
                  misused |-> pkg.misused \/ (OldOf # NULL /\ OldOf \notin DOMAIN pkg.given)]
      BY <2>1, <2>5 DEF Booked
    <3> HIDE DEF g
    <3> QED
      BY <2>2, <3>1, <3>2 DEF PkgShape
  <2> QED
    BY <2>4, <2>5
<1>2. CASE Freeing
  <2> DEFINE p == blocks[trace[op].index]
             g == Unbind(pkg.given, p)
  <2>1. pkg' = pkg \/ pkg' = [pkg EXCEPT !.given = g,
                               !.misused = @ \/ p \notin DOMAIN pkg.given]
    BY <1>2 DEF Freeing, Returned
  <2>2. g \in [DOMAIN g -> Nat]
    BY DEF PkgShape, Unbind
  <2> HIDE DEF g, p
  <2> QED
    BY <2>1, <2>2 DEF PkgShape
<1>3. CASE Beginning
  <2>1. PICK brk \in Breaks, ok \in BOOLEAN : pkg' = Restarted(brk, ok)
    BY <1>3 DEF Beginning
  <2>2. CASE ~pkg.sound
    BY <2>1, <2>2, ShapeBroken DEF Restarted
  <2>3. CASE pkg.sound
    <3>1. pkg' = [pkg EXCEPT !.given = NoneGiven, !.brk = brk, !.refused = @ \/ ~ok]
      BY <2>1, <2>3 DEF Restarted
    <3>2. NoneGiven \in [DOMAIN NoneGiven -> Nat]
      BY NoneGivenOK
    <3> QED
      BY <3>1, <3>2 DEF PkgShape
  <2> QED
    BY <2>2, <2>3
<1>4. CASE Apart \/ UNCHANGED vars
  <2>1. pkg' = pkg
    BY <1>4 DEF Apart, vars
  <2> QED
    BY <2>1 DEF PkgShape
<1> QED
  BY <1>1, <1>2, <1>3, <1>4, StepKinds

\* The requests of a legal trace: what is allocated or not, and that the next
\* request is of a block of the trace.
LEMMA RequestFacts ==
    ASSUME DriverAssumption, TraceKnown, op \in DOMAIN trace
    PROVE  /\ trace[op].index \in Ids
           /\ trace[op].type # "FREE" => trace[op].size \in Nat \ {0}
           /\ trace[op].type = "ALLOC" <=> trace[op].index \notin Held(trace, op)
           /\ op \in Nat \ {0}
           /\ Held(trace, op) \subseteq Ids
           /\ Held(trace, op + 1) =
                  IF trace[op].type = "FREE" THEN Held(trace, op) \ {trace[op].index}
                  ELSE Held(trace, op) \cup {trace[op].index}
<1>1. trace[op] \in Requests /\ (trace[op].type # "FREE" => trace[op].size > 0)
  BY RequestAt
<1>2. Legal(trace)
  BY DEF TraceKnown, DriverAssumption
<1>3. op \in Nat \ {0}
  BY <1>2, DomainOfSeq DEF Legal
<1>4. trace[op].index \in Ids /\ trace[op].size \in Nat
  BY <1>1 DEF Requests
<1>5. trace[op].type = "ALLOC" <=> trace[op].index \notin Held(trace, op)
  BY <1>2 DEF Legal
<1>6. Held(trace, op) \subseteq Ids
  BY DEF Held
<1>7. Held(trace, op + 1) =
          IF trace[op].type = "FREE" THEN Held(trace, op) \ {trace[op].index}
          ELSE Held(trace, op) \cup {trace[op].index}
  BY <1>3, <1>4, HeldAfter
<1> QED
  BY <1>1, <1>3, <1>4, <1>5, <1>6, <1>7

\* A right answer to a request: what it replaces was given, and what is given
\* by then is in order.
LEMMA RightAnswer ==
    ASSUME DriverAssumption, TraceKnown, PkgShape, PkgInv, pkg.sound,
           loc \in Evaluations, op \in DOMAIN trace, trace[op].type # "FREE",
           NEW a \in Replies(trace[op].size, OldOf),
           Right(a, trace[op].size, OldOf), a.p # NULL
    PROVE  LET g == Unbind(pkg.given, OldOf)
           IN  /\ OldOf # NULL => OldOf \in DOMAIN pkg.given
               /\ GivenOK(g, pkg.brk)
               /\ GivenOK(Bind(g, a.p, trace[op].size), a.brk)
               /\ a.p \notin DOMAIN g
               /\ Live(Held(trace, op) \ {trace[op].index}, blocks, block_sizes,
                       g, loc)
<1> DEFINE g == Unbind(pkg.given, OldOf)
           n == trace[op].size
           i == trace[op].index
           H == Held(trace, op)
<1>1. /\ i \in Ids /\ n \in Nat \ {0} /\ op > 0
      /\ trace[op].type = "ALLOC" <=> i \notin H
  BY RequestFacts
<1>2. /\ GivenOK(pkg.given, pkg.brk)
      /\ Live(H, blocks, block_sizes, pkg.given, loc)
  BY <1>1 DEF PkgInv
<1>3. OldOf # NULL => OldOf \in DOMAIN pkg.given
  BY <1>1, <1>2 DEF OldOf, Live
<1>4. /\ GivenOK(g, pkg.brk)
      /\ DOMAIN g = DOMAIN pkg.given \ {OldOf}
      /\ \A q \in DOMAIN g : g[q] = pkg.given[q]
  <2>1. /\ GivenOK(g, pkg.brk)
        /\ DOMAIN g = DOMAIN pkg.given \ {OldOf}
        /\ \A q \in DOMAIN pkg.given \ {OldOf} : g[q] = pkg.given[q]
    BY <1>2, UnbindOK
  <2> HIDE DEF g
  <2> QED
    BY <2>1
<1>5. /\ Base <= a.p /\ a.p + n <= a.brk
      /\ \A q \in DOMAIN pkg.given \ {OldOf} :
            a.p + n <= q \/ q + pkg.given[q] <= a.p
  BY DEF Right
<1>6. \A q \in DOMAIN g : a.p + n <= q \/ q + g[q] <= a.p
  BY <1>4, <1>5
<1>7. /\ a.p \in Nat /\ a.brk \in Int /\ pkg.brk \in Int /\ pkg.brk <= a.brk
  BY AnswerType, BaseIsBreak DEF PkgShape
<1>8. Live(H \ {i}, blocks, block_sizes, g, loc)
  <2>1. CASE i \in H
    <3>1. OldOf = blocks[i]
      BY <1>1, <2>1 DEF OldOf
    <3>2. Live(H \ {i}, blocks, block_sizes, Unbind(pkg.given, blocks[i]), loc)
      <4> HIDE DEF i, H
      <4> QED
        BY <1>2, <2>1, LiveUnbind
    <3> QED
      BY <3>1, <3>2
  <2>2. CASE i \notin H
    <3>1. OldOf = NULL
      BY <1>1, <2>2 DEF OldOf
    <3>2. NULL \notin DOMAIN pkg.given
      BY <1>2 DEF GivenOK, NULL
    <3>3. H \ {i} = H
      BY <2>2
    <3>4. DOMAIN g = DOMAIN pkg.given
      BY <1>4, <3>1, <3>2
    <3>5. \A q \in DOMAIN pkg.given : g[q] = pkg.given[q]
      BY <1>4, <3>4
    <3> HIDE DEF g, H, i
    <3> QED
      BY <1>2, <3>3, <3>4, <3>5 DEF Live
  <2> QED
    BY <2>1, <2>2
<1>9. GivenOK(Bind(g, a.p, n), a.brk) /\ a.p \notin DOMAIN g
  <2> HIDE DEF g, n
  <2> QED
    BY <1>1, <1>4, <1>5, <1>6, <1>7, BindOK
<1> QED
  BY <1>3, <1>4, <1>8, <1>9

LEMMA PkgInit ==
    ASSUME Init
    PROVE  PkgInv
<1>1. /\ pkg = [given |-> NoneGiven, brk |-> Base, sound |-> TRUE,
                refused |-> FALSE, misused |-> FALSE]
      /\ op = 0
  BY DEF Init
<1> HIDE DEF NoneGiven
<1> QED
  BY <1>1, NoneGivenOK DEF PkgInv

LEMMA PkgAsking ==
    ASSUME DriverAssumption, TraceKnown, PkgShape, PkgInv,
           blocks \in [Ids -> Int], block_sizes \in [Ids -> Int], Asking
    PROVE  PkgInv'
<1> DEFINE n == trace[op].size
           i == trace[op].index
           H == Held(trace, op) \ {i}
           g == Unbind(pkg.given, OldOf)
<1>1. /\ loc \in Evaluations /\ op \in DOMAIN trace /\ trace[op].type # "FREE"
      /\ trace' = trace
  BY DEF Asking
<1>2. PICK a \in Replies(n, OldOf) :
        pkg' = Booked(a, n, OldOf) /\ (Stored(a.p) \/ op' = 0)
  BY DEF Asking
<1>3. CASE ~pkg.sound \/ ~Right(a, n, OldOf)
  BY <1>2, <1>3 DEF Booked, Broken, PkgInv
<1>4. CASE pkg.sound /\ Right(a, n, OldOf) /\ a.p = NULL
  <2>1. pkg' = [given |-> pkg.given, brk |-> a.brk, sound |-> TRUE,
                refused |-> pkg.refused \/ a.p = NULL,
                misused |-> pkg.misused \/ (OldOf # NULL /\ OldOf \notin DOMAIN pkg.given)]
    BY <1>2, <1>4 DEF Booked
  <2>2. op' = 0
    BY <1>2, <1>4 DEF Stored
  <2>3. OldOf # NULL => OldOf \in DOMAIN pkg.given
    <3>1. /\ trace[op].type = "ALLOC" <=> i \notin Held(trace, op)
          /\ op > 0
      BY <1>1, RequestFacts
    <3> QED
      BY <1>1, <1>4, <3>1 DEF OldOf, PkgInv, Live
  <2>4. GivenOK(pkg.given, a.brk)
    <3>1. pkg.brk \in Int /\ a.brk \in Int /\ pkg.brk <= a.brk
      BY AnswerType, BaseIsBreak DEF PkgShape
    <3>2. GivenOK(pkg.given, pkg.brk)
      BY <1>4 DEF PkgInv
    <3>3. Base \in Int
      BY DEF DriverAssumption
    <3> QED
      BY <3>1, <3>2, <3>3 DEF GivenOK
  <2>5. ~pkg.misused
    BY <1>4 DEF PkgInv
  <2>6. pkg'.given = pkg.given /\ pkg'.brk = a.brk /\ ~pkg'.misused
    BY <2>1, <2>3, <2>5
  <2> QED
    BY <2>2, <2>4, <2>6 DEF PkgInv
<1>5. CASE pkg.sound /\ Right(a, n, OldOf) /\ a.p # NULL
  <2> DEFINE h == Bind(g, a.p, n)
  <2>1. pkg' = [given |-> h, brk |-> a.brk, sound |-> TRUE,
                refused |-> pkg.refused \/ a.p = NULL,
                misused |-> pkg.misused \/ (OldOf # NULL /\ OldOf \notin DOMAIN pkg.given)]
    BY <1>2, <1>5 DEF Booked
  <2>2. /\ OldOf # NULL => OldOf \in DOMAIN pkg.given
        /\ GivenOK(h, a.brk)
        /\ a.p \notin DOMAIN g
        /\ Live(H, blocks, block_sizes, g, loc)
    BY <1>1, <1>5, RightAnswer
  <2>3. ~pkg.misused
    BY <1>5 DEF PkgInv
  <2>4. pkg'.given = h /\ pkg'.brk = a.brk /\ ~pkg'.misused
    <3> HIDE DEF h
    <3> QED
      BY <2>1, <2>2, <2>3
  <2>5. ASSUME op' > 0
        PROVE  Live(Held(trace', op'), blocks', block_sizes', h, loc')
    <3>1. Stored(a.p)
      BY <1>2, <2>5
    <3>2. /\ op' = op + 1 /\ loc' = loc
          /\ blocks' = [blocks EXCEPT ![i] = a.p]
          /\ loc # "speed" => block_sizes' = [block_sizes EXCEPT ![i] = n]
      BY <3>1 DEF Stored, NextRequest
    <3>3. /\ i \in Ids /\ H \in SUBSET Ids /\ i \notin H /\ n \in Int
          /\ Held(trace', op') = H \cup {i}
      BY <1>1, <3>2, RequestFacts
    <3>4. a.p \in Int
      BY AnswerType
    <3>5. Live(H \cup {i}, blocks', block_sizes', h, loc)
      <4> HIDE DEF g, H, i, n
      <4> QED
        BY <2>2, <3>2, <3>3, <3>4, LiveBind
    <3> QED
      BY <3>2, <3>3, <3>5
  <2> HIDE DEF h
  <2> QED
    BY <2>2, <2>4, <2>5 DEF PkgInv
<1> QED
  BY <1>3, <1>4, <1>5

LEMMA PkgFreeing ==
    ASSUME DriverAssumption, TraceKnown, PkgShape, PkgInv, Freeing
    PROVE  PkgInv'
<1> DEFINE i == trace[op].index
           p == blocks[i]
           H == Held(trace, op)
           g == Unbind(pkg.given, p)
<1>1. /\ loc \in Evaluations /\ op \in DOMAIN trace /\ trace[op].type = "FREE"
      /\ UNCHANGED <<trace, blocks, block_sizes, loc>>
      /\ pkg' = Returned(p)
      /\ op' = op + 1
  BY DEF Freeing, NextRequest
<1>2. CASE ~pkg.sound
  BY <1>1, <1>2 DEF Returned, PkgInv
<1>3. CASE pkg.sound
  <2>1. /\ i \in H /\ op > 0
        /\ Held(trace', op') = H \ {i}
    BY <1>1, RequestFacts
  <2>2. /\ ~pkg.misused /\ GivenOK(pkg.given, pkg.brk)
        /\ Live(H, blocks, block_sizes, pkg.given, loc)
    BY <1>1, <1>3, <2>1 DEF PkgInv
  <2>3. p \in DOMAIN pkg.given
    BY <2>1, <2>2 DEF Live
  <2>4. pkg' = [pkg EXCEPT !.given = g, !.misused = @ \/ p \notin DOMAIN pkg.given]
    BY <1>1, <1>3 DEF Returned
  <2>5. GivenOK(g, pkg.brk)
    BY <2>2, UnbindOK
  <2>6. Live(H \ {i}, blocks, block_sizes, g, loc)
    <3> HIDE DEF i, H
    <3> QED
      BY <2>1, <2>2, LiveUnbind
  <2>7. pkg'.given = g /\ pkg'.brk = pkg.brk /\ ~pkg'.misused
    <3> HIDE DEF g, p
    <3> QED
      BY <2>2, <2>3, <2>4 DEF PkgShape
  <2> HIDE DEF g, H
  <2> QED
    BY <1>1, <2>1, <2>5, <2>6, <2>7 DEF PkgInv
<1> QED
  BY <1>2, <1>3

LEMMA PkgBeginning ==
    ASSUME PkgShape, PkgInv, Beginning
    PROVE  PkgInv'
<1>1. PICK brk \in Breaks, ok \in BOOLEAN : pkg' = Restarted(brk, ok)
  BY DEF Beginning
<1>2. CASE ~pkg.sound
  BY <1>1, <1>2 DEF Restarted, Broken, PkgInv
<1>3. CASE pkg.sound
  <2>1. pkg' = [pkg EXCEPT !.given = NoneGiven, !.brk = brk, !.refused = @ \/ ~ok]
    BY <1>1, <1>3 DEF Restarted
  <2>2. pkg'.given = NoneGiven /\ pkg'.misused = pkg.misused
    BY <2>1 DEF PkgShape
  <2>3. GivenOK(NoneGiven, pkg'.brk)
    BY NoneGivenOK
  <2>4. op' > 0 => Held(trace', op') = {}
    <3>1. op' = 0 \/ op' = 1
      BY DEF Beginning
    <3> QED
      BY <3>1, HeldFirst
  <2> HIDE DEF NoneGiven
  <2> QED
    BY <1>3, <2>2, <2>3, <2>4 DEF PkgInv, Live
<1> QED
  BY <1>2, <1>3

LEMMA PkgNext ==
    ASSUME DriverAssumption, RangeInv, ExactInv, PkgShape, PkgInv, [Next]_vars
    PROVE  PkgInv'
<1>1. CASE Asking
  BY <1>1, PkgAsking DEF RangeInv, ExactInv
<1>2. CASE Freeing
  BY <1>2, PkgFreeing DEF RangeInv
<1>3. CASE Beginning
  BY <1>3, PkgBeginning
<1>4. CASE Apart
  BY <1>4 DEF Apart, PkgInv
<1>5. CASE UNCHANGED vars
  BY <1>5 DEF vars, arrays, PkgInv
<1> QED
  BY <1>1, <1>2, <1>3, <1>4, <1>5, StepKinds

-----------------------------------------------------------------------------
(* The same of libc.                                                       *)

\* The blocks H are among what libc has given, each at a place of its own.
LibcLive(H, b, given) ==
    /\ \A i, j \in H : b[i] = b[j] => i = j
    /\ \A i \in H : b[i] \in given

LibcEvaluations == {"libc_valid", "libc_speed"}

LibcInv ==
    /\ libc \in [given : SUBSET LibcPointers, refused : BOOLEAN, misused : BOOLEAN]
    /\ ~libc.misused
    /\ loc \in LibcEvaluations /\ op > 0 =>
          LibcLive(Held(trace, op), blocks, libc.given)

\* malloc or realloc is called, and fails or stores.
LibcAsking ==
    /\ loc \in LibcEvaluations /\ op \in DOMAIN trace /\ trace[op].type # "FREE"
    /\ UNCHANGED trace
    /\ (StoreLibc(OldOf) /\ UNCHANGED loc) \/ (LibcRefuses /\ loc' = "exit")

\* free is called.
LibcFreeing ==
    /\ loc \in LibcEvaluations /\ op \in DOMAIN trace /\ trace[op].type = "FREE"
    /\ LibcTakes(blocks[trace[op].index])
    /\ op' = op + 1
    /\ UNCHANGED <<loc, trace, blocks>>

\* libc is not called, and no evaluation of it is in its midst.
LibcApart ==
    /\ libc' \in {libc, [libc EXCEPT !.given = {}]}
    /\ loc' \notin LibcEvaluations \/ op' \in {0, 1}

LEMMA LibcStepKinds ==
    ASSUME [Next]_vars
    PROVE  LibcAsking \/ LibcFreeing \/ LibcApart \/ UNCHANGED vars
<1>1. CASE read_trace \/ read_trace_fails
  <2>1. libc' = libc /\ op' \in {0, 1}
    BY <1>1 DEF read_trace, read_trace_fails, Goto, Exit
  <2> QED
    BY <2>1 DEF LibcApart
<1>2. CASE free_trace
  <2>1. libc' \in {libc, [libc EXCEPT !.given = {}]} /\ op' = 0
    BY <1>2 DEF free_trace, Goto
  <2> QED
    BY <2>1 DEF LibcApart
<1>3. CASE Valid
  <2>1. libc' = libc /\ (loc' = loc \/ loc' \in {"free", "util"}) /\ loc = "valid"
    BY <1>3 DEF Valid, valid_init, valid_alloc, valid_realloc, valid_free,
       valid_return, At, AtEnd, NextRequest, Report, Goto
  <2> QED
    BY <2>1 DEF LibcApart, LibcEvaluations
<1>4. CASE Util
  <2>1. libc' = libc /\ (loc' = loc \/ loc' \in {"exit", "speed"}) /\ loc = "util"
    BY <1>4 DEF Util, util_init, util_alloc, util_realloc, util_free, util_return,
       At, AtEnd, NextRequest, Exit, Goto
  <2> QED
    BY <2>1 DEF LibcApart, LibcEvaluations
<1>5. CASE Speed
  <2>1. libc' = libc /\ (loc' = loc \/ loc' \in {"exit", "speed", "free"}) /\ loc = "speed"
    BY <1>5 DEF Speed, speed_init, speed_alloc, speed_realloc, speed_free,
       speed_return, At, AtEnd, NextRequest, Exit, Goto
  <2> QED
    BY <2>1 DEF LibcApart, LibcEvaluations
<1>6. CASE libc_valid_alloc \/ libc_speed_alloc
  <2>1. OldOf = NULL
    BY <1>6 DEF libc_valid_alloc, libc_speed_alloc, At, OldOf
  <2> QED
    BY <1>6, <2>1 DEF libc_valid_alloc, libc_speed_alloc, At, LibcAsking,
       LibcEvaluations, StoreLibc, NextRequest, LibcFailed, Exit, Goto
<1>7. CASE libc_valid_realloc \/ libc_speed_realloc
  <2>1. OldOf = blocks[trace[op].index]
    BY <1>7 DEF libc_valid_realloc, libc_speed_realloc, At, OldOf
  <2> QED
    BY <1>7, <2>1 DEF libc_valid_realloc, libc_speed_realloc, At, LibcAsking,
       LibcEvaluations, StoreLibc, NextRequest, LibcFailed, Exit, Goto
<1>8. CASE libc_valid_free \/ libc_speed_free
  BY <1>8 DEF libc_valid_free, libc_speed_free, At, LibcFreeing, LibcEvaluations,
     NextRequest, arrays
<1>9. CASE libc_valid_return \/ libc_speed_return
  BY <1>9 DEF libc_valid_return, libc_speed_return, AtEnd, Goto, LibcApart
<1>10. CASE Ended \/ UNCHANGED vars
  BY <1>10 DEF Ended
<1> QED
  BY <1>1, <1>2, <1>3, <1>4, <1>5, <1>6, <1>7, <1>8, <1>9, <1>10
     DEF Next, LibcValid, LibcSpeed

LEMMA LibcInit ==
    ASSUME Init
    PROVE  LibcInv
BY DEF Init, LibcInv

LEMMA LibcNext ==
    ASSUME DriverAssumption, TraceKnown, blocks \in [Ids -> Int], LibcInv, [Next]_vars
    PROVE  LibcInv'
<1> DEFINE i == trace[op].index
           H == Held(trace, op)
<1>1. CASE LibcAsking
  <2>1. CASE LibcRefuses /\ loc' = "exit"
    BY <2>1 DEF LibcRefuses, LibcInv, LibcEvaluations
  <2>2. CASE StoreLibc(OldOf) /\ UNCHANGED loc
    <3>1. PICK p \in LibcPointers :
            LibcGives(p, OldOf) /\ blocks' = [blocks EXCEPT ![i] = p]
      BY <2>2 DEF StoreLibc
    <3>2. /\ loc \in LibcEvaluations /\ op \in DOMAIN trace /\ trace[op].type # "FREE"
          /\ op' = op + 1 /\ trace' = trace
      BY <1>1, <2>2 DEF LibcAsking, StoreLibc, NextRequest
    <3>3. /\ i \in Ids /\ H \subseteq Ids /\ op > 0
          /\ trace[op].type = "ALLOC" <=> i \notin H
          /\ Held(trace', op') = H \cup {i}
      BY <3>2, RequestFacts
    <3>4. LibcLive(H, blocks, libc.given)
      BY <3>2, <3>3 DEF LibcInv
    <3>5. p \in Int
      BY DEF DriverAssumption
    <3>6. OldOf # NULL => OldOf \in libc.given
      BY <3>3, <3>4 DEF OldOf, LibcLive
    <3>7. \A h \in H \ {i} : blocks[h] \in libc.given \ {OldOf}
      <4>1. CASE i \in H
        BY <3>3, <3>4, <4>1 DEF LibcLive, OldOf
      <4>2. CASE i \notin H
        <5>1. OldOf = NULL /\ NULL \notin libc.given
          BY <3>3, <4>2 DEF OldOf, LibcInv, DriverAssumption, NULL
        <5> QED
          BY <3>4, <5>1 DEF LibcLive
      <4> QED
        BY <4>1, <4>2
    <3>8. /\ libc' = [libc EXCEPT !.given = (@ \ {OldOf}) \cup {p},
                                  !.misused = @ \/ (OldOf # NULL /\ OldOf \notin libc.given)]
          /\ p \notin libc.given \ {OldOf}
      BY <3>1 DEF LibcGives
    <3>9. /\ libc'.given = (libc.given \ {OldOf}) \cup {p}
          /\ ~libc'.misused
          /\ libc' \in [given : SUBSET LibcPointers, refused : BOOLEAN, misused : BOOLEAN]
      BY <3>6, <3>8 DEF LibcInv
    <3>10. LibcLive(H \cup {i}, blocks', libc'.given)
      <4>1. blocks'[i] = p /\ \A h \in H \ {i} : blocks'[h] = blocks[h]
        BY <3>1, <3>3, <3>5
      <4> HIDE DEF H, i
      <4>2. \A h \in H \ {i} : blocks'[h] \in libc'.given /\ blocks'[h] # p
        BY <3>7, <3>8, <3>9, <4>1
      <4>3. \A h, k \in H \ {i} : blocks'[h] = blocks'[k] => h = k
        BY <3>4, <4>1 DEF LibcLive
      <4> QED
        BY <3>9, <4>1, <4>2, <4>3 DEF LibcLive
    <3> QED
      BY <3>3, <3>9, <3>10 DEF LibcInv
  <2> QED
    BY <1>1, <2>1, <2>2 DEF LibcAsking
<1>2. CASE LibcFreeing
  <2>1. /\ loc \in LibcEvaluations /\ op \in DOMAIN trace /\ trace[op].type = "FREE"
        /\ LibcTakes(blocks[i])
        /\ op' = op + 1
        /\ UNCHANGED <<loc, trace, blocks>>
    BY <1>2 DEF LibcFreeing
  <2>2. /\ i \in H /\ op > 0
        /\ Held(trace', op') = H \ {i}
    BY <2>1, RequestFacts
  <2>3. LibcLive(H, blocks, libc.given)
    BY <2>1, <2>2 DEF LibcInv
  <2>4. blocks[i] \in libc.given
    BY <2>2, <2>3 DEF LibcLive
  <2>5. /\ libc'.given = libc.given \ {blocks[i]}
        /\ ~libc'.misused
        /\ libc' \in [given : SUBSET LibcPointers, refused : BOOLEAN, misused : BOOLEAN]
    BY <2>1, <2>4 DEF LibcTakes, LibcInv
  <2>6. LibcLive(H \ {i}, blocks, libc'.given)
    BY <2>2, <2>3, <2>5 DEF LibcLive
  <2> QED
    BY <2>1, <2>2, <2>5, <2>6 DEF LibcInv
<1>3. CASE LibcApart
  <2>1. /\ ~libc'.misused
        /\ libc' \in [given : SUBSET LibcPointers, refused : BOOLEAN, misused : BOOLEAN]
    BY <1>3 DEF LibcApart, LibcInv
  <2>2. loc' \in LibcEvaluations /\ op' > 0 => Held(trace', op') = {}
    <3>1. loc' \notin LibcEvaluations \/ op' = 0 \/ op' = 1
      BY <1>3 DEF LibcApart
    <3> QED
      BY <3>1, HeldFirst
  <2> QED
    BY <2>1, <2>2 DEF LibcInv, LibcLive
<1>4. CASE UNCHANGED vars
  BY <1>4 DEF vars, arrays, LibcInv
<1> QED
  BY <1>1, <1>2, <1>3, <1>4, LibcStepKinds

-----------------------------------------------------------------------------
(* The theorems.                                                           *)

DealInv == RangeInv /\ ExactInv /\ PkgShape /\ PkgInv /\ LibcInv

LEMMA AlwaysDealInv ==
    ASSUME DriverAssumption
    PROVE  Spec => []DealInv
<1>1. Init => DealInv
  BY RangeInit, ExactInit, ShapeInit, PkgInit, LibcInit DEF DealInv
<1>2. DealInv /\ [Next]_vars => DealInv'
  <2> SUFFICES ASSUME DealInv, [Next]_vars PROVE DealInv'
    OBVIOUS
  <2>1. TraceKnown /\ blocks \in [Ids -> Int]
    BY DEF DealInv, RangeInv, ExactInv
  <2> QED
    BY <2>1, RangeNext, ExactNext, ShapeNext, PkgNext, LibcNext DEF DealInv
<1> QED
  BY <1>1, <1>2, PTL DEF Spec

\* No evaluation passes on a pointer of a heap that is gone, or one that has
\* been taken back: neither to a package that keeps its promises nor to libc,
\* for any traces, files and runs, though nothing clears the arrays.
THEOREM PointersAreLive ==
    ASSUME DriverAssumption
    PROVE  Spec => []OnlyLivePointers
<1>1. DealInv => OnlyLivePointers
  BY DEF DealInv, PkgInv, LibcInv, OnlyLivePointers
<1> QED
  BY <1>1, AlwaysDealInv, PTL

-----------------------------------------------------------------------------
(* No false alarm.                                                         *)

\* The byte with which a block is filled reads back as itself: the indices
\* below 128 of every 256.
BytesMatch == \A i \in Ids : ByteMatches(i)

\* The records that stand against a request are those of the other blocks.
LEMMA OtherRanges ==
    ASSUME DriverAssumption, RangeInv, ExactInv, loc = "valid", op \in DOMAIN trace,
           trace[op].type # "FREE"
    PROVE  LET others == {Placed(h) : h \in Held(trace, op) \ {trace[op].index}}
           IN  /\ trace[op].type = "ALLOC" => ranges = others
               /\ trace[op].type = "REALLOC" =>
                     remove_range(ranges, blocks[trace[op].index]) = others
<1>1. /\ trace[op].type = "ALLOC" <=> trace[op].index \notin Held(trace, op)
      /\ op > 0
  BY RequestFacts DEF RangeInv
<1>2. ranges = {Placed(h) : h \in Held(trace, op)}
  BY <1>1 DEF ExactInv
<1>3. CASE trace[op].type = "ALLOC"
  <2>1. Held(trace, op) \ {trace[op].index} = Held(trace, op)
    BY <1>1, <1>3
  <2> QED
    BY <1>2, <1>3, <2>1
<1>4. CASE trace[op].type = "REALLOC"
  BY <1>1, <1>4, ExactRemove
<1> QED
  BY <1>3, <1>4

\* add_range accepts a right answer.
LEMMA RightIsAddable ==
    ASSUME DriverAssumption, RangeInv, ExactInv, PkgShape, PkgInv, pkg.sound,
           loc = "valid", op \in DOMAIN trace, trace[op].type # "FREE",
           NEW a \in Replies(trace[op].size, OldOf),
           Right(a, trace[op].size, OldOf), a.p # NULL
    PROVE  Addable({Placed(h) : h \in Held(trace, op) \ {trace[op].index}},
                   a.p, trace[op].size, a.brk)
<1> DEFINE n == trace[op].size
           i == trace[op].index
           H == Held(trace, op)
<1>1. n \in Nat \ {0} /\ op > 0 /\ (trace[op].type = "ALLOC" <=> i \notin H)
  BY RequestFacts DEF RangeInv
<1>2. /\ a.p % Alignment = 0
      /\ Base <= a.p /\ a.p + n <= a.brk
      /\ \A q \in DOMAIN pkg.given \ {OldOf} :
            a.p + n <= q \/ q + pkg.given[q] <= a.p
  BY DEF Right
<1>3. a.p \in Nat /\ a.brk \in Int /\ Base \in Int
  BY AnswerType DEF DriverAssumption
<1>4. GivenOK(pkg.given, pkg.brk) /\ Live(H, blocks, block_sizes, pkg.given, loc)
  BY <1>1 DEF PkgInv, Evaluations
<1>5. ASSUME NEW h \in H \ {i}
      PROVE  ~Overlaps(RangeOf(a.p, n), Placed(h))
  <2>1. /\ blocks[h] \in DOMAIN pkg.given
        /\ pkg.given[blocks[h]] = block_sizes[h]
    BY <1>4 DEF Live
  <2>2. blocks[h] # OldOf
    <3>1. CASE i \in H
      BY <1>1, <1>4, <3>1 DEF OldOf, Live
    <3>2. CASE i \notin H
      BY <1>1, <1>4, <2>1, <3>2 DEF OldOf, GivenOK, NULL
    <3> QED
      BY <3>1, <3>2
  <2>3. a.p + n <= blocks[h] \/ blocks[h] + block_sizes[h] <= a.p
    BY <1>2, <2>1, <2>2
  <2>4. blocks[h] \in Int /\ block_sizes[h] \in Nat \ {0}
    BY <1>4, <2>1 DEF GivenOK
  <2> HIDE DEF n
  <2> QED
    BY <1>1, <1>3, <2>3, <2>4 DEF Overlaps, RangeOf, Placed
<1>6. {a.p, a.p + n - 1} \subseteq Base .. a.brk - 1
  <2> HIDE DEF n
  <2> QED
    BY <1>1, <1>2, <1>3
<1> QED
  BY <1>2, <1>5, <1>6 DEF Addable, RangeOf

\* Neither the package nor libc ever forgets that it refused.
LEMMA RefusalsStay ==
    ASSUME PkgShape, LibcInv, [Next]_vars, pkg'.sound
    PROVE  /\ pkg.sound /\ (pkg.refused => pkg'.refused)
           /\ libc.refused => libc'.refused
<1>1. pkg.sound /\ (pkg.refused => pkg'.refused)
  <2>1. CASE Asking
    <3>1. PICK a \in Replies(trace[op].size, OldOf) :
            pkg' = Booked(a, trace[op].size, OldOf)
      BY <2>1 DEF Asking
    <3> QED
      BY <3>1 DEF Booked, Broken
  <2>2. CASE Freeing
    BY <2>2 DEF Freeing, Returned, PkgShape
  <2>3. CASE Beginning
    <3>1. PICK brk \in Breaks, ok \in BOOLEAN : pkg' = Restarted(brk, ok)
      BY <2>3 DEF Beginning
    <3> QED
      BY <3>1 DEF Restarted, Broken, PkgShape
  <2>4. CASE Apart \/ UNCHANGED vars
    BY <2>4 DEF Apart, vars
  <2> QED
    BY <2>1, <2>2, <2>3, <2>4, StepKinds
<1>2. libc.refused => libc'.refused
  <2>1. CASE LibcAsking
    BY <2>1 DEF LibcAsking, StoreLibc, LibcGives, LibcRefuses, LibcInv
  <2>2. CASE LibcFreeing
    BY <2>2 DEF LibcFreeing, LibcTakes, LibcInv
  <2>3. CASE LibcApart \/ UNCHANGED vars
    BY <2>3 DEF LibcApart, LibcInv, vars
  <2> QED
    BY <2>1, <2>2, <2>3, LibcStepKinds
<1> QED
  BY <1>1, <1>2

\* A right package that has memory is not reported.
LEMMA NoReport ==
    ASSUME DriverAssumption, BytesMatch, RangeInv, ExactInv, PkgShape, PkgInv,
           valid_init \/ valid_alloc \/ valid_realloc, Report, pkg'.sound
    PROVE  pkg'.refused
<1>0. ~NextRequest
  BY DEF Report, Goto, NextRequest, valid_init, valid_alloc, valid_realloc, At
<1>1. CASE valid_init
  <2>1. PICK brk \in Breaks : pkg' = Restarted(brk, FALSE)
    BY <1>0, <1>1 DEF valid_init
  <2> QED
    BY <2>1 DEF Restarted, Broken, PkgShape
<1>2. CASE valid_alloc
  <2>1. /\ loc = "valid" /\ op \in DOMAIN trace /\ trace[op].type = "ALLOC"
        /\ OldOf = NULL
    BY <1>2 DEF valid_alloc, At, OldOf
  <2>2. PICK a \in Replies(trace[op].size, OldOf) :
          /\ pkg' = Booked(a, trace[op].size, OldOf)
          /\ ~(a.p # NULL /\ Addable(ranges, a.p, trace[op].size, a.brk))
    BY <1>0, <1>2, <2>1 DEF valid_alloc
  <2>3. pkg.sound /\ Right(a, trace[op].size, OldOf)
    BY <2>2 DEF Booked, Broken
  <2>4. CASE a.p = NULL
    BY <2>2, <2>3, <2>4 DEF Booked
  <2>5. CASE a.p # NULL
    BY <2>1, <2>2, <2>3, <2>5, OtherRanges, RightIsAddable
  <2> QED
    BY <2>4, <2>5
<1>3. CASE valid_realloc
  <2>1. /\ loc = "valid" /\ op \in DOMAIN trace /\ trace[op].type = "REALLOC"
        /\ OldOf = blocks[trace[op].index]
    BY <1>3 DEF valid_realloc, At, OldOf
  <2>2. PICK a \in Replies(trace[op].size, OldOf) :
          /\ pkg' = Booked(a, trace[op].size, OldOf)
          /\ \/ a.p = NULL
             \/ ~Addable(remove_range(ranges, OldOf), a.p, trace[op].size, a.brk)
             \/ ~(a.kept /\ ByteMatches(trace[op].index))
    BY <1>0, <1>3, <2>1 DEF valid_realloc
  <2>3. pkg.sound /\ Right(a, trace[op].size, OldOf)
    BY <2>2 DEF Booked, Broken
  <2>4. CASE a.p = NULL
    BY <2>2, <2>3, <2>4 DEF Booked
  <2>5. CASE a.p # NULL
    <3>1. Addable(remove_range(ranges, OldOf), a.p, trace[op].size, a.brk)
      BY <2>1, <2>3, <2>5, OtherRanges, RightIsAddable
    <3>2. a.kept
      BY <2>3, <2>5 DEF Right
    <3>3. ByteMatches(trace[op].index)
      BY <2>1, RequestFacts DEF BytesMatch, RangeInv
    <3> QED
      BY <2>2, <2>5, <3>1, <3>2, <3>3
  <2> QED
    BY <2>4, <2>5
<1> QED
  BY <1>1, <1>2, <1>3

LEMMA AlarmNext ==
    ASSUME DriverAssumption, BytesMatch, DealInv, NoFalseAlarm, [Next]_vars
    PROVE  NoFalseAlarm'
<1> USE DEF DealInv
<1>1. CASE UNCHANGED errors
  BY <1>1, RefusalsStay DEF NoFalseAlarm
<1>2. CASE Report /\ (valid_init \/ valid_alloc \/ valid_realloc)
  BY <1>2, NoReport DEF NoFalseAlarm
<1>3. CASE LibcRefuses
  BY <1>3 DEF LibcRefuses, LibcInv, NoFalseAlarm
<1>4. \/ UNCHANGED errors
      \/ Report /\ (valid_init \/ valid_alloc \/ valid_realloc)
      \/ LibcRefuses
  <2>1. CASE read_trace \/ read_trace_fails \/ free_trace \/ Ended \/ UNCHANGED vars
    BY <2>1 DEF read_trace, read_trace_fails, free_trace, Ended, vars
  <2>2. CASE Valid
    BY <2>2 DEF Valid, valid_init, valid_alloc, valid_realloc, valid_free, valid_return
  <2>3. CASE Util \/ Speed
    BY <2>3 DEF Util, util_init, util_alloc, util_realloc, util_free, util_return,
       Speed, speed_init, speed_alloc, speed_realloc, speed_free, speed_return
  <2>4. CASE LibcValid \/ LibcSpeed
    BY <2>4 DEF LibcValid, libc_valid_alloc, libc_valid_realloc, libc_valid_free,
       libc_valid_return, LibcSpeed, libc_speed_alloc, libc_speed_realloc,
       libc_speed_free, libc_speed_return, LibcFailed
  <2> QED
    BY <2>1, <2>2, <2>3, <2>4 DEF Next
<1> QED
  BY <1>1, <1>2, <1>3, <1>4

\* A package that keeps its promises and has memory is never reported, for any
\* legal traces whose blocks have indices with a low byte below 128.
THEOREM RightPackagesPass ==
    ASSUME DriverAssumption, BytesMatch
    PROVE  Spec => []NoFalseAlarm
<1>1. Init => NoFalseAlarm
  BY DEF Init, NoFalseAlarm
<1>2. NoFalseAlarm /\ DealInv /\ [Next]_vars => NoFalseAlarm'
  BY AlarmNext
<1> QED
  BY <1>1, <1>2, AlwaysDealInv, PTL DEF Spec

-----------------------------------------------------------------------------
(* Utilization.                                                            *)

\* The bytes of what a package has given: eval_mm_util keeps their number.
Bytes(g) == {b \in Int : \E p \in DOMAIN g : p <= b /\ b < p + g[p]}

\* They lie in the heap.
LEMMA BytesFit ==
    ASSUME DriverAssumption, NEW g, NEW brk \in Breaks, GivenOK(g, brk)
    PROVE  /\ IsFiniteSet(Bytes(g)) /\ Cardinality(Bytes(g)) \in Nat
           /\ Cardinality(Bytes(g)) <= brk - Base
<1>1. Base \in Nat /\ brk \in Nat /\ Base <= brk
  BY DEF DriverAssumption, Breaks
<1>2. Bytes(g) \subseteq Base .. brk - 1
  <2>1. ASSUME NEW b \in Int, NEW p \in DOMAIN g, p <= b, b < p + g[p]
        PROVE  b \in Base .. brk - 1
    <3>1. p \in Nat /\ g[p] \in Nat /\ Base <= p /\ p + g[p] <= brk
      BY DEF GivenOK
    <3> QED
      BY <1>1, <2>1, <3>1
  <2> QED
    BY <2>1 DEF Bytes
<1>3. IsFiniteSet(Base .. brk - 1) /\ Cardinality(Base .. brk - 1) = brk - Base
  <2> DEFINE last == brk - 1
  <2>1. Base \in Int /\ last \in Int
    BY <1>1
  <2> HIDE DEF last
  <2>2. /\ IsFiniteSet(Base .. last)
        /\ Cardinality(Base .. last) = IF Base > last THEN 0 ELSE last - Base + 1
    BY <2>1, FS_Interval
  <2>3. (IF Base > last THEN 0 ELSE last - Base + 1) = brk - Base
    BY <1>1 DEF last
  <2> QED
    BY <2>2, <2>3 DEF last
<1>4. /\ IsFiniteSet(Bytes(g))
      /\ Cardinality(Bytes(g)) <= Cardinality(Base .. brk - 1)
  BY <1>2, <1>3, FS_Subset
<1>5. Cardinality(Bytes(g)) \in Nat
  BY <1>4, FS_CardinalityType
<1> QED
  BY <1>3, <1>4, <1>5

\* A block has as many as its size.
LEMMA BlockBytes ==
    ASSUME NEW p \in Int, NEW n \in Nat
    PROVE  IsFiniteSet(p .. p + n - 1) /\ Cardinality(p .. p + n - 1) = n
BY FS_Interval

LEMMA BytesUnbind ==
    ASSUME NEW g, NEW brk, GivenOK(g, brk), IsFiniteSet(Bytes(g)), NEW p \in DOMAIN g
    PROVE  /\ IsFiniteSet(Bytes(Unbind(g, p)))
           /\ Cardinality(Bytes(Unbind(g, p))) = Cardinality(Bytes(g)) - g[p]
<1> DEFINE block == p .. p + g[p] - 1
           h == Unbind(g, p)
<1>1. p \in Nat /\ g[p] \in Nat
  BY DEF GivenOK
<1>2. DOMAIN h = DOMAIN g \ {p} /\ \A q \in DOMAIN g \ {p} : h[q] = g[q]
  BY UnbindOK
<1> HIDE DEF h
<1>3. block \subseteq Bytes(g)
  BY <1>1 DEF Bytes
<1>4. ASSUME NEW b \in Bytes(g), b \notin block
      PROVE  b \in Bytes(h)
  <2>1. PICK q \in DOMAIN g : q <= b /\ b < q + g[q]
    BY DEF Bytes
  <2>2. q # p /\ b \in Int
    BY <1>1, <1>4, <2>1 DEF Bytes
  <2> QED
    BY <1>2, <2>1, <2>2 DEF Bytes
<1>5. ASSUME NEW b \in Bytes(h)
      PROVE  b \in Bytes(g) /\ b \notin block
  <2>1. PICK q \in DOMAIN g \ {p} : b \in Int /\ q <= b /\ b < q + g[q]
    BY <1>2 DEF Bytes
  <2>2. q \in Nat /\ g[q] \in Nat /\ (p + g[p] <= q \/ q + g[q] <= p)
    BY DEF GivenOK
  <2> QED
    BY <1>1, <2>1, <2>2 DEF Bytes
<1>6. Bytes(h) = Bytes(g) \ block
  BY <1>4, <1>5
<1>7. Bytes(g) \cap block = block
  BY <1>3
<1>8. Cardinality(block) = g[p]
  BY <1>1, BlockBytes
<1> HIDE DEF block
<1>9. /\ IsFiniteSet(Bytes(g) \ block)
      /\ Cardinality(Bytes(g) \ block) = Cardinality(Bytes(g)) - Cardinality(block)
  BY <1>7, FS_Difference
<1> QED
  BY <1>6, <1>8, <1>9 DEF h

LEMMA BytesBind ==
    ASSUME NEW g, NEW p, p \notin DOMAIN g, NEW n \in Nat, NEW brk,
           GivenOK(Bind(g, p, n), brk), IsFiniteSet(Bytes(g))
    PROVE  /\ IsFiniteSet(Bytes(Bind(g, p, n)))
           /\ Cardinality(Bytes(Bind(g, p, n))) = Cardinality(Bytes(g)) + n
<1> DEFINE block == p .. p + n - 1
           h == Bind(g, p, n)
<1>1. /\ DOMAIN h = DOMAIN g \cup {p}
      /\ h[p] = n
      /\ \A q \in DOMAIN g : h[q] = g[q]
  BY DEF Bind
<1> HIDE DEF h
<1>2. GivenOK(h, brk)
  BY DEF h
<1>3. p \in Nat
  BY <1>1, <1>2 DEF GivenOK
<1>4. Bytes(h) = Bytes(g) \cup block
  BY <1>1, <1>3 DEF Bytes
<1>5. ASSUME NEW b \in Bytes(g)
      PROVE  b \notin block
  <2>1. PICK q \in DOMAIN g : b \in Int /\ q <= b /\ b < q + g[q]
    BY DEF Bytes
  <2>2. /\ q \in Nat /\ h[q] \in Nat /\ h[q] = g[q]
        /\ p + h[p] <= q \/ q + h[q] <= p
    BY <1>1, <1>2 DEF GivenOK
  <2> QED
    BY <1>1, <1>3, <2>1, <2>2
<1>6. Bytes(g) \cap block = {}
  BY <1>5
<1>7. IsFiniteSet(block) /\ Cardinality(block) = n
  BY <1>3, BlockBytes
<1> HIDE DEF block
<1>8. /\ IsFiniteSet(Bytes(g) \cup block)
      /\ Cardinality(Bytes(g) \cup block) =
            Cardinality(Bytes(g)) + Cardinality(block) - Cardinality({})
  BY <1>6, <1>7, FS_Union
<1>9. Cardinality(Bytes(g)) \in Nat
  BY FS_CardinalityType
<1> QED
  BY <1>4, <1>7, <1>8, <1>9, FS_EmptySet DEF h

\* The sum that eval_mm_util keeps is the number of those bytes.
UtilInv ==
    /\ total_size \in Int /\ max_total_size \in Nat
    /\ loc = "util" /\ op > 0 /\ pkg.sound =>
          /\ total_size = Cardinality(Bytes(pkg.given))
          /\ max_total_size <= pkg.brk - Base

\* A change that follows what is given keeps the maximum below the heap's size.
LEMMA UtilAccount ==
    ASSUME DriverAssumption, NEW change, Account(change),
           UtilInv, loc = "util", op > 0, pkg.sound, PkgShape, PkgShape',
           GivenOK(pkg'.given, pkg'.brk), pkg.brk <= pkg'.brk,
           Cardinality(Bytes(pkg'.given)) = Cardinality(Bytes(pkg.given)) + change
    PROVE  /\ total_size' = Cardinality(Bytes(pkg'.given)) /\ total_size' \in Int
           /\ max_total_size' <= pkg'.brk - Base /\ max_total_size' \in Nat
<1>1. /\ total_size \in Int /\ max_total_size \in Nat
      /\ total_size = Cardinality(Bytes(pkg.given))
      /\ max_total_size <= pkg.brk - Base
  BY DEF UtilInv
<1>2. total_size' = Cardinality(Bytes(pkg'.given))
  BY <1>1 DEF Account
<1>3. pkg'.brk \in Breaks /\ pkg.brk \in Breaks
  BY DEF PkgShape
<1>4. pkg.brk \in Int /\ pkg'.brk \in Int /\ Base \in Int
  BY <1>3, BaseIsBreak DEF DriverAssumption
<1>5. /\ Cardinality(Bytes(pkg'.given)) <= pkg'.brk - Base
      /\ Cardinality(Bytes(pkg'.given)) \in Nat
  BY <1>3, BytesFit
<1>6. max_total_size' \in {total_size', max_total_size}
  BY DEF Account
<1> QED
  BY <1>1, <1>2, <1>4, <1>5, <1>6

LEMMA UtilInit == Init => UtilInv
BY DEF Init, UtilInv

\* By how much a right answer changes the bytes.
LEMMA BytesAfter ==
    ASSUME DriverAssumption, TraceKnown, PkgShape, PkgInv, pkg.sound,
           loc \in Evaluations, op \in DOMAIN trace, trace[op].type # "FREE",
           NEW a \in Replies(trace[op].size, OldOf), a.p # NULL,
           pkg' = Booked(a, trace[op].size, OldOf), pkg'.sound
    PROVE  /\ GivenOK(pkg'.given, pkg'.brk)
           /\ pkg.brk <= pkg'.brk
           /\ trace[op].type = "ALLOC" =>
                 Cardinality(Bytes(pkg'.given)) =
                    Cardinality(Bytes(pkg.given)) + trace[op].size
           /\ trace[op].type = "REALLOC" /\ loc # "speed" =>
                 Cardinality(Bytes(pkg'.given)) =
                    Cardinality(Bytes(pkg.given))
                       + (trace[op].size - block_sizes[trace[op].index])
<1> DEFINE n == trace[op].size
           i == trace[op].index
           g == Unbind(pkg.given, OldOf)
           h == Bind(g, a.p, n)
<1>1. Right(a, n, OldOf)
  BY DEF Booked, Broken
<1>2. pkg'.given = h /\ pkg'.brk = a.brk
  BY <1>1 DEF Booked
<1>3. /\ GivenOK(g, pkg.brk)
      /\ GivenOK(h, a.brk)
      /\ a.p \notin DOMAIN g
  BY <1>1, RightAnswer
<1>4. /\ i \in Ids /\ n \in Nat \ {0} /\ op > 0
      /\ trace[op].type = "ALLOC" <=> i \notin Held(trace, op)
  BY RequestFacts
<1>5. /\ GivenOK(pkg.given, pkg.brk) /\ pkg.brk \in Breaks
      /\ Live(Held(trace, op), blocks, block_sizes, pkg.given, loc)
  BY <1>4 DEF PkgInv, PkgShape
<1>6. /\ IsFiniteSet(Bytes(pkg.given)) /\ Cardinality(Bytes(pkg.given)) \in Nat
      /\ IsFiniteSet(Bytes(g)) /\ Cardinality(Bytes(g)) \in Nat
  BY <1>3, <1>5, BytesFit
<1>7. Cardinality(Bytes(h)) = Cardinality(Bytes(g)) + n
  <2> HIDE DEF g, n
  <2> QED
    BY <1>3, <1>4, <1>6, BytesBind
<1>8. pkg.brk <= a.brk
  BY AnswerType
<1>9. CASE trace[op].type = "ALLOC"
  <2>1. OldOf = NULL
    BY <1>9 DEF OldOf
  <2>2. NULL \notin DOMAIN pkg.given
    BY <1>5 DEF GivenOK, NULL
  <2>3. Bytes(g) = Bytes(pkg.given)
    <3>1. DOMAIN g = DOMAIN pkg.given /\ \A q \in DOMAIN pkg.given : g[q] = pkg.given[q]
      BY <2>1, <2>2 DEF Unbind
    <3> HIDE DEF g
    <3> QED
      BY <3>1 DEF Bytes
  <2> HIDE DEF g, h, n
  <2> QED
    BY <1>2, <1>3, <1>7, <1>8, <1>9, <2>3 DEF n
<1>10. CASE trace[op].type = "REALLOC" /\ loc # "speed"
  <2>1. OldOf = blocks[i] /\ i \in Held(trace, op)
    BY <1>4, <1>10 DEF OldOf
  <2>2. OldOf \in DOMAIN pkg.given /\ pkg.given[OldOf] = block_sizes[i]
    BY <1>5, <1>10, <2>1 DEF Live
  <2>3. Cardinality(Bytes(g)) = Cardinality(Bytes(pkg.given)) - block_sizes[i]
    BY <1>5, <1>6, <2>2, BytesUnbind
  <2>4. block_sizes[i] \in Nat
    BY <1>5, <2>2 DEF GivenOK
  <2>5. Cardinality(Bytes(h)) = Cardinality(Bytes(pkg.given)) + (n - block_sizes[i])
    <3> HIDE DEF g, h, n, i
    <3> QED
      BY <1>4, <1>6, <1>7, <2>3, <2>4
  <2> HIDE DEF h
  <2> QED
    BY <1>2, <1>3, <1>8, <1>10, <2>5
<1>11. CASE trace[op].type = "REALLOC" /\ loc = "speed"
  <2> HIDE DEF h
  <2> QED
    BY <1>2, <1>3, <1>8, <1>11
<1>12. trace[op].type \in {"ALLOC", "REALLOC"}
  BY RequestAt DEF Requests
<1> QED
  BY <1>9, <1>10, <1>11, <1>12

\* The totals stay numbers, whatever the package does.
LEMMA AccountType ==
    ASSUME NEW change \in Int, Account(change), UtilInv
    PROVE  total_size' \in Int /\ max_total_size' \in Nat
BY DEF Account, UtilInv

LEMMA UtilNext ==
    ASSUME DriverAssumption, DealInv, UtilInv, [Next]_vars
    PROVE  UtilInv'
<1> USE DEF DealInv
<1>0. PkgShape' /\ TraceKnown
  BY ShapeNext DEF RangeInv
<1>1. CASE util_init
  <2>1. /\ total_size' = 0 /\ max_total_size' = 0
        /\ \E brk \in Breaks, ok \in BOOLEAN : pkg' = Restarted(brk, ok)
    BY <1>1 DEF util_init
  <2>2. PICK brk \in Breaks, ok \in BOOLEAN : pkg' = Restarted(brk, ok)
    BY <2>1
  <2>3. pkg'.given = NoneGiven
    BY <2>2 DEF Restarted, Broken, PkgShape
  <2>4. Bytes(NoneGiven) = {}
    BY DEF Bytes, NoneGiven
  <2>5. Cardinality(Bytes(pkg'.given)) = 0
    BY <2>3, <2>4, FS_EmptySet
  <2>6. pkg'.brk \in Breaks
    BY <1>0 DEF PkgShape
  <2>7. 0 <= pkg'.brk - Base
    <3>1. pkg'.brk \in Int /\ Base \in Int /\ Base <= pkg'.brk
      BY <2>6 DEF Breaks, DriverAssumption
    <3> QED
      BY <3>1
  <2> QED
    BY <2>1, <2>5, <2>7 DEF UtilInv
<1>2. CASE util_alloc \/ util_realloc
  <2> DEFINE o == trace[op]
             change == IF o.type = "ALLOC" THEN o.size
                       ELSE o.size - block_sizes[o.index]
  <2>1. /\ loc = "util" /\ op \in DOMAIN trace /\ o.type \in {"ALLOC", "REALLOC"}
        /\ OldOf = IF o.type = "ALLOC" THEN NULL ELSE blocks[o.index]
    BY <1>2 DEF util_alloc, util_realloc, At, OldOf
  <2>2. PICK a \in Replies(o.size, OldOf) :
          /\ pkg' = Booked(a, o.size, OldOf)
          /\ \/ loc' = "exit" /\ UNCHANGED sizes
             \/ a.p # NULL /\ Account(change) /\ loc' = loc
    <3>1. CASE util_alloc
      <4>1. OldOf = NULL /\ change = o.size
        BY <3>1 DEF util_alloc, At, OldOf
      <4> QED
        BY <3>1, <4>1 DEF util_alloc, Exit, Goto, NextRequest
    <3>2. CASE util_realloc
      <4>1. OldOf = blocks[o.index] /\ change = Growth(o.index, o.size)
        BY <3>2 DEF util_realloc, At, OldOf, Growth
      <4> QED
        BY <3>2, <4>1 DEF util_realloc, Exit, Goto, NextRequest
    <3> QED
      BY <1>2, <3>1, <3>2
  <2>3. /\ o.index \in Ids /\ o.size \in Nat \ {0} /\ op > 0
    BY <1>0, <2>1, RequestFacts
  <2>4. change \in Int
    <3>1. block_sizes[o.index] \in Int
      BY <2>3 DEF ExactInv
    <3> QED
      BY <2>3, <3>1
  <2>5. CASE loc' = "exit" /\ UNCHANGED sizes
    BY <2>5 DEF sizes, UtilInv
  <2>6. CASE a.p # NULL /\ Account(change) /\ loc' = loc
    <3>1. total_size' \in Int /\ max_total_size' \in Nat
      <4> HIDE DEF change
      <4> QED
        BY <2>4, <2>6, AccountType
    <3>2. ASSUME pkg'.sound
          PROVE  /\ total_size' = Cardinality(Bytes(pkg'.given))
                 /\ max_total_size' <= pkg'.brk - Base
      <4>1. pkg.sound
        BY <2>2, <3>2 DEF Booked, Broken
      <4>2. /\ GivenOK(pkg'.given, pkg'.brk)
            /\ pkg.brk <= pkg'.brk
            /\ o.type = "ALLOC" =>
                 Cardinality(Bytes(pkg'.given)) = Cardinality(Bytes(pkg.given)) + o.size
            /\ o.type = "REALLOC" =>
                 Cardinality(Bytes(pkg'.given)) =
                    Cardinality(Bytes(pkg.given)) + (o.size - block_sizes[o.index])
        BY <1>0, <2>1, <2>2, <2>6, <3>2, <4>1, BytesAfter DEF Evaluations
      <4>3. Cardinality(Bytes(pkg'.given)) = Cardinality(Bytes(pkg.given)) + change
        BY <2>1, <4>2
      <4> HIDE DEF change
      <4> QED
        BY <1>0, <2>1, <2>3, <2>6, <4>1, <4>2, <4>3, UtilAccount
    <3> QED
      BY <3>1, <3>2 DEF UtilInv
  <2> QED
    BY <2>2, <2>5, <2>6
<1>3. CASE util_free
  <2> DEFINE i == trace[op].index
             p == blocks[i]
  <2>1. /\ loc = "util" /\ op \in DOMAIN trace /\ trace[op].type = "FREE"
        /\ pkg' = Returned(p) /\ Account(-block_sizes[i])
    BY <1>3 DEF util_free, At
  <2>2. i \in Ids /\ op > 0 /\ i \in Held(trace, op)
    BY <1>0, <2>1, RequestFacts
  <2>3. -block_sizes[i] \in Int
    <3>1. block_sizes[i] \in Int
      BY <2>2 DEF ExactInv
    <3> QED
      BY <3>1
  <2>4. total_size' \in Int /\ max_total_size' \in Nat
    BY <2>1, <2>3, AccountType
  <2>5. ASSUME pkg'.sound
        PROVE  /\ total_size' = Cardinality(Bytes(pkg'.given))
               /\ max_total_size' <= pkg'.brk - Base
    <3>1. pkg.sound
      BY <2>1, <2>5 DEF Returned, PkgShape
    <3>2. /\ GivenOK(pkg.given, pkg.brk)
          /\ Live(Held(trace, op), blocks, block_sizes, pkg.given, loc)
          /\ pkg.brk \in Breaks /\ pkg.brk \in Int
      BY <2>1, <2>2, <3>1, BaseIsBreak DEF PkgInv, PkgShape, Evaluations
    <3>3. p \in DOMAIN pkg.given /\ pkg.given[p] = block_sizes[i]
      BY <2>1, <2>2, <3>2 DEF Live
    <3>4. pkg'.given = Unbind(pkg.given, p) /\ pkg'.brk = pkg.brk
      <4> HIDE DEF p
      <4> QED
        BY <2>1, <3>1 DEF Returned, PkgShape
    <3>5. IsFiniteSet(Bytes(pkg.given)) /\ Cardinality(Bytes(pkg.given)) \in Nat
      BY <3>2, BytesFit
    <3>6. Cardinality(Bytes(pkg'.given)) = Cardinality(Bytes(pkg.given)) - block_sizes[i]
      BY <3>2, <3>3, <3>4, <3>5, BytesUnbind
    <3>7. Cardinality(Bytes(pkg'.given)) = Cardinality(Bytes(pkg.given)) + (-block_sizes[i])
      BY <2>3, <3>5, <3>6, <3>2, <3>3 DEF GivenOK
    <3>8. GivenOK(pkg'.given, pkg'.brk)
      <4>1. GivenOK(Unbind(pkg.given, p), pkg.brk)
        BY <3>2, UnbindOK
      <4> QED
        BY <3>4, <4>1
    <3>9. pkg.brk <= pkg'.brk
      BY <3>2, <3>4
    <3> HIDE DEF i, p
    <3> QED
      BY <1>0, <2>1, <2>2, <3>1, <3>7, <3>8, <3>9, UtilAccount
  <2> QED
    BY <2>4, <2>5 DEF UtilInv
<1>4. CASE util_return
  BY <1>4 DEF util_return, Goto, UtilInv
<1>5. CASE UNCHANGED sizes /\ (loc' # "util" \/ op' = 0)
  BY <1>5 DEF sizes, UtilInv
<1>6. CASE read_trace \/ read_trace_fails \/ free_trace \/ Valid
  <2>1. UNCHANGED sizes /\ (loc' # "util" \/ op' = 0)
    BY <1>6 DEF read_trace, read_trace_fails, free_trace, Valid, valid_init,
       valid_alloc, valid_realloc, valid_free, valid_return, At, AtEnd,
       NextRequest, Report, Goto, Exit
  <2> QED
    BY <1>5, <2>1
<1>7. CASE Speed \/ LibcValid \/ LibcSpeed
  <2>1. UNCHANGED sizes
    BY <1>7 DEF Speed, speed_init, speed_alloc, speed_realloc, speed_free,
       speed_return, LibcValid, libc_valid_alloc, libc_valid_realloc,
       libc_valid_free, libc_valid_return, LibcSpeed, libc_speed_alloc,
       libc_speed_realloc, libc_speed_free, libc_speed_return
  <2>2. loc \in {"speed", "libc_valid", "libc_speed"}
    BY <1>7 DEF Speed, speed_init, speed_alloc, speed_realloc, speed_free,
       speed_return, LibcValid, libc_valid_alloc, libc_valid_realloc,
       libc_valid_free, libc_valid_return, LibcSpeed, libc_speed_alloc,
       libc_speed_realloc, libc_speed_free, libc_speed_return, At, AtEnd
  <2>3. loc' = loc \/ loc' \in {"speed", "free", "exit", "libc_speed", "libc_free"}
    BY <1>7 DEF Speed, speed_init, speed_alloc, speed_realloc, speed_free,
       speed_return, LibcValid, libc_valid_alloc, libc_valid_realloc,
       libc_valid_free, libc_valid_return, LibcSpeed, libc_speed_alloc,
       libc_speed_realloc, libc_speed_free, libc_speed_return, StoreLibc,
       LibcFailed, NextRequest, Goto, Exit
  <2> QED
    BY <1>5, <2>1, <2>2, <2>3
<1>8. CASE Ended \/ UNCHANGED vars
  BY <1>8 DEF Ended, vars, sizes, UtilInv
<1> QED
  BY <1>1, <1>2, <1>3, <1>4, <1>6, <1>7, <1>8 DEF Next, Util

\* Utilization is at most 1 for a package that keeps its promises: the sum that
\* eval_mm_util keeps by additions and subtractions is what is really allocated.
THEOREM UtilizationAtMostOne ==
    ASSUME DriverAssumption
    PROVE  Spec => []UtilAtMostOne
<1>1. Init => UtilInv
  BY UtilInit
<1>2. UtilInv /\ DealInv /\ [Next]_vars => UtilInv'
  BY UtilNext
<1>3. UtilInv => UtilAtMostOne
  BY DEF UtilInv, UtilAtMostOne
<1> QED
  BY <1>1, <1>2, <1>3, AlwaysDealInv, PTL DEF Spec

-----------------------------------------------------------------------------
(* Types.                                                                  *)

\* What TypeOK says that the other invariants leave open.
RestInv ==
    /\ loc \in Locations
    /\ file \in 1 .. NumFiles + 1
    /\ loc # "report" => file \in 1 .. NumFiles
    /\ op \in 0 .. Len(trace) + 1
    /\ ranges \subseteq [lo : Base .. Top - 1, hi : Base .. Top - 1]
    /\ valid \subseteq 1 .. NumFiles
    /\ repeat \in 0 .. Repeats

LEMMA TraceLength ==
    ASSUME DriverAssumption, TraceKnown
    PROVE  Len(trace) \in Nat /\ DOMAIN trace = 1 .. Len(trace)
<1>1. CASE trace = << >>
  BY <1>1
<1>2. CASE trace \in Traces
  <2>1. trace \in Seq(Requests)
    BY <1>2 DEF DriverAssumption, Legal
  <2> QED
    BY <2>1
<1> QED
  BY <1>1, <1>2 DEF TraceKnown

LEMMA RestInit ==
    ASSUME DriverAssumption, Init
    PROVE  RestInv
BY DEF DriverAssumption, Init, Reading, RestInv, Locations

\* What add_range accepts is a range of the region.
LEMMA AddableInRegion ==
    ASSUME DriverAssumption, NEW R, NEW n, NEW old, NEW a \in Replies(n, old),
           Addable(R, a.p, n, a.brk)
    PROVE  RangeOf(a.p, n) \in [lo : Base .. Top - 1, hi : Base .. Top - 1]
<1> DEFINE r == RangeOf(a.p, n)
<1>1. a.brk \in Breaks
  BY AnswerType
<1>2. a.brk \in Int /\ a.brk <= Top /\ Top \in Int /\ Base \in Int
  BY <1>1 DEF Breaks, DriverAssumption
<1>3. r.lo \in Base .. a.brk - 1 /\ r.hi \in Base .. a.brk - 1
  BY DEF Addable
<1>4. r.lo \in Base .. Top - 1 /\ r.hi \in Base .. Top - 1
  <2> HIDE DEF r
  <2> QED
    BY <1>2, <1>3
<1> QED
  BY <1>4 DEF RangeOf

\* The next request, or the end of the trace.
LEMMA NextOp ==
    ASSUME DriverAssumption, TraceKnown, op \in DOMAIN trace
    PROVE  op + 1 \in 0 .. Len(trace) + 1
BY TraceLength

LEMMA RestNext ==
    ASSUME DriverAssumption, RangeInv, RestInv, [Next]_vars
    PROVE  RestInv'
<1> USE DEF RestInv
<1>0. /\ NumFiles \in Nat \ {0} /\ Repeats \in Nat \ {0}
      /\ TraceKnown /\ TraceKnown'
      /\ Len(trace) \in Nat
  BY RangeNext, TraceLength DEF DriverAssumption, RangeInv
<1>1. CASE read_trace \/ read_trace_fails
  <2>1. /\ UNCHANGED <<file, ranges, valid, repeat>>
        /\ \/ loc' \in {"valid", "exit"} /\ op' = 0
           \/ loc' = "libc_valid" /\ op' = 1
        /\ loc # "report"
    BY <1>1 DEF read_trace, read_trace_fails, Reading, Goto, Exit
  <2>2. Len(trace') \in Nat
    BY <1>0, TraceLength DEF RangeInv, TraceKnown, DriverAssumption, Legal
  <2> QED
    BY <2>1, <2>2 DEF Locations
<1>2. CASE free_trace
  <2>1. /\ UNCHANGED <<ranges, valid, repeat>>
        /\ op' = 0 /\ trace' = << >>
        /\ loc \in {"free", "libc_free"}
        /\ \/ loc' = "report" /\ file = NumFiles /\ file' = file + 1
           \/ loc' \in {"read", "libc_read"} /\ file # NumFiles /\ file' = file + 1
           \/ loc' = "read" /\ file' = 1
    BY <1>0, <1>2 DEF free_trace, Goto
  <2>2. Len(trace') = 0
    BY <2>1
  <2> QED
    BY <1>0, <2>1, <2>2 DEF Locations
<1>3. CASE valid_init
  <2>1. /\ loc = "valid" /\ loc' \in {"valid", "free"} /\ op' \in {0, 1}
        /\ ranges' = {} /\ UNCHANGED <<file, trace, valid, repeat>>
    BY <1>3 DEF valid_init, clear_ranges, NextRequest, Report, Goto
  <2> QED
    BY <1>0, <2>1 DEF Locations
<1>4. CASE valid_alloc \/ valid_realloc
  <2>1. /\ loc = "valid" /\ op \in DOMAIN trace
        /\ UNCHANGED <<file, trace, valid, repeat>>
    BY <1>4 DEF valid_alloc, valid_realloc, At
  <2>2. loc' \in {"valid", "free"} /\ op' \in {0, op + 1}
    BY <1>4, <2>1 DEF valid_alloc, valid_realloc, NextRequest, Report, Goto
  <2>3. \E old : \E a \in Replies(trace[op].size, old) :
          \/ ranges' \in {ranges, remove_range(ranges, old)}
          \/ \E R \in {ranges, remove_range(ranges, old)} :
                /\ Addable(R, a.p, trace[op].size, a.brk)
                /\ ranges' = R \cup {RangeOf(a.p, trace[op].size)}
    <3>1. CASE valid_alloc
      BY <3>1 DEF valid_alloc
    <3>2. CASE valid_realloc
      BY <3>2 DEF valid_realloc
    <3> QED
      BY <1>4, <3>1, <3>2
  <2>4. \A old : remove_range(ranges, old) \subseteq ranges
    BY DEF remove_range
  <2>5. ranges' \subseteq [lo : Base .. Top - 1, hi : Base .. Top - 1]
    BY <2>3, <2>4, AddableInRegion
  <2>6. op' \in 0 .. Len(trace) + 1
    BY <1>0, <2>1, <2>2, NextOp
  <2> QED
    BY <2>1, <2>2, <2>5, <2>6 DEF Locations
<1>5. CASE valid_free
  <2>1. /\ loc = "valid" /\ op \in DOMAIN trace /\ op' = op + 1
        /\ UNCHANGED <<loc, file, trace, valid, repeat>>
        /\ ranges' \subseteq ranges
    BY <1>5 DEF valid_free, At, NextRequest, remove_range
  <2> QED
    BY <1>0, <2>1, NextOp
<1>6. CASE valid_return
  BY <1>0, <1>6 DEF valid_return, AtEnd, Goto, Locations
<1>7. CASE Util
  <2>1. /\ loc = "util" /\ loc' \in {"util", "speed", "exit"}
        /\ repeat' \in {repeat, 1}
        /\ UNCHANGED <<file, trace, ranges, valid>>
    BY <1>7 DEF Util, util_init, util_alloc, util_realloc, util_free, util_return,
       At, AtEnd, NextRequest, Exit, Goto
  <2>2. op' \in {0, 1} \/ (op' = op + 1 /\ op \in DOMAIN trace)
    BY <1>7 DEF Util, util_init, util_alloc, util_realloc, util_free, util_return,
       At, NextRequest, Exit, Goto
  <2> QED
    BY <1>0, <2>1, <2>2, NextOp DEF Locations
<1>8. CASE Speed
  <2>1. /\ loc = "speed" /\ loc' \in {"speed", "free", "exit"}
        /\ repeat' \in {repeat, 0} \/ (repeat < Repeats /\ repeat' = repeat + 1)
        /\ UNCHANGED <<file, trace, ranges, valid>>
    BY <1>8 DEF Speed, speed_init, speed_alloc, speed_realloc, speed_free,
       speed_return, At, AtEnd, NextRequest, Exit, Goto
  <2>2. op' \in {0, 1} \/ (op' = op + 1 /\ op \in DOMAIN trace)
    BY <1>8 DEF Speed, speed_init, speed_alloc, speed_realloc, speed_free,
       speed_return, At, NextRequest, Exit, Goto
  <2> QED
    BY <1>0, <2>1, <2>2, NextOp DEF Locations
<1>9. CASE LibcValid \/ LibcSpeed
  <2>1. /\ loc \in {"libc_valid", "libc_speed"}
        /\ loc' \in {"libc_valid", "libc_speed", "libc_free", "exit"}
        /\ repeat' \in {repeat, 0, 1} \/ (repeat < Repeats /\ repeat' = repeat + 1)
        /\ UNCHANGED <<file, trace, ranges, valid>>
    BY <1>9 DEF LibcValid, libc_valid_alloc, libc_valid_realloc,
       libc_valid_free, libc_valid_return, LibcSpeed, libc_speed_alloc,
       libc_speed_realloc, libc_speed_free, libc_speed_return, At, AtEnd,
       StoreLibc, LibcFailed, NextRequest, Exit, Goto
  <2>2. op' \in {0, 1} \/ (op' = op + 1 /\ op \in DOMAIN trace)
    BY <1>9 DEF LibcValid, libc_valid_alloc, libc_valid_realloc,
       libc_valid_free, libc_valid_return, LibcSpeed, libc_speed_alloc,
       libc_speed_realloc, libc_speed_free, libc_speed_return, At,
       StoreLibc, LibcFailed, NextRequest, Exit, Goto
  <2> QED
    BY <1>0, <2>1, <2>2, NextOp DEF Locations
<1>10. CASE Ended \/ UNCHANGED vars
  BY <1>10 DEF Ended, vars
<1> QED
  BY <1>1, <1>2, <1>3, <1>4, <1>5, <1>6, <1>7, <1>8, <1>9, <1>10 DEF Next, Valid

\* Every variable of the driver keeps its type, whatever the package answers.
THEOREM DriverTypeCorrect ==
    ASSUME DriverAssumption
    PROVE  Spec => []TypeOK
<1>1. Init => UtilInv /\ CountInv /\ RestInv
  BY UtilInit, CountInit, RestInit
<1>2. UtilInv /\ CountInv /\ RestInv /\ DealInv /\ [Next]_vars
        => (UtilInv /\ CountInv /\ RestInv)'
  BY UtilNext, CountNext, RestNext DEF DealInv
<1>3. UtilInv /\ CountInv /\ RestInv /\ DealInv => TypeOK
  BY DEF UtilInv, CountInv, RestInv, DealInv, RangeInv, TraceKnown, ExactInv,
     PkgShape, LibcInv, TypeOK
<1> QED
  BY <1>1, <1>2, <1>3, AlwaysDealInv, PTL DEF Spec

=============================================================================
