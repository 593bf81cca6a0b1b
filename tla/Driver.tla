------------------------------- MODULE Driver -------------------------------
(***************************************************************************)
(* mdriver.c: the main loop over the trace files, and for each trace the   *)
(* three evaluations, which replay it on the malloc package after a reset  *)
(* of the heap.  The first one checks every answer with the range list.    *)
(* With the option -l a loop of its own does the same for the malloc of    *)
(* libc before, which nothing checks and nothing resets.                   *)
(*                                                                         *)
(* The package under test is any package, pkg, that answers as it likes;   *)
(* what it owes is what add_range and the data check look for, and pkg     *)
(* remembers whether it has kept to it.  With AnyPackage = FALSE it does.  *)
(***************************************************************************)
EXTENDS Integers, Sequences, FiniteSets

CONSTANTS Traces,      \* what a trace file can hold: sequences of requests
          NumFiles,    \* num_tracefiles
          Repeats,     \* runs that are timed: 10 in fsecs
          Ids,         \* indices of the blocks of a trace
          Base,        \* mem_heap_lo
          Top,         \* largest break
          Pointers,    \* addresses the package may answer with
          LibcPointers,  \* addresses libc's malloc may answer with
          Chunk,       \* bytes by which it extends the heap
          Alignment,   \* ALIGNMENT of config.h
          AnyPackage   \* the package may break its promises

NULL == 0
JUNK == -1   \* what malloc leaves in the arrays of a trace

\* Requests of at least one byte; a block is freed or resized when its last
\* request was not a free (checktrace.pl makes sure of that).
Requests == [type : {"ALLOC", "REALLOC", "FREE"}, index : Ids, size : Nat]

LastOf(t, i, k) == {j \in 1 .. k - 1 :
    t[j].index = i /\ \A l \in j + 1 .. k - 1 : t[l].index # i}

\* The ids that hold a block before request k of t.
Held(t, k) == {i \in Ids : \E j \in LastOf(t, i, k) : t[j].type # "FREE"}

Legal(t) ==
    /\ t \in Seq(Requests)
    /\ \A k \in DOMAIN t :
        /\ t[k].type # "FREE" => t[k].size > 0
        /\ t[k].type = "ALLOC" <=> t[k].index \notin Held(t, k)

ASSUME DriverAssumption ==
    /\ NumFiles \in Nat \ {0}
    /\ Repeats \in Nat \ {0}
    /\ Ids \subseteq Nat
    /\ Base \in Nat \ {0}
    /\ Pointers \subseteq Nat \ {0}
    /\ LibcPointers \subseteq Nat \ {0}
    /\ Chunk \in Nat \ {0}
    /\ Alignment \in Nat \ {0}
    /\ Top \in Nat /\ Base <= Top
    /\ AnyPackage \in BOOLEAN
    /\ \A t \in Traces : Legal(t)

VARIABLES loc,              \* where the driver is
          file,             \* i of main
          trace, op,        \* trace->ops, and the next request, 0 before mm_init
          blocks,           \* trace->blocks
          block_sizes,      \* trace->block_sizes
          ranges,           \* the range list
          errors,           \* malloc_error's counter
          valid,            \* the files f with mm_stats[f].valid
          total_size,       \* of eval_mm_util
          max_total_size,   \* its maximum
          repeat,           \* runs of eval_mm_speed or eval_libc_speed begun
          pkg,              \* the package and the simulated memory
          libc              \* libc's malloc

arrays == <<blocks, block_sizes>>
sizes == <<total_size, max_total_size>>
vars == <<loc, file, trace, op, arrays, ranges, errors, valid, sizes, repeat, pkg, libc>>

-----------------------------------------------------------------------------
(* The package.                                                            *)

Bind(f, p, n) == [q \in DOMAIN f \cup {p} |-> IF q = p THEN n ELSE f[q]]
Unbind(f, p) == [q \in DOMAIN f \ {p} |-> f[q]]

Breaks == {a \in Base .. Top : (a - Base) % Chunk = 0}

\* An answer: a pointer, the break by then, and whether a realloc preserved
\* the data.
Answers == [p : Pointers \cup {NULL}, brk : Breaks, kept : BOOLEAN]

\* A request for n bytes in place of the block at old, if that is not NULL.
Right(a, n, old) ==
    \/ a.p = NULL
    \/ /\ a.kept
       /\ a.p % Alignment = 0
       /\ Base <= a.p /\ a.p + n <= a.brk
       /\ \A q \in DOMAIN pkg.given \ {old} :
             a.p + n <= q \/ q + pkg.given[q] <= a.p

Replies(n, old) ==
    {a \in Answers :
        /\ a.brk >= pkg.brk
        /\ old = NULL \/ a.p = NULL => a.kept
        /\ AnyPackage \/ Right(a, n, old)}

\* What a package has given is remembered while it is sound.
NoneGiven == [p \in {} |-> 0]
Broken(brk) ==
    [given |-> NoneGiven, brk |-> brk, sound |-> FALSE,
     refused |-> FALSE, misused |-> FALSE]

\* mm_malloc and mm_realloc
Booked(a, n, old) ==
    IF ~pkg.sound \/ ~Right(a, n, old) THEN Broken(a.brk)
    ELSE [given |-> IF a.p = NULL THEN pkg.given
                    ELSE Bind(Unbind(pkg.given, old), a.p, n),
          brk |-> a.brk,
          sound |-> TRUE,
          refused |-> pkg.refused \/ a.p = NULL,
          misused |-> pkg.misused \/ (old # NULL /\ old \notin DOMAIN pkg.given)]

\* mm_free
Returned(p) ==
    IF ~pkg.sound THEN pkg
    ELSE [pkg EXCEPT !.given = Unbind(@, p),
                     !.misused = @ \/ p \notin DOMAIN pkg.given]

\* mem_reset_brk, and an mm_init that may need memory or fail.
Restarted(brk, ok) ==
    IF ~pkg.sound THEN Broken(brk)
    ELSE [pkg EXCEPT !.given = NoneGiven, !.brk = brk, !.refused = @ \/ ~ok]

(* libc's malloc is right, but it may run out of memory.                   *)

LibcGives(p, old) ==
    /\ p \in LibcPointers \ (libc.given \ {old})
    /\ libc' = [libc EXCEPT !.given = (@ \ {old}) \cup {p},
                            !.misused = @ \/ (old # NULL /\ old \notin libc.given)]

LibcRefuses == libc' = [libc EXCEPT !.refused = TRUE]

LibcTakes(p) ==
    libc' = [libc EXCEPT !.given = @ \ {p}, !.misused = @ \/ p \notin libc.given]

-----------------------------------------------------------------------------
(* The range list, and the other checks.                                   *)

\* The list as a set: no two records start at the same address, and add_range
\* looks at all of them.
RangeOf(lo, size) == [lo |-> lo, hi |-> lo + size - 1]

\* The overlap test without its second line.
Overlaps_low_end(new, old) == new.lo >= old.lo /\ new.lo <= old.hi

\* An end of the new range lies in the old one.
Overlaps(new, old) ==
    \/ new.lo >= old.lo /\ new.lo <= old.hi
    \/ new.hi >= old.lo /\ new.hi <= old.hi

\* The tests of add_range, with the upper end not held against the heap.
Addable_low_end(R, lo, size, brk) ==
    /\ lo % Alignment = 0
    /\ lo \in Base .. brk - 1
    /\ \A old \in R : ~Overlaps(RangeOf(lo, size), old)

\* add_range's three tests of a new block.
Addable(R, lo, size, brk) ==
    LET new == RangeOf(lo, size)
    IN  /\ lo % Alignment = 0
        /\ {new.lo, new.hi} \subseteq Base .. brk - 1
        /\ \A old \in R : ~Overlaps(new, old)

\* remove_range that compares the wrong end.
remove_range_by_end(R, lo) == {r \in R : r.hi # lo}

remove_range(R, lo) == {r \in R : r.lo # lo}

\* An evaluation that forgets to clear the list.
clear_ranges_skipped == ranges

clear_ranges == {}

\* A byte read through a pointer to the signed char of the build, against the
\* int it was filled with.
signed_char(b) == IF b >= 128 THEN b - 256 ELSE b
ByteMatches(index) == signed_char(index % 256) = index % 256

-----------------------------------------------------------------------------
(* Steps of the driver.                                                    *)

At(where, type) ==
    /\ loc = where
    /\ op \in DOMAIN trace
    /\ trace[op].type = type

AtEnd(where) == loc = where /\ op = Len(trace) + 1

\* Remember without the pointer, as if a block never moved.
Remember_size(index, p, size) ==
    /\ block_sizes' = [block_sizes EXCEPT ![index] = size]
    /\ UNCHANGED blocks

Remember(index, p, size) ==
    /\ blocks' = [blocks EXCEPT ![index] = p]
    /\ block_sizes' = [block_sizes EXCEPT ![index] = size]

NextRequest == op' = op + 1 /\ UNCHANGED loc
Goto(where) == loc' = where /\ op' = 0

\* malloc_error without the return after it.
Report_and_go_on == errors' = errors + 1 /\ NextRequest

\* malloc_error, after which eval_mm_valid returns 0.
Report == errors' = errors + 1 /\ Goto("free")

\* app_error
Exit == Goto("exit")

Reading == {"read", "libc_read"}

\* eval_libc_valid has nothing to initialise.
read_trace ==
    /\ loc \in Reading
    /\ trace' \in Traces
    /\ IF loc = "read" THEN Goto("valid") ELSE loc' = "libc_valid" /\ op' = 1
    /\ UNCHANGED <<file, arrays, ranges, errors, valid, sizes, repeat, pkg, libc>>

\* No such file, no memory for it, a type of request that does not exist, or a
\* header that the assertions refuse.
read_trace_fails ==
    /\ loc \in Reading
    /\ Exit
    /\ UNCHANGED <<file, trace, arrays, ranges, errors, valid, sizes, repeat, pkg, libc>>

\* free_trace, and the next round of the loop or what comes after it.  When
\* libc's is over, nobody has a use for what it has given.
free_trace ==
    /\ loc \in {"free", "libc_free"}
    /\ trace' = << >>
    /\ blocks' = [i \in Ids |-> JUNK]
    /\ block_sizes' = [i \in Ids |-> JUNK]
    /\ IF loc = "free"
       THEN /\ file' = file + 1
            /\ Goto(IF file = NumFiles THEN "report" ELSE "read")
       ELSE IF file < NumFiles THEN file' = file + 1 /\ Goto("libc_read")
       ELSE file' = 1 /\ Goto("read")
    /\ libc' = IF loc' \in {"read", "report"} THEN [libc EXCEPT !.given = {}] ELSE libc
    /\ UNCHANGED <<ranges, errors, valid, sizes, repeat, pkg>>

(* eval_mm_valid                                                           *)

valid_init ==
    /\ loc = "valid" /\ op = 0
    /\ ranges' = clear_ranges
    /\ \E brk \in Breaks, ok \in BOOLEAN :
          /\ pkg' = Restarted(brk, ok)
          /\ IF ok THEN NextRequest /\ UNCHANGED errors ELSE Report
    /\ UNCHANGED <<file, trace, arrays, valid, sizes, repeat, libc>>

valid_alloc ==
    /\ At("valid", "ALLOC")
    /\ LET o == trace[op]
       IN  \E a \in Replies(o.size, NULL) :
              /\ pkg' = Booked(a, o.size, NULL)
              /\ IF a.p # NULL /\ Addable(ranges, a.p, o.size, a.brk)
                 THEN /\ ranges' = ranges \cup {RangeOf(a.p, o.size)}
                      /\ Remember(o.index, a.p, o.size)
                      /\ NextRequest /\ UNCHANGED errors
                 ELSE Report /\ UNCHANGED <<ranges, arrays>>
    /\ UNCHANGED <<file, trace, valid, sizes, repeat, libc>>

\* What is compared is one byte at least.
valid_realloc ==
    /\ At("valid", "REALLOC")
    /\ LET o == trace[op]
           oldp == blocks[o.index]
           others == remove_range(ranges, oldp)
       IN  \E a \in Replies(o.size, oldp) :
              /\ pkg' = Booked(a, o.size, oldp)
              /\ IF a.p = NULL THEN Report /\ UNCHANGED <<ranges, arrays>>
                 ELSE IF ~Addable(others, a.p, o.size, a.brk)
                 THEN Report /\ ranges' = others /\ UNCHANGED arrays
                 ELSE /\ ranges' = others \cup {RangeOf(a.p, o.size)}
                      /\ IF a.kept /\ ByteMatches(o.index)
                         THEN /\ Remember(o.index, a.p, o.size)
                              /\ NextRequest /\ UNCHANGED errors
                         ELSE Report /\ UNCHANGED arrays
    /\ UNCHANGED <<file, trace, valid, sizes, repeat, libc>>

valid_free ==
    /\ At("valid", "FREE")
    /\ LET p == blocks[trace[op].index]
       IN  ranges' = remove_range(ranges, p) /\ pkg' = Returned(p)
    /\ NextRequest
    /\ UNCHANGED <<file, trace, arrays, errors, valid, sizes, repeat, libc>>

valid_return ==
    /\ AtEnd("valid")
    /\ valid' = valid \cup {file}
    /\ Goto("util")
    /\ UNCHANGED <<file, trace, arrays, ranges, errors, sizes, repeat, pkg, libc>>

(* eval_mm_util, whose totals are locals and gone when it returns          *)

\* total_size and its high-water mark.
Account(change) ==
    /\ total_size' = total_size + change
    /\ max_total_size' =
          IF total_size + change > max_total_size THEN total_size + change
          ELSE max_total_size

util_init ==
    /\ loc = "util" /\ op = 0
    /\ total_size' = 0 /\ max_total_size' = 0
    /\ \E brk \in Breaks, ok \in BOOLEAN :
          /\ pkg' = Restarted(brk, ok)
          /\ IF ok THEN NextRequest ELSE Exit
    /\ UNCHANGED <<file, trace, arrays, ranges, errors, valid, repeat, libc>>

util_alloc ==
    /\ At("util", "ALLOC")
    /\ LET o == trace[op]
       IN  \E a \in Replies(o.size, NULL) :
              /\ pkg' = Booked(a, o.size, NULL)
              /\ IF a.p = NULL THEN Exit /\ UNCHANGED <<arrays, sizes>>
                 ELSE /\ Remember(o.index, a.p, o.size)
                      /\ Account(o.size)
                      /\ NextRequest
    /\ UNCHANGED <<file, trace, ranges, errors, valid, repeat, libc>>

\* The whole new size, as for a block that was not there.
Growth_of_new(index, newsize) == newsize

\* The size of the block that grows or shrinks, not yet overwritten.
Growth(index, newsize) == newsize - block_sizes[index]

util_realloc ==
    /\ At("util", "REALLOC")
    /\ LET o == trace[op]
           oldp == blocks[o.index]
       IN  \E a \in Replies(o.size, oldp) :
              /\ pkg' = Booked(a, o.size, oldp)
              /\ IF a.p = NULL THEN Exit /\ UNCHANGED <<arrays, sizes>>
                 ELSE /\ Remember(o.index, a.p, o.size)
                      /\ Account(Growth(o.index, o.size))
                      /\ NextRequest
    /\ UNCHANGED <<file, trace, ranges, errors, valid, repeat, libc>>

\* A free does not touch the maximum, nor would Account.
util_free ==
    /\ At("util", "FREE")
    /\ LET index == trace[op].index
       IN  /\ pkg' = Returned(blocks[index])
           /\ Account(-block_sizes[index])
    /\ NextRequest
    /\ UNCHANGED <<file, trace, arrays, ranges, errors, valid, repeat, libc>>

util_return ==
    /\ AtEnd("util")
    /\ total_size' = 0 /\ max_total_size' = 0
    /\ repeat' = 1
    /\ Goto("speed")
    /\ UNCHANGED <<file, trace, arrays, ranges, errors, valid, pkg, libc>>

(* eval_mm_speed, called Repeats times by fsecs                            *)

speed_init ==
    /\ loc = "speed" /\ op = 0
    /\ \E brk \in Breaks, ok \in BOOLEAN :
          /\ pkg' = Restarted(brk, ok)
          /\ IF ok THEN NextRequest ELSE Exit
    /\ UNCHANGED <<file, trace, arrays, ranges, errors, valid, sizes, repeat, libc>>

\* The block's size is not remembered.
speed_alloc ==
    /\ At("speed", "ALLOC")
    /\ LET o == trace[op]
       IN  \E a \in Replies(o.size, NULL) :
              /\ pkg' = Booked(a, o.size, NULL)
              /\ IF a.p = NULL THEN Exit /\ UNCHANGED blocks
                 ELSE blocks' = [blocks EXCEPT ![o.index] = a.p] /\ NextRequest
    /\ UNCHANGED <<file, trace, block_sizes, ranges, errors, valid, sizes, repeat, libc>>

speed_realloc ==
    /\ At("speed", "REALLOC")
    /\ LET o == trace[op]
           oldp == blocks[o.index]
       IN  \E a \in Replies(o.size, oldp) :
              /\ pkg' = Booked(a, o.size, oldp)
              /\ IF a.p = NULL THEN Exit /\ UNCHANGED blocks
                 ELSE blocks' = [blocks EXCEPT ![o.index] = a.p] /\ NextRequest
    /\ UNCHANGED <<file, trace, block_sizes, ranges, errors, valid, sizes, repeat, libc>>

speed_free ==
    /\ At("speed", "FREE")
    /\ pkg' = Returned(blocks[trace[op].index])
    /\ NextRequest
    /\ UNCHANGED <<file, trace, arrays, ranges, errors, valid, sizes, repeat, libc>>

\* Times the trace without counting the runs.
speed_return_uncounted ==
    /\ AtEnd("speed")
    /\ IF repeat < Repeats THEN Goto("speed") ELSE Goto("free")
    /\ UNCHANGED <<file, trace, arrays, ranges, errors, valid, sizes, repeat, pkg, libc>>

speed_return ==
    /\ AtEnd("speed")
    /\ IF repeat < Repeats
       THEN repeat' = repeat + 1 /\ Goto("speed")
       ELSE repeat' = 0 /\ Goto("free")
    /\ UNCHANGED <<file, trace, arrays, ranges, errors, valid, sizes, pkg, libc>>

(* eval_libc_valid, and eval_libc_speed, which finds what the runs before  *)
(* have left allocated                                                     *)

\* malloc and realloc, whose pointer is stored.
StoreLibc(old) ==
    /\ \E p \in LibcPointers :
          /\ LibcGives(p, old)
          /\ blocks' = [blocks EXCEPT ![trace[op].index] = p]
    /\ NextRequest

\* unix_error
LibcFailed == LibcRefuses /\ Exit /\ UNCHANGED blocks

libc_valid_alloc ==
    /\ At("libc_valid", "ALLOC")
    /\ \/ StoreLibc(NULL) /\ UNCHANGED errors
       \/ LibcFailed /\ errors' = errors + 1
    /\ UNCHANGED <<file, trace, block_sizes, ranges, valid, sizes, repeat, pkg>>

libc_valid_realloc ==
    /\ At("libc_valid", "REALLOC")
    /\ \/ StoreLibc(blocks[trace[op].index]) /\ UNCHANGED errors
       \/ LibcFailed /\ errors' = errors + 1
    /\ UNCHANGED <<file, trace, block_sizes, ranges, valid, sizes, repeat, pkg>>

libc_valid_free ==
    /\ At("libc_valid", "FREE")
    /\ LibcTakes(blocks[trace[op].index])
    /\ NextRequest
    /\ UNCHANGED <<file, trace, arrays, ranges, errors, valid, sizes, repeat, pkg>>

libc_valid_return ==
    /\ AtEnd("libc_valid")
    /\ repeat' = 1
    /\ loc' = "libc_speed" /\ op' = 1
    /\ UNCHANGED <<file, trace, arrays, ranges, errors, valid, sizes, pkg, libc>>

libc_speed_alloc ==
    /\ At("libc_speed", "ALLOC")
    /\ StoreLibc(NULL) \/ LibcFailed
    /\ UNCHANGED <<file, trace, block_sizes, ranges, errors, valid, sizes, repeat, pkg>>

libc_speed_realloc ==
    /\ At("libc_speed", "REALLOC")
    /\ StoreLibc(blocks[trace[op].index]) \/ LibcFailed
    /\ UNCHANGED <<file, trace, block_sizes, ranges, errors, valid, sizes, repeat, pkg>>

libc_speed_free ==
    /\ At("libc_speed", "FREE")
    /\ LibcTakes(blocks[trace[op].index])
    /\ NextRequest
    /\ UNCHANGED <<file, trace, arrays, ranges, errors, valid, sizes, repeat, pkg>>

libc_speed_return ==
    /\ AtEnd("libc_speed")
    /\ IF repeat < Repeats
       THEN repeat' = repeat + 1 /\ op' = 1 /\ UNCHANGED loc
       ELSE repeat' = 0 /\ Goto("libc_free")
    /\ UNCHANGED <<file, trace, arrays, ranges, errors, valid, sizes, pkg, libc>>

\* After the report, or in exit.
Ended == loc \in {"report", "exit"} /\ UNCHANGED vars

-----------------------------------------------------------------------------
Init ==
    /\ loc \in Reading /\ op = 0    \* with the option -l or without
    /\ file = 1
    /\ trace = << >>
    /\ blocks = [i \in Ids |-> JUNK]
    /\ block_sizes = [i \in Ids |-> JUNK]
    /\ ranges = {}
    /\ errors = 0
    /\ valid = {}
    /\ total_size = 0 /\ max_total_size = 0
    /\ repeat = 0
    /\ pkg = [given |-> NoneGiven, brk |-> Base, sound |-> TRUE,
              refused |-> FALSE, misused |-> FALSE]
    /\ libc = [given |-> {}, refused |-> FALSE, misused |-> FALSE]

Valid == valid_init \/ valid_alloc \/ valid_realloc \/ valid_free \/ valid_return
Util == util_init \/ util_alloc \/ util_realloc \/ util_free \/ util_return
Speed == speed_init \/ speed_alloc \/ speed_realloc \/ speed_free \/ speed_return

LibcValid == libc_valid_alloc \/ libc_valid_realloc \/ libc_valid_free \/ libc_valid_return
LibcSpeed == libc_speed_alloc \/ libc_speed_realloc \/ libc_speed_free \/ libc_speed_return

Next ==
    \/ read_trace \/ read_trace_fails \/ free_trace
    \/ Valid \/ Util \/ Speed
    \/ LibcValid \/ LibcSpeed
    \/ Ended

\* The driver is one thread, and every call of the package returns.
Spec == Init /\ [][Next]_vars /\ WF_vars(Next)

-----------------------------------------------------------------------------
(* Properties.                                                             *)

Locations == {"libc_read", "libc_valid", "libc_speed", "libc_free",
              "read", "valid", "util", "speed", "free", "report", "exit"}

TypeOK ==
    /\ loc \in Locations
    /\ file \in 1 .. NumFiles + 1
    /\ trace \in Traces \cup {<< >>}
    /\ op \in 0 .. Len(trace) + 1
    /\ blocks \in [Ids -> Int]
    /\ block_sizes \in [Ids -> Int]
    /\ ranges \subseteq [lo : Base .. Top - 1, hi : Base .. Top - 1]
    /\ errors \in Nat
    /\ valid \subseteq 1 .. NumFiles
    /\ total_size \in Int /\ max_total_size \in Nat
    /\ repeat \in 0 .. Repeats
    /\ pkg.given \in [DOMAIN pkg.given -> Nat]
    /\ pkg.brk \in Breaks
    /\ libc.given \subseteq LibcPointers

\* A package that keeps its promises and always has memory is never reported,
\* whatever an earlier trace left in the range list and the arrays.
NoFalseAlarm == errors > 0 => ~pkg.sound \/ pkg.refused \/ libc.refused

\* Every file that main is done with is either valid or one of the errors: a
\* wrong answer costs a trace once, and the driver never counts it as correct
\* ("errors == 0" decides on the score, "valid" on what is averaged).
ErrorsAreInvalidTraces ==
    loc \in {"read", "report"} => errors + Cardinality(valid) = file - 1

\* While eval_mm_valid runs, the range list has exactly the blocks that the
\* requests so far leave allocated, where the arrays say they are: it holds
\* nothing from an earlier trace or from before a realloc.
RangesExact ==
    loc = "valid" /\ op > 0 =>
        ranges = {RangeOf(blocks[i], block_sizes[i]) : i \in Held(trace, op)}

\* What the overlap test does guarantee: when two payloads on the list share
\* a byte, one lies strictly inside the other.
OverlapOnlyByEnclosing ==
    \A r, q \in ranges :
        \/ r = q \/ r.hi < q.lo \/ q.hi < r.lo
        \/ r.lo < q.lo /\ q.hi < r.hi
        \/ q.lo < r.lo /\ r.hi < q.hi

\* mdriver.c:373: the range list is used "to detect any overlapping allocated
\* blocks".
RangesDisjoint == \A r, q \in ranges : r = q \/ r.hi < q.lo \/ q.hi < r.lo

\* Utilization is at most 1: the sum of the requested sizes, kept by
\* additions and subtractions from sizes stored a request ago, is what a
\* sound package really holds and so fits into mem_heapsize().
UtilAtMostOne ==
    loc = "util" /\ op > 0 /\ pkg.sound => max_total_size <= pkg.brk - Base

\* No evaluation passes to the package a pointer that it has not from it
\* since the last reset, though blocks is never cleared between them and two
\* of them leave it full of pointers of a heap that is gone; nor to libc one
\* that it has taken back, though the runs on libc pile up on one heap.
OnlyLivePointers == ~libc.misused /\ (pkg.sound => ~pkg.misused)

\* The driver reaches its report, or exits because a call failed.
Terminates == <>(loc \in {"report", "exit"})

=============================================================================
