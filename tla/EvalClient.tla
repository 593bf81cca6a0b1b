----------------------------- MODULE EvalClient -----------------------------
(***************************************************************************)
(* The client that mdriver.c's eval_mm_valid is to a package: it names its *)
(* blocks, fills every payload with bytes of the name, looks for them      *)
(* after a realloc, and starts the next trace on the memory and the        *)
(* statics that the last one left.  The package is a parameter: its        *)
(* functions, on a record of its memory and statics.                       *)
(***************************************************************************)
EXTENDS Integers, FiniteSets

CONSTANTS Fresh,                \* the package's state in a new process
          BASE,                 \* mem_start_brk
          NoBlock,              \* what no block is at: NULL, and how a loop fails
          mm_init(_),           \* state -> state
          mm_malloc(_, _),      \* state, size -> [s |-> state, p |-> pointer]
          mm_free(_, _),        \* state, pointer -> state
          mm_realloc(_, _, _),  \* state, pointer, size -> [s, p]
          memset(_, _, _, _),   \* state, pointer, size, word -> state
          Filled(_, _, _, _),   \* the payload holds only this word
          Serves(_, _, _),      \* may a block be freed or resized to a size
          Requests,             \* sizes the client asks for
          MaxCalls,             \* bound on the calls of a behaviour
          Ids,                  \* the client's names for its blocks
          Balanced              \* a trace frees all it allocates before the next

VARIABLES s,        \* the package's state: memory, break, statics
          held,     \* the client: id -> [p |-> pointer or NULL, n |-> size]
          calls     \* calls made so far

vars == <<s, held, calls>>

NULL == 0

-----------------------------------------------------------------------------
\* A word of bytes index & 0xFF: no tag and no pointer.
Fill(i) == -10 - i

Unheld == [p |-> NULL, n |-> 0]
Nobody == [i \in Ids |-> Unheld]
IsHeld(i) == held[i].p # NULL

\* The names are interchangeable: a new block gets the least unused one.
NextId(i) == ~IsHeld(i) /\ \A j \in Ids : j < i => IsHeld(j)

\* A failed malloc leaves the client as it is.
Malloc(i, n) ==
    /\ NextId(i)
    /\ \E r \in {mm_malloc(s, n)} :
          IF r.p \in NoBlock
          THEN s' = r.s /\ UNCHANGED held
          ELSE /\ s' = memset(r.s, r.p, n, Fill(i))
               /\ held' = [held EXCEPT ![i] = [p |-> r.p, n |-> n]]

Dispose(i) ==
    /\ IsHeld(i)
    /\ Serves(s, held[i].p, 0)
    /\ s' = mm_free(s, held[i].p)
    /\ held' = [held EXCEPT ![i] = Unheld]

\* The old bytes, as many as the new size has, must be there before the
\* refill; a failed call leaves the block with the client.  A name that holds
\* nothing makes it a malloc.
Realloc(i, n) ==
    /\ \/ IsHeld(i) /\ Serves(s, held[i].p, n)
       \/ NextId(i)
    /\ \E r \in {mm_realloc(s, held[i].p, n)} :
          IF n = 0
          THEN /\ s' = r.s
               /\ held' = [held EXCEPT ![i] = Unheld]
          ELSE IF r.p \in NoBlock
          THEN s' = r.s /\ UNCHANGED held
          ELSE /\ s' = IF Filled(r.s, r.p, IF n < held[i].n THEN n ELSE held[i].n, Fill(i))
                       THEN memset(r.s, r.p, n, Fill(i))
                       ELSE [r.s EXCEPT !.status = "data lost"]
               /\ held' = [held EXCEPT ![i] = [p |-> r.p, n |-> n]]

\* mem_reset_brk and mm_init.
Restart ==
    /\ Balanced => held = Nobody
    /\ s' = mm_init([s EXCEPT !.brk = BASE])
    /\ held' = Nobody

Init ==
    /\ s = mm_init(Fresh)
    /\ held = Nobody
    /\ calls = 0

Call ==
    /\ s.status = "ok"
    /\ calls < MaxCalls
    /\ calls' = calls + 1
    /\ \/ \E i \in Ids, n \in Requests : Malloc(i, n)
       \/ \E i \in Ids : Dispose(i)
       \/ \E i \in Ids, n \in Requests : Realloc(i, n)
       \/ Restart

\* The program has ended, or the bound is reached.
Ended ==
    /\ s.status # "ok" \/ calls = MaxCalls
    /\ UNCHANGED vars

Next == Call \/ Ended

-----------------------------------------------------------------------------
\* What the client holds, as MallocAPI has it.
LiveOf(h) ==
    [p \in {h[i].p : i \in {j \in Ids : h[j] # Unheld}} |->
        h[CHOOSE i \in Ids : h[i].p = p].n]

\* The program neither writes outside the region, nor follows a list for
\* ever, nor finds other bytes than its own in a block that realloc moved:
\* what eval_mm_valid reports, or what would end the driver.
NoFailure == s.status = "ok"

\* Every byte that the client wrote into what it holds is still there: no
\* tag, link or copy of the package lands in a live payload.
PayloadsIntact ==
    \A i \in Ids : IsHeld(i) => Filled(s, held[i].p, held[i].n, Fill(i))

=============================================================================
