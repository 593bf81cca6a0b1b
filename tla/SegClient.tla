----------------------------- MODULE SegClient -----------------------------
(***************************************************************************)
(* The three packages with segregated lists under the client of mdriver.c, *)
(* each in the build it is written for.  A behaviour runs one package; its *)
(* length is bounded by MaxCalls for mm-ds2.c and is larger for the other  *)
(* two, which reach fewer states.                                          *)
(***************************************************************************)
EXTENDS Client

CONSTANTS Tested,     \* the packages of a run
          NUM_LISTS,  \* number of lists of mm-ds2.c
          Spares      \* calls that the client spares mm-cg45.c: a subset of
                      \* {"first comes back", "growth leaves a rest"}

VARIABLE package      \* the package in use

\* mm-ds2.c, in the 32-bit build, for which alone its links fit into its words.
D == INSTANCE DS2

\* mm-cg45.c, in the 64-bit build.
G == INSTANCE CG45 WITH WSIZE <- 8, INT_MOD <- 1024, LIST_COUNT <- 3
Wide == INSTANCE Geometry WITH WSIZE <- 8, INT_MOD <- 1024
WideWords == INSTANCE HeapWords WITH WSIZE <- 8, INT_MOD <- 1024

\* mm.c.bestscore, 32-bit, with an even number of lists as in the code, which
\* keeps its payloads aligned.
B == INSTANCE BestScore WITH CHUNKSIZE <- 32, SEGLIST_NUM <- 4

\* mm-ds2.c adds only one of the two tags to a request, which leaves room for
\* the other when its rounding does: the runs ask it for no other sizes.
ASSUME SegAssumption ==
    /\ Tested \subseteq {"ds2", "cg45", "best"}
    /\ Spares \subseteq {"first comes back", "growth leaves a rest"}
    /\ WSIZE = 4
    /\ NUM_LISTS \in Nat \ {0}
    /\ \A n \in Requests \ {0} : n + DSIZE <= D!new_size_of(n)
    /\ D!HeapWordsAssumption /\ B!HeapWordsAssumption
    /\ Wide!DSIZE = 16 /\ WideWords!HeapWordsAssumption

-----------------------------------------------------------------------------
AnyCall(t, p, n) == TRUE

\* The calls that mm-cg45.c does not serve.
SparingCall(t, p, n) ==
    /\ "first comes back" \in Spares => ~G!ReturnsFirst(p)
    /\ "growth leaves a rest" \in Spares => ~G!LeavesRest(t, p, n)

DC == INSTANCE EvalClient WITH
    Fresh <- D!Fresh, NoBlock <- D!NoBlock, Serves <- AnyCall,
    mm_init <- D!mm_init, mm_malloc <- D!mm_malloc, mm_free <- D!mm_free,
    mm_realloc <- D!mm_realloc, memset <- D!memset, Filled <- D!Filled

GC == INSTANCE EvalClient WITH
    Fresh <- G!Fresh, NoBlock <- G!NoBlock, Serves <- SparingCall,
    MaxCalls <- MaxCalls + 2,
    mm_init <- G!mm_init, mm_malloc <- G!mm_malloc, mm_free <- G!mm_free,
    mm_realloc <- G!mm_realloc, memset <- G!memset, Filled <- G!Filled

BC == INSTANCE EvalClient WITH
    Fresh <- B!Fresh, NoBlock <- B!NoBlock, Serves <- AnyCall,
    MaxCalls <- MaxCalls + 1,
    mm_init <- B!mm_init, mm_malloc <- B!mm_malloc, mm_free <- B!mm_free,
    mm_realloc <- B!mm_realloc, memset <- B!memset, Filled <- B!Filled

SegInit ==
    /\ package \in Tested
    /\ CASE package = "ds2" -> DC!Init
         [] package = "cg45" -> GC!Init
         [] package = "best" -> BC!Init

SegNext ==
    /\ UNCHANGED package
    /\ \/ package = "ds2" /\ DC!Next
       \/ package = "cg45" /\ GC!Next
       \/ package = "best" /\ BC!Next

SegSpec == SegInit /\ [][SegNext]_<<package, s, held, calls>>

-----------------------------------------------------------------------------
(* Properties, beside NoFailure.                                           *)

\* No payload changes under the client.
BytesIntact ==
    CASE package = "ds2" -> DC!PayloadsIntact
      [] package = "cg45" -> GC!PayloadsIntact
      [] package = "best" -> BC!PayloadsIntact

\* The tests of add_range: what the packages hand out is aligned, in the region
\* and apart, whatever went through their lists before.
Promise == INSTANCE MallocAPI WITH
    Lo <- BASE, Hi <- MAX_ADDR, Alignment <- 8, live <- DC!LiveOf(held)
PayloadsSound == Promise!PayloadsSound

\* find_fit misses no block that fits, in whatever class it is.
FitFound ==
    CASE package = "ds2" -> D!SearchComplete(s, Requests)
      [] package = "cg45" -> G!SearchComplete(s, Requests)
      [] package = "best" -> B!SearchComplete(s, Requests)

\* The tags by which coalesce finds the neighbours of a block are true.
TagsConsistent ==
    CASE package = "ds2" -> D!TagsConsistent(s)
      [] package = "cg45" -> G!TagsConsistent(s)
      [] package = "best" -> B!TagsConsistent(s)

\* The segregated lists hold the free blocks, each once, in the class of its
\* size, although blocks change their size while they are free.
ListsExact ==
    CASE package = "ds2" -> D!ListsExact(s)
      [] package = "cg45" -> G!ListsExact(s)
      [] package = "best" -> B!ListsExact(s)

=============================================================================
