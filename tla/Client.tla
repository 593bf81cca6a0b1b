------------------------------- MODULE Client -------------------------------
(***************************************************************************)
(* What the compositions of a package, word by word, and of its client     *)
(* have in common: the bounds of a behaviour and the state of both.        *)
(***************************************************************************)
EXTENDS Region

CONSTANTS MaxCalls,   \* bound on the calls of a behaviour
          Ids,        \* the client's names for its blocks
          Balanced    \* a trace frees all it allocates before the next one

\* The first extension must be a block: in the code it has 4096 bytes.
ASSUME ClientAssumption ==
    /\ MAX_HEAP % WSIZE = 0
    /\ CHUNKSIZE >= MIN_BLOCK_SIZE
    /\ MaxCalls \in Nat
    /\ Ids \subseteq Nat \ {0}
    /\ Balanced \in BOOLEAN

VARIABLES s,        \* the package: memory, break and its statics
          held,     \* the client: id -> [p |-> pointer or NULL, n |-> size]
          calls     \* calls made so far

\* No call goes wrong.
NoFailure == s.status = "ok"

=============================================================================
