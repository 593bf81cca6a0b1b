----------------------------- MODULE MallocAPI -----------------------------
(***************************************************************************)
(* What a malloc package promises its client, and the driver tests: every  *)
(* payload handed out is aligned, lies in the heap region and overlaps no  *)
(* other payload the client holds.  The only state is what the client      *)
(* holds.  Any of malloc and realloc may also fail, and then nothing that  *)
(* the client holds changes.                                               *)
(***************************************************************************)
EXTENDS Integers

CONSTANTS Lo, Hi,      \* the region: the bytes Lo .. Hi - 1
          Alignment,   \* of a payload
          Requests,    \* sizes the client asks for
          NULL         \* what no payload is at

VARIABLE live   \* pointer the client holds -> size it asked for

-----------------------------------------------------------------------------
Bind(f, p, n) == [q \in DOMAIN f \cup {p} |-> IF q = p THEN n ELSE f[q]]
Unbind(f, p) == [q \in DOMAIN f \ {p} |-> f[q]]

\* The three tests of the driver on a new payload, against what is held.
Acceptable(f, p, n) ==
    /\ p % Alignment = 0
    /\ Lo <= p /\ p + n <= Hi
    /\ \A q \in DOMAIN f : p + n <= q \/ q + f[q] <= p

Init == live = [p \in {} |-> 0]

Malloc(n) ==
    \/ /\ n # 0
       /\ \E p \in Lo .. Hi :
             /\ Acceptable(live, p, n)
             /\ live' = Bind(live, p, n)
    \/ UNCHANGED live

Dispose(p) == live' = Unbind(live, p)

\* The payload may stay where it is or move, but not onto another one.
Realloc(p, n) ==
    \/ /\ n = 0
       /\ live' = Unbind(live, p)
    \/ /\ n # 0
       /\ \E q \in Lo .. Hi :
             /\ Acceptable(Unbind(live, p), q, n)
             /\ live' = Bind(Unbind(live, p), q, n)
    \/ /\ n # 0
       /\ UNCHANGED live

Next ==
    \/ \E n \in Requests : Malloc(n)
    \/ \E p \in DOMAIN live : Dispose(p)
    \/ \E p \in DOMAIN live \cup {NULL}, n \in Requests : Realloc(p, n)

Spec == Init /\ [][Next]_live

-----------------------------------------------------------------------------
(* No two payloads that the client holds share a byte, and all lie aligned *)
(* in the region: mdriver's add_range checks exactly this of every new one. *)
PayloadsSound ==
    \A p \in DOMAIN live :
        /\ p % Alignment = 0
        /\ Lo <= p /\ p + live[p] <= Hi
        /\ \A q \in DOMAIN live :
              p # q => p + live[p] <= q \/ q + live[q] <= p

=============================================================================
