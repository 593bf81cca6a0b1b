------------------------------ MODULE MCTiming ------------------------------
(***************************************************************************)
(* A counter of two words of three bits, so that a round can carry it over *)
(* the end of the lower word and of both; interrupts that cost more than a *)
(* round of the calibration's loop, and not much more than RECORDTHRESH.   *)
(***************************************************************************)
EXTENDS Timing

\* More than any counter returns: what Counted must hold.
MCCycles == -32 .. 64

=============================================================================
