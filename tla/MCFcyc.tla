------------------------------- MODULE MCFcyc -------------------------------
(***************************************************************************)
(* Fcyc with samples that agree within the smaller epsilon, within the     *)
(* larger one only, and below zero.                                        *)
(***************************************************************************)
EXTENDS Fcyc

MCCycles == {-5, 100, 101, 110}

=============================================================================
