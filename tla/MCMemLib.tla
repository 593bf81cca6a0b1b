------------------------------ MODULE MCMemLib ------------------------------
(* Values of the constants of MemLib for TLC.                               *)
EXTENDS MemLib

\* A refused negative increment, none, ordinary ones, the whole region, more
\* than the region, and the largest int.
MCIncrs == {-8, -1, 0, 8, 16, 40, 48, 127}

=============================================================================
