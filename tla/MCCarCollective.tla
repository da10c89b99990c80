-------------------------- MODULE MCCarCollective --------------------------
(***************************************************************************)
(* An instance of CarCollective for TLC: two ranks.  No symmetry set is    *)
(* used, as the run also checks a liveness property.                       *)
(***************************************************************************)
EXTENDS CarCollective

CONSTANTS r1, r2

TwoRanks == {r1, r2}

============================================================================
