----------------------------- MODULE MCCarInit -----------------------------
(***************************************************************************)
(* Instances of CarInit for TLC.                                           *)
(***************************************************************************)
EXTENDS CarInit

CONSTANTS r1, r2, r3, r4

FourRanks == {r1, r2, r3, r4}
TwoRanks == {r1, r2}

============================================================================
