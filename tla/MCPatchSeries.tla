--------------------------- MODULE MCPatchSeries ---------------------------
(***************************************************************************)
(* Instances of PatchSeries for TLC.                                       *)
(***************************************************************************)
EXTENDS PatchSeries

============================================================================
