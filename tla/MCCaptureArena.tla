--------------------------- MODULE MCCaptureArena ---------------------------
(***************************************************************************)
(* Instances of CaptureArena for TLC.  Sizes are in units of half the      *)
(* alignment.                                                              *)
(***************************************************************************)
EXTENDS CaptureArena

ASSUME SizesAligned

============================================================================
