-------------------------- MODULE MCSignalBarrier --------------------------
(***************************************************************************)
(* The instance of SignalBarrier for TLC.                                  *)
(***************************************************************************)
EXTENDS SignalBarrier

CONSTANTS r1, r2

============================================================================
