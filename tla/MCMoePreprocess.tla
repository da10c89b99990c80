-------------------------- MODULE MCMoePreprocess --------------------------
(* Instances of MoePreprocess for TLC.                                     *)
EXTENDS MoePreprocess
=============================================================================
