---------------------------- MODULE MCStopWorld ----------------------------
(***************************************************************************)
(* Instances of StopWorld for TLC.                                         *)
(***************************************************************************)
EXTENDS StopWorld
=============================================================================
