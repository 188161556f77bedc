---------------------------- MODULE MCRdWrPipe -----------------------------
(***************************************************************************)
(* Instances of RdWrPipe for TLC.                                          *)
(***************************************************************************)
EXTENDS RdWrPipe
=============================================================================
