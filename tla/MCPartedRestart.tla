--------------------------- MODULE MCPartedRestart ---------------------------
(***************************************************************************)
(* An instance of PartedRestart.                                           *)
(***************************************************************************)
EXTENDS PartedRestart
=============================================================================
