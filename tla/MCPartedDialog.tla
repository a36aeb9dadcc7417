--------------------------- MODULE MCPartedDialog ---------------------------
(***************************************************************************)
(* A small instance of PartedDialog: a table, the same one with a larger   *)
(* extended partition, another one, and one of fifty partitions.           *)
(***************************************************************************)
EXTENDS PartedDialog

CONSTANTS small, large, other, fifty

MCMinimal == [t \in Tables |-> IF t = large THEN small ELSE t]
=============================================================================
