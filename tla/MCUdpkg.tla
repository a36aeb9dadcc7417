------------------------------- MODULE MCUdpkg -------------------------------
(***************************************************************************)
(* Instances of Udpkg for TLC.                                             *)
(***************************************************************************)
EXTENDS Udpkg, TLC

Symmetry == Permutations(Procs) \cup Permutations(Pkgs)
=============================================================================
