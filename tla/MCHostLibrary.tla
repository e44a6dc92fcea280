--------------------------- MODULE MCHostLibrary ---------------------------
(* HostLibrary with two or three threads.                                   *)
EXTENDS HostLibrary, TLC

Symmetry == Permutations(Hosts)
=============================================================================
