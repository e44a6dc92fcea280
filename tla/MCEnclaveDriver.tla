--------------------------- MODULE MCEnclaveDriver ---------------------------
(* EnclaveDriver on small sets of threads, allocations and ids.            *)
EXTENDS EnclaveRefinement, TLC

Symmetry == Permutations(Threads) \cup Permutations(Objs)
=============================================================================
