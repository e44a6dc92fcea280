--------------------------- MODULE MCEnclaveHeap ---------------------------
(* EnclaveHeap in an area of a few granules.                                *)
EXTENDS EnclaveHeap

\* A granule a program leaves cleared, and one that reads as a small block
MCData == {Zero, [type |-> 1, size |-> 1]}

\* A program that maps one size only, and one that maps two and fills every
\* block with non-zero data before it unmaps it
MCPrograms ==
    {[sizes |-> {Page}, fills |-> FALSE], [sizes |-> {1, 3}, fills |-> TRUE]}

\* One page, two, and a request that __expand_heap refuses
MCGrowth == {1, 2, 16}
=============================================================================
