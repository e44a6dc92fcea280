------------------------- MODULE EnclaveRefinement -------------------------
(* EnclaveDriver implements EnclaveLifecycle when hosts keep to their own   *)
(* enclaves.                                                                *)
EXTENDS EnclaveDriver

\* The enclaves whose create is between its allocation and its end
Building ==
    {o \in Objs : \E t \in Threads : pc[t] \in CreatePcs /\ ref[t] = o}

\* The enclave a thread holds in the unlocked part of run or resume
Inside == [t \in Threads |-> IF pc[t] \in LoopPcs THEN ref[t] ELSE NoObj]

Lifecycle == INSTANCE EnclaveLifecycle WITH
    life <- objst, building <- Building, table <- idr, inside <- Inside

\* The driver implements the lifecycle: seen through the mapping, every step
\* of any handler between two lock operations or monitor calls is one step of
\* an atomic table of enclaves, or none.
ImplementsLifecycle == Lifecycle!Spec
=============================================================================
