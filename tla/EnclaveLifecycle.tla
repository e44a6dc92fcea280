-------------------------- MODULE EnclaveLifecycle --------------------------
(***************************************************************************)
(* What the driver's table of enclaves promises to hosts that keep to their *)
(* own enclaves, with no lock, no program counter and no monitor: an        *)
(* enclave is built by one thread, becomes known under one free id, is used *)
(* by at most one thread at a time, and goes away in one step together with *)
(* its id, never under a thread that uses it.                               *)
(***************************************************************************)
CONSTANTS Threads, Objs, Ueids, NoObj

VARIABLES
    life,      \* each allocation: "unused", "live" or "freed"
    building,  \* the allocations a create is still working on
    table,     \* id -> enclave
    inside     \* the enclave each thread is running, NoObj for none

lifecycleVars == <<life, building, table, inside>>

Init ==
    /\ life = [o \in Objs |-> "unused"]
    /\ building = {}
    /\ table = [u \in Ueids |-> NoObj]
    /\ inside = [t \in Threads |-> NoObj]

Free(o) == life' = [life EXCEPT ![o] = "freed"]

\* create takes memory for a new enclave; creates do not overlap.
Allocate(o) ==
    /\ building = {}
    /\ life[o] = "unused"
    /\ life' = [life EXCEPT ![o] = "live"]
    /\ building' = {o}
    /\ UNCHANGED <<table, inside>>

\* create succeeds: the enclave gets an id that nobody has.
Register(o, u) ==
    /\ o \in building
    /\ table[u] = NoObj
    /\ table' = [table EXCEPT ![u] = o]
    /\ building' = {}
    /\ UNCHANGED <<life, inside>>

\* create succeeds when no id is left: nobody can ever name the enclave.
Lose(o) ==
    /\ o \in building
    /\ \A u \in Ueids : table[u] # NoObj
    /\ building' = {}
    /\ UNCHANGED <<life, table, inside>>

\* create fails and takes back what it had.
Abandon(o) ==
    /\ o \in building
    /\ Free(o)
    /\ building' = {}
    /\ UNCHANGED <<table, inside>>

\* run or resume starts to use the enclave behind u.
Enter(t, u) ==
    /\ inside[t] = NoObj
    /\ table[u] # NoObj
    /\ \A s \in Threads : inside[s] # table[u]
    /\ inside' = [inside EXCEPT ![t] = table[u]]
    /\ UNCHANGED <<life, building, table>>

\* run or resume returns to the host and the enclave stays: an OCALL for the
\* host, or a failed copy.
Exit(t) ==
    /\ inside[t] # NoObj
    /\ inside' = [inside EXCEPT ![t] = NoObj]
    /\ UNCHANGED <<life, building, table>>

\* The enclave has ended; its runner removes it and its id.
Finish(t, u) ==
    /\ inside[t] # NoObj
    /\ inside[t] = table[u]
    /\ Free(table[u])
    /\ table' = [table EXCEPT ![u] = NoObj]
    /\ inside' = [inside EXCEPT ![t] = NoObj]
    /\ UNCHANGED building

\* destroy removes an enclave that nobody uses.
Destroy(u) ==
    /\ table[u] # NoObj
    /\ \A s \in Threads : inside[s] # table[u]
    /\ Free(table[u])
    /\ table' = [table EXCEPT ![u] = NoObj]
    /\ UNCHANGED <<building, inside>>

Next ==
    \/ \E o \in Objs : Allocate(o) \/ Lose(o) \/ Abandon(o)
    \/ \E o \in Objs, u \in Ueids : Register(o, u)
    \/ \E t \in Threads : Exit(t)
    \/ \E t \in Threads, u \in Ueids : Enter(t, u) \/ Finish(t, u)
    \/ \E u \in Ueids : Destroy(u)

Spec == Init /\ [][Next]_lifecycleVars
=============================================================================
