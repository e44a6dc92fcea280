---------------------- MODULE EnclaveRefinementProofs ----------------------
(***************************************************************************)
(* EnclaveDriver implements EnclaveLifecycle, for any number of threads,   *)
(* allocations and ids, when hosts run and resume only the enclaves they   *)
(* created and no id is handed out again while a host holds it.  One lemma *)
(* per handler says which step of the abstract table it takes; every other *)
(* step is invisible there.  That no enclave is lost is then read off the  *)
(* abstract steps.                                                         *)
(***************************************************************************)
EXTENDS EnclaveRefinement, SharedDestroyProofs, FiniteSetTheorems

\* What a step of the driver may be in the abstract specification
Simulated == Lifecycle!Next \/ UNCHANGED Lifecycle!lifecycleVars

-----------------------------------------------------------------------------
(* The mapped state                                                        *)

\* The big lock serialises creates: the enclave under construction is the one
\* its holder works on.
LEMMA BuildingIsLocked ==
    ASSUME RInv, NEW t \in Threads, pc[t] \in CreatePcs
    PROVE  Building = {ref[t]} \ {NoObj}
<1>1. \A s \in Threads : pc[s] \in CreatePcs => s = t
  BY DEF RInv, RaceInv, LockHeld
<1> QED
  BY <1>1, DriverAssumption DEF Building, RInv, TypeInv, TypeOK

\* A step of a thread that is not creating, and does not start to, leaves the
\* enclaves under construction alone.
LEMMA BuildingKept ==
    ASSUME TypeOK, NEW t \in Threads, NEW l, NEW r,
           pc[t] \notin CreatePcs, l \notin CreatePcs,
           pc' = [pc EXCEPT ![t] = l],
           ref' = ref \/ ref' = [ref EXCEPT ![t] = r]
    PROVE  Building' = Building
  BY DEF Building, TypeOK

\* A step of a thread that is not in the run loop, and does not enter it,
\* leaves the users of the enclaves alone.
LEMMA InsideKept ==
    ASSUME TypeOK, NEW t \in Threads, NEW l, NEW r,
           pc[t] \notin LoopPcs, l \notin LoopPcs,
           pc' = [pc EXCEPT ![t] = l],
           ref' = ref \/ ref' = [ref EXCEPT ![t] = r]
    PROVE  Inside' = Inside
  BY DEF Inside, TypeOK

\* A thread that is about to run its own enclave, or runs it, shares it with no
\* other thread.
LEMMA InsideIsOwn ==
    ASSUME RInv, NEW t \in Threads, pc[t] \in LoopPcs \cup {"r_lock", "m_lock"}
    PROVE  /\ ueid[t] \in Ueids
           /\ Lookup(ueid[t]) = idr[ueid[t]]
           /\ pc[t] \in LoopPcs =>
                 Inside[t] = idr[ueid[t]] /\ idr[ueid[t]] # NoObj
           /\ \A s \in Threads \ {t} : idr[ueid[t]] # NoObj =>
                 Inside[s] # idr[ueid[t]]
<1>1. ueid[t] \in Ueids /\ ueid[t] = own[t] /\ own[t] # 0
  BY DriverAssumption DEF RInv, RaceInv, RunsOnOwnHandle
<1>2. pc[t] \in LoopPcs => Inside[t] = idr[ueid[t]] /\ idr[ueid[t]] # NoObj
  BY <1>1, RunnersEnclave DEF Inside
<1>3. ASSUME NEW s \in Threads \ {t}, idr[ueid[t]] # NoObj
      PROVE  Inside[s] # idr[ueid[t]]
  <2>1. CASE pc[s] \in LoopPcs
    BY <1>1, <2>1, RunnersEnclave DEF Inside
  <2>2. CASE pc[s] \notin LoopPcs
    BY <1>3, <2>2 DEF Inside
  <2> QED
    BY <2>1, <2>2
<1> QED
  BY <1>1, <1>2, <1>3 DEF Lookup

\* destroy_enclave of an allocated enclave frees that one and no other.
LEMMA FreesOne ==
    ASSUME TypeOK, NEW e \in Objs, objst[e] = "live", DestroyEnclave(e)
    PROVE  objst' = [objst EXCEPT ![e] = "freed"]
  BY DEF DestroyEnclave, Freed, TypeOK

\* A step that leaves the table, the allocations and both mapped sets alone
\* is invisible.
LEMMA Quiet ==
    ASSUME UNCHANGED <<objst, idr>>, Building' = Building, Inside' = Inside
    PROVE  Simulated
  BY DEF Simulated, Lifecycle!lifecycleVars

-----------------------------------------------------------------------------
(* The handlers                                                            *)

LEMMA CallsSimulated ==
    ASSUME RInv, NEW t \in Threads, Calls(t)
    PROVE  Simulated
<1>1. PICK l \in {"c_args", "r_lock", "m_lock", "d_lock", "s_lock", "u_lock",
                  "a_lock"} :
         /\ pc[t] = "idle" /\ pc' = [pc EXCEPT ![t] = l]
         /\ UNCHANGED <<objst, idr, ref>>
  BY DEF Calls, CallCreate, CallRun, CallResume, CallDestroy, CallStop,
         CallUnstop, CallAttest, Call, Goto, heap
<1>2. Building' = Building
  BY <1>1, BuildingKept DEF RInv, TypeInv, CreatePcs
<1>3. Inside' = Inside
  BY <1>1, InsideKept DEF RInv, TypeInv, LoopPcs
<1> QED
  BY <1>1, <1>2, <1>3, Quiet

\* create: kmalloc is Allocate, registration Register (or Lose, when the ids
\* are used up), the error exit Abandon.
LEMMA CreateSimulated ==
    ASSUME RInv, RInv', NEW t \in Threads, CreateStep(t)
    PROVE  Simulated
<1> USE DEF RInv, TypeInv
<1>1. CASE CreateArgs(t)
  <2>1. PICK l \in {"c_lock", "idle"} :
          /\ pc[t] = "c_args" /\ pc' = [pc EXCEPT ![t] = l]
          /\ UNCHANGED <<objst, idr, ref>>
    BY <1>1 DEF CreateArgs, Goto, heap
  <2>2. Building' = Building /\ Inside' = Inside
    BY <2>1, BuildingKept, InsideKept DEF CreatePcs, LoopPcs
  <2> QED
    BY <2>1, <2>2, Quiet
<1>2. CASE CreateLock(t)
  <2>1. /\ pc[t] = "c_lock" /\ pc' = [pc EXCEPT ![t] = "c_alloc"]
        /\ UNCHANGED <<objst, idr, ref>>
    BY <1>2 DEF CreateLock, Goto, heap
  <2>2. ref[t] = NoObj
    BY <2>1 DEF RaceInv, CreatingUnregistered, CreatePcs, LoopPcs
  <2>3. Building' = Building
    BY <2>1, <2>2, DriverAssumption DEF Building, TypeOK
  <2>4. Inside' = Inside
    BY <2>1, InsideKept DEF LoopPcs
  <2> QED
    BY <2>1, <2>3, <2>4, Quiet
<1>3. CASE CreateAlloc(t)
  <2>1. /\ pc[t] = "c_alloc" /\ pc' = [pc EXCEPT ![t] = "c_init"]
        /\ UNCHANGED idr
    BY <1>3 DEF CreateAlloc, Goto
  <2>2. PICK o \in Objs :
          /\ objst[o] = "unused"
          /\ objst' = [objst EXCEPT ![o] = "live"]
          /\ ref' = [ref EXCEPT ![t] = o]
    BY <1>3 DEF CreateAlloc
  <2>3. ref[t] = NoObj
    BY <2>1 DEF RaceInv, CreatingUnregistered, CreatePcs, LoopPcs
  <2>4. Building = {}
    BY <2>1, <2>3, BuildingIsLocked DEF CreatePcs
  <2>5. pc'[t] \in CreatePcs /\ ref'[t] = o
    BY <2>1, <2>2 DEF TypeOK, CreatePcs
  <2>6. \A s \in Threads : pc'[s] \in CreatePcs => s = t
    BY <2>5 DEF RaceInv, LockHeld
  <2>7. Building' = {o}
    BY <2>5, <2>6 DEF Building
  <2>8. Inside' = Inside
    BY <2>1, <2>2, InsideKept DEF LoopPcs
  <2>9. Lifecycle!Allocate(o)
    BY <2>1, <2>2, <2>4, <2>7, <2>8 DEF Lifecycle!Allocate
  <2> QED
    BY <2>9 DEF Simulated, Lifecycle!Next
<1>4. CASE CreateAllocFail(t) \/ CreateMemInit(t) \/ CreateRelock(t)
             \/ CreateLoad(t) \/ CreateSbi(t)
  <2>1. PICK l \in CreatePcs :
          /\ pc[t] \in CreatePcs /\ pc' = [pc EXCEPT ![t] = l]
          /\ UNCHANGED <<objst, idr, ref>>
    BY <1>4 DEF CreateAllocFail, CreateMemInit, CreateRelock, CreateLoad,
         CreateSbi, Goto, heap, CreatePcs
  <2>2. Building' = Building
    BY <2>1 DEF Building, TypeOK
  <2>3. Inside' = Inside
    BY <2>1, InsideKept DEF LoopPcs, CreatePcs
  <2> QED
    BY <2>1, <2>2, <2>3, Quiet
<1>5. ASSUME Leave(t), pc[t] \in CreatePcs
      PROVE  Building' = {} /\ Inside' = Inside
  <2>1. \A s \in Threads : pc'[s] \notin CreatePcs
    BY <1>5 DEF RaceInv, LockHeld, Leave, TypeOK, CreatePcs
  <2>2. Building' = {}
    BY <2>1 DEF Building
  <2>3. Inside' = Inside
    BY <1>5, InsideKept DEF Leave, LoopPcs, CreatePcs
  <2> QED
    BY <2>2, <2>3
<1>6. CASE CreateFinish(t)
  <2>1. pc[t] = "c_idr" /\ Leave(t) /\ UNCHANGED objst
    BY <1>6 DEF CreateFinish
  <2>2. Building' = {} /\ Inside' = Inside
    BY <1>5, <2>1 DEF CreatePcs
  <2>3. ref[t] \in Objs /\ ref[t] # NoObj
    BY <2>1 DEF RefsSet, TypeOK, CreatePcs, LoopPcs
  <2>4. ref[t] \in Building
    BY <2>1, <2>3, BuildingIsLocked DEF CreatePcs
  <2>5. PICK u \in Ueids \cup {0} : IdrAlloc(ref[t], u)
    BY <1>6 DEF CreateFinish
  <2>6. CASE \E v \in Ueids : idr[v] = NoObj
    <3>1. /\ u \in Ueids /\ idr[u] = NoObj
          /\ idr' = [idr EXCEPT ![u] = ref[t]]
      BY <2>5, <2>6 DEF IdrAlloc
    <3>2. Lifecycle!Register(ref[t], u)
      BY <2>1, <2>2, <2>4, <3>1 DEF Lifecycle!Register
    <3> QED
      BY <2>3, <3>1, <3>2 DEF Simulated, Lifecycle!Next
  <2>7. CASE \A v \in Ueids : idr[v] # NoObj
    <3>1. UNCHANGED idr
      BY <2>5, <2>7 DEF IdrAlloc
    <3>2. Lifecycle!Lose(ref[t])
      BY <2>1, <2>2, <2>4, <2>7, <3>1 DEF Lifecycle!Lose
    <3> QED
      BY <2>3, <3>2 DEF Simulated, Lifecycle!Next
  <2> QED
    BY <2>6, <2>7
<1>7. CASE CreateFail(t)
  <2>1. pc[t] = "c_fail" /\ Leave(t) /\ UNCHANGED idr
    BY <1>7 DEF CreateFail
  <2>2. Building' = {} /\ Inside' = Inside
    BY <1>5, <2>1 DEF CreatePcs
  <2>3. CASE ref[t] = NoObj
    <3>1. Building = {} /\ UNCHANGED objst
      BY <1>7, <2>1, <2>3, BuildingIsLocked DEF CreateFail, heap, CreatePcs
    <3> QED
      BY <2>1, <2>2, <3>1, Quiet
  <2>4. CASE ref[t] # NoObj
    <3>1. ref[t] \in Objs /\ ref[t] \in Building /\ objst[ref[t]] = "live"
      BY <2>1, <2>4, BuildingIsLocked
         DEF TypeOK, RaceInv, CreatingUnregistered, CreatePcs
    <3>2. objst' = [objst EXCEPT ![ref[t]] = "freed"]
      BY <1>7, <2>4, <3>1, FreesOne DEF CreateFail
    <3>3. Lifecycle!Abandon(ref[t])
      BY <2>1, <2>2, <3>1, <3>2 DEF Lifecycle!Abandon, Lifecycle!Free
    <3> QED
      BY <3>1, <3>3 DEF Simulated, Lifecycle!Next
  <2> QED
    BY <2>3, <2>4
<1> QED
  BY <1>1, <1>2, <1>3, <1>4, <1>6, <1>7 DEF CreateStep

\* run and resume: the locked look-up is Enter, an early return or a custom
\* OCALL is Exit, the end of the run is Finish.
LEMMA RunSimulated ==
    ASSUME RInv, NEW t \in Threads, RunStep(t)
    PROVE  Simulated
<1> USE DEF RInv, TypeInv
<1>1. CASE RunLock(t) \/ ResumeLock(t)
  <2>1. PICK l \in {"r_copyin", "m_copyin"} :
          FindEnclave(t, l) /\ pc[t] \in {"r_lock", "m_lock"}
    BY <1>1 DEF RunLock, ResumeLock
  <2>2. UNCHANGED <<objst, idr>>
    BY <2>1 DEF FindEnclave
  <2>3. CASE Lookup(ueid[t]) = NoObj
    <3>1. Leave(t)
      BY <2>1, <2>3 DEF FindEnclave
    <3>2. Building' = Building /\ Inside' = Inside
      BY <2>1, <3>1, BuildingKept, InsideKept DEF Leave, CreatePcs, LoopPcs
    <3> QED
      BY <2>2, <3>2, Quiet
  <2>4. CASE Lookup(ueid[t]) # NoObj
    <3>1. /\ ueid[t] \in Ueids /\ idr[ueid[t]] # NoObj
          /\ \A s \in Threads \ {t} : Inside[s] # idr[ueid[t]]
      BY <2>1, <2>4, InsideIsOwn
    <3>2. /\ ref' = [ref EXCEPT ![t] = idr[ueid[t]]]
          /\ pc' = [pc EXCEPT ![t] = l]
      BY <2>1, <2>4, <3>1 DEF FindEnclave, Lookup
    <3>3. Building' = Building
      BY <2>1, <3>2, BuildingKept DEF CreatePcs
    <3>4. Inside[t] = NoObj
      BY <2>1 DEF Inside, LoopPcs
    <3>5. Inside' = [Inside EXCEPT ![t] = idr[ueid[t]]]
      BY <3>2 DEF Inside, LoopPcs, TypeOK
    <3>6. Lifecycle!Enter(t, ueid[t])
      BY <2>2, <3>1, <3>3, <3>4, <3>5 DEF Lifecycle!Enter
    <3> QED
      BY <3>1, <3>6 DEF Simulated, Lifecycle!Next
  <2> QED
    BY <2>3, <2>4
<1>2. CASE \/ CopyIn(t) \/ RunEnter(t) \/ ResumeEnter(t) \/ SmReturn(t)
           \/ LoopResume(t) \/ LoopExit(t) \/ CopyOut(t)
  <2>1. PICK l \in LoopPcs :
          /\ pc[t] \in LoopPcs /\ pc' = [pc EXCEPT ![t] = l]
          /\ UNCHANGED <<objst, idr, ref>>
    BY <1>2 DEF CopyIn, RunEnter, ResumeEnter, SmReturn, LoopResume, LoopExit,
         CopyOut, SmEnter, Goto, heap, LoopPcs
  <2>2. Building' = Building
    BY <2>1, BuildingKept DEF CreatePcs, LoopPcs
  <2>3. Inside' = Inside
    BY <2>1 DEF Inside, TypeOK
  <2> QED
    BY <2>1, <2>2, <2>3, Quiet
<1>3. ASSUME pc[t] \in LoopPcs, Leave(t)
      PROVE  /\ Building' = Building
             /\ Inside[t] # NoObj /\ Inside' = [Inside EXCEPT ![t] = NoObj]
  <2>1. Building' = Building
    BY <1>3, BuildingKept DEF Leave, CreatePcs, LoopPcs
  <2>2. Inside[t] # NoObj
    BY <1>3, InsideIsOwn
  <2>3. Inside' = [Inside EXCEPT ![t] = NoObj]
    BY <1>3 DEF Inside, Leave, LoopPcs, TypeOK
  <2> QED
    BY <2>1, <2>2, <2>3
<1>4. CASE \/ CopyInFail(t) \/ LoopUserOcall(t) \/ LoopUserOcallFail(t)
           \/ CopyOutFail(t)
  <2>1. pc[t] \in LoopPcs /\ Leave(t) /\ UNCHANGED <<objst, idr>>
    BY <1>4 DEF CopyInFail, LoopUserOcall, LoopUserOcallFail, CopyOutFail,
         EarlyReturn, heap, LoopPcs
  <2>2. Lifecycle!Exit(t)
    BY <1>3, <2>1 DEF Lifecycle!Exit
  <2> QED
    BY <2>2 DEF Simulated, Lifecycle!Next
<1>5. CASE RunFinish(t)
  <2>1. pc[t] \in LoopPcs /\ Leave(t)
    BY <1>5 DEF RunFinish, LoopPcs
  <2>2. /\ ueid[t] \in Ueids
        /\ Inside[t] = idr[ueid[t]] /\ ref[t] = idr[ueid[t]]
        /\ ref[t] \in Objs /\ objst[ref[t]] = "live"
    BY <2>1, InsideIsOwn DEF Inside, RaceInv, RegistrySound, TypeOK
  <2>3. objst' = [objst EXCEPT ![idr[ueid[t]]] = "freed"]
    BY <1>5, <2>2, FreesOne DEF RunFinish
  <2>4. idr' = [idr EXCEPT ![ueid[t]] = NoObj]
    BY <1>5, <2>2 DEF RunFinish, IdrRemove, TypeOK
  <2>5. Lifecycle!Finish(t, ueid[t])
    BY <1>3, <2>1, <2>2, <2>3, <2>4 DEF Lifecycle!Finish, Lifecycle!Free
  <2> QED
    BY <2>2, <2>5 DEF Simulated, Lifecycle!Next
<1> QED
  BY <1>1, <1>2, <1>4, <1>5 DEF RunStep

\* stop, attest and the locked look-up of destroy are invisible; a destroy
\* that frees is Destroy, of an enclave nobody is inside.
LEMMA ShortSimulated ==
    ASSUME RInv, NEW t \in Threads, ShortStep(t)
    PROVE  Simulated
<1> USE DEF RInv, TypeInv
<1>1. ASSUME pc[t] \in {"s_lock", "u_lock", "a_lock", "d_free"}, Leave(t)
      PROVE  Building' = Building /\ Inside' = Inside
  BY <1>1, BuildingKept, InsideKept DEF Leave, CreatePcs, LoopPcs
<1>2. CASE Stop(t) \/ Unstop(t) \/ Attest(t)
  <2>1. /\ pc[t] \in {"s_lock", "u_lock", "a_lock", "d_free"} /\ Leave(t)
        /\ UNCHANGED <<objst, idr>>
    BY <1>2 DEF Stop, Unstop, Attest, heap
  <2> QED
    BY <1>1, <2>1, Quiet
<1>3. CASE DestroyLock(t)
  <2>1. /\ pc[t] = "d_lock" /\ pc' = [pc EXCEPT ![t] = "d_free"]
        /\ ref' = [ref EXCEPT ![t] = Lookup(ueid[t])]
        /\ UNCHANGED <<objst, idr>>
    BY <1>3 DEF DestroyLock, heap
  <2>2. Building' = Building /\ Inside' = Inside
    BY <2>1, BuildingKept, InsideKept DEF CreatePcs, LoopPcs
  <2> QED
    BY <2>1, <2>2, Quiet
<1>4. CASE DestroyFinish(t)
  <2>1. pc[t] = "d_free" /\ Leave(t)
    BY <1>4 DEF DestroyFinish
  <2>2. Building' = Building /\ Inside' = Inside
    BY <1>1, <2>1
  <2>3. CASE ref[t] # NoObj /\ ~running[ref[t]]
    <3>1. /\ ueid[t] \in Ueids /\ ref[t] = idr[ueid[t]]
          /\ ref[t] \in Objs /\ objst[ref[t]] = "live"
      BY <2>1, <2>3 DEF RaceInv, RunsOnOwnHandle, RegistrySound, TypeOK
    <3>2. objst' = [objst EXCEPT ![idr[ueid[t]]] = "freed"]
      BY <1>4, <2>3, <3>1, FreesOne DEF DestroyFinish
    <3>3. idr' = [idr EXCEPT ![ueid[t]] = NoObj]
      BY <1>4, <2>3, <3>1 DEF DestroyFinish, IdrRemove, TypeOK
    <3>4. \A s \in Threads : Inside[s] # idr[ueid[t]]
      <4>1. \A s \in Threads : pc[s] \in LoopPcs => running[ref[s]]
        BY DEF RaceInv, FlagSet
      <4> QED
        BY <2>3, <3>1, <4>1 DEF Inside
    <3>5. Lifecycle!Destroy(ueid[t])
      BY <2>2, <2>3, <3>1, <3>2, <3>3, <3>4 DEF Lifecycle!Destroy, Lifecycle!Free
    <3> QED
      BY <3>1, <3>5 DEF Simulated, Lifecycle!Next
  <2>4. CASE ~(ref[t] # NoObj /\ ~running[ref[t]])
    BY <1>4, <2>2, <2>4, Quiet DEF DestroyFinish, heap
  <2> QED
    BY <2>3, <2>4
<1> QED
  BY <1>2, <1>3, <1>4 DEF ShortStep

-----------------------------------------------------------------------------

\* Every step of the driver is a step of the abstract table, or none.
LEMMA StepSimulated ==
    ASSUME RInv, RInv', [Next]_vars
    PROVE  Simulated
<1>1. CASE UNCHANGED vars
  <2>1. UNCHANGED <<objst, idr>> /\ Building' = Building /\ Inside' = Inside
    BY <1>1 DEF vars, Building, Inside
  <2> QED
    BY <2>1, Quiet
<1>2. CASE Next
  BY <1>2, CallsSimulated, CreateSimulated, RunSimulated, ShortSimulated
     DEF Next, Step
<1> QED
  BY <1>1, <1>2

LEMMA RInvHolds == Disciplined /\ Spec /\ FreshIds => []RInv
<1> SUFFICES ASSUME Disciplined PROVE Spec /\ FreshIds => []RInv
  OBVIOUS
<1>1. TypeOK /\ RefsSet /\ RaceInv => RInv
  BY DEF RInv, TypeInv, Disciplined
<1> QED
  BY <1>1, TypeCorrect, RaceInvariant, PTL

\* The driver with its two locks, its unlocked run loop, its error exits and
\* destroys by any thread implements the atomic table of enclaves: every
\* behaviour of Spec in which creators run their enclaves and held ids are not
\* handed out again is one of EnclaveLifecycle.
THEOREM DriverImplementsLifecycle ==
    Disciplined /\ Spec /\ FreshIds => ImplementsLifecycle
<1> SUFFICES ASSUME Disciplined
             PROVE  Spec /\ FreshIds => ImplementsLifecycle
  OBVIOUS
<1>1. Init => Lifecycle!Init
  BY DEF Init, Lifecycle!Init, Building, Inside, CreatePcs, LoopPcs
<1>2. RInv /\ RInv' /\ [Next]_vars => [Lifecycle!Next]_(Lifecycle!lifecycleVars)
  BY StepSimulated DEF Simulated
<1>3. Spec /\ FreshIds => []RInv
  BY RInvHolds
<1> QED
  BY <1>1, <1>2, <1>3, PTL DEF Spec, ImplementsLifecycle, Lifecycle!Spec

\* In particular for hosts that run, resume and destroy only what they created,
\* and use no eid after a call on it failed or ended the enclave.
COROLLARY OwnersImplementLifecycle == Owned /\ Spec => ImplementsLifecycle
<1>1. Owned => Disciplined
  BY DEF Owned
<1> QED
  BY <1>1, OwnersReuseNothing, DriverImplementsLifecycle, PTL

-----------------------------------------------------------------------------
(* No enclave is lost                                                      *)

\* While an enclave is being created an id is left for it.
IdsSuffice == Building # {} => \E u \in Ueids : idr[u] = NoObj

\* NoOrphan, as the abstract table sees it; at most one enclave is being
\* created.
Accounted ==
    /\ \A o \in Objs : objst[o] = "live" =>
          o \in Building \/ \E u \in Ueids : idr[u] = o
    /\ \A a, b \in Building : a = b

\* Every step of the abstract table but Lose keeps account of what is live.
LEMMA AccountedKept ==
    ASSUME TypeOK, Accounted, IdsSuffice, Simulated
    PROVE  Accounted'
<1> USE DEF Accounted, TypeOK
<1>1. CASE UNCHANGED Lifecycle!lifecycleVars
  BY <1>1 DEF Lifecycle!lifecycleVars
<1>2. ASSUME NEW o \in Objs, Lifecycle!Allocate(o) PROVE Accounted'
  BY <1>2 DEF Lifecycle!Allocate
<1>3. ASSUME NEW o \in Objs, Lifecycle!Lose(o) PROVE FALSE
  BY <1>3 DEF Lifecycle!Lose, IdsSuffice
<1>4. ASSUME NEW o \in Objs, Lifecycle!Abandon(o) PROVE Accounted'
  BY <1>4 DEF Lifecycle!Abandon, Lifecycle!Free
<1>5. ASSUME NEW o \in Objs, NEW u \in Ueids, Lifecycle!Register(o, u)
      PROVE  Accounted'
  BY <1>5, DriverAssumption DEF Lifecycle!Register
<1>6. ASSUME NEW t \in Threads, Lifecycle!Exit(t) PROVE Accounted'
  BY <1>6 DEF Lifecycle!Exit
<1>7. ASSUME NEW t \in Threads, NEW u \in Ueids, Lifecycle!Enter(t, u)
      PROVE  Accounted'
  BY <1>7 DEF Lifecycle!Enter
<1>8. ASSUME NEW t \in Threads, NEW u \in Ueids, Lifecycle!Finish(t, u)
      PROVE  Accounted'
  BY <1>8 DEF Lifecycle!Finish, Lifecycle!Free
<1>9. ASSUME NEW u \in Ueids, Lifecycle!Destroy(u) PROVE Accounted'
  BY <1>9 DEF Lifecycle!Destroy, Lifecycle!Free
<1> QED
  BY <1>1, <1>2, <1>3, <1>4, <1>5, <1>6, <1>7, <1>8, <1>9
     DEF Simulated, Lifecycle!Next

\* An enclave that is allocated is registered, or the holder of the big lock is
\* creating it: neither an error exit of create, nor the end of a run, nor a
\* destroy that races it loses one, while ids do not run out.
THEOREM NothingOrphaned ==
    Disciplined /\ Spec /\ FreshIds /\ []IdsSuffice => []NoOrphan
<1> SUFFICES ASSUME Disciplined
             PROVE  Spec /\ FreshIds /\ []IdsSuffice => []NoOrphan
  OBVIOUS
<1>1. Init => Accounted
  BY DEF Init, Accounted, Building, CreatePcs
<1>2. RInv /\ RInv' /\ IdsSuffice /\ Accounted /\ [Next]_vars => Accounted'
  BY StepSimulated, AccountedKept DEF RInv, TypeInv
<1>3. RInv /\ Accounted => NoOrphan
  BY DriverAssumption DEF RInv, RaceInv, LockHeld, Accounted, Building, NoOrphan
<1>4. Spec /\ FreshIds => []RInv
  BY RInvHolds
<1> QED
  BY <1>1, <1>2, <1>3, <1>4, PTL DEF Spec

\* Ids cannot run out when there are at least as many as enclaves are ever
\* allocated: the registry is injective, and what is being created is not in it.
LEMMA EnoughIds ==
    ASSUME RInv, IsFiniteSet(Objs), IsFiniteSet(Ueids),
           Cardinality(Objs) <= Cardinality(Ueids)
    PROVE  IdsSuffice
<1> SUFFICES ASSUME NEW o \in Building, \A u \in Ueids : idr[u] # NoObj
             PROVE  FALSE
  BY DEF IdsSuffice
<1>1. o \in Objs /\ \A u \in Ueids : idr[u] # o
  BY DriverAssumption DEF Building, RInv, RaceInv, CreatingUnregistered
<1>2. idr \in [Ueids -> Objs \ {o}]
  BY <1>1 DEF RInv, TypeInv, TypeOK
<1>3. /\ IsFiniteSet(Objs \ {o})
      /\ Cardinality(Objs \ {o}) = Cardinality(Objs) - 1
  BY <1>1, FS_RemoveElement
<1>4. Cardinality(Objs) \in Nat /\ Cardinality(Ueids) \in Nat
  BY FS_CardinalityType
<1>5. \E u, v \in Ueids : u # v /\ idr[u] = idr[v]
  BY <1>2, <1>3, <1>4, FS_PigeonHole
<1> QED
  BY <1>5 DEF RInv, RaceInv, RegistrySound

\* So with as many ids as allocations, no hypothesis on the registry is needed.
COROLLARY NothingOrphanedWithEnoughIds ==
    ASSUME Disciplined, IsFiniteSet(Objs), IsFiniteSet(Ueids),
           Cardinality(Objs) <= Cardinality(Ueids)
    PROVE  Spec /\ FreshIds => []NoOrphan
<1>1. RInv => IdsSuffice
  BY EnoughIds
<1> QED
  BY <1>1, RInvHolds, NothingOrphaned, PTL
=============================================================================
