------------------------ MODULE EnclaveDriverProofs ------------------------
(***************************************************************************)
(* Theorems about EnclaveDriver, for any number of threads, allocations    *)
(* and ids: its type invariant for every host, and, for hosts that run and *)
(* destroy only the enclaves they created and use no eid after a call on   *)
(* it failed or ended the enclave (Owned), the safety of the references    *)
(* the run loop holds outside the big lock.                                *)
(***************************************************************************)
EXTENDS EnclaveDriver, TLAPS

TypeInv == TypeOK /\ RefsSet

-----------------------------------------------------------------------------
(* Type correctness                                                        *)

\* Issuing an ioctl only moves the caller to the handler.
LEMMA CallsType ==
    ASSUME TypeInv, NEW t \in Threads, Calls(t)
    PROVE  TypeInv'
<1>1. \A u \in Ueids \cup {0}, l \in Pcs \ (LoopPcs \cup CreatePcs) :
         Call(t, u, l) => TypeInv'
  BY DEF TypeInv, TypeOK, RefsSet, Call, Goto, locks, heap, host
<1>2. {"c_args", "r_lock", "m_lock", "d_lock", "s_lock", "u_lock", "a_lock"}
         \subseteq Pcs \ (LoopPcs \cup CreatePcs)
  BY DEF Pcs, LoopPcs, CreatePcs
<1> QED
  BY <1>1, <1>2 DEF Calls, CallCreate, CallRun, CallResume, CallDestroy,
       CallStop, CallUnstop, CallAttest

\* destroy_enclave changes nothing but the allocation states.
LEMMA DestroyType ==
    ASSUME TypeOK, NEW e \in Objs, DestroyEnclave(e)
    PROVE  /\ objst' \in [Objs -> {"unused", "live", "freed"}]
           /\ umem' \in [Objs -> {"unused", "live", "freed"}]
           /\ running' \in [Objs -> BOOLEAN]
  BY DEF TypeOK, DestroyEnclave

LEMMA CreateType ==
    ASSUME TypeInv, NEW t \in Threads, CreateStep(t)
    PROVE  TypeInv'
<1> USE DriverAssumption DEF TypeInv, TypeOK, RefsSet, Goto, Pcs, CreatePcs,
        LoopPcs, SmStates, Results, OcallKinds, locks, heap, host, Leave
<1>1. CASE CreateArgs(t)
  BY <1>1 DEF CreateArgs
<1>2. CASE CreateLock(t)
  BY <1>2 DEF CreateLock, AcquireBigLock
<1>3. CASE CreateAlloc(t)
  BY <1>3 DEF CreateAlloc
<1>4. CASE CreateAllocFail(t)
  BY <1>4 DEF CreateAllocFail
<1>5. CASE CreateMemInit(t)
  BY <1>5 DEF CreateMemInit
<1>6. CASE CreateRelock(t)
  BY <1>6 DEF CreateRelock
<1>7. CASE CreateLoad(t)
  BY <1>7 DEF CreateLoad
<1>8. CASE CreateSbi(t)
  BY <1>8 DEF CreateSbi
<1>9. CASE CreateFinish(t)
  BY <1>9 DEF CreateFinish, IdrAlloc
<1>10. CASE CreateFail(t)
  BY <1>10, DestroyType DEF CreateFail
<1> QED
  BY <1>1, <1>2, <1>3, <1>4, <1>5, <1>6, <1>7, <1>8, <1>9, <1>10
     DEF CreateStep

\* A handler that returns keeps the types, whatever it has done to the rest.
LEMMA EarlyReturnType ==
    ASSUME TypeInv, NEW t \in Threads, NEW l, EarlyReturn(t, l)
    PROVE  TypeInv'
  BY DEF TypeInv, TypeOK, RefsSet, EarlyReturn, Leave, DropHandle, Pcs, LoopPcs,
         CreatePcs, Results, locks, heap, host

\* The locked look-up: the handler goes on with a registered enclave or ends.
LEMMA FindType ==
    ASSUME TypeInv, NEW t \in Threads, NEW l \in {"r_copyin", "m_copyin"},
           FindEnclave(t, l), running' \in [Objs -> BOOLEAN]
    PROVE  TypeInv'
<1> USE DEF TypeInv, TypeOK, RefsSet, FindEnclave, Lookup, locks, host
<1>1. CASE Lookup(ueid[t]) = NoObj
  <2>1. Leave(t) /\ DropHandle(t) /\ UNCHANGED <<locks, idr, objst, umem, sm>>
    BY <1>1
  <2>2. own' \in [Threads -> Ueids \cup {0}] /\ pend' \in [Threads -> BOOLEAN]
    BY <2>1 DEF DropHandle
  <2> QED
    BY <2>1, <2>2 DEF Leave, Pcs, LoopPcs, CreatePcs, Results
<1>2. CASE Lookup(ueid[t]) # NoObj
  BY <1>2 DEF Pcs, LoopPcs
<1> QED
  BY <1>1, <1>2

\* Entering the monitor with any eid: it answers with a result it has, or the
\* thread waits inside it.
LEMMA EnterType ==
    ASSUME TypeInv, NEW t \in Threads, NEW x \in Objs,
           pc[t] \in LoopPcs,
           \E f \in {"fresh", "runnable", "ocall"} : SmEnter(t, x, f),
           UNCHANGED <<locks, idr, heap, ueid, ref, host>>
    PROVE  TypeInv'
<1> USE DEF TypeInv, TypeOK
<1>1. /\ sm' \in [Objs -> SmStates]
      /\ res' \in [Threads -> Results]
      /\ eid' = [eid EXCEPT ![t] = x]
      /\ \E l \in {"in_sm", "r_loop"} : pc' = [pc EXCEPT ![t] = l]
  BY DEF SmEnter, SmStates, Results, OcallKinds
<1>2. TypeOK'
  BY <1>1 DEF locks, heap, host, Pcs, LoopPcs
<1>3. RefsSet'
  BY <1>1, DriverAssumption DEF RefsSet, LoopPcs, CreatePcs
<1> QED
  BY <1>2, <1>3

LEMMA RunType ==
    ASSUME TypeInv, NEW t \in Threads, RunStep(t)
    PROVE  TypeInv'
<1> DEFINE Moved == \E l \in LoopPcs : pc' = [pc EXCEPT ![t] = l]
<1>a. ASSUME pc[t] \in LoopPcs, Moved,
             UNCHANGED <<locks, idr, heap, sm, ueid, ref, eid, res, host>>
      PROVE  TypeInv'
  BY <1>a DEF TypeInv, TypeOK, RefsSet, locks, heap, host, Pcs
<1>1. CASE RunLock(t)
  <2>1. running' \in [Objs -> BOOLEAN]
    BY <1>1 DEF RunLock, TypeInv, TypeOK
  <2> QED
    BY <1>1, <2>1, FindType DEF RunLock
<1>2. CASE ResumeLock(t)
  <2>1. running' \in [Objs -> BOOLEAN]
    BY <1>2 DEF ResumeLock, TypeInv, TypeOK
  <2> QED
    BY <1>2, <2>1, FindType DEF ResumeLock
<1>3. CASE CopyIn(t)
  BY <1>3, <1>a DEF CopyIn, Goto, LoopPcs
<1>4. CASE CopyInFail(t)
  BY <1>4, EarlyReturnType DEF CopyInFail
<1>5. CASE RunEnter(t)
  <2>1. pc[t] \in LoopPcs /\ eid[t] \in Objs
    BY <1>5 DEF RunEnter, TypeInv, TypeOK, RefsSet, LoopPcs
  <2> QED
    BY <1>5, <2>1, EnterType DEF RunEnter
<1>6. CASE ResumeEnter(t)
  <2>1. pc[t] \in LoopPcs /\ EidOf(ref[t]) \subseteq Objs
    BY <1>6 DEF ResumeEnter, TypeInv, TypeOK, RefsSet, LoopPcs, EidOf
  <2> QED
    BY <1>6, <2>1, EnterType DEF ResumeEnter
<1>7. CASE SmReturn(t)
  BY <1>7, DriverAssumption
     DEF SmReturn, TypeInv, TypeOK, RefsSet, LoopPcs, CreatePcs, Pcs, locks,
         heap, host
<1>8. CASE LoopResume(t)
  <2>1. pc[t] \in LoopPcs /\ EidOf(ref[t]) \subseteq Objs
    BY <1>8 DEF LoopResume, TypeInv, TypeOK, RefsSet, LoopPcs, EidOf
  <2> QED
    BY <1>8, <2>1, EnterType DEF LoopResume
<1>9. CASE LoopUserOcall(t)
  BY <1>9 DEF LoopUserOcall, TypeInv, TypeOK, RefsSet, Leave, Pcs, LoopPcs,
       CreatePcs, Results, locks, heap
<1>10. CASE LoopUserOcallFail(t)
  BY <1>10, EarlyReturnType DEF LoopUserOcallFail
<1>11. CASE LoopExit(t)
  BY <1>11, <1>a DEF LoopExit, Goto, LoopPcs
<1>12. CASE CopyOut(t)
  BY <1>12, <1>a DEF CopyOut, Goto, LoopPcs
<1>13. CASE CopyOutFail(t)
  BY <1>13, EarlyReturnType DEF CopyOutFail
<1>14. CASE RunFinish(t)
  <2>1. ref[t] \in Objs
    BY <1>14 DEF RunFinish, TypeInv, TypeOK, RefsSet, LoopPcs
  <2>2. /\ objst' \in [Objs -> {"unused", "live", "freed"}]
        /\ umem' \in [Objs -> {"unused", "live", "freed"}]
        /\ running' \in [Objs -> BOOLEAN]
    BY <1>14, <2>1, DestroyType DEF RunFinish, TypeInv
  <2> QED
    BY <1>14, <2>2 DEF RunFinish, IdrRemove, TypeInv, TypeOK, RefsSet, Leave,
         DropHandle, Pcs, LoopPcs, CreatePcs, Results, locks, host
<1> QED
  BY <1>1, <1>2, <1>3, <1>4, <1>5, <1>6, <1>7, <1>8, <1>9, <1>10, <1>11,
     <1>12, <1>13, <1>14 DEF RunStep

\* What the look-up and the read of enclave->eid yield.
LEMMA LookupType ==
    ASSUME TypeOK, NEW u
    PROVE  /\ Lookup(u) \in Objs \cup {NoObj}
           /\ Lookup(u) # NoObj => EidOf(Lookup(u)) \subseteq Objs
  BY DEF TypeOK, Lookup, EidOf

LEMMA ShortType ==
    ASSUME TypeInv, NEW t \in Threads, ShortStep(t)
    PROVE  TypeInv'
<1> DEFINE e == Lookup(ueid[t])
<1> HIDE DEF e
<1>0. e \in Objs \cup {NoObj} /\ (e # NoObj => EidOf(e) \subseteq Objs)
  BY LookupType DEF e, TypeInv
<1> DEFINE SmOk == sm' \in [Objs -> SmStates]
<1>a. ASSUME SmOk, Leave(t), UNCHANGED <<locks, idr, heap, host>>
      PROVE  TypeInv'
  BY <1>a DEF TypeInv, TypeOK, RefsSet, Leave, Pcs, LoopPcs, CreatePcs, Results,
       locks, heap, host
<1>b. ASSUME UNCHANGED sm PROVE SmOk
  BY <1>b DEF TypeInv, TypeOK
<1>c. \A x \in Objs : SmStop(x) \/ SmUnstop(x) \/ SmDestroy(x) => SmOk
  BY DEF TypeInv, TypeOK, SmStop, SmUnstop, SmDestroy, SmStates
<1>1. CASE Stop(t)
  <2>1. SmOk
    BY <1>1, <1>0, <1>b, <1>c DEF Stop, e
  <2> QED
    BY <1>1, <1>a, <2>1 DEF Stop
<1>2. CASE Unstop(t)
  <2>1. SmOk
    BY <1>2, <1>0, <1>b, <1>c DEF Unstop, e
  <2> QED
    BY <1>2, <1>a, <2>1 DEF Unstop
<1>3. CASE Attest(t)
  BY <1>3, <1>a, <1>b DEF Attest
<1>4. CASE DestroyLock(t)
  <2>1. SmOk
    BY <1>4, <1>0, <1>b, <1>c DEF DestroyLock, e
  <2>2. /\ bigLock' = t
        /\ ref' = [ref EXCEPT ![t] = e]
        /\ pc' = [pc EXCEPT ![t] = "d_free"]
        /\ UNCHANGED <<kmLock, idr, heap, ueid, eid, res, host>>
    BY <1>4 DEF DestroyLock, AcquireBigLock, e
  <2> QED
    BY <1>0, <2>1, <2>2 DEF TypeInv, TypeOK, RefsSet, heap, host, Pcs, LoopPcs,
         CreatePcs
<1>5. CASE DestroyFinish(t)
  <2>1. /\ objst' \in [Objs -> {"unused", "live", "freed"}]
        /\ umem' \in [Objs -> {"unused", "live", "freed"}]
        /\ running' \in [Objs -> BOOLEAN]
        /\ idr' \in [Ueids -> Objs \cup {NoObj}]
    BY <1>5, DestroyType DEF DestroyFinish, IdrRemove, TypeInv, TypeOK, heap
  <2>2. own' \in [Threads -> Ueids \cup {0}] /\ pend' \in [Threads -> BOOLEAN]
    BY <1>5 DEF DestroyFinish, DropHandle, host, TypeInv, TypeOK
  <2>3. Leave(t) /\ bigLock' = NoThread /\ UNCHANGED <<kmLock, sm>>
    BY <1>5 DEF DestroyFinish
  <2> QED
    BY <2>1, <2>2, <2>3 DEF TypeInv, TypeOK, RefsSet, Leave, Pcs, LoopPcs,
         CreatePcs, Results
<1> QED
  BY <1>1, <1>2, <1>3, <1>4, <1>5 DEF ShortStep

\* The driver's state stays well typed whatever calls the hosts make, and a
\* handler never dereferences a NULL enclave_t.
THEOREM TypeCorrect == Spec => [](TypeOK /\ RefsSet)
<1>1. Init => TypeInv
  BY DriverAssumption
     DEF Init, TypeInv, TypeOK, RefsSet, Pcs, LoopPcs, CreatePcs, SmStates,
         Results
<1>2. TypeInv /\ [Next]_vars => TypeInv'
  <2> SUFFICES ASSUME TypeInv, [Next]_vars PROVE TypeInv'
    OBVIOUS
  <2>1. CASE UNCHANGED vars
    BY <2>1 DEF vars, TypeInv, TypeOK, RefsSet
  <2>2. CASE Next
    BY <2>2, CallsType, CreateType, RunType, ShortType DEF Next, Step
  <2> QED
    BY <2>1, <2>2
<1> QED
  BY <1>1, <1>2, PTL DEF Spec, TypeInv

-----------------------------------------------------------------------------
(* Reference safety for Owned hosts                                        *)

Inv == TypeInv /\ OwnerInv /\ ~KeepHandles

\* Issuing a call: run, resume and destroy carry the caller's own handle.
LEMMA CallsOwner ==
    ASSUME Inv, Owned, NEW t \in Threads, Calls(t)
    PROVE  OwnerInv'
<1> USE DEF Inv, TypeInv, TypeOK, OwnerInv, LoopPcs, CreatePcs
<1>1. PICK u \in Ueids \cup {0},
           l \in {"c_args", "r_lock", "m_lock", "d_lock", "s_lock", "u_lock",
                  "a_lock"} :
         /\ Call(t, u, l)
         /\ l \in {"r_lock", "m_lock", "d_lock"} => u \in Ueids /\ own[t] = u
  BY DEF Calls, CallCreate, CallRun, CallResume, CallDestroy, CallStop,
         CallUnstop, CallAttest, MayRun, MayResume, MayDestroy, Owned,
         Disciplined
<1> USE DEF Call, Goto, locks, heap, host
<1>2. LockHeld' /\ RegistrySound' /\ HandlesValid' /\ RefsSet'
  BY <1>1 DEF LockHeld, RegistrySound, HandlesValid, RefsSet
<1>3. CallsOnOwnHandle'
  BY <1>1 DEF CallsOnOwnHandle
<1>4. CreatingUnregistered'
  BY <1>1 DEF CreatingUnregistered
<1> QED
  BY <1>2, <1>3, <1>4

\* A step inside the unlocked part touches nothing the invariant relates.
LEMMA LoopMoveOwner ==
    ASSUME Inv, NEW t \in Threads, NEW l \in LoopPcs, pc[t] \in LoopPcs,
           pc' = [pc EXCEPT ![t] = l], RefsSet',
           UNCHANGED <<bigLock, idr, objst, own, ueid, ref>>
    PROVE  OwnerInv'
<1> USE DEF Inv, TypeInv, TypeOK, OwnerInv, LoopPcs, CreatePcs
<1>1. LockHeld' /\ RegistrySound' /\ HandlesValid'
  BY DEF LockHeld, RegistrySound, HandlesValid
<1>2. CallsOnOwnHandle'
  BY DEF CallsOnOwnHandle
<1>3. CreatingUnregistered'
  BY DEF CreatingUnregistered
<1> QED
  BY <1>1, <1>2, <1>3

\* A handler that returns without the lock and without touching the registry
\* may drop the caller's handle.
LEMMA ReturnOwner ==
    ASSUME Inv, NEW t \in Threads, Leave(t), RefsSet',
           pc[t] \notin CreatePcs \cup {"d_free"},
           UNCHANGED <<bigLock, idr, objst>>,
           own' = own \/ own' = [own EXCEPT ![t] = 0]
    PROVE  OwnerInv'
<1> USE DEF Inv, TypeInv, TypeOK, OwnerInv, Leave
<1>1. LockHeld' /\ RegistrySound'
  BY DEF LockHeld, RegistrySound, CreatePcs
<1>2. HandlesValid'
  BY DEF HandlesValid
<1>3. CallsOnOwnHandle'
  BY DEF CallsOnOwnHandle, LoopPcs
<1>4. CreatingUnregistered'
  BY DEF CreatingUnregistered, LoopPcs, CreatePcs
<1> QED
  BY <1>1, <1>2, <1>3, <1>4

\* Freeing a registered enclave together with its id, by the thread that owns
\* the handle: nobody else holds it or is creating it.
LEMMA FreeOwner ==
    ASSUME Inv, NEW t \in Threads, RefsSet',
           pc[t] \in LoopPcs \cup {"d_free"},
           \A s \in Threads \ {t} : bigLock # s,
           bigLock' = NoThread,
           ref[t] # NoObj, DestroyEnclave(ref[t]), IdrRemove(ueid[t]),
           Leave(t), own' = [own EXCEPT ![t] = 0]
    PROVE  OwnerInv'
<1> USE DEF Inv, TypeInv, TypeOK, OwnerInv
<1>1. /\ ueid[t] \in Ueids /\ ueid[t] = own[t]
      /\ ref[t] = idr[ueid[t]] /\ ref[t] \in Objs
      /\ own[t] # 0
  BY DriverAssumption DEF CallsOnOwnHandle
<1>2. objst[ref[t]] = "live"
  BY <1>1 DEF RegistrySound
<1>3. objst' = [o \in Objs |-> IF o = ref[t] THEN "freed" ELSE objst[o]]
  BY <1>2 DEF DestroyEnclave, Freed
<1>4. idr' = [v \in Ueids |-> IF v = ueid[t] THEN NoObj ELSE idr[v]]
  BY DEF IdrRemove
<1>5. \A s \in Threads \ {t} : pc[s] \notin CreatePcs \cup {"d_free"}
  BY DEF LockHeld
<1>6. LockHeld'
  BY <1>5, DriverAssumption DEF LockHeld, Leave, CreatePcs
<1>7. RegistrySound'
  BY <1>1, <1>3, <1>4 DEF RegistrySound
<1>8. HandlesValid'
  BY <1>1, <1>4 DEF HandlesValid
<1>9. CallsOnOwnHandle'
  BY <1>1, <1>4, DriverAssumption
     DEF CallsOnOwnHandle, HandlesValid, Leave, LoopPcs
<1>10. CreatingUnregistered'
  BY <1>5 DEF CreatingUnregistered, Leave, CreatePcs, LoopPcs
<1> QED
  BY <1>6, <1>7, <1>8, <1>9, <1>10

\* create, up to its end: the new enclave stays out of the registry.
LEMMA CreateMoveOwner ==
    ASSUME Inv, NEW t \in Threads, RefsSet',
           \/ CreateArgs(t) \/ CreateLock(t) \/ CreateAlloc(t)
           \/ CreateAllocFail(t) \/ CreateMemInit(t) \/ CreateRelock(t)
           \/ CreateLoad(t) \/ CreateSbi(t)
    PROVE  OwnerInv'
<1> USE DriverAssumption DEF Inv, TypeInv, TypeOK, OwnerInv, Goto, locks, heap,
        host
<1>1. CASE CreateArgs(t)
  <2>1. LockHeld' /\ RegistrySound' /\ HandlesValid'
    BY <1>1 DEF CreateArgs, LockHeld, RegistrySound, HandlesValid, CreatePcs
  <2>2. CallsOnOwnHandle' /\ CreatingUnregistered'
    BY <1>1 DEF CreateArgs, CallsOnOwnHandle, CreatingUnregistered, CreatePcs,
         LoopPcs
  <2> QED
    BY <2>1, <2>2
<1>2. CASE CreateLock(t)
  <2>1. LockHeld' /\ RegistrySound' /\ HandlesValid'
    BY <1>2 DEF CreateLock, AcquireBigLock, LockHeld, RegistrySound,
         HandlesValid, CreatePcs
  <2>2. CallsOnOwnHandle' /\ CreatingUnregistered'
    BY <1>2 DEF CreateLock, CallsOnOwnHandle, CreatingUnregistered, CreatePcs,
         LoopPcs
  <2> QED
    BY <2>1, <2>2
<1>3. CASE CreateAlloc(t)
  <2>1. PICK o \in Objs :
          /\ objst[o] = "unused"
          /\ objst' = [objst EXCEPT ![o] = "live"]
          /\ ref' = [ref EXCEPT ![t] = o]
    BY <1>3 DEF CreateAlloc
  <2>2. \A u \in Ueids : idr[u] # o
    BY <2>1 DEF RegistrySound
  <2>3. LockHeld' /\ RegistrySound' /\ HandlesValid'
    BY <1>3, <2>1, <2>2 DEF CreateAlloc, LockHeld, RegistrySound, HandlesValid,
         CreatePcs
  <2>4. CallsOnOwnHandle'
    BY <1>3, <2>1 DEF CreateAlloc, CallsOnOwnHandle, LoopPcs
  <2>5. CreatingUnregistered'
    BY <1>3, <2>1, <2>2 DEF CreateAlloc, CreatingUnregistered, CreatePcs,
         LoopPcs
  <2> QED
    BY <2>3, <2>4, <2>5
<1>4. ASSUME NEW l \in CreatePcs \ {"c_alloc"}, pc[t] \in CreatePcs,
             pc' = [pc EXCEPT ![t] = l],
             UNCHANGED <<bigLock, idr, objst, own, ueid, ref>>
      PROVE  OwnerInv'
  <2>1. LockHeld' /\ RegistrySound' /\ HandlesValid'
    BY <1>4 DEF LockHeld, RegistrySound, HandlesValid, CreatePcs
  <2>2. CallsOnOwnHandle'
    BY <1>4 DEF CallsOnOwnHandle, CreatePcs, LoopPcs
  <2>3. CreatingUnregistered'
    BY <1>4 DEF CreatingUnregistered, CreatePcs, LoopPcs
  <2> QED
    BY <2>1, <2>2, <2>3
<1>5. CASE CreateAllocFail(t) \/ CreateMemInit(t) \/ CreateRelock(t)
             \/ CreateLoad(t) \/ CreateSbi(t)
  BY <1>4, <1>5 DEF CreateAllocFail, CreateMemInit, CreateRelock, CreateLoad,
       CreateSbi, CreatePcs
<1> QED
  BY <1>1, <1>2, <1>3, <1>5

\* create registers the enclave under an id no thread holds a handle of.
LEMMA CreateFinishOwner ==
    ASSUME Inv, NEW t \in Threads, RefsSet', CreateFinish(t)
    PROVE  OwnerInv'
<1> USE DEF Inv, TypeInv, TypeOK, OwnerInv
<1>1. PICK u \in Ueids \cup {0}, h \in Ueids \cup {0} :
         /\ h \in {u, 0}
         /\ IdrAlloc(ref[t], u)
         /\ own' = [own EXCEPT ![t] = h]
  BY DEF CreateFinish
<1>2. /\ pc[t] = "c_idr" /\ bigLock' = NoThread /\ Leave(t)
      /\ UNCHANGED objst
  BY DEF CreateFinish
<1>3. /\ ref[t] \in Objs /\ objst[ref[t]] = "live"
      /\ \A v \in Ueids : idr[v] # ref[t]
  BY <1>2 DEF CreatingUnregistered, RefsSet, CreatePcs, LoopPcs
<1>4. \A s \in Threads \ {t} : pc[s] \notin CreatePcs \cup {"d_free"}
  BY <1>2 DEF LockHeld, CreatePcs
<1>5. \/ u = 0 /\ idr' = idr
      \/ u \in Ueids /\ idr[u] = NoObj /\ idr' = [idr EXCEPT ![u] = ref[t]]
  BY <1>1 DEF IdrAlloc
<1>6. LockHeld'
  BY <1>2, <1>4, DriverAssumption DEF LockHeld, Leave, CreatePcs
<1>7. RegistrySound'
  BY <1>2, <1>3, <1>5, DriverAssumption DEF RegistrySound
<1>a. \A s \in Threads : own[s] # 0 => own[s] \in Ueids /\ own[s] # u
  <2> SUFFICES ASSUME NEW s \in Threads, own[s] # 0
               PROVE  own[s] \in Ueids /\ own[s] # u
    OBVIOUS
  <2>1. own[s] \in Ueids /\ idr[own[s]] # NoObj
    BY DEF HandlesValid
  <2> QED
    BY <1>5, <2>1
<1>b. \A v \in Ueids : v # u => idr'[v] = idr[v]
  BY <1>5
<1>8. HandlesValid'
  <2> SUFFICES ASSUME NEW s \in Threads, own'[s] # 0
               PROVE  /\ idr'[own'[s]] # NoObj
                      /\ \A r \in Threads : own'[r] = own'[s] => r = s
    BY DEF HandlesValid
  <2>1. CASE s = t
    <3>1. own'[s] = u /\ u \in Ueids /\ idr'[u] = ref[t]
      BY <1>1, <1>5, <2>1
    <3> QED
      BY <1>1, <1>3, <1>a, <2>1, <3>1, DriverAssumption
  <2>2. CASE s # t
    <3>1. own'[s] = own[s]
      BY <1>1, <2>2
    <3> QED
      BY <1>1, <1>a, <1>b, <2>2, <3>1 DEF HandlesValid
  <2> QED
    BY <2>1, <2>2
<1>9. CallsOnOwnHandle'
  <2>1. ASSUME NEW s \in Threads, s # t,
               pc[s] \in LoopPcs \cup {"r_lock", "m_lock", "d_lock", "d_free"}
        PROVE  idr'[ueid[s]] = idr[ueid[s]]
    <3>1. ueid[s] \in Ueids /\ ueid[s] = own[s] /\ own[s] # 0
      BY <2>1, DriverAssumption DEF CallsOnOwnHandle
    <3> QED
      BY <1>a, <1>b, <3>1
  <2> QED
    BY <1>1, <1>2, <2>1 DEF CallsOnOwnHandle, Leave, LoopPcs
<1>10. CreatingUnregistered'
  BY <1>2, <1>4 DEF CreatingUnregistered, Leave, CreatePcs, LoopPcs
<1> QED
  BY <1>6, <1>7, <1>8, <1>9, <1>10

\* A failed create frees an enclave that was never registered.
LEMMA CreateFailOwner ==
    ASSUME Inv, NEW t \in Threads, RefsSet', CreateFail(t)
    PROVE  OwnerInv'
<1> USE DEF Inv, TypeInv, TypeOK, OwnerInv
<1>1. /\ pc[t] = "c_fail" /\ bigLock' = NoThread /\ Leave(t)
      /\ UNCHANGED <<idr, own>>
  BY DEF CreateFail, host
<1>2. \A s \in Threads \ {t} : pc[s] \notin CreatePcs \cup {"d_free"}
  BY <1>1 DEF LockHeld, CreatePcs
<1>3. \A u \in Ueids : idr[u] # NoObj => objst'[idr[u]] = objst[idr[u]]
  <2>1. CASE ref[t] = NoObj
    BY <2>1 DEF CreateFail, heap
  <2>2. CASE ref[t] # NoObj
    <3>1. objst[ref[t]] = "live" /\ \A u \in Ueids : idr[u] # ref[t]
      BY <1>1, <2>2 DEF CreatingUnregistered, CreatePcs
    <3>2. objst' = [o \in Objs |-> IF o = ref[t] THEN "freed" ELSE objst[o]]
      BY <2>2, <3>1 DEF CreateFail, DestroyEnclave, Freed
    <3> QED
      BY <3>1, <3>2
  <2> QED
    BY <2>1, <2>2
<1>4. LockHeld'
  BY <1>1, <1>2, DriverAssumption DEF LockHeld, Leave, CreatePcs
<1>5. RegistrySound' /\ HandlesValid'
  BY <1>1, <1>3 DEF RegistrySound, HandlesValid
<1>6. CallsOnOwnHandle'
  BY <1>1 DEF CallsOnOwnHandle, Leave, LoopPcs
<1>7. CreatingUnregistered'
  BY <1>1, <1>2 DEF CreatingUnregistered, Leave, CreatePcs, LoopPcs
<1> QED
  BY <1>4, <1>5, <1>6, <1>7

LEMMA RunOwner ==
    ASSUME Inv, TypeInv', NEW t \in Threads, RunStep(t)
    PROVE  OwnerInv'
<1> USE DEF Inv
<1>0. RefsSet'
  BY DEF TypeInv
<1>1. CASE RunLock(t) \/ ResumeLock(t)
  <2>1. PICK l \in {"r_copyin", "m_copyin"} :
          FindEnclave(t, l) /\ pc[t] \in {"r_lock", "m_lock"}
    BY <1>1 DEF RunLock, ResumeLock
  <2>2. CASE Lookup(ueid[t]) = NoObj
    BY <1>0, <2>1, <2>2, ReturnOwner
       DEF FindEnclave, DropHandle, locks, CreatePcs
  <2>3. CASE Lookup(ueid[t]) # NoObj
    <3> USE DEF TypeInv, TypeOK, OwnerInv
    <3>1. /\ ref' = [ref EXCEPT ![t] = idr[ueid[t]]]
          /\ pc' = [pc EXCEPT ![t] = l]
          /\ UNCHANGED <<bigLock, idr, objst, own, ueid>>
      BY <2>1, <2>3 DEF FindEnclave, locks, host, Lookup
    <3>2. LockHeld' /\ RegistrySound' /\ HandlesValid'
      BY <2>1, <3>1 DEF LockHeld, RegistrySound, HandlesValid, CreatePcs
    <3>3. CallsOnOwnHandle'
      BY <2>1, <3>1 DEF CallsOnOwnHandle, LoopPcs
    <3>4. CreatingUnregistered'
      BY <2>1, <3>1 DEF CreatingUnregistered, CreatePcs, LoopPcs
    <3> QED
      BY <1>0, <3>2, <3>3, <3>4
  <2> QED
    BY <2>2, <2>3
<1>2. CASE CopyIn(t) \/ LoopExit(t) \/ CopyOut(t)
  BY <1>0, <1>2, LoopMoveOwner
     DEF CopyIn, LoopExit, CopyOut, Goto, locks, heap, host, LoopPcs
<1>3. CASE CopyInFail(t) \/ LoopUserOcallFail(t) \/ CopyOutFail(t)
  BY <1>0, <1>3, ReturnOwner
     DEF CopyInFail, LoopUserOcallFail, CopyOutFail, EarlyReturn, DropHandle,
         locks, heap, CreatePcs
<1>4. CASE LoopUserOcall(t)
  BY <1>0, <1>4, ReturnOwner DEF LoopUserOcall, locks, heap, CreatePcs
<1>5. CASE RunEnter(t) \/ ResumeEnter(t) \/ LoopResume(t) \/ SmReturn(t)
  <2>1. /\ pc[t] \in LoopPcs
        /\ \E l \in LoopPcs : pc' = [pc EXCEPT ![t] = l]
        /\ UNCHANGED <<bigLock, idr, objst, own, ueid, ref>>
    BY <1>5 DEF RunEnter, ResumeEnter, LoopResume, SmReturn, SmEnter, locks,
         heap, host, LoopPcs
  <2> QED
    BY <1>0, <2>1, LoopMoveOwner
<1>6. CASE RunFinish(t)
  <2>1. ref[t] # NoObj /\ pc[t] \in LoopPcs
    BY <1>6 DEF RunFinish, TypeInv, RefsSet, LoopPcs
  <2> QED
    BY <1>0, <1>6, <2>1, FreeOwner, DriverAssumption
       DEF RunFinish, DropHandle, locks
<1> QED
  BY <1>1, <1>2, <1>3, <1>4, <1>5, <1>6 DEF RunStep

LEMMA ShortOwner ==
    ASSUME Inv, TypeInv', NEW t \in Threads, ShortStep(t)
    PROVE  OwnerInv'
<1> USE DEF Inv
<1>0. RefsSet'
  BY DEF TypeInv
<1>1. CASE Stop(t) \/ Unstop(t) \/ Attest(t)
  BY <1>0, <1>1, ReturnOwner
     DEF Stop, Unstop, Attest, locks, heap, host, CreatePcs
<1>2. CASE DestroyLock(t)
  <2> USE DEF TypeInv, TypeOK, OwnerInv
  <2>1. /\ pc[t] = "d_lock" /\ bigLock = NoThread /\ bigLock' = t
        /\ ref' = [ref EXCEPT ![t] = Lookup(ueid[t])]
        /\ pc' = [pc EXCEPT ![t] = "d_free"]
        /\ UNCHANGED <<idr, objst, own, ueid>>
    BY <1>2 DEF DestroyLock, AcquireBigLock, heap, host
  <2>2. Lookup(ueid[t]) = idr[ueid[t]]
    BY <2>1 DEF CallsOnOwnHandle, Lookup
  <2>3. LockHeld'
    BY <2>1, DriverAssumption DEF LockHeld
  <2>4. RegistrySound' /\ HandlesValid'
    BY <2>1 DEF RegistrySound, HandlesValid
  <2>5. CallsOnOwnHandle'
    BY <2>1, <2>2 DEF CallsOnOwnHandle, LoopPcs
  <2>6. CreatingUnregistered'
    BY <2>1 DEF CreatingUnregistered, CreatePcs
  <2> QED
    BY <1>0, <2>3, <2>4, <2>5, <2>6
<1>3. CASE DestroyFinish(t)
  <2>1. /\ pc[t] = "d_free" /\ bigLock' = NoThread /\ Leave(t)
        /\ bigLock = t /\ own[t] = ueid[t]
        /\ own' = [own EXCEPT ![t] = 0]
    BY <1>3 DEF DestroyFinish, DropHandle, OwnerInv, LockHeld, CallsOnOwnHandle
  <2>2. CASE ref[t] # NoObj /\ ~running[ref[t]]
    BY <1>0, <1>3, <2>1, <2>2, FreeOwner DEF DestroyFinish
  <2>3. CASE ~(ref[t] # NoObj /\ ~running[ref[t]])
    <3> USE DEF TypeInv, TypeOK, OwnerInv
    <3>1. UNCHANGED <<idr, objst>>
      BY <1>3, <2>3 DEF DestroyFinish, heap
    <3>2. LockHeld'
      BY <2>1, DriverAssumption DEF LockHeld, Leave, CreatePcs
    <3>3. RegistrySound' /\ HandlesValid'
      BY <2>1, <3>1 DEF RegistrySound, HandlesValid
    <3>4. CallsOnOwnHandle'
      BY <2>1, <3>1 DEF CallsOnOwnHandle, Leave, LoopPcs
    <3>5. CreatingUnregistered'
      BY <2>1, <3>1 DEF CreatingUnregistered, Leave, LoopPcs, CreatePcs
    <3> QED
      BY <1>0, <3>2, <3>3, <3>4, <3>5
  <2> QED
    BY <2>2, <2>3
<1> QED
  BY <1>1, <1>2, <1>3 DEF ShortStep

\* OwnerInv is inductive for hosts that keep to their own enclaves and use no
\* eid after a call on it failed or ended the enclave.
THEOREM OwnerInvariant == Owned /\ Spec => [](TypeOK /\ OwnerInv)
<1> SUFFICES ASSUME Owned PROVE Spec => [](TypeOK /\ OwnerInv)
  OBVIOUS
<1>1. Init => OwnerInv
  BY DriverAssumption DEF Init, OwnerInv, RefsSet, LockHeld, RegistrySound,
       HandlesValid, CallsOnOwnHandle, CreatingUnregistered, LoopPcs, CreatePcs
<1>2. TypeInv /\ TypeInv' /\ OwnerInv /\ [Next]_vars => OwnerInv'
  <2> SUFFICES ASSUME Inv, TypeInv', [Next]_vars PROVE OwnerInv'
    BY DEF Inv, Owned, Disciplined
  <2>1. CASE UNCHANGED vars
    BY <2>1 DEF vars, Inv, OwnerInv, RefsSet, LockHeld, RegistrySound,
         HandlesValid, CallsOnOwnHandle, CreatingUnregistered
  <2>2. CASE Next
    <3>1. RefsSet'
      BY DEF TypeInv
    <3>2. PICK t \in Threads : Calls(t) \/ Step(t)
      BY <2>2 DEF Next
    <3>3. CASE CreateStep(t)
      BY <3>1, <3>3, CreateMoveOwner, CreateFinishOwner, CreateFailOwner
         DEF CreateStep
    <3> QED
      BY <3>2, <3>3, CallsOwner, RunOwner, ShortOwner DEF Step
  <2> QED
    BY <2>1, <2>2
<1> QED
  BY <1>1, <1>2, TypeCorrect, PTL DEF Spec, TypeInv

\* The invariant gives what the code needs outside the lock.
LEMMA OwnerSafe ==
    ASSUME TypeOK, OwnerInv
    PROVE  RegistrySound /\ NoUseAfterFree /\ FinishesOwnEntry
<1>1. ASSUME NEW t \in Threads, pc[t] \in LoopPcs
      PROVE  /\ ueid[t] \in Ueids
             /\ ref[t] = idr[ueid[t]] /\ ref[t] # NoObj
  BY <1>1 DEF OwnerInv, CallsOnOwnHandle, RefsSet
<1> QED
  BY <1>1 DEF TypeOK, OwnerInv, RegistrySound, NoUseAfterFree, FinishesOwnEntry,
       Lookup

\* Hosts that run, resume and destroy only what they created: the run loop of
\* penglai_enclave_run and penglai_enclave_resume, outside the big lock, never
\* touches a freed enclave_t; its end unregisters its own enclave and no
\* other; and the registry never yields a freed enclave.
THEOREM ReferenceSafety ==
    Owned /\ Spec => [](RegistrySound /\ NoUseAfterFree /\ FinishesOwnEntry)
  BY OwnerInvariant, OwnerSafe, PTL

\* The registry alone, as get_enclave_by_id relies on it.
COROLLARY RegistryNeverDangles == Owned /\ Spec => []RegistrySound
  BY ReferenceSafety, PTL

\* The end of a run alone: the id it removes is its own enclave's.
COROLLARY RunEndsOwnEntry == Owned /\ Spec => []FinishesOwnEntry
  BY ReferenceSafety, PTL

\* For the same hosts, the step that frees an enclave leaves no other thread in
\* the run loop with it and no id that maps to it.
THEOREM ExclusiveFree == Owned /\ Spec => FreeIsExclusive
<1> SUFFICES ASSUME Owned PROVE Spec => FreeIsExclusive
  OBVIOUS
<1> DEFINE Excl == \A o \in Objs : objst[o] = "live" /\ objst'[o] = "freed" =>
                      /\ \A u \in Ueids : idr'[u] # o
                      /\ \A t \in Threads : pc'[t] \in LoopPcs => ref'[t] # o
<1>1. (TypeOK /\ OwnerInv)' => Excl
  <2> SUFFICES ASSUME TypeOK', OwnerInv', NEW o \in Objs, objst'[o] = "freed"
               PROVE  /\ \A u \in Ueids : idr'[u] # o
                      /\ \A t \in Threads : pc'[t] \in LoopPcs => ref'[t] # o
    OBVIOUS
  <2>1. RegistrySound' /\ NoUseAfterFree'
    BY OwnerSafe, PTL
  <2> QED
    BY <2>1, DriverAssumption DEF RegistrySound, NoUseAfterFree, TypeOK
<1>2. (TypeOK /\ OwnerInv)' => [Excl]_vars
  BY <1>1
<1>3. Spec => [](TypeOK /\ OwnerInv)
  BY OwnerInvariant
<1> QED
  BY <1>2, <1>3, PTL DEF FreeIsExclusive
=============================================================================
