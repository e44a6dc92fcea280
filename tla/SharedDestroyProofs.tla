------------------------ MODULE SharedDestroyProofs ------------------------
(***************************************************************************)
(* Theorems about EnclaveDriver when any thread may destroy any enclave,   *)
(* while only its creator runs and resumes it: what the is_running flag    *)
(* protects.  The one thing it does not protect is an id that is handed    *)
(* out again while a host still holds it, so the theorems are about        *)
(* behaviours in which that does not happen (FreshIds).                    *)
(***************************************************************************)
EXTENDS EnclaveDriverProofs

-----------------------------------------------------------------------------
(* The hypothesis and the inductive invariant                              *)

\* An id is registered only while no host holds it as the handle of an
\* enclave that was destroyed behind its back.
FreshStep ==
    \A u \in Ueids : idr[u] = NoObj /\ idr'[u] # NoObj =>
        \A s \in Threads : own[s] # u

FreshIds == [][FreshStep]_vars

\* A handle is held by one thread.  It may be stale: another thread may have
\* destroyed the enclave.
HandlesUnique ==
    \A s, t \in Threads : own[t] # 0 /\ own[s] = own[t] => s = t

\* A run or resume is on the caller's own handle, and from its look-up on the
\* enclave stays registered there; a destroy holds the lock from its look-up on.
RunsOnOwnHandle ==
    \A t \in Threads :
        /\ pc[t] \in LoopPcs \cup {"r_lock", "m_lock"} =>
              ueid[t] \in Ueids /\ ueid[t] = own[t]
        /\ pc[t] \in {"d_lock", "d_free"} => ueid[t] \in Ueids
        /\ pc[t] \in LoopPcs \cup {"d_free"} => ref[t] = idr[ueid[t]]

\* is_running is set from the look-up of run until the enclave is freed, also
\* while the host serves a custom OCALL; such an enclave is resumed, not run.
FlagSet ==
    \A t \in Threads :
        /\ pc[t] \in LoopPcs => running[ref[t]]
        /\ pc[t] = "m_lock" => pend[t]
        /\ pc[t] = "r_lock" => ~pend[t]
        /\ pend[t] =>
              own[t] # 0 /\ idr[own[t]] # NoObj /\ running[idr[own[t]]]

\* The states the monitor can have an enclave in, by where its runner is
ExpectedOf(t) ==
    CASE pc[t] \in {"r_copyin", "r_enter"} -> {"fresh", "gone"}
      [] pc[t] \in {"m_copyin", "m_enter"} -> {"ocall", "gone"}
      [] pc[t] = "in_sm" ->
            {"running", "stopped", "runnable", "dying", "gone"}
      [] pc[t] = "r_loop" /\ res[t] = "timer" ->
            {"runnable", "stopped", "gone"}
      [] pc[t] = "r_loop" /\ res[t] \in OcallKinds -> {"ocall", "gone"}
      [] OTHER -> {"gone"}

\* Driver and monitor agree on how far each enclave has come.
MonitorAgrees ==
    \A t \in Threads :
        /\ pc[t] \in LoopPcs => eid[t] = ref[t] /\ sm[ref[t]] \in ExpectedOf(t)
        /\ pc[t] \notin LoopPcs /\ own[t] # 0 /\ idr[own[t]] # NoObj =>
              sm[idr[own[t]]] \in {IF pend[t] THEN "ocall" ELSE "fresh", "gone"}
        /\ pc[t] = "c_idr" => sm[ref[t]] = "fresh"

RaceInv ==
    /\ LockHeld
    /\ RegistrySound
    /\ CreatingUnregistered
    /\ HandlesUnique
    /\ RunsOnOwnHandle
    /\ FlagSet
    /\ MonitorAgrees

RInv == TypeInv /\ RaceInv /\ ~KeepHandles

-----------------------------------------------------------------------------
(* Consequences of the invariant                                           *)

\* The enclave in a run loop is allocated and registered under its runner's
\* handle, and no other thread runs it, holds its id or is creating it.
LEMMA RunnersEnclave ==
    ASSUME RInv, NEW t \in Threads, pc[t] \in LoopPcs
    PROVE  /\ own[t] \in Ueids /\ own[t] # 0 /\ ueid[t] = own[t]
           /\ ref[t] = idr[own[t]] /\ ref[t] \in Objs /\ ref[t] # NoObj
           /\ objst[ref[t]] = "live"
           /\ \A s \in Threads \ {t} :
                 /\ pc[s] \in LoopPcs \cup CreatePcs => ref[s] # ref[t]
                 /\ own[s] # 0 => own[s] \in Ueids /\ idr[own[s]] # ref[t]
<1> USE DEF RInv, TypeInv, TypeOK, RaceInv
<1>1. /\ own[t] \in Ueids /\ own[t] # 0 /\ ueid[t] = own[t]
      /\ ref[t] = idr[own[t]] /\ ref[t] \in Objs /\ ref[t] # NoObj
  BY DriverAssumption DEF RunsOnOwnHandle, RefsSet
<1>2. objst[ref[t]] = "live"
  BY <1>1 DEF RegistrySound
<1>3. ASSUME NEW s \in Threads \ {t}, own[s] # 0
      PROVE  own[s] \in Ueids /\ idr[own[s]] # ref[t]
  <2>1. own[s] \in Ueids /\ own[s] # own[t]
    BY <1>1, <1>3 DEF HandlesUnique
  <2> QED
    BY <1>1, <2>1 DEF RegistrySound
<1>4. ASSUME NEW s \in Threads \ {t}, pc[s] \in LoopPcs
      PROVE  ref[s] # ref[t]
  <2>1. own[s] \in Ueids /\ own[s] # 0 /\ ref[s] = idr[own[s]]
    BY <1>4, DriverAssumption DEF RunsOnOwnHandle
  <2> QED
    BY <1>3, <2>1
<1>5. ASSUME NEW s \in Threads \ {t}, pc[s] \in CreatePcs
      PROVE  ref[s] # ref[t]
  BY <1>1, <1>5 DEF CreatingUnregistered
<1> QED
  BY <1>1, <1>2, <1>3, <1>4, <1>5

\* A read of enclave->eid in the run loop yields the enclave's own.
LEMMA RunnersEid ==
    ASSUME RInv, NEW t \in Threads, pc[t] \in LoopPcs
    PROVE  EidOf(ref[t]) = {ref[t]} /\ eid[t] = ref[t]
  BY RunnersEnclave DEF EidOf, RInv, RaceInv, MonitorAgrees

\* What a registered id maps to is allocated and not under construction, so
\* the monitor is asked about that enclave and no other.
LEMMA RegisteredEid ==
    ASSUME RInv, NEW u, Lookup(u) # NoObj
    PROVE  /\ Lookup(u) \in Objs /\ EidOf(Lookup(u)) = {Lookup(u)}
           /\ \A t \in Threads : pc[t] \in CreatePcs => ref[t] # Lookup(u)
  BY DEF RInv, TypeInv, TypeOK, RaceInv, RegistrySound, CreatingUnregistered,
         Lookup, EidOf

-----------------------------------------------------------------------------
(* Calls, and steps inside the run loop                                    *)

\* Issuing a call: run and resume carry the caller's own handle, and only an
\* enclave whose OCALL the host has served is resumed.
LEMMA CallsRace ==
    ASSUME RInv, Disciplined, NEW t \in Threads, Calls(t)
    PROVE  RaceInv'
<1> USE DEF RInv, TypeInv, TypeOK, RaceInv, LoopPcs, CreatePcs
<1>1. PICK u \in Ueids \cup {0},
           l \in {"c_args", "r_lock", "m_lock", "d_lock", "s_lock", "u_lock",
                  "a_lock"} :
         /\ Call(t, u, l)
         /\ l \in {"r_lock", "m_lock"} => own[t] = u
         /\ l \in {"r_lock", "m_lock", "d_lock"} => u \in Ueids
         /\ l = "m_lock" => pend[t]
         /\ l = "r_lock" => ~pend[t]
  BY DEF Calls, CallCreate, CallRun, CallResume, CallDestroy, CallStop,
         CallUnstop, CallAttest, MayRun, MayResume, Disciplined
<1>2. /\ pc[t] = "idle" /\ pc' = [pc EXCEPT ![t] = l]
      /\ ueid' = [ueid EXCEPT ![t] = u]
      /\ UNCHANGED <<bigLock, idr, objst, running, sm, ref, eid, res, own, pend>>
  BY <1>1 DEF Call, Goto, locks, heap, host
<1>3. LockHeld' /\ RegistrySound' /\ HandlesUnique'
  BY <1>2 DEF LockHeld, RegistrySound, HandlesUnique
<1>4. CreatingUnregistered'
  BY <1>2 DEF CreatingUnregistered
<1>5. RunsOnOwnHandle'
  BY <1>1, <1>2 DEF RunsOnOwnHandle
<1>6. FlagSet'
  BY <1>1, <1>2 DEF FlagSet
<1>7. MonitorAgrees'
  BY <1>2 DEF MonitorAgrees, ExpectedOf
<1> QED
  BY <1>3, <1>4, <1>5, <1>6, <1>7

\* A step inside the run loop changes the monitor's view of one enclave only;
\* it is enough to look at that one.
LEMMA LoopMoveRace ==
    ASSUME RInv, NEW t \in Threads, NEW l \in LoopPcs, NEW r, NEW v,
           pc[t] \in LoopPcs,
           pc' = [pc EXCEPT ![t] = l],
           res' = [res EXCEPT ![t] = r],
           sm' = [sm EXCEPT ![ref[t]] = v],
           eid' = [eid EXCEPT ![t] = ref[t]],
           UNCHANGED <<bigLock, idr, objst, running, own, pend, ueid, ref>>,
           v \in ExpectedOf(t)'
    PROVE  RaceInv'
<1> USE DEF RInv, TypeInv, TypeOK, RaceInv
<1>1. LockHeld' /\ RegistrySound' /\ HandlesUnique'
  BY DEF LockHeld, RegistrySound, HandlesUnique, LoopPcs, CreatePcs
<1>2. CreatingUnregistered'
  BY DEF CreatingUnregistered, LoopPcs, CreatePcs
<1>3. RunsOnOwnHandle'
  BY DEF RunsOnOwnHandle, LoopPcs
<1>4. FlagSet'
  BY DEF FlagSet, LoopPcs
<1>5. MonitorAgrees'
  <2>1. /\ ref[t] \in Objs
        /\ \A s \in Threads \ {t} :
              /\ pc[s] \in LoopPcs \cup CreatePcs => ref[s] # ref[t]
              /\ own[s] # 0 => idr[own[s]] # ref[t]
    BY RunnersEnclave
  <2>2. ASSUME NEW s \in Threads, s # t
        PROVE  /\ pc'[s] = pc[s] /\ eid'[s] = eid[s] /\ ExpectedOf(s)' = ExpectedOf(s)
               /\ \A o \in Objs : o # ref[t] => sm'[o] = sm[o]
    BY <2>2 DEF ExpectedOf
  <2>3. pc'[t] \in LoopPcs /\ eid'[t] = ref[t] /\ sm'[ref[t]] = v
    BY <2>1
  <2>4. "c_idr" \notin LoopPcs /\ "c_idr" \in CreatePcs
    BY DEF LoopPcs, CreatePcs
  <2>5. ASSUME NEW s \in Threads, s # t
        PROVE  /\ pc'[s] \in LoopPcs =>
                     eid'[s] = ref'[s] /\ sm'[ref'[s]] \in ExpectedOf(s)'
               /\ pc'[s] \notin LoopPcs /\ own'[s] # 0 /\ idr'[own'[s]] # NoObj =>
                     sm'[idr'[own'[s]]] \in
                        {IF pend'[s] THEN "ocall" ELSE "fresh", "gone"}
               /\ pc'[s] = "c_idr" => sm'[ref'[s]] = "fresh"
    <3>1. pc[s] \in LoopPcs => ref[s] \in Objs
      BY DEF RefsSet
    <3>2. pc[s] = "c_idr" => ref[s] \in Objs
      BY DEF RefsSet, CreatePcs
    <3>3. own[s] # 0 /\ idr[own[s]] # NoObj => idr[own[s]] \in Objs
      OBVIOUS
    <3> QED
      BY <2>1, <2>2, <2>4, <2>5, <3>1, <3>2, <3>3 DEF MonitorAgrees
  <2> QED
    BY <2>3, <2>4, <2>5 DEF MonitorAgrees
<1> QED
  BY <1>1, <1>2, <1>3, <1>4, <1>5

\* Entering the monitor: a runner asks for the transition the enclave is ready
\* for, so a refusal means that the enclave is gone (or stopped, which is
\* answered like a timer interrupt).
LEMMA EnterRace ==
    ASSUME RInv, NEW t \in Threads, pc[t] \in LoopPcs,
           NEW f, SmEnter(t, ref[t], f),
           \/ f = "fresh" /\ pc[t] = "r_enter"
           \/ f = "ocall" /\ pc[t] = "m_enter"
           \/ f = "runnable" /\ pc[t] = "r_loop" /\ res[t] = "timer"
           \/ f = "ocall" /\ pc[t] = "r_loop" /\ res[t] \in OcallKinds,
           UNCHANGED <<bigLock, idr, objst, running, own, pend, ueid, ref>>
    PROVE  RaceInv'
<1>0. {"in_sm", "r_loop"} \subseteq LoopPcs
  BY DEF LoopPcs
<1>1. /\ sm[ref[t]] \in ExpectedOf(t)
      /\ ref[t] \in Objs
  BY RunnersEnclave DEF RInv, RaceInv, MonitorAgrees
<1>2. sm[ref[t]] \in {f, "gone"} \/ (f = "runnable" /\ sm[ref[t]] = "stopped")
  BY <1>1 DEF ExpectedOf, OcallKinds
<1>3. eid' = [eid EXCEPT ![t] = ref[t]]
  BY DEF SmEnter
<1>4. CASE sm[ref[t]] = f
  <2>1. /\ pc' = [pc EXCEPT ![t] = "in_sm"]
        /\ res' = [res EXCEPT ![t] = res[t]]
        /\ sm' = [sm EXCEPT ![ref[t]] = "running"]
    BY <1>1, <1>4 DEF SmEnter, RInv, TypeInv, TypeOK
  <2>2. "running" \in ExpectedOf(t)'
    BY <2>1 DEF ExpectedOf, RInv, TypeInv, TypeOK
  <2> QED
    BY <1>0, <1>3, <2>1, <2>2, LoopMoveRace
<1>5. CASE sm[ref[t]] # f
  <2>1. PICK r \in {"timer", "error"} :
          /\ pc' = [pc EXCEPT ![t] = "r_loop"]
          /\ res' = [res EXCEPT ![t] = r]
          /\ sm' = [sm EXCEPT ![ref[t]] = sm[ref[t]]]
          /\ r = "timer" => sm[ref[t]] = "stopped"
          /\ r = "error" => sm[ref[t]] = "gone"
    BY <1>1, <1>2, <1>5 DEF SmEnter, RInv, TypeInv, TypeOK
  <2>2. sm[ref[t]] \in ExpectedOf(t)'
    BY <2>1 DEF ExpectedOf, RInv, TypeInv, TypeOK, OcallKinds
  <2> QED
    BY <1>0, <1>3, <2>1, <2>2, LoopMoveRace
<1> QED
  BY <1>4, <1>5

\* The enclave traps back: the answer says what state the monitor left it in.
LEMMA SmReturnRace ==
    ASSUME RInv, NEW t \in Threads, SmReturn(t)
    PROVE  RaceInv'
<1>0. {"in_sm", "r_loop"} \subseteq LoopPcs
  BY DEF LoopPcs
<1>1. /\ pc[t] = "in_sm" /\ pc[t] \in LoopPcs
      /\ pc' = [pc EXCEPT ![t] = "r_loop"]
      /\ UNCHANGED <<bigLock, idr, objst, running, own, pend, ueid, ref, eid>>
  BY DEF SmReturn, LoopPcs, locks, heap, host
<1>2. eid[t] = ref[t] /\ ref[t] \in Objs
  BY <1>1, RunnersEid, RunnersEnclave
<1>3. PICK r \in Results, v \in SmStates :
         /\ \/ <<r, v>> \in {<<"timer", "runnable">>, <<"exit", "gone">>}
                               \cup {<<c, "ocall">> : c \in Ocalls}
            \/ r = "timer" /\ v \in {"stopped", "runnable"}
            \/ r = "exit" /\ v = "gone"
         /\ res' = [res EXCEPT ![t] = r]
         /\ sm' = [sm EXCEPT ![ref[t]] = v]
  <2>1. PICK r \in Results, v \in SmStates :
          /\ CASE sm[ref[t]] = "running" ->
                    <<r, v>> \in {<<"timer", "runnable">>, <<"exit", "gone">>}
                                     \cup {<<c, "ocall">> : c \in Ocalls}
               [] sm[ref[t]] \in {"stopped", "runnable"} ->
                    r = "timer" /\ v = sm[ref[t]]
               [] OTHER -> r = "exit" /\ v = "gone"
          /\ res' = [res EXCEPT ![t] = r]
          /\ sm' = [sm EXCEPT ![ref[t]] = v]
    BY <1>2 DEF SmReturn
  <2> QED
    BY <2>1
<1>4. v \in ExpectedOf(t)'
  BY <1>1, <1>3, DriverAssumption
     DEF ExpectedOf, OcallKinds, RInv, TypeInv, TypeOK
<1>5. eid' = [eid EXCEPT ![t] = ref[t]]
  BY <1>1, <1>2 DEF RInv, TypeInv, TypeOK
<1> QED
  BY <1>0, <1>1, <1>3, <1>4, <1>5, LoopMoveRace

\* Returning to the host from the run loop, with the handle dropped, or kept
\* for a custom OCALL that the enclave waits for.
LEMMA LoopReturnRace ==
    ASSUME RInv, NEW t \in Threads, pc[t] \in LoopPcs, Leave(t),
           \/ DropHandle(t)
           \/ /\ pend' = [pend EXCEPT ![t] = TRUE] /\ UNCHANGED own
              /\ sm[ref[t]] \in {"ocall", "gone"},
           UNCHANGED <<bigLock, idr, objst, running, sm>>
    PROVE  RaceInv'
<1> USE DEF RInv, TypeInv, TypeOK, RaceInv, Leave
<1>1. LockHeld' /\ RegistrySound'
  BY DEF LockHeld, RegistrySound, LoopPcs, CreatePcs
<1>2. CreatingUnregistered'
  BY DEF CreatingUnregistered, LoopPcs, CreatePcs
<1>3. HandlesUnique'
  BY DEF HandlesUnique, DropHandle
<1>4. RunsOnOwnHandle'
  BY DEF RunsOnOwnHandle, LoopPcs, DropHandle
<1>5. FlagSet'
  BY RunnersEnclave DEF FlagSet, LoopPcs, DropHandle
<1>6. MonitorAgrees'
  <2>1. ref[t] = idr[own[t]]
    BY RunnersEnclave
  <2>2. \A s \in Threads \ {t} :
           /\ pc'[s] = pc[s] /\ ref'[s] = ref[s] /\ eid'[s] = eid[s]
           /\ own'[s] = own[s] /\ pend'[s] = pend[s]
           /\ ExpectedOf(s)' = ExpectedOf(s)
    BY DEF DropHandle, ExpectedOf
  <2>3. pc'[t] \notin LoopPcs /\ pc'[t] # "c_idr"
    BY DEF LoopPcs
  <2>4. own'[t] # 0 => /\ own'[t] = own[t] /\ pend'[t]
                       /\ sm[idr[own[t]]] \in {"ocall", "gone"}
    BY <2>1 DEF DropHandle
  <2> QED
    BY <2>2, <2>3, <2>4 DEF MonitorAgrees
<1> QED
  BY <1>1, <1>2, <1>3, <1>4, <1>5, <1>6

-----------------------------------------------------------------------------
(* run and resume                                                          *)

\* The locked look-up.  A stale handle is refused; otherwise the caller is the
\* only thread that runs the enclave, and the flag is set before the lock is
\* released: run sets it, and an enclave to resume has it set.
LEMMA FindRace ==
    ASSUME RInv, NEW t \in Threads, RunLock(t) \/ ResumeLock(t)
    PROVE  RaceInv'
<1> USE DEF RInv, TypeInv, TypeOK, RaceInv
<1>1. PICK l \in {"r_copyin", "m_copyin"} :
         /\ FindEnclave(t, l) /\ pc[t] \in {"r_lock", "m_lock"}
         /\ l = "r_copyin" <=> pc[t] = "r_lock"
         /\ l = "r_copyin" =>
               running' = [o \in Objs |-> running[o] \/ o = Lookup(ueid[t])]
         /\ l = "m_copyin" => UNCHANGED running
  BY DEF RunLock, ResumeLock
<1>2. ueid[t] \in Ueids /\ ueid[t] = own[t] /\ own[t] # 0
  BY <1>1, DriverAssumption DEF RunsOnOwnHandle
<1>3. UNCHANGED <<bigLock, idr, objst, sm>>
  BY <1>1 DEF FindEnclave, locks
<1>4. CASE Lookup(ueid[t]) = NoObj
  <2>1. Leave(t) /\ DropHandle(t)
    BY <1>1, <1>4 DEF FindEnclave
  <2>2. UNCHANGED running
    BY <1>1, <1>4, DriverAssumption DEF RunLock, ResumeLock
  <2> USE DEF Leave, DropHandle
  <2>3. LockHeld' /\ RegistrySound'
    BY <1>1, <1>3, <2>1 DEF LockHeld, RegistrySound, CreatePcs
  <2>4. CreatingUnregistered'
    BY <1>1, <1>3, <2>1 DEF CreatingUnregistered, CreatePcs, LoopPcs
  <2>5. HandlesUnique' /\ RunsOnOwnHandle'
    BY <1>3, <2>1 DEF HandlesUnique, RunsOnOwnHandle, LoopPcs
  <2>6. FlagSet'
    BY <1>3, <2>1, <2>2 DEF FlagSet, LoopPcs
  <2>7. MonitorAgrees'
    BY <1>1, <1>3, <2>1 DEF MonitorAgrees, ExpectedOf, LoopPcs
  <2> QED
    BY <2>3, <2>4, <2>5, <2>6, <2>7
<1>5. CASE Lookup(ueid[t]) # NoObj
  <2>1. /\ ref' = [ref EXCEPT ![t] = idr[own[t]]]
        /\ eid' = [eid EXCEPT ![t] = idr[own[t]]]
        /\ pc' = [pc EXCEPT ![t] = l]
        /\ UNCHANGED <<ueid, res, own, pend>>
    BY <1>1, <1>2, <1>5 DEF FindEnclave, Lookup, host
  <2>2. idr[own[t]] \in Objs /\ idr[own[t]] # NoObj /\ Lookup(ueid[t]) = idr[own[t]]
    BY <1>2, <1>5 DEF Lookup
  <2>3. LockHeld' /\ RegistrySound' /\ HandlesUnique'
    BY <1>1, <1>3, <2>1 DEF LockHeld, RegistrySound, HandlesUnique, CreatePcs
  <2>4. CreatingUnregistered'
    BY <1>1, <1>3, <2>1 DEF CreatingUnregistered, CreatePcs, LoopPcs
  <2>5. RunsOnOwnHandle'
    BY <1>1, <1>2, <1>3, <2>1 DEF RunsOnOwnHandle, LoopPcs
  <2>6. FlagSet'
    <3>1. \A o \in Objs : running[o] => running'[o]
      BY <1>1
    <3>2. running'[idr[own[t]]]
      <4>1. CASE l = "r_copyin"
        BY <1>1, <2>2, <4>1
      <4>2. CASE l = "m_copyin"
        BY <1>1, <4>2 DEF FlagSet
      <4> QED
        BY <4>1, <4>2
    <3>3. ASSUME NEW s \in Threads, pend[s]
          PROVE  own[s] # 0 /\ idr[own[s]] # NoObj /\ running'[idr[own[s]]]
      BY <3>1, <3>3 DEF FlagSet
    <3>4. ASSUME NEW s \in Threads, pc'[s] \in LoopPcs
          PROVE  running'[ref'[s]]
      <4>1. CASE s = t
        BY <2>1, <3>2, <4>1
      <4>2. CASE s # t
        <5>1. pc[s] \in LoopPcs /\ ref'[s] = ref[s]
          BY <2>1, <3>4, <4>2
        <5> QED
          BY <3>1, <5>1 DEF FlagSet, RefsSet
      <4> QED
        BY <4>1, <4>2
    <3>5. \A s \in Threads : /\ pc'[s] = "m_lock" => pend[s]
                             /\ pc'[s] = "r_lock" => ~pend[s]
      BY <1>1, <2>1 DEF FlagSet
    <3> QED
      BY <1>3, <2>1, <3>3, <3>4, <3>5 DEF FlagSet
  <2>7. MonitorAgrees'
    <3>1. sm[idr[own[t]]] \in
             IF pend[t] THEN {"ocall", "gone"} ELSE {"fresh", "gone"}
      BY <1>1, <1>2, <2>2 DEF MonitorAgrees, LoopPcs
    <3>2. CASE sm[idr[own[t]]] \in ExpectedOf(t)'
      BY <1>1, <1>3, <2>1, <3>2 DEF MonitorAgrees, ExpectedOf, LoopPcs
    <3>3. sm[idr[own[t]]] \in ExpectedOf(t)'
      <4>1. CASE l = "r_copyin"
        BY <1>1, <2>1, <3>1, <4>1 DEF ExpectedOf, FlagSet
      <4>2. CASE l = "m_copyin"
        BY <1>1, <2>1, <3>1, <4>2 DEF ExpectedOf, FlagSet
      <4> QED
        BY <4>1, <4>2
    <3> QED
      BY <3>2, <3>3
  <2> QED
    BY <2>3, <2>4, <2>5, <2>6, <2>7
<1> QED
  BY <1>4, <1>5

\* Freeing a registered enclave together with its id, at the end of a run or
\* in a destroy: safe when no other thread runs it or is to resume it.  Other
\* threads may be left with a stale handle.
LEMMA FreeRace ==
    ASSUME RInv, NEW t \in Threads, pc[t] \in LoopPcs \cup {"d_free"},
           \A s \in Threads \ {t} : bigLock # s, bigLock' = NoThread,
           ref[t] # NoObj, DestroyEnclave(ref[t]), IdrRemove(ueid[t]), Leave(t),
           DropHandle(t) \/ (own[t] # ueid[t] /\ UNCHANGED <<own, pend>>),
           \A s \in Threads \ {t} :
              /\ pc[s] \in LoopPcs => ref[s] # ref[t]
              /\ pend[s] => idr[own[s]] # ref[t],
           UNCHANGED <<running, sm>>
    PROVE  RaceInv'
<1> USE DEF RInv, TypeInv, TypeOK, RaceInv
<1>1. /\ ueid[t] \in Ueids /\ ref[t] = idr[ueid[t]] /\ ref[t] \in Objs
      /\ objst[ref[t]] = "live"
  BY DEF RunsOnOwnHandle, RegistrySound
<1>2. objst' = [o \in Objs |-> IF o = ref[t] THEN "freed" ELSE objst[o]]
  BY <1>1 DEF DestroyEnclave, Freed
<1>3. idr' = [v \in Ueids |-> IF v = ueid[t] THEN NoObj ELSE idr[v]]
  BY DEF IdrRemove
<1>4. \A s \in Threads \ {t} :
         /\ pc'[s] = pc[s] /\ ref'[s] = ref[s] /\ ueid'[s] = ueid[s]
         /\ eid'[s] = eid[s] /\ own'[s] = own[s] /\ pend'[s] = pend[s]
         /\ ExpectedOf(s)' = ExpectedOf(s)
  BY DEF Leave, DropHandle, ExpectedOf
<1>5. pc'[t] = "idle" /\ ref'[t] = NoObj
  BY DEF Leave
<1>6. \/ own'[t] = 0 /\ ~pend'[t]
      \/ own'[t] = own[t] /\ pend'[t] = pend[t] /\ own[t] # ueid[t]
  BY DEF DropHandle
<1>7. \A s \in Threads \ {t} : pc[s] \notin CreatePcs \cup {"d_free"}
  BY DEF LockHeld
<1>8. \A s \in Threads \ {t} : pc[s] \in LoopPcs => ueid[s] # ueid[t]
  BY <1>1 DEF RunsOnOwnHandle
<1>9. \A s \in Threads : pend'[s] =>
         own'[s] = own[s] /\ pend[s] /\ own[s] # 0 /\ own[s] # ueid[t]
  BY <1>1, <1>4, <1>6 DEF FlagSet
<1>10. LockHeld'
  BY <1>4, <1>5, <1>7, DriverAssumption DEF LockHeld, CreatePcs
<1>11. RegistrySound'
  BY <1>1, <1>2, <1>3 DEF RegistrySound
<1>12. CreatingUnregistered'
  BY <1>4, <1>5, <1>7 DEF CreatingUnregistered, CreatePcs, LoopPcs
<1>13. HandlesUnique'
  BY <1>4, <1>6 DEF HandlesUnique
<1>14. RunsOnOwnHandle'
  BY <1>3, <1>4, <1>5, <1>7, <1>8 DEF RunsOnOwnHandle, LoopPcs
<1>15. FlagSet'
  <2>1. \A s \in Threads : pc'[s] \in LoopPcs \cup {"m_lock", "r_lock"} =>
           s # t
    BY <1>5 DEF LoopPcs
  <2>2. \A s \in Threads : pend'[s] =>
           own'[s] # 0 /\ idr'[own'[s]] # NoObj /\ running'[idr'[own'[s]]]
    BY <1>3, <1>9 DEF FlagSet
  <2> QED
    BY <1>4, <2>1, <2>2 DEF FlagSet
<1>16. MonitorAgrees'
  <2>1. \A s \in Threads : own'[s] # 0 =>
           own'[s] = own[s] /\ (idr'[own[s]] # NoObj => idr'[own[s]] = idr[own[s]])
    BY <1>3, <1>4, <1>6
  <2>2. ASSUME NEW s \in Threads, s # t
        PROVE  /\ pc'[s] \in LoopPcs =>
                     eid'[s] = ref'[s] /\ sm'[ref'[s]] \in ExpectedOf(s)'
               /\ pc'[s] \notin LoopPcs /\ own'[s] # 0 /\ idr'[own'[s]] # NoObj =>
                     sm'[idr'[own'[s]]] \in
                        {IF pend'[s] THEN "ocall" ELSE "fresh", "gone"}
               /\ pc'[s] = "c_idr" => sm'[ref'[s]] = "fresh"
    BY <1>4, <2>1, <2>2 DEF MonitorAgrees
  <2>3. own'[t] # 0 /\ idr'[own'[t]] # NoObj =>
           sm'[idr'[own'[t]]] \in
              {IF pend'[t] THEN "ocall" ELSE "fresh", "gone"}
    <3>1. CASE pc[t] \in LoopPcs
      BY <1>6, <3>1 DEF RunsOnOwnHandle
    <3>2. CASE pc[t] \notin LoopPcs
      BY <1>6, <2>1, <3>2 DEF MonitorAgrees
    <3> QED
      BY <3>1, <3>2
  <2>4. pc'[t] \notin LoopPcs /\ pc'[t] # "c_idr"
    BY <1>5 DEF LoopPcs
  <2> QED
    BY <2>2, <2>3, <2>4 DEF MonitorAgrees
<1> QED
  BY <1>10, <1>11, <1>12, <1>13, <1>14, <1>15, <1>16

LEMMA RunRace ==
    ASSUME RInv, NEW t \in Threads, RunStep(t)
    PROVE  RaceInv'
<1>1. CASE RunLock(t) \/ ResumeLock(t)
  BY <1>1, FindRace
<1>2. CASE CopyIn(t) \/ LoopExit(t) \/ CopyOut(t)
  <2>1. /\ pc[t] \in LoopPcs
        /\ UNCHANGED <<bigLock, idr, objst, running, own, pend, ueid, ref, res,
                       sm, eid>>
    BY <1>2 DEF CopyIn, LoopExit, CopyOut, Goto, locks, heap, host, LoopPcs
  <2>2. eid[t] = ref[t] /\ sm[ref[t]] \in ExpectedOf(t) /\ ref[t] \in Objs
    BY <2>1, RunnersEnclave DEF RInv, RaceInv, MonitorAgrees
  <2>3. PICK l \in LoopPcs :
          /\ pc' = [pc EXCEPT ![t] = l]
          /\ \/ l = "r_enter" /\ pc[t] = "r_copyin"
             \/ l = "m_enter" /\ pc[t] = "m_copyin"
             \/ l = "r_copyout" /\ pc[t] = "r_loop" /\ res[t] \in {"exit", "error"}
             \/ l = "r_relock" /\ pc[t] = "r_copyout"
    BY <1>2 DEF CopyIn, LoopExit, CopyOut, Goto, LoopPcs
  <2>4. sm[ref[t]] \in ExpectedOf(t)'
    BY <2>1, <2>2, <2>3 DEF ExpectedOf, OcallKinds, RInv, TypeInv, TypeOK
  <2>5. /\ res' = [res EXCEPT ![t] = res[t]]
        /\ sm' = [sm EXCEPT ![ref[t]] = sm[ref[t]]]
        /\ eid' = [eid EXCEPT ![t] = ref[t]]
    BY <2>1, <2>2 DEF RInv, TypeInv, TypeOK
  <2> QED
    BY <2>1, <2>3, <2>4, <2>5, LoopMoveRace
<1>3. CASE CopyInFail(t) \/ LoopUserOcallFail(t) \/ CopyOutFail(t)
  BY <1>3, LoopReturnRace DEF CopyInFail, LoopUserOcallFail, CopyOutFail,
       EarlyReturn, locks, heap, LoopPcs
<1>4. CASE LoopUserOcall(t)
  <2>1. /\ pc[t] = "r_loop" /\ pc[t] \in LoopPcs /\ res[t] = "user"
        /\ Leave(t) /\ pend' = [pend EXCEPT ![t] = TRUE] /\ UNCHANGED own
        /\ UNCHANGED <<bigLock, idr, objst, running, sm>>
    BY <1>4 DEF LoopUserOcall, locks, heap, LoopPcs
  <2>2. sm[ref[t]] \in {"ocall", "gone"}
    BY <2>1 DEF RInv, RaceInv, MonitorAgrees, ExpectedOf, OcallKinds
  <2> QED
    BY <2>1, <2>2, LoopReturnRace
<1>5. CASE RunEnter(t) \/ ResumeEnter(t) \/ LoopResume(t)
  <2>1. /\ pc[t] \in LoopPcs
        /\ UNCHANGED <<bigLock, idr, objst, running, own, pend, ueid, ref>>
    BY <1>5 DEF RunEnter, ResumeEnter, LoopResume, locks, heap, host, LoopPcs
  <2>2. EidOf(ref[t]) = {ref[t]} /\ eid[t] = ref[t]
    BY <2>1, RunnersEid
  <2>3. \/ pc[t] = "r_enter" /\ SmEnter(t, ref[t], "fresh")
        \/ pc[t] = "m_enter" /\ SmEnter(t, ref[t], "ocall")
        \/ pc[t] = "r_loop" /\ res[t] = "timer" /\ SmEnter(t, ref[t], "runnable")
        \/ /\ pc[t] = "r_loop" /\ res[t] \in OcallKinds
           /\ SmEnter(t, ref[t], "ocall")
    BY <1>5, <2>2 DEF RunEnter, ResumeEnter, LoopResume, OcallKinds
  <2> QED
    BY <2>1, <2>3, EnterRace
<1>6. CASE SmReturn(t)
  BY <1>6, SmReturnRace
<1>7. CASE RunFinish(t)
  <2>1. /\ pc[t] \in LoopPcs /\ bigLock = NoThread /\ bigLock' = NoThread
        /\ DestroyEnclave(ref[t]) /\ IdrRemove(ueid[t]) /\ Leave(t)
        /\ DropHandle(t) /\ UNCHANGED <<running, sm>>
    BY <1>7 DEF RunFinish, LoopPcs, locks, DestroyEnclave
  <2>2. /\ ref[t] # NoObj
        /\ \A s \in Threads \ {t} :
              /\ pc[s] \in LoopPcs => ref[s] # ref[t]
              /\ pend[s] => idr[own[s]] # ref[t]
    BY <2>1, RunnersEnclave DEF RInv, RaceInv, FlagSet
  <2> QED
    BY <2>1, <2>2, FreeRace, DriverAssumption
<1> QED
  BY <1>1, <1>2, <1>3, <1>4, <1>5, <1>6, <1>7 DEF RunStep

-----------------------------------------------------------------------------
(* create                                                                  *)

\* A step of create before its end: the new enclave stays out of the registry,
\* so what the monitor does with it concerns no handle and no runner.
LEMMA CreateMoveRace ==
    ASSUME RInv, NEW t \in Threads,
           \/ CreateArgs(t) \/ CreateLock(t) \/ CreateAlloc(t)
           \/ CreateAllocFail(t) \/ CreateMemInit(t) \/ CreateRelock(t)
           \/ CreateLoad(t) \/ CreateSbi(t)
    PROVE  RaceInv'
<1> USE DEF RInv, TypeInv, TypeOK, RaceInv
<1>1. PICK l \in (CreatePcs \ {"c_idr"}) \cup {"c_lock", "idle"} :
         /\ pc[t] \in CreatePcs \cup {"c_args", "c_lock"}
         /\ \/ pc' = [pc EXCEPT ![t] = l]
            \/ /\ pc' = [pc EXCEPT ![t] = "c_idr"]
               /\ ref[t] \in Objs /\ sm' = [sm EXCEPT ![ref[t]] = "fresh"]
               /\ UNCHANGED <<ref, objst>>
         /\ UNCHANGED <<idr, running, ueid, eid, res, own, pend>>
  <2>1. pc[t] = "c_sbi" => ref[t] \in Objs
    BY DEF RefsSet, CreatePcs
  <2> QED
    BY <2>1 DEF CreateArgs, CreateLock, CreateAlloc, CreateAllocFail,
         CreateMemInit, CreateRelock, CreateLoad, CreateSbi, Goto, CreatePcs,
         locks, heap, host
<1>2. pc[t] \notin LoopPcs /\ pc'[t] \notin LoopPcs
  BY <1>1 DEF LoopPcs, CreatePcs
<1>3. \A s \in Threads \ {t} : pc'[s] = pc[s] /\ ref'[s] = ref[s]
  BY <1>1 DEF CreateArgs, CreateLock, CreateAlloc, CreateAllocFail,
       CreateMemInit, CreateRelock, CreateLoad, CreateSbi
<1>4. \A s \in Threads \ {t} : ExpectedOf(s)' = ExpectedOf(s)
  BY <1>1, <1>3 DEF ExpectedOf
<1>5. LockHeld' /\ RegistrySound' /\ CreatingUnregistered'
  <2>1. CASE CreateAlloc(t)
    <3>1. PICK o \in Objs :
            /\ objst[o] = "unused" /\ objst' = [objst EXCEPT ![o] = "live"]
            /\ ref' = [ref EXCEPT ![t] = o]
            /\ pc[t] = "c_alloc" /\ pc' = [pc EXCEPT ![t] = "c_init"]
            /\ UNCHANGED <<bigLock, idr>>
      BY <2>1 DEF CreateAlloc, Goto, locks
    <3>2. \A u \in Ueids : idr[u] # o
      BY <3>1, DriverAssumption DEF RegistrySound
    <3>3. LockHeld' /\ RegistrySound'
      BY <3>1, <3>2 DEF LockHeld, RegistrySound, CreatePcs
    <3>4. CreatingUnregistered'
      BY <3>1, <3>2 DEF CreatingUnregistered, CreatePcs, LoopPcs
    <3> QED
      BY <3>3, <3>4
  <2>2. CASE CreateLock(t)
    <3>1. /\ pc[t] = "c_lock" /\ pc' = [pc EXCEPT ![t] = "c_alloc"]
          /\ bigLock = NoThread /\ bigLock' = t
          /\ UNCHANGED <<idr, objst, ref>>
      BY <2>2 DEF CreateLock, AcquireBigLock, Goto, heap
    <3>2. LockHeld' /\ RegistrySound'
      BY <3>1, DriverAssumption DEF LockHeld, RegistrySound, CreatePcs
    <3>3. CreatingUnregistered'
      BY <3>1 DEF CreatingUnregistered, CreatePcs, LoopPcs
    <3> QED
      BY <3>2, <3>3
  <2>3. CASE CreateArgs(t)
    <3>1. PICK k \in {"c_lock", "idle"} :
            /\ pc[t] = "c_args" /\ pc' = [pc EXCEPT ![t] = k]
            /\ UNCHANGED <<bigLock, idr, objst, ref>>
      BY <2>3 DEF CreateArgs, Goto, heap, locks
    <3>2. LockHeld' /\ RegistrySound' /\ CreatingUnregistered'
      BY <3>1 DEF LockHeld, RegistrySound, CreatingUnregistered, CreatePcs,
           LoopPcs
    <3> QED
      BY <3>2
  <2>4. CASE \/ CreateAllocFail(t) \/ CreateMemInit(t) \/ CreateRelock(t)
             \/ CreateLoad(t) \/ CreateSbi(t)
    <3>1. PICK k \in CreatePcs \ {"c_alloc"} :
            /\ pc[t] \in CreatePcs /\ pc' = [pc EXCEPT ![t] = k]
            /\ UNCHANGED <<bigLock, idr, objst, ref>>
      BY <2>4 DEF CreateAllocFail, CreateMemInit, CreateRelock, CreateLoad,
           CreateSbi, Goto, heap, locks, CreatePcs
    <3>2. LockHeld' /\ RegistrySound'
      BY <3>1 DEF LockHeld, RegistrySound
    <3>3. CreatingUnregistered'
      BY <3>1 DEF CreatingUnregistered, CreatePcs, LoopPcs
    <3> QED
      BY <3>2, <3>3
  <2> QED
    BY <2>1, <2>2, <2>3, <2>4
<1>6. HandlesUnique'
  BY <1>1 DEF HandlesUnique
<1>7. RunsOnOwnHandle'
  <2>1. pc'[t] \notin {"r_lock", "m_lock", "d_lock", "d_free"}
    BY <1>1 DEF CreatePcs
  <2> QED
    BY <1>1, <1>2, <1>3, <2>1 DEF RunsOnOwnHandle
<1>8. FlagSet'
  <2>1. pc'[t] \notin {"r_lock", "m_lock"}
    BY <1>1 DEF CreatePcs
  <2> QED
    BY <1>1, <1>2, <1>3, <2>1 DEF FlagSet
<1>9. MonitorAgrees'
  <2>1. ASSUME NEW o \in Objs, \E u \in Ueids : idr[u] = o
        PROVE  sm'[o] = sm[o]
    <3>1. CASE CreateAlloc(t)
      <4>1. PICK a \in Objs : objst[a] = "unused" /\ sm' = [sm EXCEPT ![a] = "mem"]
        BY <3>1 DEF CreateAlloc
      <4> QED
        BY <2>1, <4>1, DriverAssumption DEF RegistrySound
    <3>2. CASE CreateSbi(t)
      <4>1. pc[t] = "c_sbi" /\ (sm' = sm \/ sm' = [sm EXCEPT ![ref[t]] = "fresh"])
        BY <3>2 DEF CreateSbi, Goto
      <4>2. ref[t] # o
        BY <2>1, <4>1, DriverAssumption DEF CreatingUnregistered, CreatePcs
      <4> QED
        BY <4>1, <4>2
    <3>3. CASE \/ CreateArgs(t) \/ CreateLock(t) \/ CreateAllocFail(t)
               \/ CreateMemInit(t) \/ CreateRelock(t) \/ CreateLoad(t)
      BY <3>3 DEF CreateArgs, CreateLock, CreateAllocFail, CreateMemInit,
           CreateRelock, CreateLoad
    <3> QED
      BY <3>1, <3>2, <3>3
  <2>2. ASSUME NEW s \in Threads \ {t}, pc[s] \in LoopPcs
        PROVE  eid'[s] = ref'[s] /\ sm'[ref'[s]] \in ExpectedOf(s)'
    <3>1. ref[s] \in Objs /\ \E u \in Ueids : idr[u] = ref[s]
      BY <2>2, RunnersEnclave
    <3> QED
      BY <1>1, <1>3, <1>4, <2>1, <2>2, <3>1 DEF MonitorAgrees
  <2>3. ASSUME NEW s \in Threads, pc[s] \notin LoopPcs, own[s] # 0,
               idr[own[s]] # NoObj
        PROVE  sm'[idr[own[s]]] \in
                  {IF pend[s] THEN "ocall" ELSE "fresh", "gone"}
    BY <2>1, <2>3 DEF MonitorAgrees
  <2>4. ASSUME NEW s \in Threads, pc'[s] = "c_idr"
        PROVE  sm'[ref'[s]] = "fresh"
    <3>1. CASE s = t
      BY <1>1, <2>4, <3>1 DEF CreatePcs
    <3>2. CASE s # t
      <4>1. pc[s] \in CreatePcs /\ bigLock = s
        BY <1>3, <2>4, <3>2 DEF LockHeld, CreatePcs
      <4>2. pc[t] = "c_args"
        BY <3>2, <4>1, DriverAssumption
           DEF LockHeld, CreatePcs, CreateArgs, CreateLock, CreateAlloc,
               CreateAllocFail, CreateMemInit, CreateRelock, CreateLoad,
               CreateSbi, Goto, AcquireBigLock
      <4>3. UNCHANGED sm
        BY <4>2 DEF CreateArgs, CreateLock, CreateAlloc, CreateAllocFail,
             CreateMemInit, CreateRelock, CreateLoad, CreateSbi, Goto
      <4> QED
        BY <1>3, <2>4, <3>2, <4>3 DEF MonitorAgrees
    <3> QED
      BY <3>1, <3>2
  <2> QED
    BY <1>1, <1>2, <1>3, <2>2, <2>3, <2>4 DEF MonitorAgrees
<1> QED
  BY <1>5, <1>6, <1>7, <1>8, <1>9

\* The end of create: the enclave gets an id nobody holds, so the new handle
\* is unique, and is_running is cleared on an enclave nobody can be running.
LEMMA CreateFinishRace ==
    ASSUME RInv, FreshStep, NEW t \in Threads, CreateFinish(t)
    PROVE  RaceInv'
<1> USE DEF RInv, TypeInv, TypeOK, RaceInv
<1>1. /\ pc[t] = "c_idr" /\ bigLock' = NoThread /\ Leave(t)
      /\ running' = [running EXCEPT ![ref[t]] = FALSE]
      /\ pend' = [pend EXCEPT ![t] = FALSE]
      /\ UNCHANGED <<objst, sm>>
  BY DEF CreateFinish
<1>2. PICK u \in Ueids \cup {0}, h \in Ueids \cup {0} :
         /\ h \in {u, 0}
         /\ IdrAlloc(ref[t], u)
         /\ own' = [own EXCEPT ![t] = h]
  BY DEF CreateFinish
<1>3. /\ ref[t] \in Objs /\ objst[ref[t]] = "live" /\ sm[ref[t]] = "fresh"
      /\ \A v \in Ueids : idr[v] # ref[t]
  BY <1>1 DEF CreatingUnregistered, RefsSet, MonitorAgrees, CreatePcs
<1>4. \A s \in Threads \ {t} :
         /\ pc'[s] = pc[s] /\ ref'[s] = ref[s] /\ ueid'[s] = ueid[s]
         /\ eid'[s] = eid[s] /\ own'[s] = own[s] /\ pend'[s] = pend[s]
         /\ ExpectedOf(s)' = ExpectedOf(s)
         /\ pc[s] \notin CreatePcs \cup {"d_free"}
  <2>1. bigLock = t
    BY <1>1 DEF LockHeld, CreatePcs
  <2> QED
    BY <1>1, <1>2, <2>1 DEF Leave, ExpectedOf, LockHeld
<1>5. \/ u = 0 /\ idr' = idr
      \/ u \in Ueids /\ idr[u] = NoObj /\ idr' = [idr EXCEPT ![u] = ref[t]]
  BY <1>2 DEF IdrAlloc
<1>6. /\ \A v \in Ueids : v # u => idr'[v] = idr[v]
      /\ u # 0 => idr'[u] = ref[t] /\ u \in Ueids
  BY <1>5, DriverAssumption
<1>7. \A s \in Threads : own[s] # 0 => own[s] # u
  <2>1. CASE u = 0
    BY <2>1
  <2>2. CASE u # 0
    BY <1>3, <1>5, <1>6, <2>2, DriverAssumption DEF FreshStep
  <2> QED
    BY <2>1, <2>2
<1>8. /\ pc'[t] = "idle" /\ ref'[t] = NoObj /\ own'[t] = h /\ ~pend'[t]
  BY <1>1, <1>2 DEF Leave
<1>9. LockHeld'
  BY <1>1, <1>4, <1>8, DriverAssumption DEF LockHeld, CreatePcs
<1>10. RegistrySound'
  BY <1>1, <1>3, <1>5, DriverAssumption DEF RegistrySound
<1>11. CreatingUnregistered'
  BY <1>4, <1>8 DEF CreatingUnregistered, CreatePcs, LoopPcs
<1>12. HandlesUnique'
  <2>1. \A s \in Threads \ {t} : own'[s] # 0 => own'[s] # own'[t]
    BY <1>2, <1>4, <1>7, <1>8
  <2> QED
    BY <1>4, <2>1 DEF HandlesUnique
<1>13. ASSUME NEW s \in Threads \ {t}, own[s] # 0
       PROVE  own[s] \in Ueids /\ idr'[own[s]] = idr[own[s]] /\ idr[own[s]] # ref[t]
  BY <1>3, <1>6, <1>7, <1>13
<1>14. RunsOnOwnHandle'
  <2>1. \A s \in Threads \ {t} : pc[s] \in LoopPcs => own[s] # 0 /\ ueid[s] = own[s]
    BY DriverAssumption DEF RunsOnOwnHandle
  <2> QED
    BY <1>4, <1>8, <1>13, <2>1 DEF RunsOnOwnHandle, LoopPcs
<1>15. FlagSet'
  <2>1. \A o \in Objs : o # ref[t] => running'[o] = running[o]
    BY <1>1
  <2>2. ASSUME NEW s \in Threads \ {t}, pc[s] \in LoopPcs
        PROVE  running'[ref[s]]
    <3>1. ref[s] \in Objs /\ ref[s] # ref[t]
      BY <1>3, <2>2, RunnersEnclave
    <3> QED
      BY <2>1, <2>2, <3>1 DEF FlagSet
  <2>3. ASSUME NEW s \in Threads \ {t}, pend[s]
        PROVE  own[s] # 0 /\ idr'[own[s]] # NoObj /\ running'[idr'[own[s]]]
    BY <1>13, <2>1, <2>3 DEF FlagSet
  <2>4. pc'[t] \notin LoopPcs \cup {"m_lock", "r_lock"}
    BY <1>8 DEF LoopPcs
  <2> QED
    BY <1>4, <1>8, <2>2, <2>3, <2>4 DEF FlagSet
<1>16. MonitorAgrees'
  <2>1. ASSUME NEW s \in Threads, s # t
        PROVE  /\ pc'[s] \in LoopPcs =>
                     eid'[s] = ref'[s] /\ sm'[ref'[s]] \in ExpectedOf(s)'
               /\ pc'[s] \notin LoopPcs /\ own'[s] # 0 /\ idr'[own'[s]] # NoObj =>
                     sm'[idr'[own'[s]]] \in
                        {IF pend'[s] THEN "ocall" ELSE "fresh", "gone"}
               /\ pc'[s] # "c_idr"
    <3>1. /\ pc[s] \in LoopPcs => eid[s] = ref[s] /\ sm[ref[s]] \in ExpectedOf(s)
          /\ pc[s] \notin LoopPcs /\ own[s] # 0 /\ idr[own[s]] # NoObj =>
                sm[idr[own[s]]] \in
                   {IF pend[s] THEN "ocall" ELSE "fresh", "gone"}
      BY DEF MonitorAgrees
    <3>2. pc[s] # "c_idr"
      BY <1>4, <2>1 DEF CreatePcs
    <3> QED
      BY <1>1, <1>4, <1>13, <2>1, <3>1, <3>2
  <2>2. own'[t] # 0 => sm'[idr'[own'[t]]] = "fresh"
    BY <1>1, <1>2, <1>3, <1>6, <1>8
  <2>3. pc'[t] \notin LoopPcs /\ pc'[t] # "c_idr"
    BY <1>8 DEF LoopPcs
  <2> QED
    BY <1>8, <2>1, <2>2, <2>3 DEF MonitorAgrees
<1> QED
  BY <1>9, <1>10, <1>11, <1>12, <1>14, <1>15, <1>16

\* A failed create frees an enclave that was never registered.
LEMMA CreateFailRace ==
    ASSUME RInv, NEW t \in Threads, CreateFail(t)
    PROVE  RaceInv'
<1> USE DEF RInv, TypeInv, TypeOK, RaceInv
<1>1. /\ pc[t] = "c_fail" /\ bigLock' = NoThread /\ Leave(t)
      /\ UNCHANGED <<idr, sm, own, pend, running>>
  BY DEF CreateFail, host, heap, DestroyEnclave
<1>2. \A s \in Threads \ {t} :
         /\ pc'[s] = pc[s] /\ ref'[s] = ref[s] /\ ueid'[s] = ueid[s]
         /\ eid'[s] = eid[s] /\ ExpectedOf(s)' = ExpectedOf(s)
         /\ pc[s] \notin CreatePcs \cup {"d_free"}
  <2>1. bigLock = t
    BY <1>1 DEF LockHeld, CreatePcs
  <2> QED
    BY <1>1, <2>1 DEF Leave, ExpectedOf, LockHeld
<1>3. pc'[t] = "idle" /\ ref'[t] = NoObj /\ pc[t] \notin LoopPcs
  BY <1>1 DEF Leave, LoopPcs
<1>4. \A u \in Ueids : idr[u] # NoObj => objst'[idr[u]] = objst[idr[u]]
  <2>1. CASE ref[t] = NoObj
    BY <2>1 DEF CreateFail, heap
  <2>2. CASE ref[t] # NoObj
    <3>1. objst[ref[t]] = "live" /\ \A u \in Ueids : idr[u] # ref[t]
      BY <1>1, <2>2 DEF CreatingUnregistered, CreatePcs
    <3>2. objst' = [o \in Objs |-> IF o = ref[t] THEN "freed" ELSE objst[o]]
      BY <2>2, <3>1 DEF CreateFail, DestroyEnclave, Freed
    <3> QED
      BY <3>1, <3>2
  <2> QED
    BY <2>1, <2>2
<1>5. LockHeld'
  BY <1>1, <1>2, <1>3, DriverAssumption DEF LockHeld, CreatePcs
<1>6. RegistrySound' /\ HandlesUnique'
  BY <1>1, <1>4 DEF RegistrySound, HandlesUnique
<1>7. CreatingUnregistered'
  BY <1>2, <1>3 DEF CreatingUnregistered, CreatePcs, LoopPcs
<1>8. RunsOnOwnHandle'
  BY <1>1, <1>2, <1>3 DEF RunsOnOwnHandle, LoopPcs
<1>9. FlagSet'
  BY <1>1, <1>2, <1>3 DEF FlagSet, LoopPcs
<1>10. MonitorAgrees'
  BY <1>1, <1>2, <1>3 DEF MonitorAgrees, LoopPcs, CreatePcs
<1> QED
  BY <1>5, <1>6, <1>7, <1>8, <1>9, <1>10

-----------------------------------------------------------------------------
(* stop, attest and destroy, by any thread                                 *)

\* The states the monitor can leave an enclave in when a thread other than its
\* runner stops, unstops or destroys it are ones its runner expects anyway.
LEMMA OutsideRace ==
    ASSUME RInv, NEW u,
           \/ UNCHANGED sm
           \/ /\ Lookup(u) # NoObj
              /\ SmStop(Lookup(u)) \/ SmUnstop(Lookup(u)) \/ SmDestroy(Lookup(u))
    PROVE  /\ \A t \in Threads : pc[t] \in LoopPcs => sm'[ref[t]] \in ExpectedOf(t)
           /\ \A t \in Threads :
                 pc[t] \notin LoopPcs /\ own[t] # 0 /\ idr[own[t]] # NoObj =>
                    sm'[idr[own[t]]] \in
                       {IF pend[t] THEN "ocall" ELSE "fresh", "gone"}
           /\ \A t \in Threads : pc[t] = "c_idr" => sm'[ref[t]] = "fresh"
<1> DEFINE Expectations ==
       {{"fresh", "gone"}, {"ocall", "gone"}, {"gone"},
        {"running", "stopped", "runnable", "dying", "gone"},
        {"runnable", "stopped", "gone"}}
<1>1. \A o \in Objs, E \in Expectations : sm[o] \in E => sm'[o] \in E
  <2> SUFFICES ASSUME NEW o \in Objs, NEW E \in Expectations, sm[o] \in E
               PROVE  sm'[o] \in E
    OBVIOUS
  <2>1. CASE UNCHANGED sm
    BY <2>1
  <2>2. CASE /\ Lookup(u) # NoObj
             /\ SmStop(Lookup(u)) \/ SmUnstop(Lookup(u)) \/ SmDestroy(Lookup(u))
    <3>1. \/ sm'[o] = sm[o]
          \/ sm'[o] = "stopped" /\ sm[o] \in {"running", "runnable"}
          \/ sm'[o] = "runnable" /\ sm[o] = "stopped"
          \/ sm'[o] = "dying" /\ sm[o] \in {"running", "dying"}
          \/ sm'[o] = "gone"
      BY <2>2 DEF SmStop, SmUnstop, SmDestroy, RInv, TypeInv, TypeOK
    <3> QED
      BY <3>1
  <2> QED
    BY <2>1, <2>2
<1>2. ASSUME NEW t \in Threads, pc[t] \in LoopPcs
      PROVE  sm'[ref[t]] \in ExpectedOf(t)
  <2>1. ref[t] \in Objs /\ sm[ref[t]] \in ExpectedOf(t)
    BY <1>2, RunnersEnclave DEF RInv, RaceInv, MonitorAgrees
  <2>2. ExpectedOf(t) \in Expectations
    BY DEF ExpectedOf
  <2> QED
    BY <1>1, <2>1, <2>2
<1>3. ASSUME NEW t \in Threads, pc[t] \notin LoopPcs, own[t] # 0,
             idr[own[t]] # NoObj
      PROVE  sm'[idr[own[t]]] \in {IF pend[t] THEN "ocall" ELSE "fresh", "gone"}
  <2>1. /\ idr[own[t]] \in Objs
        /\ sm[idr[own[t]]] \in {IF pend[t] THEN "ocall" ELSE "fresh", "gone"}
    BY <1>3 DEF RInv, TypeInv, TypeOK, RaceInv, MonitorAgrees
  <2>2. CASE pend[t]
    BY <1>1, <2>1, <2>2
  <2>3. CASE ~pend[t]
    BY <1>1, <2>1, <2>3
  <2> QED
    BY <2>2, <2>3
<1>4. ASSUME NEW t \in Threads, pc[t] = "c_idr"
      PROVE  sm'[ref[t]] = "fresh"
  <2>1. sm[ref[t]] = "fresh" /\ (Lookup(u) # NoObj => ref[t] # Lookup(u))
    BY <1>4, RegisteredEid DEF RInv, RaceInv, MonitorAgrees, CreatePcs
  <2>2. ref[t] \in Objs
    BY <1>4 DEF RInv, TypeInv, TypeOK, RefsSet, CreatePcs
  <2> QED
    BY <2>1, <2>2 DEF SmStop, SmUnstop, SmDestroy, RInv, TypeInv, TypeOK
<1> QED
  BY <1>2, <1>3, <1>4

\* A handler that looks an enclave up, tells the monitor and returns, all under
\* the lock.
LEMMA ReturnRace ==
    ASSUME RInv, NEW t \in Threads, NEW u, Leave(t),
           pc[t] \in {"s_lock", "u_lock", "a_lock"},
           UNCHANGED <<bigLock, idr, objst, running, own, pend>>,
           \/ UNCHANGED sm
           \/ /\ Lookup(u) # NoObj
              /\ SmStop(Lookup(u)) \/ SmUnstop(Lookup(u)) \/ SmDestroy(Lookup(u))
    PROVE  RaceInv'
<1>1. pc[t] \notin LoopPcs \cup CreatePcs \cup {"d_free"}
  BY DEF LoopPcs, CreatePcs
<1>2. /\ pc'[t] = "idle" /\ ref'[t] = NoObj
      /\ \A s \in Threads \ {t} :
            /\ pc'[s] = pc[s] /\ ref'[s] = ref[s] /\ ueid'[s] = ueid[s]
            /\ eid'[s] = eid[s] /\ ExpectedOf(s)' = ExpectedOf(s)
  BY DEF Leave, ExpectedOf, RInv, TypeInv, TypeOK
<1>3. /\ \A s \in Threads : pc[s] \in LoopPcs => sm'[ref[s]] \in ExpectedOf(s)
      /\ \A s \in Threads :
            pc[s] \notin LoopPcs /\ own[s] # 0 /\ idr[own[s]] # NoObj =>
               sm'[idr[own[s]]] \in
                  {IF pend[s] THEN "ocall" ELSE "fresh", "gone"}
      /\ \A s \in Threads : pc[s] = "c_idr" => sm'[ref[s]] = "fresh"
  BY OutsideRace
<1> USE DEF RInv, RaceInv
<1>4. LockHeld' /\ RegistrySound' /\ HandlesUnique'
  BY <1>1, <1>2 DEF LockHeld, RegistrySound, HandlesUnique, CreatePcs
<1>5. CreatingUnregistered'
  BY <1>2 DEF CreatingUnregistered, CreatePcs, LoopPcs
<1>6. RunsOnOwnHandle' /\ FlagSet'
  BY <1>2 DEF RunsOnOwnHandle, FlagSet, LoopPcs
<1>7. MonitorAgrees'
  BY <1>1, <1>2, <1>3 DEF MonitorAgrees, LoopPcs
<1> QED
  BY <1>4, <1>5, <1>6, <1>7

LEMMA ShortRace ==
    ASSUME RInv, NEW t \in Threads, ShortStep(t)
    PROVE  RaceInv'
<1>1. CASE Stop(t) \/ Unstop(t) \/ Attest(t)
  <2>1. /\ pc[t] \in {"s_lock", "u_lock", "a_lock"} /\ Leave(t)
        /\ UNCHANGED <<bigLock, idr, objst, running, own, pend>>
    BY <1>1 DEF Stop, Unstop, Attest, locks, heap, host
  <2>2. \/ UNCHANGED sm
        \/ /\ Lookup(ueid[t]) # NoObj
           /\ SmStop(Lookup(ueid[t])) \/ SmUnstop(Lookup(ueid[t]))
    BY <1>1, RegisteredEid DEF Stop, Unstop, Attest
  <2> QED
    BY <2>1, <2>2, ReturnRace
<1>2. CASE DestroyLock(t)
  <2>1. /\ pc[t] = "d_lock" /\ bigLock = NoThread /\ bigLock' = t
        /\ ref' = [ref EXCEPT ![t] = Lookup(ueid[t])]
        /\ pc' = [pc EXCEPT ![t] = "d_free"]
        /\ UNCHANGED <<idr, objst, running, ueid, eid, res, own, pend>>
    BY <1>2 DEF DestroyLock, AcquireBigLock, heap, host
  <2>2. \/ UNCHANGED sm
        \/ Lookup(ueid[t]) # NoObj /\ SmDestroy(Lookup(ueid[t]))
    BY <1>2, RegisteredEid DEF DestroyLock
  <2>3. /\ \A s \in Threads : pc[s] \in LoopPcs => sm'[ref[s]] \in ExpectedOf(s)
        /\ \A s \in Threads :
              pc[s] \notin LoopPcs /\ own[s] # 0 /\ idr[own[s]] # NoObj =>
                 sm'[idr[own[s]]] \in
                    {IF pend[s] THEN "ocall" ELSE "fresh", "gone"}
        /\ \A s \in Threads : pc[s] = "c_idr" => sm'[ref[s]] = "fresh"
    BY <2>2, OutsideRace
  <2> USE DEF RInv, TypeInv, TypeOK, RaceInv
  <2>4. ueid[t] \in Ueids /\ Lookup(ueid[t]) = idr[ueid[t]]
    BY <2>1 DEF RunsOnOwnHandle, Lookup
  <2>5. \A s \in Threads \ {t} :
           pc'[s] = pc[s] /\ ref'[s] = ref[s] /\ ExpectedOf(s)' = ExpectedOf(s)
    BY <2>1 DEF ExpectedOf
  <2>6. LockHeld'
    BY <2>1, DriverAssumption DEF LockHeld
  <2>7. RegistrySound' /\ HandlesUnique'
    BY <2>1 DEF RegistrySound, HandlesUnique
  <2>8. CreatingUnregistered'
    BY <2>1 DEF CreatingUnregistered, CreatePcs
  <2>9. RunsOnOwnHandle' /\ FlagSet'
    BY <2>1, <2>4, <2>5 DEF RunsOnOwnHandle, FlagSet, LoopPcs
  <2>10. MonitorAgrees'
    <3>1. pc[t] \notin LoopPcs /\ pc'[t] \notin LoopPcs /\ pc'[t] # "c_idr"
      BY <2>1 DEF LoopPcs
    <3> QED
      BY <2>1, <2>3, <2>5, <3>1 DEF MonitorAgrees
  <2> QED
    BY <2>6, <2>7, <2>8, <2>9, <2>10
<1>3. CASE DestroyFinish(t)
  <2>1. /\ pc[t] = "d_free" /\ bigLock' = NoThread /\ Leave(t) /\ UNCHANGED sm
        /\ bigLock = t
        /\ \/ own[t] = ueid[t] /\ DropHandle(t)
           \/ own[t] # ueid[t] /\ UNCHANGED <<own, pend>>
    BY <1>3 DEF DestroyFinish, host, RInv, RaceInv, LockHeld
  <2>2. CASE ref[t] # NoObj /\ ~running[ref[t]]
    <3>1. /\ DestroyEnclave(ref[t]) /\ IdrRemove(ueid[t]) /\ UNCHANGED running
      BY <1>3, <2>2 DEF DestroyFinish, DestroyEnclave
    <3>2. \A s \in Threads \ {t} :
             /\ pc[s] \in LoopPcs => ref[s] # ref[t]
             /\ pend[s] => idr[own[s]] # ref[t]
      BY <2>2 DEF RInv, RaceInv, FlagSet
    <3> QED
      BY <2>1, <2>2, <3>1, <3>2, FreeRace
  <2>3. CASE ~(ref[t] # NoObj /\ ~running[ref[t]])
    <3> USE DEF RInv, TypeInv, TypeOK, RaceInv
    <3>1. UNCHANGED <<idr, objst, running>>
      BY <1>3, <2>3 DEF DestroyFinish, heap
    <3>2. /\ pc'[t] = "idle" /\ ref'[t] = NoObj
          /\ \A s \in Threads \ {t} :
                /\ pc'[s] = pc[s] /\ ref'[s] = ref[s] /\ ueid'[s] = ueid[s]
                /\ eid'[s] = eid[s] /\ own'[s] = own[s] /\ pend'[s] = pend[s]
                /\ ExpectedOf(s)' = ExpectedOf(s)
                /\ pc[s] \notin CreatePcs \cup {"d_free"}
      BY <2>1 DEF Leave, DropHandle, ExpectedOf, LockHeld
    <3>3. \/ own'[t] = 0 /\ ~pend'[t]
          \/ own'[t] = own[t] /\ pend'[t] = pend[t]
      BY <2>1 DEF DropHandle
    <3>4. pc[t] \notin LoopPcs /\ pc'[t] \notin LoopPcs
      BY <2>1, <3>2 DEF LoopPcs
    <3>5. LockHeld'
      BY <2>1, <3>2, DriverAssumption DEF LockHeld, CreatePcs
    <3>6. RegistrySound' /\ HandlesUnique'
      BY <3>1, <3>2, <3>3 DEF RegistrySound, HandlesUnique
    <3>7. CreatingUnregistered'
      BY <3>1, <3>2 DEF CreatingUnregistered, CreatePcs, LoopPcs
    <3>8. RunsOnOwnHandle'
      BY <3>1, <3>2, <3>4 DEF RunsOnOwnHandle
    <3>9. FlagSet'
      BY <3>1, <3>2, <3>3, <3>4 DEF FlagSet
    <3>10. MonitorAgrees'
      BY <2>1, <3>1, <3>2, <3>3, <3>4 DEF MonitorAgrees
    <3> QED
      BY <3>5, <3>6, <3>7, <3>8, <3>9, <3>10
  <2> QED
    BY <2>2, <2>3
<1> QED
  BY <1>1, <1>2, <1>3 DEF ShortStep

-----------------------------------------------------------------------------

\* RaceInv is inductive for hosts whose enclaves are run by their creators, as
\* long as no id is handed out again while a host holds it.
THEOREM RaceInvariant == Disciplined /\ Spec /\ FreshIds => [](TypeOK /\ RaceInv)
<1> SUFFICES ASSUME Disciplined
             PROVE  Spec /\ FreshIds => [](TypeOK /\ RaceInv)
  OBVIOUS
<1>1. Init => RaceInv
  BY DriverAssumption DEF Init, RaceInv, LockHeld, RegistrySound, HandlesUnique,
       CreatingUnregistered, RunsOnOwnHandle, FlagSet, MonitorAgrees, LoopPcs,
       CreatePcs
<1>2. TypeInv /\ RaceInv /\ [Next]_vars /\ [FreshStep]_vars => RaceInv'
  <2> SUFFICES ASSUME RInv, [Next]_vars, [FreshStep]_vars PROVE RaceInv'
    BY DEF RInv, Disciplined
  <2>1. CASE UNCHANGED vars
    BY <2>1 DEF vars, RInv, RaceInv, LockHeld, RegistrySound, HandlesUnique,
         CreatingUnregistered, RunsOnOwnHandle, FlagSet, MonitorAgrees, ExpectedOf
  <2>2. CASE Next /\ FreshStep
    <3>1. PICK t \in Threads : Calls(t) \/ Step(t)
      BY <2>2 DEF Next
    <3>2. CASE CreateStep(t)
      BY <2>2, <3>2, CreateMoveRace, CreateFinishRace, CreateFailRace
         DEF CreateStep
    <3> QED
      BY <3>1, <3>2, CallsRace, RunRace, ShortRace DEF Step
  <2> QED
    BY <2>1, <2>2
<1> QED
  BY <1>1, <1>2, TypeCorrect, PTL DEF Spec, FreshIds, TypeInv

\* What the invariant gives the run loop.
LEMMA RaceSafe ==
    ASSUME Disciplined, TypeOK, RefsSet, RaceInv
    PROVE  /\ RegistrySound /\ NoUseAfterFree /\ FinishesOwnEntry
           /\ RunningFlagCovers /\ LoopExitsOnlyWhenEnded
<1>1. RInv
  BY DEF RInv, TypeInv, Disciplined
<1>2. \A t \in Threads : pc[t] \in LoopPcs =>
         /\ objst[ref[t]] = "live" /\ Lookup(ueid[t]) = ref[t]
         /\ running[ref[t]]
  BY <1>1, RunnersEnclave DEF RaceInv, FlagSet, Lookup
<1>3. LoopExitsOnlyWhenEnded
  BY DEF RaceInv, MonitorAgrees, ExpectedOf, LoopExitsOnlyWhenEnded, LoopPcs
<1> QED
  BY <1>2, <1>3 DEF RaceInv, NoUseAfterFree, FinishesOwnEntry, RunningFlagCovers

\* Any thread may destroy any enclave at any time: is_running keeps destroy
\* from freeing what a run loop holds, the end of a run unregisters its own
\* enclave, and the registry never yields a freed one, unless an id is handed
\* out again while a host still holds it.
THEOREM SharedDestroySafe ==
    Disciplined /\ Spec /\ FreshIds =>
        [](RegistrySound /\ NoUseAfterFree /\ FinishesOwnEntry /\ RunningFlagCovers)
<1> SUFFICES ASSUME Disciplined
             PROVE  Spec /\ FreshIds =>
                      [](RegistrySound /\ NoUseAfterFree /\ FinishesOwnEntry
                           /\ RunningFlagCovers)
  OBVIOUS
<1>1. TypeOK /\ RefsSet /\ RaceInv =>
        RegistrySound /\ NoUseAfterFree /\ FinishesOwnEntry /\ RunningFlagCovers
  BY RaceSafe
<1> QED
  BY <1>1, RaceInvariant, TypeCorrect, PTL

\* "It will only exit when either: 1. the enclave is finished and invoke
\* exit_enclave 2. destroy_enclave is invoked" (penglai-enclave-ioctl.c:327):
\* under the same hypotheses the loop is left only when the monitor has torn
\* the enclave down; no refusal of a resume ends a live enclave.
THEOREM LoopEndsWithEnclave ==
    Disciplined /\ Spec /\ FreshIds => []LoopExitsOnlyWhenEnded
<1> SUFFICES ASSUME Disciplined
             PROVE  Spec /\ FreshIds => []LoopExitsOnlyWhenEnded
  OBVIOUS
<1>1. TypeOK /\ RefsSet /\ RaceInv => LoopExitsOnlyWhenEnded
  BY RaceSafe
<1> QED
  BY <1>1, RaceInvariant, TypeCorrect, PTL

\* Hosts that destroy only their own enclaves need no such luck with ids: every
\* handle they hold is registered, so none of them can be handed out again.
THEOREM OwnersReuseNothing == Owned /\ Spec => FreshIds
<1> SUFFICES ASSUME Owned PROVE Spec => FreshIds
  OBVIOUS
<1>1. TypeOK /\ OwnerInv => [FreshStep]_vars
  BY DriverAssumption DEF OwnerInv, HandlesValid, FreshStep
<1> QED
  BY <1>1, OwnerInvariant, PTL DEF FreshIds

\* So for them is_running covers the run loop, and the loop is left only when
\* the enclave has ended, without any hypothesis on ids.
COROLLARY OwnersRunToTheEnd ==
    Owned /\ Spec => [](RunningFlagCovers /\ LoopExitsOnlyWhenEnded)
<1>1. Owned => Disciplined
  BY DEF Owned
<1> QED
  BY <1>1, OwnersReuseNothing, SharedDestroySafe, LoopEndsWithEnclave, PTL
=============================================================================
