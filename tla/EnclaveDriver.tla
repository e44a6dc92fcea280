--------------------------- MODULE EnclaveDriver ---------------------------
(***************************************************************************)
(* The ioctl core of the Penglai Linux driver                              *)
(* (penglai-enclave-ioctl.c, penglai-enclave.c): threads that create, run, *)
(* resume, stop, attest and destroy enclaves under one big lock, with the  *)
(* run loop outside it.                                                    *)
(*                                                                         *)
(* An action is the code between two points where another thread can       *)
(* interfere: a lock acquired or released, or a call into the secure       *)
(* monitor.  idr_enclave_lock is taken and released inside each of the     *)
(* three idr helpers, so each helper is one step of its caller.            *)
(***************************************************************************)
EXTENDS Naturals, FiniteSets

CONSTANTS
    Threads,       \* host threads that issue ioctls
    Objs,          \* enclave_t allocations; one is never handed out twice
    Ueids,         \* the ids idr_alloc may return, ENCLAVE_IDR_MIN ..
    NoThread,      \* a free lock
    NoObj,         \* a NULL enclave_t pointer
    Faults,        \* which failures the environment may produce
    Ocalls,        \* which OCALLs the enclaves make
    SingleRunner,  \* only an enclave's creator runs and resumes it
    SharedDestroy, \* a thread may destroy an enclave it does not own
    KeepHandles    \* a host goes on using an eid after a call on it has failed
                   \* or its enclave has ended

\* "args": the ELF or the sizes are refused; "alloc": no kernel or secure
\* memory; "load": the ELF header cannot be read; "sbi": CREATE is refused;
\* "user": copy_from_user/copy_to_user fail or a buffer size is too large.
FaultKinds == {"args", "alloc", "load", "sbi", "user"}

OcallKinds == {"write", "user", "other"}

ASSUME DriverAssumption ==
    /\ NoThread \notin Threads
    /\ NoObj \notin Objs
    /\ Ueids \subseteq Nat \ {0}
    /\ Faults \subseteq FaultKinds
    /\ Ocalls \subseteq OcallKinds
    /\ SingleRunner \in BOOLEAN
    /\ SharedDestroy \in BOOLEAN
    /\ KeepHandles \in BOOLEAN

VARIABLES
    bigLock,  \* enclave_big_lock: its holder
    kmLock,   \* kmalloc_enclave_lock: its holder
    idr,      \* idr_enclave: ueid -> enclave_t pointer
    objst,    \* "unused", "live" (kmalloc'ed) or "freed" (kfree'd)
    umem,     \* the same for enclave->untrusted_mem, the 16-byte descriptor
    running,  \* enclave->is_running
    sm,       \* the monitor's state of the enclave behind enclave->eid
    pc,       \* where each thread is
    ueid,     \* the handler's eid argument (of create: the eid it reports)
    ref,      \* the handler's local enclave_t pointer
    eid,      \* the monitor eid passed to the last RUN or RESUME
    res,      \* what the last RUN or RESUME returned (and ocall_func_id)
    own,      \* host side: the eid in the thread's PLenclave, 0 for none
    pend      \* host side: RETURN_USER_FOR_OCALL received and not resumed

locks == <<bigLock, kmLock>>
heap  == <<objst, umem, running>>
host  == <<own, pend>>
vars  == <<bigLock, kmLock, idr, objst, umem, running, sm, pc, ueid, ref, eid,
           res, own, pend>>

CreatePcs == {"c_alloc", "c_init", "c_relock", "c_load", "c_sbi", "c_idr",
              "c_fail"}
LoopPcs   == {"r_copyin", "m_copyin", "r_enter", "m_enter", "in_sm", "r_loop",
              "r_copyout", "r_relock"}
Pcs       == {"idle", "c_args", "c_lock", "r_lock", "m_lock", "s_lock",
              "a_lock", "u_lock", "d_lock", "d_free"}
                 \cup CreatePcs \cup LoopPcs

Results  == {"none", "timer", "exit", "error"} \cup OcallKinds
SmStates == {"none", "mem", "fresh", "running", "runnable", "stopped", "ocall",
             "dying", "gone"}

TypeOK ==
    /\ bigLock \in Threads \cup {NoThread}
    /\ kmLock \in Threads \cup {NoThread}
    /\ idr \in [Ueids -> Objs \cup {NoObj}]
    /\ objst \in [Objs -> {"unused", "live", "freed"}]
    /\ umem \in [Objs -> {"unused", "live", "freed"}]
    /\ running \in [Objs -> BOOLEAN]
    /\ sm \in [Objs -> SmStates]
    /\ pc \in [Threads -> Pcs]
    /\ ueid \in [Threads -> Ueids \cup {0}]
    /\ ref \in [Threads -> Objs \cup {NoObj}]
    /\ eid \in [Threads -> Objs \cup {NoObj}]
    /\ res \in [Threads -> Results]
    /\ own \in [Threads -> Ueids \cup {0}]
    /\ pend \in [Threads -> BOOLEAN]

Init ==
    /\ bigLock = NoThread
    /\ kmLock = NoThread
    /\ idr = [u \in Ueids |-> NoObj]
    /\ objst = [o \in Objs |-> "unused"]
    /\ umem = [o \in Objs |-> "unused"]
    /\ running \in [Objs -> BOOLEAN]     \* kmalloc does not clear the flag
    /\ sm = [o \in Objs |-> "none"]
    /\ pc = [t \in Threads |-> "idle"]
    /\ ueid = [t \in Threads |-> 0]
    /\ ref = [t \in Threads |-> NoObj]
    /\ eid = [t \in Threads |-> NoObj]
    /\ res = [t \in Threads |-> "none"]
    /\ own = [t \in Threads |-> 0]
    /\ pend = [t \in Threads |-> FALSE]

-----------------------------------------------------------------------------
(* Helpers                                                                 *)

Goto(t, from, to) == pc[t] = from /\ pc' = [pc EXCEPT ![t] = to]

\* acquire_big_lock; a holder that calls it again, or that never releases,
\* leaves this disabled for ever.
AcquireBigLock(t) == bigLock = NoThread /\ bigLock' = t

\* A handler returns: its locals are gone.
Leave(t) ==
    /\ pc' = [pc EXCEPT ![t] = "idle"]
    /\ ueid' = [ueid EXCEPT ![t] = 0]
    /\ ref' = [ref EXCEPT ![t] = NoObj]
    /\ eid' = [eid EXCEPT ![t] = NoObj]
    /\ res' = [res EXCEPT ![t] = "none"]

\* What a host does with its handle when a call on it has failed or has ended
\* the enclave.  The SDK leaves the eid in the PLenclave, so either may be.
DropHandle(t) ==
    IF KeepHandles
    THEN UNCHANGED host
    ELSE /\ own' = [own EXCEPT ![t] = 0]
         /\ pend' = [pend EXCEPT ![t] = FALSE]

\* get_enclave_by_id
Lookup(u) == IF u \in Ueids THEN idr[u] ELSE NoObj

\* The enclave whose eid a read of e->eid yields.  A freed object's memory
\* may have been reused, so the read yields any eid.
EidOf(e) == IF objst[e] = "live" THEN {e} ELSE Objs

\* destroy_enclave(e): the objects kfree releases.  A second kfree of e
\* releases whatever has been given the same memory since, if anything.
Freed(e) ==
    IF objst[e] = "live" THEN {{e}}
    ELSE {{}} \cup {{o} : o \in {x \in Objs : objst[x] = "live"}}

DestroyEnclave(e) ==
    \E F \in Freed(e) :
        /\ objst' = [o \in Objs |-> IF o \in F THEN "freed" ELSE objst[o]]
        /\ umem' = [o \in Objs |-> IF o \in F THEN "freed" ELSE umem[o]]
        /\ UNCHANGED running

\* Mutant: the id is not released.
IdrRemoveForgotten(u) == UNCHANGED idr

\* enclave_idr_remove(u): whatever u maps to by now
IdrRemove(u) == idr' = [v \in Ueids |-> IF v = u THEN NoObj ELSE idr[v]]

-----------------------------------------------------------------------------
(* penglai_enclave_ioctl: the calls the hosts make.  SingleRunner,          *)
(* SharedDestroy and KeepHandles say what hosts do: they are assumptions    *)
(* about host programs, since SDK and driver accept every call.             *)

MayRun(t, u)     == SingleRunner => own[t] = u /\ ~pend[t]
MayResume(t, u)  == SingleRunner => own[t] = u /\ pend[t]
MayDestroy(t, u) == SharedDestroy \/ own[t] = u

Call(t, u, entry) ==
    /\ Goto(t, "idle", entry)
    /\ ueid' = [ueid EXCEPT ![t] = u]
    /\ UNCHANGED <<locks, idr, heap, sm, ref, eid, res, host>>

\* Bound: a create starts only while an allocation is left for it.
CreateBound ==
    Cardinality({t \in Threads : pc[t] \in {"c_args", "c_lock", "c_alloc"}})
        < Cardinality({o \in Objs : objst[o] = "unused"})

CallCreate(t) ==
    /\ CreateBound
    /\ SingleRunner => own[t] = 0
    /\ Call(t, 0, "c_args")

CallRun(t)     == \E u \in Ueids : MayRun(t, u) /\ Call(t, u, "r_lock")
CallResume(t)  == \E u \in Ueids : MayResume(t, u) /\ Call(t, u, "m_lock")
CallDestroy(t) == \E u \in Ueids : MayDestroy(t, u) /\ Call(t, u, "d_lock")
CallStop(t)    == \E u \in Ueids : Call(t, u, "s_lock")
CallUnstop(t)  == \E u \in Ueids : Call(t, u, "u_lock")
CallAttest(t)  == \E u \in Ueids : Call(t, u, "a_lock")

-----------------------------------------------------------------------------
(* penglai_enclave_create                                                  *)

\* elfmemsize and check_eapp_memory_size, before the lock
CreateArgs(t) ==
    /\ \/ Goto(t, "c_args", "c_lock")
       \/ "args" \in Faults /\ Goto(t, "c_args", "idle")
    /\ UNCHANGED <<locks, idr, heap, sm, ueid, ref, eid, res, host>>

CreateLock(t) ==
    /\ Goto(t, "c_lock", "c_alloc")
    /\ AcquireBigLock(t)
    /\ UNCHANGED <<kmLock, idr, heap, sm, ueid, ref, eid, res, host>>

\* create_enclave up to enclave_mem_int: the kmallocs, kmalloc_enclave_lock,
\* and secure memory from the monitor, extended while it has none
CreateAlloc(t) ==
    /\ kmLock = NoThread
    /\ Goto(t, "c_alloc", "c_init")
    /\ \E o \in Objs :
        /\ objst[o] = "unused"
        /\ objst' = [objst EXCEPT ![o] = "live"]
        /\ umem' = [umem EXCEPT ![o] = "live"]
        /\ sm' = [sm EXCEPT ![o] = "mem"]
        /\ ref' = [ref EXCEPT ![t] = o]
    /\ UNCHANGED <<locks, idr, running, ueid, eid, res, host>>

\* create_enclave's free_enclave exit: NULL is returned and no enclave_t is left;
\* the code holds kmalloc_enclave_lock here and does not release it.  It also
\* frees the descriptor twice and require_sec_memory never, which no other step
\* can see.
CreateAllocFail(t) ==
    /\ "alloc" \in Faults
    /\ kmLock = NoThread
    /\ kmLock' = t
    /\ Goto(t, "c_alloc", "c_fail")
    /\ UNCHANGED <<bigLock, idr, heap, sm, ueid, ref, eid, res, host>>

\* enclave_mem_int, with kmalloc_enclave_lock dropped around it
CreateMemInit(t) ==
    /\ Goto(t, "c_init", "c_relock")
    /\ UNCHANGED <<locks, idr, heap, sm, ueid, ref, eid, res, host>>

\* The end of create_enclave.  It stores the untrusted_mem descriptor in the
\* enclave and frees it.
CreateRelock(t) ==
    /\ kmLock = NoThread
    /\ Goto(t, "c_relock", "c_load")
    /\ umem' = [umem EXCEPT ![ref[t]] = "freed"]
    /\ UNCHANGED <<locks, idr, objst, running, sm, ueid, ref, eid, res, host>>

\* penglai_enclave_eapp_preprare ignores what loadelf returns; an unreadable
\* ELF header shows as elf_entry = 0.  Then untrusted memory and kbuffer.
CreateLoad(t) ==
    /\ \/ Goto(t, "c_load", "c_sbi")
       \/ "load" \in Faults /\ Goto(t, "c_load", "c_fail")
    /\ UNCHANGED <<locks, idr, heap, sm, ueid, ref, eid, res, host>>

CreateSbi(t) ==
    /\ \/ /\ Goto(t, "c_sbi", "c_idr")
          /\ sm' = [sm EXCEPT ![ref[t]] = "fresh"]
       \/ /\ "sbi" \in Faults
          /\ Goto(t, "c_sbi", "c_fail")
          /\ UNCHANGED sm
    /\ UNCHANGED <<locks, idr, heap, ueid, ref, eid, res, host>>

\* Mutant: an id that is in use is handed out again.
IdrAllocInUse(e, u) == u \in Ueids /\ idr' = [idr EXCEPT ![u] = e]

\* enclave_idr_alloc: the lowest free id, 0 when there is none
IdrAlloc(e, u) ==
    IF \E v \in Ueids : idr[v] = NoObj
    THEN /\ u \in Ueids
         /\ idr[u] = NoObj
         /\ \A v \in Ueids : idr[v] = NoObj => u <= v
         /\ idr' = [idr EXCEPT ![u] = e]
    ELSE u = 0 /\ UNCHANGED idr

\* Mutant: idr_alloc's error code goes to the host unchecked.
CreateFinishRawId(t) ==
    /\ pc[t] = "c_idr"
    /\ \E u \in Ueids \cup {0} :
        /\ IdrAlloc(ref[t], u)
        /\ own' = [own EXCEPT ![t] = IF u = 0 THEN 65535 ELSE u]
    /\ pend' = [pend EXCEPT ![t] = FALSE]
    /\ running' = [running EXCEPT ![ref[t]] = FALSE]
    /\ bigLock' = NoThread
    /\ Leave(t)
    /\ UNCHANGED <<kmLock, objst, umem, sm>>

\* Register, clear is_running, unlock and report the eid; the copy back to
\* the host may fail, which leaves the enclave with nobody who knows its eid.
CreateFinish(t) ==
    /\ pc[t] = "c_idr"
    /\ \E u \in Ueids \cup {0} :
        /\ IdrAlloc(ref[t], u)
        /\ \E h \in {u} \cup (IF "user" \in Faults THEN {0} ELSE {}) :
            own' = [own EXCEPT ![t] = h]
    /\ pend' = [pend EXCEPT ![t] = FALSE]
    /\ running' = [running EXCEPT ![ref[t]] = FALSE]
    /\ bigLock' = NoThread
    /\ Leave(t)
    /\ UNCHANGED <<kmLock, objst, umem, sm>>

\* Mutant: a failed create does not free the enclave.
CreateFailLeaks(t) ==
    /\ pc[t] = "c_fail"
    /\ bigLock' = NoThread
    /\ Leave(t)
    /\ UNCHANGED <<kmLock, heap, idr, sm, host>>

\* Mutant: a failed create returns with the big lock held.
CreateFailLocked(t) ==
    /\ pc[t] = "c_fail"
    /\ IF ref[t] = NoObj THEN UNCHANGED heap ELSE DestroyEnclave(ref[t])
    /\ Leave(t)
    /\ UNCHANGED <<locks, idr, sm, host>>

\* the destroy_enclave label: NULL when create_enclave failed
CreateFail(t) ==
    /\ pc[t] = "c_fail"
    /\ IF ref[t] = NoObj THEN UNCHANGED heap ELSE DestroyEnclave(ref[t])
    /\ bigLock' = NoThread
    /\ Leave(t)
    /\ UNCHANGED <<kmLock, idr, sm, host>>

-----------------------------------------------------------------------------
(* The secure monitor (external): what the driver relies on.               *)

\* SBI_SM_RUN_ENCLAVE and the three kinds of SBI_SM_RESUME_ENCLAVE enter the
\* enclave only from the state they name; a stopped enclave answers a resume
\* from a timer interrupt with another timer interrupt.
SmEnter(t, x, from) ==
  /\ eid' = [eid EXCEPT ![t] = x]
  /\ \/ /\ sm[x] = from
        /\ sm' = [sm EXCEPT ![x] = "running"]
        /\ pc' = [pc EXCEPT ![t] = "in_sm"]
        /\ UNCHANGED res
     \/ /\ sm[x] # from
        /\ res' = [res EXCEPT ![t] =
                      IF from = "runnable" /\ sm[x] = "stopped" THEN "timer"
                      ELSE "error"]
        /\ pc' = [pc EXCEPT ![t] = "r_loop"]
        /\ UNCHANGED sm

\* The enclave traps back to the thread that entered it.
SmReturn(t) ==
    /\ pc[t] = "in_sm"
    /\ \E r \in Results, s \in SmStates :
        /\ CASE sm[eid[t]] = "running" ->
                  <<r, s>> \in {<<"timer", "runnable">>, <<"exit", "gone">>}
                                   \cup {<<c, "ocall">> : c \in Ocalls}
             [] sm[eid[t]] \in {"stopped", "runnable"} ->
                  r = "timer" /\ s = sm[eid[t]]
             [] OTHER -> r = "exit" /\ s = "gone"
        /\ res' = [res EXCEPT ![t] = r]
        /\ sm' = [sm EXCEPT ![eid[t]] = s]
    /\ pc' = [pc EXCEPT ![t] = "r_loop"]
    /\ UNCHANGED <<locks, idr, heap, ueid, ref, eid, host>>

SmStop(x) ==
    sm' = [sm EXCEPT ![x] = IF @ \in {"running", "runnable"} THEN "stopped"
                            ELSE @]

SmUnstop(x) ==
    sm' = [sm EXCEPT ![x] = IF @ = "stopped" THEN "runnable" ELSE @]

\* An enclave that is on a hart is torn down when it leaves it.
SmDestroy(x) ==
    sm' = [sm EXCEPT ![x] = IF @ \in {"running", "dying"} THEN "dying"
                            ELSE "gone"]

-----------------------------------------------------------------------------
(* penglai_enclave_run, and penglai_enclave_resume from a custom ocall      *)

\* The locked look-up both start with.  An unknown eid is -EINVAL.
FindEnclave(t, next) ==
    /\ bigLock = NoThread
    /\ \/ /\ Lookup(ueid[t]) = NoObj
          /\ Leave(t)
          /\ DropHandle(t)
       \/ /\ Lookup(ueid[t]) # NoObj
          /\ ref' = [ref EXCEPT ![t] = Lookup(ueid[t])]
          /\ eid' = [eid EXCEPT ![t] = Lookup(ueid[t])]
          /\ pc' = [pc EXCEPT ![t] = next]
          /\ UNCHANGED <<ueid, res, host>>
    /\ UNCHANGED <<locks, idr, objst, umem, sm>>

\* Mutant: run does not set the flag.
RunLockNoFlag(t) ==
    /\ pc[t] = "r_lock"
    /\ FindEnclave(t, "r_copyin")
    /\ UNCHANGED running

\* run sets is_running before it unlocks
RunLock(t) ==
    /\ pc[t] = "r_lock"
    /\ FindEnclave(t, "r_copyin")
    /\ running' = [o \in Objs |-> running[o] \/ o = Lookup(ueid[t])]

ResumeLock(t) ==
    /\ pc[t] = "m_lock"
    /\ FindEnclave(t, "m_copyin")
    /\ UNCHANGED running

\* An early return of the unlocked part: -EINVAL or -EFAULT, and the code
\* neither clears is_running nor unregisters the enclave.
EarlyReturn(t, at) ==
    /\ "user" \in Faults
    /\ pc[t] = at
    /\ Leave(t)
    /\ DropHandle(t)
    /\ UNCHANGED <<locks, idr, heap, sm>>

\* The in_out_buf is copied in, if the host gave one, through the descriptor.
CopyIn(t) ==
    /\ \/ Goto(t, "r_copyin", "r_enter")
       \/ Goto(t, "m_copyin", "m_enter")
    /\ UNCHANGED <<locks, idr, heap, sm, ueid, ref, eid, res, host>>

CopyInFail(t) == EarlyReturn(t, "r_copyin") \/ EarlyReturn(t, "m_copyin")

\* SBI_SM_RUN_ENCLAVE with the eid read under the lock
RunEnter(t) ==
    /\ pc[t] = "r_enter"
    /\ SmEnter(t, eid[t], "fresh")
    /\ UNCHANGED <<locks, idr, heap, ueid, ref, host>>

\* SBI_SM_RESUME_ENCLAVE after the host has served its ocall
ResumeEnter(t) ==
    /\ pc[t] = "m_enter"
    /\ \E x \in EidOf(ref[t]) : SmEnter(t, x, "ocall")
    /\ UNCHANGED <<locks, idr, heap, ueid, ref, host>>

\* Mutant: the two kinds of resume are swapped.
LoopResumeSwapped(t) ==
    /\ pc[t] = "r_loop"
    /\ \E x \in EidOf(ref[t]) :
        \/ res[t] = "timer" /\ SmEnter(t, x, "ocall")
        \/ res[t] \in {"write", "other"} /\ SmEnter(t, x, "runnable")
    /\ UNCHANGED <<locks, idr, heap, ueid, ref, host>>

\* One turn of the while loop that resumes the enclave
LoopResume(t) ==
    /\ pc[t] = "r_loop"
    /\ \E x \in EidOf(ref[t]) :
        \/ res[t] = "timer" /\ SmEnter(t, x, "runnable")
        \/ res[t] \in {"write", "other"} /\ SmEnter(t, x, "ocall")
    /\ UNCHANGED <<locks, idr, heap, ueid, ref, host>>

\* OCALL_USER_DEFINED: the buffer goes to the host and run returns
\* RETURN_USER_FOR_OCALL, with the enclave registered and is_running set.
LoopUserOcall(t) ==
    /\ pc[t] = "r_loop"
    /\ res[t] = "user"
    /\ pend' = [pend EXCEPT ![t] = TRUE]
    /\ Leave(t)
    /\ UNCHANGED <<locks, idr, heap, sm, own>>

LoopUserOcallFail(t) == res[t] = "user" /\ EarlyReturn(t, "r_loop")

LoopExit(t) ==
    /\ res[t] \in {"exit", "error"}
    /\ Goto(t, "r_loop", "r_copyout")
    /\ UNCHANGED <<locks, idr, heap, sm, ueid, ref, eid, res, host>>

CopyOut(t) ==
    /\ Goto(t, "r_copyout", "r_relock")
    /\ UNCHANGED <<locks, idr, heap, sm, ueid, ref, eid, res, host>>

CopyOutFail(t) == EarlyReturn(t, "r_copyout")

\* Under the lock again: free the enclave and its id, whatever the monitor
\* answered, and return to the host.
RunFinish(t) ==
    /\ pc[t] = "r_relock"
    /\ bigLock = NoThread
    /\ DestroyEnclave(ref[t])
    /\ IdrRemove(ueid[t])
    /\ Leave(t)
    /\ DropHandle(t)
    /\ UNCHANGED <<locks, sm>>

-----------------------------------------------------------------------------
(* The handlers that keep the lock from look-up to return                  *)

\* penglai_enclave_stop, penglai_enclave_attest and the default case of
\* penglai_enclave_resume; attest changes neither driver nor monitor state
Stop(t) ==
    /\ pc[t] = "s_lock"
    /\ bigLock = NoThread
    /\ IF Lookup(ueid[t]) = NoObj THEN UNCHANGED sm
       ELSE \E x \in EidOf(Lookup(ueid[t])) : SmStop(x)
    /\ Leave(t)
    /\ UNCHANGED <<locks, idr, heap, host>>

Unstop(t) ==
    /\ pc[t] = "u_lock"
    /\ bigLock = NoThread
    /\ IF Lookup(ueid[t]) = NoObj THEN UNCHANGED sm
       ELSE \E x \in EidOf(Lookup(ueid[t])) : SmUnstop(x)
    /\ Leave(t)
    /\ UNCHANGED <<locks, idr, heap, host>>

Attest(t) ==
    /\ pc[t] = "a_lock"
    /\ bigLock = NoThread
    /\ Leave(t)
    /\ UNCHANGED <<locks, idr, heap, sm, host>>

\* penglai_enclave_destroy up to the call into the monitor
DestroyLock(t) ==
    /\ pc[t] = "d_lock"
    /\ AcquireBigLock(t)
    /\ IF Lookup(ueid[t]) = NoObj THEN UNCHANGED sm
       ELSE \E x \in EidOf(Lookup(ueid[t])) : SmDestroy(x)
    /\ ref' = [ref EXCEPT ![t] = Lookup(ueid[t])]
    /\ pc' = [pc EXCEPT ![t] = "d_free"]
    /\ UNCHANGED <<kmLock, idr, heap, ueid, eid, res, host>>

\* Mutant: destroy frees the enclave although it is running.
DestroyFinishAlways(t) ==
    /\ pc[t] = "d_free"
    /\ IF ref[t] # NoObj
       THEN DestroyEnclave(ref[t]) /\ IdrRemove(ueid[t])
       ELSE UNCHANGED <<heap, idr>>
    /\ bigLock' = NoThread
    /\ IF own[t] = ueid[t] THEN DropHandle(t) ELSE UNCHANGED host
    /\ Leave(t)
    /\ UNCHANGED <<kmLock, sm>>

\* Mutant: destroy leaves the freeing to run, running or not.
DestroyFinishNever(t) ==
    /\ pc[t] = "d_free"
    /\ bigLock' = NoThread
    /\ IF own[t] = ueid[t] THEN DropHandle(t) ELSE UNCHANGED host
    /\ Leave(t)
    /\ UNCHANGED <<kmLock, heap, idr, sm>>

\* the rest of it: an enclave that is not running is freed here
DestroyFinish(t) ==
    /\ pc[t] = "d_free"
    /\ IF ref[t] # NoObj /\ ~running[ref[t]]
       THEN DestroyEnclave(ref[t]) /\ IdrRemove(ueid[t])
       ELSE UNCHANGED <<heap, idr>>
    /\ bigLock' = NoThread
    /\ IF own[t] = ueid[t] THEN DropHandle(t) ELSE UNCHANGED host
    /\ Leave(t)
    /\ UNCHANGED <<kmLock, sm>>

-----------------------------------------------------------------------------

Calls(t) ==
    \/ CallCreate(t) \/ CallRun(t) \/ CallResume(t) \/ CallDestroy(t)
    \/ CallStop(t) \/ CallUnstop(t) \/ CallAttest(t)

CreateStep(t) ==
    \/ CreateArgs(t) \/ CreateLock(t) \/ CreateAlloc(t) \/ CreateAllocFail(t)
    \/ CreateMemInit(t) \/ CreateRelock(t) \/ CreateLoad(t) \/ CreateSbi(t)
    \/ CreateFinish(t) \/ CreateFail(t)

RunStep(t) ==
    \/ RunLock(t) \/ ResumeLock(t) \/ CopyIn(t) \/ CopyInFail(t)
    \/ RunEnter(t) \/ ResumeEnter(t) \/ SmReturn(t) \/ LoopResume(t)
    \/ LoopUserOcall(t) \/ LoopUserOcallFail(t) \/ LoopExit(t)
    \/ CopyOut(t) \/ CopyOutFail(t) \/ RunFinish(t)

ShortStep(t) ==
    \/ Stop(t) \/ Unstop(t) \/ Attest(t) \/ DestroyLock(t) \/ DestroyFinish(t)

\* A thread inside the driver makes its next step.
Step(t) == CreateStep(t) \/ RunStep(t) \/ ShortStep(t)

Next == \E t \in Threads : Calls(t) \/ Step(t)

Spec == Init /\ [][Next]_vars

\* Scheduling: the kernel runs every thread that can make a step, and timer
\* interrupts take every enclave off its hart.  Nothing makes a host call.
Fairness == \A t \in Threads : WF_vars(Step(t))

LiveSpec == Spec /\ Fairness

-----------------------------------------------------------------------------
(* Properties                                                              *)

\* A thread that dereferences its enclave_t or enters the monitor holds one.
RefsSet ==
    \A t \in Threads :
        /\ pc[t] \in LoopPcs \cup (CreatePcs \ {"c_alloc", "c_fail"}) =>
              ref[t] # NoObj
        /\ pc[t] \in LoopPcs => eid[t] # NoObj

\* The registry never dangles: what get_enclave_by_id returns is allocated,
\* and an enclave is registered under one id only.
RegistrySound ==
    /\ \A u \in Ueids : idr[u] # NoObj => objst[idr[u]] = "live"
    /\ \A u, v \in Ueids : idr[u] # NoObj /\ idr[u] = idr[v] => u = v

\* No use after free: a thread in the unlocked part of run or resume, which
\* dereferences its enclave_t at every step, holds an allocated one.
NoUseAfterFree ==
    \A t \in Threads : pc[t] \in LoopPcs => objst[ref[t]] = "live"

\* When a run ends it unregisters its own enclave: the id it was called with
\* still maps to the enclave it ran, never to one created since.
FinishesOwnEntry ==
    \A t \in Threads : pc[t] \in LoopPcs => Lookup(ueid[t]) = ref[t]

\* The is_running flag protects the run loop: destroy never sees it clear
\* while a thread is in the unlocked part with that enclave.
RunningFlagCovers ==
    \A t \in Threads : pc[t] \in LoopPcs => running[ref[t]]

\* "It will only exit when either: 1. the enclave is finished and invoke
\* exit_enclave 2. destroy_enclave is invoked" (penglai-enclave-ioctl.c:327):
\* a thread that has left the loop has an enclave the monitor has torn down.
LoopExitsOnlyWhenEnded ==
    \A t \in Threads : pc[t] \in {"r_copyout", "r_relock"} =>
        sm[ref[t]] \in {"dying", "gone"}

\* No enclave is lost: an allocated enclave is registered, or the holder of
\* the big lock is still creating it.  (While ids do not run out.)
NoOrphan ==
    \A o \in Objs : objst[o] = "live" =>
        \/ \E u \in Ueids : idr[u] = o
        \/ bigLock # NoThread /\ ref[bigLock] = o /\ pc[bigLock] \in CreatePcs

\* An enclave is freed only by a step that leaves no other thread in the
\* unlocked part with it and no id that maps to it.
FreeIsExclusive ==
    [][\A o \in Objs : objst[o] = "live" /\ objst'[o] = "freed" =>
          /\ \A u \in Ueids : idr'[u] # o
          /\ \A t \in Threads : pc'[t] \in LoopPcs => ref'[t] # o]_vars

\* Why the above hold when each enclave is run, resumed and destroyed by its
\* creator only, and no more once a call on it has failed or ended it: the
\* inductive invariant that EnclaveDriverProofs proves.
Disciplined == SingleRunner /\ ~KeepHandles

Owned == Disciplined /\ ~SharedDestroy

\* The big lock is held exactly inside the sections the code brackets with it.
LockHeld ==
    \A t \in Threads : pc[t] \in CreatePcs \cup {"d_free"} <=> bigLock = t

\* A handle is held by one thread and names a registered enclave.
HandlesValid ==
    \A t \in Threads : own[t] # 0 =>
        /\ idr[own[t]] # NoObj
        /\ \A s \in Threads : own[s] = own[t] => s = t

\* A run, resume or destroy in progress is on the caller's own handle, and
\* once it has looked the enclave up, on the enclave registered there.
CallsOnOwnHandle ==
    \A t \in Threads :
        /\ pc[t] \in LoopPcs \cup {"r_lock", "m_lock", "d_lock", "d_free"} =>
              ueid[t] \in Ueids /\ ueid[t] = own[t]
        /\ pc[t] \in LoopPcs \cup {"d_free"} => ref[t] = idr[ueid[t]]

\* An enclave being created is allocated and not yet registered.
CreatingUnregistered ==
    \A t \in Threads :
        /\ pc[t] \in CreatePcs /\ ref[t] # NoObj =>
              /\ objst[ref[t]] = "live"
              /\ \A u \in Ueids : idr[u] # ref[t]
        /\ pc[t] \notin (CreatePcs \ {"c_alloc"}) \cup LoopPcs \cup {"d_free"} =>
              ref[t] = NoObj

OwnerInv ==
    /\ RefsSet
    /\ LockHeld
    /\ RegistrySound
    /\ HandlesValid
    /\ CallsOnOwnHandle
    /\ CreatingUnregistered

\* "we just acqure a big lock before allocating enclave mem, and release the
\* lock after initializing mem and returning it back to sm"
\* (penglai-enclave-ioctl.c:4): whoever holds the lock releases it.
BigLockReleased ==
    \A t \in Threads : bigLock = t ~> bigLock # t

\* "otherwise, the run interfaces will destroy the enclave"
\* (penglai-enclave-ioctl.c:223): once the hosts have made their calls, an
\* enclave the monitor has torn down is freed by the driver too.
DestroyReclaims ==
    (<>[][\A t \in Threads : ~Calls(t)]_vars) =>
        \A o \in Objs : (sm[o] \in {"dying", "gone"} ~> objst[o] = "freed")
=============================================================================
