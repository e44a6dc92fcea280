---------------------------- MODULE HostLibrary ----------------------------
(***************************************************************************)
(* Threads of a host process and the SDK's host library, next to a driver   *)
(* module that is loaded and unloaded: alloc_untrusted_mem (param.c), with  *)
(* the pointer its callers share, and the life of a PLenclave from          *)
(* PLenclave_init to PLenclave_finalize.  What the ioctls do to an enclave  *)
(* is EnclaveDriver's matter; here it exists or not.                        *)
(***************************************************************************)
EXTENDS DriverModule

CONSTANTS
    Page,       \* 4096, in some unit that divides it
    Default,    \* DEFAULT_UNTRUSTED_SIZE
    Asked,      \* sizes asked for
    MaxAllocs   \* bound: areas handed out when alloc_untrusted_mem is called

ASSUME HostAssumption ==
    /\ Page \in Nat \ {0} /\ Default \in Nat /\ Default % Page = 0
    /\ Asked \subseteq Nat /\ MaxAllocs \in Nat

VARIABLES
    hpc,       \* where each thread is
    want,      \* the size it asked for, and the size after rounding
    mutex,     \* threads that hold the mutex
    cur,       \* current_untrusted_ptr, from DEFAULT_UNTRUSTED_PTR
    mapped,    \* areas mapped from DEFAULT_UNTRUSTED_PTR on
    regions,   \* untrusted memory handed out
    refused,   \* has an alloc_untrusted_mem found another address?
    enclaves   \* threads whose enclave exists

hostVars == <<hpc, want, mutex, cur, mapped, regions, refused, enclaves>>

HostTypeOK ==
    /\ ModuleTypeOK
    /\ hpc \in [Hosts -> {"start", "lock", "mmap", "publish", "args", "open",
                          "created"}]
    /\ want \in [Hosts -> [asked : Nat, size : Nat]]
    /\ mutex \subseteq Hosts
    /\ cur \in Nat
    /\ enclaves \subseteq Hosts
    /\ \A h \in Hosts : hpc[h] \in {"open", "created"} <=> h \in users

HostInit ==
    /\ hpc = [h \in Hosts |-> "start"]
    /\ want = [h \in Hosts |-> [asked |-> 0, size |-> 0]]
    /\ mutex = {} /\ cur = 0 /\ mapped = {} /\ regions = {}
    /\ refused = FALSE /\ enclaves = {}

-----------------------------------------------------------------------------
(* alloc_untrusted_mem                                                      *)

\* Mutant: the bit is cleared without adding a page.
RoundDown(size) == IF (size \div Page) % 2 = 1 THEN size - Page ELSE size

\* (size + 4096) & ~4096: one bit is cleared
Round(size) ==
    LET s == size + Page
    IN  IF (s \div Page) % 2 = 1 THEN s - Page ELSE s

AllocCall(h) ==
    /\ hpc[h] = "start" /\ Cardinality(regions) < MaxAllocs
    /\ \E s \in Asked : want' = [want EXCEPT ![h] = [asked |-> s, size |-> Round(s)]]
    /\ hpc' = [hpc EXCEPT ![h] = "lock"]
    /\ UNCHANGED <<mutex, cur, mapped, regions, refused, enclaves>>

\* Mutant: the mutex is not waited for.
AllocLockNoWait(h) ==
    /\ hpc[h] = "lock"
    /\ mutex' = mutex \cup {h}
    /\ hpc' = [hpc EXCEPT ![h] = "mmap"]
    /\ UNCHANGED <<want, cur, mapped, regions, refused, enclaves>>

AllocLock(h) ==
    /\ hpc[h] = "lock" /\ mutex = {}
    /\ mutex' = mutex \cup {h}
    /\ hpc' = [hpc EXCEPT ![h] = "mmap"]
    /\ UNCHANGED <<want, cur, mapped, regions, refused, enclaves>>

Span(at, len) == at .. at + len - 1

\* The kernel maps at the hint if it is aligned and the place is free.
HintTaken(at, len) ==
    /\ at % Page = 0
    /\ \A m \in mapped : Span(at, len) \cap Span(m.at, m.len) = {}

\* mmap, and the test that the address is the one asked for
Mmap(h) ==
    LET len == Default + want[h].size
    IN  /\ hpc[h] = "mmap"
        /\ HintTaken(cur, len)
        /\ mapped' = mapped \cup {[at |-> cur, len |-> len]}
        /\ hpc' = [hpc EXCEPT ![h] = "publish"]
        /\ UNCHANGED <<want, mutex, cur, regions, refused, enclaves>>

\* Mutant: any address will do.
MmapElsewhereAccepted(h) ==
    /\ hpc[h] = "mmap"
    /\ ~HintTaken(cur, Default + want[h].size)
    /\ refused' = TRUE
    /\ hpc' = [hpc EXCEPT ![h] = "publish"]
    /\ UNCHANGED <<want, mutex, cur, mapped, regions, enclaves>>

\* Another address: the call returns NULL and keeps the mapping.
MmapElsewhere(h) ==
    /\ hpc[h] = "mmap"
    /\ ~HintTaken(cur, Default + want[h].size)
    /\ refused' = TRUE
    /\ mutex' = mutex \ {h}
    /\ hpc' = [hpc EXCEPT ![h] = "start"]
    /\ UNCHANGED <<want, cur, mapped, regions, enclaves>>

MmapFails(h) ==
    /\ hpc[h] = "mmap"
    /\ mutex' = mutex \ {h}
    /\ hpc' = [hpc EXCEPT ![h] = "start"]
    /\ UNCHANGED <<want, cur, mapped, regions, refused, enclaves>>

\* The part behind the default memory is the caller's; the mutex is released.
Publish(h) ==
    /\ hpc[h] = "publish"
    /\ regions' = regions \cup {[at |-> cur + Default, len |-> want[h].size,
                                 asked |-> want[h].asked]}
    /\ cur' = cur + want[h].size + Default
    /\ mutex' = mutex \ {h}
    /\ hpc' = [hpc EXCEPT ![h] = "args"]
    /\ UNCHANGED <<want, mapped, refused, enclaves>>

-----------------------------------------------------------------------------
(* The life of a PLenclave                                                  *)

\* PLenclave_init; without a device the descriptor is -1 and every call fails.
PLenclaveInit(h) ==
    /\ hpc[h] = "args" /\ CanOpen
    /\ users' = users \cup {h}
    /\ hpc' = [hpc EXCEPT ![h] = "open"]
    /\ UNCHANGED <<want, mutex, cur, mapped, regions, refused, enclaves,
                   mod, dev, cma, leaked, monitor>>

\* PLenclave_create; the monitor has memory only after SBI_SM_INIT.
PLenclaveCreate(h) ==
    /\ hpc[h] = "open" /\ monitor
    /\ enclaves' = enclaves \cup {h}
    /\ hpc' = [hpc EXCEPT ![h] = "created"]
    /\ UNCHANGED <<want, mutex, cur, mapped, regions, refused, moduleVars>>

\* PLenclave_destroy, or PLenclave_run to the enclave's end
PLenclaveDestroy(h) ==
    /\ hpc[h] = "created"
    /\ enclaves' = enclaves \ {h}
    /\ hpc' = [hpc EXCEPT ![h] = "open"]
    /\ UNCHANGED <<want, mutex, cur, mapped, regions, refused, moduleVars>>

\* Mutant: the file is not closed.
PLenclaveFinalizeNoClose(h) ==
    /\ hpc[h] = "open"
    /\ hpc' = [hpc EXCEPT ![h] = "start"]
    /\ UNCHANGED <<want, mutex, cur, mapped, regions, refused, enclaves, moduleVars>>

\* PLenclave_finalize closes the file.  The driver has no release operation.
PLenclaveFinalize(h) ==
    /\ hpc[h] = "open"
    /\ users' = users \ {h}
    /\ hpc' = [hpc EXCEPT ![h] = "start"]
    /\ UNCHANGED <<want, mutex, cur, mapped, regions, refused, enclaves,
                   mod, dev, cma, leaked, monitor>>

\* The host process is killed, and started again.  The kernel closes its files
\* and no more: the enclaves stay.
Kill ==
    /\ users' = {}
    /\ hpc' = [h \in Hosts |-> "start"]
    /\ want' = [h \in Hosts |-> [asked |-> 0, size |-> 0]]
    /\ mutex' = {} /\ cur' = 0 /\ mapped' = {} /\ regions' = {}
    /\ refused' = FALSE
    /\ UNCHANGED <<enclaves, mod, dev, cma, leaked, monitor>>

Alloc(h) ==
    \/ AllocCall(h) \/ AllocLock(h) \/ Mmap(h) \/ MmapElsewhere(h) \/ MmapFails(h)
    \/ Publish(h)

HostNext ==
    \/ ModuleNext /\ UNCHANGED hostVars
    \/ \E h \in Hosts :
        \/ Alloc(h) /\ UNCHANGED moduleVars
        \/ PLenclaveInit(h) \/ PLenclaveCreate(h)
        \/ PLenclaveDestroy(h) \/ PLenclaveFinalize(h)
    \/ Kill

SystemInit == ModuleInit /\ HostInit

HostSpec == SystemInit /\ [][HostNext]_<<moduleVars, hostVars>>

-----------------------------------------------------------------------------
(* Properties                                                               *)

\* Untrusted memory handed out is as large as was asked for, is mapped, and is
\* no other caller's, although the rounding at param.c:19 does not round and
\* all threads take addresses from one pointer.
RegionsPrivate ==
    \A r \in regions :
        /\ r.len >= r.asked
        /\ \E m \in mapped : Span(r.at, r.len) \subseteq Span(m.at, m.len)
        /\ \A s \in regions : s # r => Span(r.at, r.len) \cap Span(s.at, s.len) = {}

\* As long as all sizes are multiples of a page, no call is refused for the
\* address it gets: the next free place is always where current_untrusted_ptr
\* says, whatever the threads do at once.
HintAlwaysFree ==
    (\A r \in regions : r.asked % Page = 0) => ~refused

\* A device or an open file needs the module's code: neither outlives it.
DeviceHasModule == dev \/ users # {} => mod # "out"

\* While a host has an enclave, the memory it was given is the module's: it has
\* not been freed by unloading the driver.  (The enclaves of a host that was
\* killed keep nothing loaded.)
EnclaveHasMemory ==
    \A h \in enclaves : hpc[h] = "created" => cma
=============================================================================
