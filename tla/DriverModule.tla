---------------------------- MODULE DriverModule ----------------------------
(***************************************************************************)
(* Loading and unloading the driver (penglai-enclave-driver.c): the device, *)
(* the contiguous memory that is given to the monitor, and the open files   *)
(* that keep the module loaded (fops.owner is THIS_MODULE).                 *)
(***************************************************************************)
EXTENDS Integers, FiniteSets

CONSTANTS
    Hosts,      \* threads of a host process
    Areas,      \* areas of CMA_SIZE that contiguous memory has room for
    EarlyOpen   \* a host may open the device while the module is loading

ASSUME ModuleAssumption == Areas \in Nat /\ EarlyOpen \in BOOLEAN

VARIABLES
    mod,      \* "out", or how far enclave_ioctl_init or _exit has come
    dev,      \* is the device registered?
    cma,      \* does the module hold its area?
    leaked,   \* areas nobody will free
    monitor,  \* has the monitor been given memory?
    users     \* hosts that have the device open

moduleVars == <<mod, dev, cma, leaked, monitor, users>>

ModuleTypeOK ==
    /\ mod \in {"out", "registered", "allocated", "in", "broken", "leaving",
              "stuck"}
    /\ dev \in BOOLEAN /\ cma \in BOOLEAN /\ monitor \in BOOLEAN
    /\ leaked \in 0 .. Areas
    /\ leaked + (IF cma THEN 1 ELSE 0) <= Areas
    /\ users \subseteq Hosts

ModuleInit ==
    /\ mod = "out" /\ dev = FALSE /\ cma = FALSE
    /\ leaked = 0 /\ monitor = FALSE /\ users = {}

\* misc_register; if it fails, misc_deregister finds nothing and nothing changes.
Register ==
    /\ mod = "out"
    /\ mod' = "registered"
    /\ dev' = TRUE
    /\ UNCHANGED <<cma, leaked, monitor, users>>

AllocCma ==
    /\ mod = "registered" /\ leaked < Areas
    /\ mod' = "allocated"
    /\ cma' = TRUE
    /\ UNCHANGED <<dev, leaked, monitor, users>>

\* Mutant: the error exit forgets the device.
AllocCmaFailsRegistered ==
    /\ mod = "registered"
    /\ mod' = "out"
    /\ UNCHANGED <<dev, cma, leaked, monitor, users>>

AllocCmaFails ==
    /\ mod = "registered"
    /\ mod' = "out"
    /\ dev' = FALSE
    /\ UNCHANGED <<cma, leaked, monitor, users>>

SmInit ==
    /\ mod = "allocated"
    /\ mod' = "in"
    /\ monitor' = TRUE
    /\ UNCHANGED <<dev, cma, leaked, users>>

\* The area is not freed.  The value returned is the monitor's: if it is
\* negative the kernel drops the module, otherwise the module stays without
\* its device.
SmInitFails ==
    /\ mod = "allocated"
    /\ dev' = FALSE
    /\ \/ mod' = "out" /\ cma' = FALSE /\ leaked' = leaked + 1
       \/ mod' = "broken" /\ UNCHANGED <<cma, leaked>>
    /\ UNCHANGED <<monitor, users>>

\* Mutant: the file operations have no owner.
ExitFreeUnpinned ==
    /\ mod = "in"
    /\ mod' = "leaving"
    /\ cma' = FALSE
    /\ UNCHANGED <<dev, leaked, monitor, users>>

\* The kernel unloads a module nobody uses.  The memory goes first; it is not
\* taken back from the monitor.
ExitFree ==
    /\ mod = "in" /\ users = {}
    /\ mod' = "leaving"
    /\ cma' = FALSE
    /\ UNCHANGED <<dev, leaked, monitor, users>>

ExitDeregister ==
    /\ mod = "leaving"
    /\ mod' = "out"
    /\ dev' = FALSE
    /\ UNCHANGED <<cma, leaked, monitor, users>>

\* Unloading after SmInitFails: the memory is freed through a device that is
\* gone, which may do anything to it, and the device is deregistered a second
\* time, which stops in the kernel's list of devices.
ExitBroken ==
    /\ mod = "broken" /\ users = {}
    /\ mod' = "stuck"
    /\ cma' \in BOOLEAN
    /\ UNCHANGED <<dev, leaked, monitor, users>>

\* open: the device is there and its module is not going away.
CanOpen == dev /\ mod # "leaving" /\ (EarlyOpen \/ mod = "in")

ModuleNext ==
    \/ Register \/ AllocCma \/ AllocCmaFails \/ SmInit \/ SmInitFails
    \/ ExitFree \/ ExitDeregister \/ ExitBroken
=============================================================================
