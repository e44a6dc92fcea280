------------------------------ MODULE ElfLoader ------------------------------
(***************************************************************************)
(* How penglai_enclave_create fills the secure memory of a new enclave:    *)
(* the page budget, then stack, NOBITS sections, program segments,         *)
(* untrusted memory and kbuffer, page by page over EnclavePages.           *)
(*                                                                         *)
(* Addresses are bytes.  Pages outside the secure memory are negative      *)
(* numbers: -1 is the kbuffer, -2, -3 ... the untrusted memory.            *)
(***************************************************************************)
EXTENDS EnclavePages, Integers, SequencesExt

CONSTANTS
    PgSize,        \* RISCV_PGSIZE
    Fan,           \* entries of a page table
    Requests,      \* what hosts ask for: see RequestOK
    StackPoint,    \* STACK_POINT
    UntrustedPtr,  \* DEFAULT_UNTRUSTED_PTR
    Kbuffer,       \* ENCLAVE_DEFAULT_KBUFFER
    MaxElf, MaxStack, MaxUntrusted

\* A request: the NOBITS sections and program segments of the ELF file, in
\* file order, whether its entry point is not 0, the sizes of the stack and of
\* the untrusted memory (the SDK always asks for some), and whether the host
\* leaves the allocation of the latter to the driver (untrusted_mem_ptr is 0).
RequestOK(r) ==
    /\ {r.nobits, r.segs} \subseteq Seq([addr : Nat, size : Nat])
    /\ r.entry \in BOOLEAN /\ r.alloc \in BOOLEAN /\ r.stack \in Nat /\ r.untrusted \in Pages

ASSUME LoaderAssumption ==
    /\ PgSize \in Nat \ {0} /\ Fan \in Nat \ {0} /\ Idx = 0 .. Fan - 1
    /\ {StackPoint, UntrustedPtr, Kbuffer} \subseteq Nat
    /\ \A r \in Requests : RequestOK(r)

VARIABLES
    req,      \* the request being served
    todo,     \* address ranges still to be filled, in the code's order
    content,  \* pages written so far -> the bytes at their start
    entry,    \* elf_entry is not 0
    fault,    \* a copy from the host or an allocation of shared pages failed
    stage     \* "args", "load", "refused", "failed" or "created"

lvars == <<req, todo, content, entry, fault, stage>>

-----------------------------------------------------------------------------
PageUp(n) == ((n + PgSize - 1) \div PgSize) * PgSize

\* 0x1 << (ilog2(n - 1) + 1)
PowerOfTwoUp(n) ==
    CHOOSE k \in {2 ^ i : i \in 0 .. 20} : n <= k /\ k < 2 * n

SumSizes(s) == FoldSeq(LAMBDA p, n : p.size + n, 0, s)
Placed(s)   == SelectSeq(s, LAMBDA p : p.addr # 0)

\* penglai_enclave_elfmemsize.  The code's sizes are int; files whose sizes do
\* not fit one are left out, and all others are below MAX_ELF_SIZE or refused.
ElfMemSize(r) == SumSizes(Placed(r.nobits)) + SumSizes(r.segs)

\* total_enclave_page, rounded up as create does
TotalPages(r) ==
    PowerOfTwoUp((PageUp(ElfMemSize(r)) + PageUp(r.stack)) \div PgSize + 15)

\* check_eapp_memory_size
SizesInBounds(r) ==
    /\ ElfMemSize(r) <= MaxElf
    /\ r.stack <= MaxStack
    /\ r.untrusted <= MaxUntrusted

UntrustedSize(r) == PowerOfTwoUp(r.untrusted)

Job(kind, addr, size) == [kind |-> kind, addr |-> addr, size |-> size, at |-> addr]

JobsOf(kind, s) == [i \in DOMAIN s |-> Job(kind, s[i].addr, s[i].size)]

\* A section without an address is stepped over once its header is read.
Placeable(s) == [i \in DOMAIN s |-> IF s[i].addr = 0 THEN [s[i] EXCEPT !.size = 0] ELSE s[i]]

SharedJobs(r) ==
    << Job("entry", 0, 0),
       Job("untrusted", UntrustedPtr, IF r.alloc THEN UntrustedSize(r) ELSE 0),
       Job("kbuffer", Kbuffer, PgSize) >>

\* mutant: the program segments are loaded before the NOBITS sections
JobsSegmentsFirst(r) ==
    << Job("stack", StackPoint - r.stack, r.stack), Job("header", 0, 0) >>
    \o JobsOf("file", r.segs) \o JobsOf("zero", Placeable(r.nobits))
    \o SharedJobs(r)

\* What penglai_enclave_eapp_preprare and create fill, in order; "header" is
\* the reading of the ELF header, "entry" create's test of elf_entry.
Jobs(r) ==
    << Job("stack", StackPoint - r.stack, r.stack), Job("header", 0, 0) >>
    \o JobsOf("zero", Placeable(r.nobits)) \o JobsOf("file", r.segs)
    \o SharedJobs(r)

-----------------------------------------------------------------------------
LInit ==
    /\ PagesInit
    /\ req \in Requests
    /\ todo = <<>> /\ content = <<>>
    /\ entry = FALSE /\ fault = FALSE
    /\ stage = "args"

\* the sizes are out of bounds, or elfmemsize cannot copy a header
Refuse ==
    /\ stage = "args"
    /\ \/ ~SizesInBounds(req) /\ UNCHANGED fault
       \/ fault' = TRUE
    /\ stage' = "refused"
    /\ UNCHANGED <<pvars, req, todo, content, entry>>

\* mutant: memory is asked for without the pages for page tables
CreateNoExtra ==
    /\ stage = "args"
    /\ SizesInBounds(req)
    /\ EnclaveMemInt
    /\ total' = PowerOfTwoUp((PageUp(ElfMemSize(req)) + PageUp(req.stack)) \div PgSize)
    /\ todo' = Jobs(req)
    /\ stage' = "load"
    /\ UNCHANGED <<req, content, entry, fault>>

Create ==
    /\ stage = "args"
    /\ SizesInBounds(req)
    /\ EnclaveMemInt /\ total' = TotalPages(req)
    /\ todo' = Jobs(req)
    /\ stage' = "load"
    /\ UNCHANGED <<req, content, entry, fault>>

\* get_pt_index at the three levels
VaOf(a) == LET p == a \div PgSize
           IN  <<(p \div (Fan * Fan)) % Fan, (p \div Fan) % Fan, p % Fan>>

Doing(kinds) ==
    /\ stage = "load" /\ st = "ready" /\ todo # <<>>
    /\ Head(todo).kind \in kinds

More == Head(todo).at < Head(todo).addr + Head(todo).size

Advance == todo' = [todo EXCEPT ![1].at = @ + PgSize]

NextRange ==
    /\ Doing({"stack", "zero", "file", "untrusted", "kbuffer"})
    /\ ~More
    /\ todo' = Tail(todo)
    /\ UNCHANGED <<pvars, req, content, entry, fault, stage>>

LoadStackPage ==
    /\ Doing({"stack"}) /\ More
    /\ EnclaveAllocPage(VaOf(Head(todo).at))
    /\ Advance
    /\ UNCHANGED <<req, content, entry, fault, stage>>

\* penglai_enclave_loadelf copies the ELF header first; when that fails
\* nothing is loaded and the error is ignored by its caller
ReadHeader ==
    /\ Doing({"header"})
    /\ \/ entry' = req.entry /\ todo' = Tail(todo) /\ UNCHANGED fault
       \/ /\ todo' = SharedJobs(req)
          /\ fault' = TRUE /\ UNCHANGED entry
    /\ UNCHANGED <<pvars, req, content, stage>>

\* a section or program header cannot be copied: the loop goes on without it
SkipHeader ==
    /\ Doing({"zero", "file"}) /\ Head(todo).at = Head(todo).addr
    /\ todo' = Tail(todo)
    /\ fault' = TRUE
    /\ UNCHANGED <<pvars, req, content, entry, stage>>

\* bytes written to the start of the page at j.at
ChunkSize(j) ==
    IF j.at + PgSize > j.addr + j.size THEN j.size % PgSize ELSE PgSize

Chunk(j) == [kind |-> j.kind, from |-> j.at, len |-> ChunkSize(j)]

WriteChunk(p, c) ==
    content' = [q \in {p} \cup DOMAIN content |-> IF q = p THEN c ELSE content[q]]

\* penglai_enclave_load_NOBITS_section and penglai_enclave_load_program: take
\* a page, map it, fill it; without a page the filling writes through NULL
LoadElfPage ==
    /\ Doing({"zero", "file"}) /\ More
    /\ IF GetFreeMem(taken) = 0
       THEN /\ st' = "oops"
            /\ UNCHANGED <<total, taken, root, special, l1, l2, leaf, fm>>
            /\ UNCHANGED <<content, fault>>
       ELSE /\ EnclaveAllocPage(VaOf(Head(todo).at))
            /\ \/ WriteChunk(GetFreeMem(taken), Chunk(Head(todo))) /\ UNCHANGED fault
               \/ /\ Head(todo).kind = "file"  \* copy_from_user fails: ignored
                  /\ fault' = TRUE /\ UNCHANGED content
    /\ Advance
    /\ UNCHANGED <<req, entry, stage>>

\* Mutant: the entry point is not looked at.
CheckEntryIgnored ==
    /\ Doing({"entry"})
    /\ todo' = Tail(todo)
    /\ UNCHANGED <<pvars, req, content, entry, fault, stage>>

\* create gives up when the entry point is 0: destroy_enclave
CheckEntry ==
    /\ Doing({"entry"})
    /\ \/ entry /\ todo' = Tail(todo) /\ UNCHANGED <<pvars, stage>>
       \/ ~entry /\ EnclaveMemDestroy /\ stage' = "failed" /\ UNCHANGED todo
    /\ UNCHANGED <<req, content, entry, fault>>

\* the shared pages cannot be allocated: the error is ignored by create
SharedAllocFails ==
    /\ Doing({"untrusted", "kbuffer"}) /\ Head(todo).at = Head(todo).addr
    /\ todo' = Tail(todo)
    /\ fault' = TRUE
    /\ UNCHANGED <<pvars, req, content, entry, stage>>

UntrustedFrame(i) == -2 - i
KbufferFrame      == -1

\* map_untrusted_mem and map_kbuffer
MapSharedPage ==
    /\ Doing({"untrusted", "kbuffer"}) /\ More
    /\ LET j == Head(todo)
       IN  MapVa2Pa(VaOf(j.at),
                    IF j.kind = "kbuffer" THEN KbufferFrame
                    ELSE UntrustedFrame((j.at - j.addr) \div PgSize))
    /\ Advance
    /\ UNCHANGED <<req, content, entry, fault, stage>>

\* create takes a last page for the monitor and hands the enclave over
HandOver ==
    /\ stage = "load" /\ todo = <<>>
    /\ TakeFreeMem
    /\ stage' = "created"
    /\ UNCHANGED <<req, todo, content, entry, fault>>

LNext ==
    \/ Refuse \/ Create \/ NextRange \/ LoadStackPage \/ ReadHeader \/ SkipHeader
    \/ LoadElfPage \/ CheckEntry \/ SharedAllocFails \/ MapSharedPage \/ HandOver

LSpec == LInit /\ [][LNext]_<<pvars, lvars>>

-----------------------------------------------------------------------------
(* Properties                                                              *)

\* What the enclave reads at a byte address through its page table.
Reads(a) ==
    LET p == leaf[VaOf(a)]
    IN  IF p \notin Pages THEN [kind |-> "none"]
        ELSE IF p \in DOMAIN content /\ a % PgSize < content[p].len
             THEN [kind |-> content[p].kind, from |-> content[p].from + (a % PgSize)]
             ELSE [kind |-> "clear"]

Bytes(p) == p.addr .. p.addr + p.size - 1

\* A program segment holds its bytes of the file at their addresses, a NOBITS
\* section reads as zeros, the stack is private memory, and the untrusted
\* pages are mapped in order, once penglai_enclave_create has loaded the
\* image without a failing copy or allocation.
ImageFaithful ==
    stage = "created" /\ ~fault =>
      /\ \A p \in Range(req.segs) : \A a \in Bytes(p) :
            Reads(a) = [kind |-> "file", from |-> a]
      /\ \A p \in Range(req.nobits) : p.addr # 0 =>
            \A a \in Bytes(p) : Reads(a).kind \in {"zero", "clear"}
      /\ \A a \in StackPoint - req.stack .. StackPoint - 1 : leaf[VaOf(a)] \in Pages
      /\ req.alloc => \A i \in 0 .. UntrustedSize(req) - 1 :
            leaf[VaOf(UntrustedPtr + i)] = UntrustedFrame(i \div PgSize)

\* Whatever copies and allocations fail on the way, an enclave is handed over
\* only if its image has an entry point that was read, and no byte of a segment
\* ends at another address: it is the file's, zero, or not there.  create sees
\* none of the errors (penglai-enclave-elfloader.c:186 drops them).
PartialLoadSound ==
    stage = "created" =>
      /\ req.entry /\ entry
      /\ \A p \in Range(req.segs) : \A a \in Bytes(p) :
            Reads(a).kind = "file" => Reads(a).from = a

\* The pages asked for by total_enclave_page are enough for the request: no
\* walk returns NULL, whose callers write through it, and there is a page left
\* for the monitor.  It holds for requests that meet ElfLayout's BudgetOK, as
\* those with one last-level table of untrusted memory do (run loader), and not
\* for all that check_eapp_memory_size lets through: its 15 pages for page
\* tables do not grow with the sizes (LargeRequests in MCElfLoader).
NoExhaustion ==
    /\ st # "oops"
    /\ stage = "created" => fm # 0
=============================================================================
