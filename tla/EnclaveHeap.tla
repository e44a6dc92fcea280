---------------------------- MODULE EnclaveHeap ----------------------------
(***************************************************************************)
(* Memory inside an enclave: SYS_brk, SYS_mmap and SYS_munmap are answered  *)
(* by syscall_arch.h itself, from two areas of the image, and malloc grows  *)
(* through __expand_heap (expand_heap.c), by brk while it can and by mmap   *)
(* afterwards.                                                              *)
(*                                                                          *)
(* The mmap area is counted in granules of sizeof(struct mmap_metadata).    *)
(* A block is a header granule and its payload; the next header lies right  *)
(* behind it, so the headers form a chain through memory that programs      *)
(* write to.  One turn of the search loop is one step.                      *)
(***************************************************************************)
EXTENDS Integers, FiniteSets

CONSTANTS
    Arena,     \* mmap_size, in granules
    Page,      \* a page, in granules
    BrkStart,  \* the first brk_offset, in pages
    BrkLimit,  \* 2 * brk_size, in pages
    Start,     \* where the mmap area starts, in granules from address 0
    Wrap,      \* sizes and addresses are unsigned: they wrap at Wrap
    Growth,    \* what malloc asks __expand_heap for, rounded up to pages
    Data,      \* what a program may leave in a granule, read as a header
    Programs,  \* kinds of program: the sizes they mmap, whether they fill
               \* what they were given before they give it back
    MaxHeap    \* bound: heap expansions of a behaviour

Word == [type : 0..2, size : 0 .. Wrap - 1]

\* The areas are NOBITS sections of the image: zero at the start.
Zero == [type |-> 0, size |-> 0]

ASSUME HeapAssumption ==
    /\ Arena \in Nat \ {0} /\ Page \in Nat \ {0} /\ MaxHeap \in Nat
    /\ BrkStart \in Nat /\ BrkLimit \in Nat /\ BrkStart < BrkLimit
    /\ Growth \subseteq Nat \ {0}
    /\ Wrap \in Nat /\ Start \in Nat \ {0} /\ Start + Arena <= Wrap \div 2
    /\ Data \subseteq Word
    /\ \A p \in Programs :
          /\ p.sizes \subseteq 1 .. Arena
          /\ p.fills \in BOOLEAN

\* Arithmetic that the provers do not have: what MinPages computes is a number.
ASSUME PowersAreNumbers == \A k \in 0 .. MaxHeap : 2 ^ k \in Nat \ {0}

VARIABLES
    mem,    \* the mmap area, each granule as the header it would be read as
    live,   \* blocks handed out and not given back; heap: to __expand_heap
    pc,     \* "idle", "scan" inside the loop of SYS_mmap, or "stray" once the
            \* loop reads memory in front of the area as a header
    for,    \* who called SYS_mmap: "mmap", or "heap" for __expand_heap
    req,    \* its length argument, a1
    at,     \* __mmap_size0: the offset of the header under the scan
    off,    \* brk_offset
    brk,    \* __expand_heap's own record of the break, -1 before its first call
    step,   \* mmap_step
    grown,  \* number of heap expansions (bound)
    prog,   \* the program that runs
    found   \* history: the area as SYS_mmap found it, while a call is in it

vars == <<mem, live, pc, for, req, at, off, brk, step, grown, prog, found>>

Granules == 0 .. Arena - 1

Zeros == [g \in Granules |-> Zero]

Block == [at : Nat, len : Nat, heap : BOOLEAN]

HeapTypeOK ==
    /\ mem \in [Granules -> Word]
    /\ live \subseteq Block
    /\ pc \in {"idle", "scan", "stray"}
    /\ for \in {"mmap", "heap"}
    /\ req \in Nat /\ at \in Nat /\ off \in Nat
    /\ brk \in Nat \cup {-1}
    /\ grown \in 0 .. MaxHeap /\ step \in 0 .. grown
    /\ prog \in Programs
    /\ found \in [Granules -> Word]

Init ==
    /\ mem = Zeros
    /\ live = {}
    /\ pc = "idle"
    /\ for = "mmap"
    /\ req = 0
    /\ at = 0
    /\ off = BrkStart
    /\ brk = -1
    /\ step = 0
    /\ grown = 0
    /\ prog \in Programs
    /\ found = Zeros

-----------------------------------------------------------------------------
(* SYS_mmap                                                                 *)

\* The search starts at the first header.
Search(n, who) ==
    /\ pc' = "scan"
    /\ req' = n
    /\ for' = who
    /\ at' = 0
    /\ found' = mem

MmapCall ==
    /\ pc = "idle"
    /\ \E n \in prog.sizes : Search(n, "mmap")
    /\ UNCHANGED <<mem, live, off, brk, step, grown, prog>>

PastEnd == at >= Arena

Scanning == pc = "scan" /\ ~PastEnd

\* An untouched rest (type 0), or a freed block with room for another header
Splits ==
    \/ mem[at].type = 0
    \/ mem[at].type = 1 /\ mem[at].size >= req + 1

\* Mutant: a freed block must be larger than the request.
FitsLarger == mem[at].type = 1 /\ mem[at].size < req + 1 /\ mem[at].size > req

\* A freed block that is taken as it is
Fits == mem[at].type = 1 /\ mem[at].size < req + 1 /\ mem[at].size >= req

\* Where the header behind the new block goes
Behind == at + 1 + req

\* Mutant: every successful SYS_mmap is counted as a heap area.
ReturnCountsAll ==
    /\ live' = live \cup {[at |-> at + 1, len |-> req, heap |-> for = "heap"]}
    /\ pc' = "idle"
    /\ step' = step + 1
    /\ found' = Zeros
    /\ UNCHANGED <<for, req, at, off, brk, grown, prog>>

\* SYS_mmap returns the payload behind the header at at.  __expand_heap counts
\* the areas it was given.
Return ==
    /\ live' = live \cup {[at |-> at + 1, len |-> req, heap |-> for = "heap"]}
    /\ pc' = "idle"
    /\ step' = IF for = "heap" THEN step + 1 ELSE step
    /\ found' = Zeros
    /\ UNCHANGED <<for, req, at, off, brk, grown, prog>>

Fail ==
    /\ pc' = "idle"
    /\ found' = Zeros
    /\ UNCHANGED <<live, for, req, at, off, brk, step, grown, prog>>

\* Mutant: the rest is not given its size.
SplitWordUnsized(old, stale) == [type |-> old.type, size |-> 0]

\* The header behind: its size is computed only if the granule, which held
\* program data or nothing, does not read as size 0.
SplitWord(old, stale) ==
    [type |-> old.type,
     size |-> IF stale.size = 0 THEN 0 ELSE (old.size - req - 1) % Wrap]

\* The header of the new block is written before it is known to fit.
Stamped == [mem EXCEPT ![at] = [type |-> 2, size |-> req]]

Split ==
    /\ Scanning /\ Splits /\ Behind < Arena
    /\ mem' = [Stamped EXCEPT ![Behind] = SplitWord(mem[at], Stamped[Behind])]
    /\ Return

\* Mutant: the type is put back and the size is not.
RestoredType == [Stamped EXCEPT ![at].type = mem[at].type]

\* tmp_type and tmp_size are put back.
Restored ==
    [Stamped EXCEPT ![at].type = mem[at].type, ![at].size = mem[at].size]

\* The call is refused: there is no room for the header behind, and the old
\* header is restored; or the scan is past the end of the area.
SplitFail ==
    /\ pc = "scan" /\ (PastEnd \/ (Splits /\ Behind >= Arena))
    /\ mem' = IF PastEnd THEN mem ELSE Restored
    /\ Fail

Reuse ==
    /\ Scanning /\ ~Splits /\ Fits
    /\ mem' = [mem EXCEPT ![at].type = 2]
    /\ Return

\* An offset so large that the address wraps lies in front of the area, where
\* the test for its end lets the scan go on.
InFront(offset) == offset >= Wrap - Start

\* Mutant: the scan does not step over the header.
AdvanceShort ==
    /\ Scanning /\ ~Splits /\ ~Fits
    /\ at' = (at + mem[at].size) % Wrap
    /\ UNCHANGED <<mem, live, pc, for, req, off, brk, step, grown, prog, found>>

Advance ==
    /\ Scanning /\ ~Splits /\ ~Fits
    /\ at' = (at + 1 + mem[at].size) % Wrap
    /\ pc' = IF InFront(at') THEN "stray" ELSE pc
    /\ UNCHANGED <<mem, live, for, req, off, brk, step, grown, prog, found>>

\* Mutant: the block is given back with its header cleared.
MunmapClears ==
    /\ pc = "idle"
    /\ \E b \in live :
        /\ ~b.heap
        /\ prog.fills => \A g \in b.at .. b.at + b.len - 1 : mem[g].size # 0
        /\ mem' = [mem EXCEPT ![b.at - 1] = Zero]
        /\ live' = live \ {b}
    /\ UNCHANGED <<pc, for, req, at, off, brk, step, grown, prog, found>>

\* SYS_munmap of a block the program was given; malloc keeps heap areas.
Munmap ==
    /\ pc = "idle"
    /\ \E b \in live :
        /\ ~b.heap
        /\ prog.fills => \A g \in b.at .. b.at + b.len - 1 : mem[g].size # 0
        /\ mem' = [mem EXCEPT ![b.at - 1].type = 1]
        /\ live' = live \ {b}
    /\ UNCHANGED <<pc, for, req, at, off, brk, step, grown, prog, found>>

\* The program writes to memory it holds.
Write ==
    /\ pc = "idle"
    /\ \E b \in live, d \in Data :
        \E g \in b.at .. b.at + b.len - 1 :
            mem' = [mem EXCEPT ![g] = d]
    /\ UNCHANGED <<live, pc, for, req, at, off, brk, step, grown, prog, found>>

-----------------------------------------------------------------------------
(* __expand_heap with SYS_brk                                               *)

\* The break it asks brk to move from: SYS_brk(0) on its first call
Break == IF brk = -1 THEN off ELSE brk

\* SYS_brk stores the new offset before it looks at the limit.
BrkSyscall(new) == off' = new

BrkGrants(new) == new < BrkLimit

\* The smallest area it asks mmap for: it doubles with every second area.
MinPages == 2 ^ (step \div 2)

LargerOf(a, b) == IF a > b THEN a ELSE b

\* More than half the address space is refused with ENOMEM.
TooMuch(n) == n * Page > Wrap \div 2 - Page

ExpandHeap ==
    /\ pc = "idle" /\ grown < MaxHeap
    /\ grown' = grown + 1
    /\ \E n \in Growth :
        IF TooMuch(n)
        THEN UNCHANGED <<pc, for, req, at, off, brk, found>>
        ELSE /\ BrkSyscall(Break + n)
             /\ IF BrkGrants(Break + n)
                THEN /\ brk' = Break + n
                     /\ UNCHANGED <<pc, for, req, at, found>>
                ELSE /\ brk' = Break
                     /\ Search(LargerOf(n, MinPages) * Page, "heap")
    /\ UNCHANGED <<mem, live, step, prog>>

-----------------------------------------------------------------------------

Scan == Split \/ SplitFail \/ Reuse \/ Advance

Next == MmapCall \/ Scan \/ Munmap \/ Write \/ ExpandHeap

Spec == Init /\ [][Next]_vars

\* The enclave's own code runs the loop: it makes its steps.
LiveSpec == Spec /\ WF_vars(Scan)

-----------------------------------------------------------------------------
(* Properties                                                               *)

\* The granules a block takes, header included
Extent(b) == b.at - 1 .. b.at + b.len - 1

\* No two blocks in use share a granule, and every block lies in the area:
\* neither a program's writes nor a new header ever reach another block.
NoOverlap ==
    /\ \A b \in live : Extent(b) \subseteq Granules
    /\ \A b, c \in live : b # c => Extent(b) \cap Extent(c) = {}

\* The header in front of a block in use still says so, and how long it is,
\* so the search of a later SYS_mmap steps over it.
HeadersIntact ==
    \A b \in live : mem[b.at - 1] = [type |-> 2, size |-> b.len]

\* A refused SYS_mmap leaves the area as its call found it, however many
\* headers it has read, and the one it had already claimed for the new block has
\* its type and size again (the restore at syscall_arch.h:156-158).
FailChangesNothing ==
    [][pc = "scan" /\ pc' = "idle" /\ live' = live => mem' = found]_vars

\* Blocks given back are found again: a program that uses one size is refused
\* only when the area is full of blocks in use.
FailsOnlyWhenFull ==
    [][pc = "scan" /\ pc' = "idle" /\ live' = live
         /\ grown = 0 /\ prog.sizes = {req} =>
             Cardinality(live) = (Arena - 1) \div (req + 1)]_vars

\* For programs that fill what they unmap or map one size, every search of
\* SYS_mmap ends: the loop at syscall_arch.h:141 follows headers that programs
\* have had in their hands, and never comes back to one or leaves the area.
MmapReturns == pc = "scan" ~> pc = "idle"
=============================================================================
