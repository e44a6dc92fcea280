---------------------------- MODULE EnclavePages ----------------------------
(***************************************************************************)
(* An enclave's secure memory (penglai-enclave-page.c): the list of free   *)
(* pages and the three-level page table built from them.                   *)
(*                                                                         *)
(* init_free_mem queues the pages in address order and nothing is ever put *)
(* back, so the list is a counter: page n is the n-th one handed out and 0 *)
(* is the NULL that get_free_mem returns when the list is empty.  The      *)
(* monitor hands the memory over cleared, so new tables have no entries.   *)
(***************************************************************************)
EXTENDS Naturals

CONSTANTS
    Idx,     \* indices of a page table, 0 .. 2^RISCV_PGLEVEL_BITS - 1
    Sizes,   \* page counts the monitor may hand over
    Frames,  \* pages outside the secure memory (untrusted memory, kbuffer)
    Unmapped \* what an entry that is not valid maps to

\* A virtual page is named by its index at each level (get_pt_index).
Vas == Idx \X Idx \X Idx

ASSUME PagesAssumption ==
    /\ Sizes \subseteq Nat
    /\ \A f \in Frames : f \notin Nat
    /\ Unmapped \notin Nat
    /\ Unmapped \notin Frames

VARIABLES
    total,   \* pages queued by init_free_mem
    taken,   \* pages get_free_mem has handed out
    root,    \* enclave_mem->enclave_root_pt
    special, \* the page set aside for the record of dynamic allocations
    l1,      \* root table: index -> page of the middle table, 0 if not valid
    l2,      \* middle tables: two indices -> page of the last table
    leaf,    \* last tables: what each virtual page maps to
    fm,      \* the page reported to the monitor as free_mem
    st       \* "none", "ready", "oops" (a write through NULL) or "clean"

pvars == <<total, taken, root, special, l1, l2, leaf, fm, st>>

Pages == Nat \ {0}

PagesTypeOK ==
    /\ total \in Nat
    /\ taken \in 0 .. total
    /\ root \in Nat /\ special \in Nat /\ fm \in Nat
    /\ l1 \in [Idx -> Nat]
    /\ l2 \in [Idx \X Idx -> Nat]
    /\ leaf \in [Vas -> Nat \cup Frames \cup {Unmapped}]
    /\ st \in {"none", "ready", "oops", "clean"}

PagesInit ==
    /\ total = 0 /\ taken = 0
    /\ root = 0 /\ special = 0 /\ fm = 0
    /\ l1 = [i \in Idx |-> 0]
    /\ l2 = [ij \in Idx \X Idx |-> 0]
    /\ leaf = [va \in Vas |-> Unmapped]
    /\ st = "none"

-----------------------------------------------------------------------------
\* get_free_mem when n pages have been taken: what it returns, and the count
\* after it
GetFreeMem(n) == IF n < total THEN n + 1 ELSE 0

\* mutants of Taken: the list is not checked for being empty, and the page
\* stays on the list
TakenPastEnd(n) == n + 1
TakenNoDel(n)   == n
Taken(n)        == IF n < total THEN n + 1 ELSE n

\* enclave_mem_int: queue the pages, take the root table and the special page
EnclaveMemInt ==
    /\ st = "none"
    /\ total' \in Sizes
    /\ root' = IF 0 < total' THEN 1 ELSE 0
    /\ special' = IF 1 < total' THEN 2 ELSE 0
    /\ taken' = IF 1 < total' THEN 2 ELSE total'
    /\ st' = "ready"
    /\ UNCHANGED <<l1, l2, leaf, fm>>

\* walk_enclave_pt with create, when n pages have been taken: the tables it
\* has to add, the count after it, and whether it returns NULL
Needs1(va) == l1[va[1]] = 0

\* mutant: the valid bit of the entry is not looked at
Needs2Always(va) == TRUE
Needs2(va) == l2[<<va[1], va[2]>>] = 0

WalkL1(va, n)     == IF Needs1(va) THEN GetFreeMem(n) ELSE l1[va[1]]
WalkCount1(va, n) == IF Needs1(va) THEN Taken(n) ELSE n
WalkL2(va, n)     == IF Needs2(va) THEN GetFreeMem(WalkCount1(va, n))
                     ELSE l2[<<va[1], va[2]>>]
WalkCount(va, n)  == IF Needs2(va) THEN Taken(WalkCount1(va, n))
                     ELSE WalkCount1(va, n)
WalkNull(va, n)   == root = 0 \/ WalkL1(va, n) = 0 \/ WalkL2(va, n) = 0

\* mutant: the new middle table is not entered in the root table
WalkAndMapNoEntry(va, n, target) ==
    IF WalkNull(va, n)
    THEN /\ st' = "oops"
         /\ UNCHANGED <<total, taken, root, special, l1, l2, leaf, fm>>
    ELSE /\ l2' = [l2 EXCEPT ![<<va[1], va[2]>>] = WalkL2(va, n)]
         /\ leaf' = [leaf EXCEPT ![va] = target]
         /\ taken' = WalkCount(va, n)
         /\ UNCHANGED <<total, root, special, l1, fm, st>>

\* walk_enclave_pt, then the write of the last-level entry; through NULL the
\* write stops the kernel
WalkAndMap(va, n, target) ==
    IF WalkNull(va, n)
    THEN /\ st' = "oops"
         /\ UNCHANGED <<total, taken, root, special, l1, l2, leaf, fm>>
    ELSE /\ l1' = [l1 EXCEPT ![va[1]] = WalkL1(va, n)]
         /\ l2' = [l2 EXCEPT ![<<va[1], va[2]>>] = WalkL2(va, n)]
         /\ leaf' = [leaf EXCEPT ![va] = target]
         /\ taken' = WalkCount(va, n)
         /\ UNCHANGED <<total, root, special, fm, st>>

\* enclave_alloc_page takes the page before it walks
EnclaveAllocPage(va) ==
    /\ st = "ready"
    /\ WalkAndMap(va, Taken(taken), GetFreeMem(taken))

\* map_va2pa
MapVa2Pa(va, f) ==
    /\ st = "ready"
    /\ WalkAndMap(va, taken, f)

\* the last page penglai_enclave_create takes, for the monitor
TakeFreeMem ==
    /\ st = "ready" /\ fm = 0
    /\ fm' = GetFreeMem(taken)
    /\ taken' = Taken(taken)
    /\ UNCHANGED <<total, root, special, l1, l2, leaf, st>>

\* enclave_mem_destroy empties the list; the pages stay with the monitor
EnclaveMemDestroy ==
    /\ st = "ready"
    /\ st' = "clean"
    /\ taken' = total
    /\ UNCHANGED <<total, root, special, l1, l2, leaf, fm>>

PagesNext ==
    \/ EnclaveMemInt
    \/ \E va \in Vas : EnclaveAllocPage(va)
    \/ \E va \in Vas, f \in Frames : MapVa2Pa(va, f)
    \/ TakeFreeMem
    \/ EnclaveMemDestroy

PagesSpec == PagesInit /\ [][PagesNext]_pvars

-----------------------------------------------------------------------------
(* Properties                                                              *)

\* No page has two uses: the root table, the special page, the tables, the
\* mapped pages and the page given to the monitor are pairwise different, and
\* none of them is still on the list.
InUse(p) == p \in 1 .. taken

OneUse ==
    /\ root # 0 => InUse(root)
    /\ special # 0 => InUse(special) /\ special # root
    /\ fm # 0 => InUse(fm) /\ fm \notin {root, special}
    /\ \A i \in Idx : l1[i] # 0 =>
          /\ InUse(l1[i]) /\ l1[i] \notin {root, special, fm}
          /\ \A j \in Idx : l1[j] = l1[i] => j = i
    /\ \A x \in Idx \X Idx : l2[x] # 0 =>
          /\ InUse(l2[x]) /\ l2[x] \notin {root, special, fm}
          /\ \A i \in Idx : l2[x] # l1[i]
          /\ \A y \in Idx \X Idx : l2[y] = l2[x] => y = x
    /\ \A va \in Vas : leaf[va] \in Pages =>
          /\ InUse(leaf[va]) /\ leaf[va] \notin {root, special, fm}
          /\ \A i \in Idx : leaf[va] # l1[i]
          /\ \A x \in Idx \X Idx : leaf[va] # l2[x]
          /\ \A vb \in Vas : leaf[vb] = leaf[va] => vb = va

\* Every mapping can be walked: the tables above a mapped page exist, and a
\* last-level table hangs below a middle one.
Walkable ==
    /\ \A x \in Idx \X Idx : l2[x] # 0 => l1[x[1]] # 0
    /\ \A va \in Vas : leaf[va] # Unmapped => l2[<<va[1], va[2]>>] # 0

\* Extending the page table never moves a table nor changes what another
\* virtual page maps to.
TablesStable ==
    [][/\ \A i \in Idx : l1[i] # 0 => l1'[i] = l1[i]
       /\ \A x \in Idx \X Idx : l2[x] # 0 => l2'[x] = l2[x]
       /\ \A va, vb \in Vas :
             leaf'[va] # leaf[va] /\ leaf'[vb] # leaf[vb] => va = vb]_pvars
=============================================================================
