------------------------------ MODULE ElfLayout ------------------------------
(***************************************************************************)
(* What a request has to look like for penglai_enclave_create to load it   *)
(* completely: where the parts of the image lie, and how many pages they   *)
(* need.  ElfLoaderProofs shows that nothing more is needed.               *)
(***************************************************************************)
EXTENDS ElfLoader, FiniteSets

\* The bytes that the page table can address
Top == Fan * Fan * Fan * PgSize

-----------------------------------------------------------------------------
(* Where the parts lie                                                     *)

StackPart(r)     == [addr |-> StackPoint - r.stack, size |-> r.stack]
UntrustedPart(r) == [addr |-> UntrustedPtr, size |-> UntrustedSize(r)]
KbufferPart      == [addr |-> Kbuffer, size |-> PgSize]
NobitsParts(r)   == {p \in Range(r.nobits) : p.addr # 0}

PrivateParts(r) == {StackPart(r)} \cup NobitsParts(r) \cup Range(r.segs)
SharedParts(r)  == {KbufferPart} \cup (IF r.alloc THEN {UntrustedPart(r)} ELSE {})

InSpace(p) == p.size \in Nat /\ p.addr \in Nat /\ p.addr + p.size <= Top

\* No page holds bytes of both.
Apart(p, q) == \A a \in Bytes(p), b \in Bytes(q) : a \div PgSize # b \div PgSize

\* The loop over the part, a page at a time from its first byte, meets every
\* page that the part lies in.
LoopCovers(p) == (p.addr % PgSize) + p.size <= PageUp(p.size)

\* app.lds and the SDK's fixed addresses: segments start on page boundaries and
\* share no page, .bss may begin in the last page of the data but shares no byte
\* with it, and private and shared memory are pages apart.
LayoutOK(r) ==
    /\ \A p \in PrivateParts(r) \cup SharedParts(r) : InSpace(p)
    /\ \A p \in Range(r.segs) : p.addr % PgSize = 0
    /\ \A p, q \in Range(r.segs) : p # q => Apart(p, q)
    /\ \A p \in NobitsParts(r), q \in Range(r.segs) : Bytes(p) \cap Bytes(q) = {}
    /\ \A p \in NobitsParts(r) \cup {StackPart(r)} : LoopCovers(p)
    /\ \A p \in PrivateParts(r), q \in SharedParts(r) : Apart(p, q)
    /\ r.alloc => UntrustedPtr % PgSize = 0 /\ Apart(UntrustedPart(r), KbufferPart)

-----------------------------------------------------------------------------
(* How many pages they need                                                *)

\* the addresses that the loop over a range calls enclave_alloc_page or
\* map_va2pa for
Visits(j) == {a \in Bytes(j) : (a - j.addr) % PgSize = 0}

\* the calls of enclave_alloc_page, by range
PageTakers(r) ==
    UNION {{i} \X Visits(Jobs(r)[i]) :
             i \in {k \in DOMAIN Jobs(r) : Jobs(r)[k].kind \in {"stack", "zero", "file"}}}

\* the tables below the root on the way to these addresses
Walked(r)     == UNION {{VaOf(a) : a \in Visits(j)} : j \in Range(Jobs(r))}
LastTables(r) == {<<va[1], va[2]>> : va \in Walked(r)}
MidTables(r)  == {va[1] : va \in Walked(r)}

\* A page for every call and every table, the root table, the special page and
\* the page for the monitor
PagesNeeded(r) ==
    3 + Cardinality(PageTakers(r)) + Cardinality(MidTables(r)) + Cardinality(LastTables(r))

BudgetOK(r) == UntrustedSize(r) \in Nat /\ PagesNeeded(r) <= TotalPages(r)
=============================================================================
