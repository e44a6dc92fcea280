-------------------------- MODULE ElfLoaderProofs --------------------------
(***************************************************************************)
(* Theorems about EnclavePages and about ElfLoader, which fills them, for  *)
(* tables of any width, any amount of secure memory and any image: no page *)
(* has two uses and every mapping can be walked; whatever copies fail on   *)
(* the way, no byte of a segment ends at a wrong address, if the file's    *)
(* segments start on page boundaries; a request for as many pages as       *)
(* PagesNeeded counts never runs out of them; and an image that is laid    *)
(* out as LayoutOK says is loaded completely when nothing fails.           *)
(***************************************************************************)
EXTENDS ElfLayout, FiniteSetTheorems, TLAPS

-----------------------------------------------------------------------------
(* The page list and the page table                                        *)

\* The inductive invariant: before enclave_mem_int nothing has been handed
\* out, and afterwards every page in use is one the list no longer holds.
Untouched ==
    st = "none" =>
      /\ taken = 0 /\ fm = 0
      /\ \A i \in Idx : l1[i] = 0
      /\ \A x \in Idx \X Idx : l2[x] = 0
      /\ \A va \in Vas : leaf[va] = Unmapped

PagesInv == PagesTypeOK /\ Untouched /\ OneUse /\ Walkable

-----------------------------------------------------------------------------
\* What get_free_mem returns is new: above everything handed out before.
LEMMA FreeMemIsNew ==
    ASSUME PagesTypeOK, NEW n \in Nat, n \in taken .. total
    PROVE  /\ GetFreeMem(n) \in {0, n + 1}
           /\ Taken(n) \in n .. total
           /\ Taken(n) \in Nat
           /\ GetFreeMem(n) # 0 => GetFreeMem(n) = n + 1 /\ Taken(n) = n + 1
  BY DEF PagesTypeOK, GetFreeMem, Taken

\* A walk keeps the tables it finds and adds new pages for the others.
LEMMA WalkAddsNew ==
    ASSUME PagesTypeOK, NEW va \in Vas, NEW n \in Nat, n \in taken .. total,
           ~WalkNull(va, n)
    PROVE  /\ WalkCount1(va, n) \in n .. WalkCount(va, n)
           /\ WalkCount(va, n) \in taken .. total
           /\ IF Needs1(va) THEN WalkL1(va, n) = n + 1 /\ WalkCount1(va, n) = n + 1
                            ELSE WalkL1(va, n) = l1[va[1]] /\ l1[va[1]] # 0
           /\ IF Needs2(va) THEN /\ WalkL2(va, n) = WalkCount1(va, n) + 1
                                 /\ WalkCount(va, n) = WalkCount1(va, n) + 1
                            ELSE /\ WalkL2(va, n) = l2[<<va[1], va[2]>>]
                                 /\ l2[<<va[1], va[2]>>] # 0
<1>1. /\ va[1] \in Idx /\ <<va[1], va[2]>> \in Idx \X Idx
      /\ taken \in Nat /\ total \in Nat
  BY DEF Vas, PagesTypeOK
<1>2. /\ WalkCount1(va, n) \in n .. total /\ WalkCount1(va, n) \in taken .. total
      /\ WalkCount1(va, n) \in Nat
      /\ IF Needs1(va) THEN WalkL1(va, n) = n + 1 /\ WalkCount1(va, n) = n + 1
                       ELSE WalkL1(va, n) = l1[va[1]] /\ l1[va[1]] # 0
  <2>1. CASE Needs1(va)
    BY <2>1, <1>1, FreeMemIsNew DEF WalkCount1, WalkL1, WalkNull
  <2>2. CASE ~Needs1(va)
    BY <2>2, <1>1 DEF WalkCount1, WalkL1, Needs1
  <2> QED BY <2>1, <2>2
<1>3. /\ WalkCount(va, n) \in WalkCount1(va, n) .. total
      /\ IF Needs2(va) THEN /\ WalkL2(va, n) = WalkCount1(va, n) + 1
                            /\ WalkCount(va, n) = WalkCount1(va, n) + 1
                       ELSE /\ WalkL2(va, n) = l2[<<va[1], va[2]>>]
                            /\ l2[<<va[1], va[2]>>] # 0
  <2>1. CASE Needs2(va)
    BY <2>1, <1>1, <1>2, FreeMemIsNew DEF WalkCount, WalkL2, WalkNull
  <2>2. CASE ~Needs2(va)
    BY <2>2, <1>1, <1>2 DEF WalkCount, WalkL2, Needs2
  <2> QED BY <2>1, <2>2
<1> QED BY <1>1, <1>2, <1>3

\* Entering a mapping keeps the invariant when its target is a page taken
\* before the walk and not used elsewhere, or no page of the enclave.
LEMMA WalkAndMapInv ==
    ASSUME PagesInv, st = "ready",
           NEW va \in Vas, NEW n \in Nat, n \in taken .. total,
           NEW target \in Nat \cup Frames,
           target \in Pages => target = taken + 1 /\ n = taken + 1,
           WalkAndMap(va, n, target)
    PROVE  PagesInv'
<1> USE PagesAssumption
<1>1. CASE WalkNull(va, n)
  BY <1>1 DEF WalkAndMap, PagesInv, PagesTypeOK, Untouched, OneUse, Walkable, InUse
<1>2. CASE ~WalkNull(va, n)
  <2> DEFINE v1 == va[1]
             v2 == <<va[1], va[2]>>
             a == WalkL1(va, n)
             b == WalkL2(va, n)
             n1 == WalkCount1(va, n)
             n2 == WalkCount(va, n)
  <2>1. /\ l1' = [l1 EXCEPT ![v1] = a]
        /\ l2' = [l2 EXCEPT ![v2] = b]
        /\ leaf' = [leaf EXCEPT ![va] = target]
        /\ taken' = n2
        /\ UNCHANGED <<total, root, special, fm, st>>
    BY <1>2 DEF WalkAndMap
  <2>2. /\ n1 \in n .. n2 /\ n2 \in taken .. total
        /\ l1[v1] = 0 => a = n + 1 /\ n1 = n + 1
        /\ l1[v1] # 0 => a = l1[v1]
        /\ l2[v2] = 0 => b = n1 + 1 /\ n2 = n1 + 1
        /\ l2[v2] # 0 => b = l2[v2]
    BY <1>2, WalkAddsNew DEF PagesInv, Needs1, Needs2
  <2>3. /\ v1 \in Idx /\ v2 \in Idx \X Idx /\ v2[1] = v1
        /\ PagesTypeOK /\ OneUse /\ Walkable
    BY DEF Vas, PagesInv
  <2> HIDE DEF v1, v2, a, b, n1, n2
  <2>4. /\ a \in Nat /\ b \in Nat /\ a # 0 /\ b # 0
        /\ n1 \in Nat /\ n2 \in Nat /\ taken \in Nat /\ total \in Nat
        /\ l1 \in [Idx -> Nat] /\ l2 \in [Idx \X Idx -> Nat]
    BY <2>2, <2>3 DEF PagesTypeOK
  <2>5. /\ \A i \in Idx : l1'[i] = IF i = v1 THEN a ELSE l1[i]
        /\ \A x \in Idx \X Idx : l2'[x] = IF x = v2 THEN b ELSE l2[x]
        /\ \A w \in Vas : leaf'[w] = IF w = va THEN target ELSE leaf[w]
    BY <2>1, <2>3 DEF PagesTypeOK
  <2>6. PagesTypeOK'
    BY <2>1, <2>2, <2>3, <2>4 DEF PagesTypeOK
  <2>7. Untouched'
    BY <2>1 DEF Untouched
  <2>8. Walkable'
    <3>1. \A x \in Idx \X Idx : l2'[x] # 0 => l1'[x[1]] # 0
      BY <2>3, <2>4, <2>5 DEF Walkable
    <3>2. \A w \in Vas : leaf'[w] # Unmapped => l2'[<<w[1], w[2]>>] # 0
      <4> SUFFICES ASSUME NEW w \in Vas, leaf'[w] # Unmapped
                   PROVE  l2'[<<w[1], w[2]>>] # 0
        OBVIOUS
      <4>1. <<w[1], w[2]>> \in Idx \X Idx
        BY DEF Vas
      <4>2. CASE w = va
        BY <4>1, <4>2, <2>3, <2>4, <2>5 DEF v2
      <4>3. CASE w # va
        BY <4>1, <4>3, <2>3, <2>4, <2>5 DEF Walkable
      <4> QED BY <4>2, <4>3
    <3> QED BY <3>1, <3>2 DEF Walkable
  <2>9. OneUse'
    <3>1. \A p \in Nat : InUse(p) => p \in 1 .. taken' /\ p <= taken
      BY <2>1, <2>2, <2>4 DEF InUse
    <3>2. /\ (root # 0 => InUse(root))'
          /\ (special # 0 => InUse(special) /\ special # root)'
          /\ (fm # 0 => InUse(fm) /\ fm \notin {root, special})'
      BY <2>1, <2>3, <3>1 DEF OneUse, PagesTypeOK, InUse
    <3>3. root <= taken /\ special <= taken /\ fm <= taken
      BY <2>3, <2>4, <3>1 DEF OneUse, PagesTypeOK
    <3>4. /\ \A i \in Idx : l1[i] <= taken
          /\ \A x \in Idx \X Idx : l2[x] <= taken
          /\ \A w \in Vas : leaf[w] \in Pages => leaf[w] <= taken
      BY <2>3, <2>4, <3>1 DEF OneUse, Pages
    <3>5. /\ n > taken \/ target \notin Pages \/ n = taken
          /\ l1[v1] = 0 => a > taken /\ a \in 1 .. taken'
          /\ l2[v2] = 0 => b > taken /\ b \in 1 .. taken' /\ b > a
      BY <2>1, <2>2, <2>4, <3>4, <2>3 DEF InUse
    <3>6. \A i \in Idx : l1'[i] # 0 =>
             /\ l1'[i] \in 1 .. taken' /\ l1'[i] \notin {root', special', fm'}
             /\ \A j \in Idx : l1'[j] = l1'[i] => j = i
      <4> SUFFICES ASSUME NEW i \in Idx, l1'[i] # 0
                   PROVE /\ l1'[i] \in 1 .. taken' /\ l1'[i] \notin {root', special', fm'}
                         /\ \A j \in Idx : l1'[j] = l1'[i] => j = i
        OBVIOUS
      <4>1. CASE l1[v1] = 0
        BY <4>1, <2>1, <2>3, <2>4, <2>5, <3>1, <3>3, <3>4, <3>5 DEF OneUse, PagesTypeOK
      <4>2. CASE l1[v1] # 0
        BY <4>2, <2>1, <2>2, <2>3, <2>4, <2>5, <3>1 DEF OneUse
      <4> QED BY <4>1, <4>2
    <3>7. \A x \in Idx \X Idx : l2'[x] # 0 =>
             /\ l2'[x] \in 1 .. taken' /\ l2'[x] \notin {root', special', fm'}
             /\ \A i \in Idx : l2'[x] # l1'[i]
             /\ \A y \in Idx \X Idx : l2'[y] = l2'[x] => y = x
      <4> SUFFICES ASSUME NEW x \in Idx \X Idx, l2'[x] # 0
                   PROVE /\ l2'[x] \in 1 .. taken' /\ l2'[x] \notin {root', special', fm'}
                         /\ \A i \in Idx : l2'[x] # l1'[i]
                         /\ \A y \in Idx \X Idx : l2'[y] = l2'[x] => y = x
        OBVIOUS
      <4>1. /\ l2'[x] \in 1 .. taken' /\ l2'[x] \notin {root', special', fm'}
            /\ \A y \in Idx \X Idx : l2'[y] = l2'[x] => y = x
        <5>1. CASE l2[v2] = 0
          BY <5>1, <2>1, <2>3, <2>4, <2>5, <3>1, <3>3, <3>4, <3>5 DEF OneUse, PagesTypeOK
        <5>2. CASE l2[v2] # 0
          BY <5>2, <2>1, <2>2, <2>3, <2>4, <2>5, <3>1 DEF OneUse
        <5> QED BY <5>1, <5>2
      <4>2. \A i \in Idx : l2'[x] # l1'[i]
        <5> TAKE i \in Idx
        <5>1. \A y \in Idx \X Idx, j \in Idx : l2[y] # 0 => l2[y] # l1[j]
          BY <2>3 DEF OneUse
        <5> QED
          BY <5>1, <2>2, <2>3, <2>4, <2>5, <3>4, <3>5
      <4> QED BY <4>1, <4>2
    <3>8. \A w \in Vas : leaf'[w] \in Pages =>
             /\ leaf'[w] \in 1 .. taken' /\ leaf'[w] \notin {root', special', fm'}
             /\ \A i \in Idx : leaf'[w] # l1'[i]
             /\ \A x \in Idx \X Idx : leaf'[w] # l2'[x]
             /\ \A u \in Vas : leaf'[u] = leaf'[w] => u = w
      <4> SUFFICES ASSUME NEW w \in Vas, leaf'[w] \in Pages
                   PROVE /\ leaf'[w] \in 1 .. taken' /\ leaf'[w] \notin {root', special', fm'}
                         /\ \A i \in Idx : leaf'[w] # l1'[i]
                         /\ \A x \in Idx \X Idx : leaf'[w] # l2'[x]
                         /\ \A u \in Vas : leaf'[u] = leaf'[w] => u = w
        OBVIOUS
      <4>0. target \in Pages => target > taken /\ target <= n /\ target \in 1 .. taken'
        BY <2>1, <2>2, <2>4 DEF Pages, InUse
      <4>1. CASE w = va
        <5>1. leaf'[w] = target /\ target \in Pages
          BY <4>1, <2>5
        <5>2. \A i \in Idx : target # l1'[i]
          BY <5>1, <4>0, <2>2, <2>3, <2>4, <2>5, <3>4 DEF Pages
        <5>3. \A x \in Idx \X Idx : target # l2'[x]
          BY <5>1, <4>0, <2>2, <2>3, <2>4, <2>5, <3>4 DEF Pages
        <5>4. \A u \in Vas : leaf'[u] = target => u = w
          BY <4>1, <5>1, <4>0, <2>4, <2>5, <3>4 DEF Pages
        <5> QED
          BY <5>1, <5>2, <5>3, <5>4, <4>0, <2>1, <2>4, <3>3 DEF Pages, PagesTypeOK
      <4>2. CASE w # va
        <5>1. leaf'[w] = leaf[w] /\ leaf[w] \in Pages /\ leaf[w] <= taken
          BY <4>2, <2>5, <3>4
        <5>2. /\ leaf[w] \in 1 .. taken' /\ leaf[w] \notin {root', special', fm'}
              /\ \A i \in Idx : leaf[w] # l1[i]
              /\ \A x \in Idx \X Idx : leaf[w] # l2[x]
              /\ \A u \in Vas : leaf[u] = leaf[w] => u = w
          BY <5>1, <2>1, <2>3, <3>1 DEF OneUse, Pages
        <5>3. \A i \in Idx : leaf[w] # l1'[i]
          BY <5>1, <5>2, <2>2, <2>3, <2>4, <2>5, <3>5 DEF Pages
        <5>4. \A x \in Idx \X Idx : leaf[w] # l2'[x]
          BY <5>1, <5>2, <2>2, <2>3, <2>4, <2>5, <3>5 DEF Pages
        <5>5. \A u \in Vas : leaf'[u] = leaf[w] => u = w
          BY <5>1, <5>2, <4>0, <4>2, <2>4, <2>5 DEF Pages
        <5> QED BY <5>1, <5>2, <5>3, <5>4, <5>5
      <4> QED BY <4>1, <4>2
    <3> QED BY <3>2, <3>6, <3>7, <3>8 DEF OneUse, InUse
  <2> QED BY <2>6, <2>7, <2>8, <2>9 DEF PagesInv
<1> QED BY <1>1, <1>2

-----------------------------------------------------------------------------
\* Whatever is mapped and however little memory there is, no page of the
\* enclave has two uses and every mapping can be walked.
LEMMA PagesInductive ==
    /\ PagesInit => PagesInv
    /\ PagesInv /\ [PagesNext]_pvars => PagesInv'
<1> USE PagesAssumption
<1>1. PagesInit => PagesInv
  BY DEF PagesInit, PagesInv, PagesTypeOK, Untouched, OneUse, Walkable, Pages
<1>2. ASSUME PagesInv, [PagesNext]_pvars PROVE PagesInv'
  <2>0. taken \in Nat /\ total \in Nat /\ taken \in taken .. total
    BY <1>2 DEF PagesInv, PagesTypeOK
  <2>1. CASE EnclaveMemInt
    <3>1. /\ taken = 0 /\ fm = 0
          /\ \A i \in Idx : l1[i] = 0
          /\ \A x \in Idx \X Idx : l2[x] = 0
          /\ \A va \in Vas : leaf[va] = Unmapped
      BY <1>2, <2>1 DEF EnclaveMemInt, PagesInv, Untouched
    <3>2. UNCHANGED <<l1, l2, leaf, fm>> /\ st' = "ready"
      BY <2>1 DEF EnclaveMemInt
    <3>3. PagesTypeOK' /\ total' \in Nat
      BY <1>2, <2>1 DEF EnclaveMemInt, PagesInv, PagesTypeOK
    <3>4. OneUse'
      BY <2>1, <3>1, <3>2, <3>3 DEF EnclaveMemInt, OneUse, InUse, Pages
    <3> QED BY <3>1, <3>2, <3>3, <3>4 DEF PagesInv, Untouched, Walkable
  <2>2. ASSUME NEW va \in Vas, EnclaveAllocPage(va) PROVE PagesInv'
    <3>1. /\ Taken(taken) \in taken .. total /\ Taken(taken) \in Nat
          /\ GetFreeMem(taken) \in Nat
          /\ GetFreeMem(taken) \in Pages =>
                GetFreeMem(taken) = taken + 1 /\ Taken(taken) = taken + 1
      BY <1>2, <2>0, FreeMemIsNew DEF PagesInv, Pages
    <3>2. st = "ready" /\ WalkAndMap(va, Taken(taken), GetFreeMem(taken))
      BY <2>2 DEF EnclaveAllocPage
    <3> HIDE DEF Pages
    <3> QED BY <1>2, <3>1, <3>2, WalkAndMapInv
  <2>3. ASSUME NEW va \in Vas, NEW f \in Frames, MapVa2Pa(va, f) PROVE PagesInv'
    BY <1>2, <2>0, <2>3, WalkAndMapInv DEF MapVa2Pa, Pages
  <2>4. CASE TakeFreeMem
    <3>1. /\ fm' \in {0, taken + 1} /\ (fm' # 0 => taken' = taken + 1)
          /\ taken' \in taken .. total
          /\ UNCHANGED <<total, root, special, l1, l2, leaf, st>> /\ st = "ready"
      BY <1>2, <2>0, <2>4, FreeMemIsNew DEF TakeFreeMem, PagesInv
    <3>2. PagesTypeOK' /\ Untouched' /\ Walkable'
      BY <1>2, <2>0, <3>1 DEF PagesInv, PagesTypeOK, Untouched, Walkable
    <3>3. \A p \in Nat : InUse(p) => p \in 1 .. taken' /\ p # taken + 1
      BY <2>0, <3>1 DEF InUse
    <3>4. OneUse'
      BY <1>2, <2>0, <3>1, <3>3 DEF PagesInv, PagesTypeOK, OneUse, Pages, InUse
    <3> QED BY <3>2, <3>4 DEF PagesInv
  <2>5. CASE EnclaveMemDestroy
    <3>1. /\ taken' = total /\ UNCHANGED <<total, root, special, l1, l2, leaf, fm>>
          /\ st' = "clean"
      BY <2>5 DEF EnclaveMemDestroy
    <3>2. \A p \in Nat : InUse(p) => p \in 1 .. taken'
      BY <1>2, <3>1 DEF InUse, PagesInv, PagesTypeOK
    <3>3. OneUse'
      BY <1>2, <3>1, <3>2 DEF PagesInv, PagesTypeOK, OneUse, Pages, InUse
    <3> QED BY <1>2, <3>1, <3>3 DEF PagesInv, PagesTypeOK, Untouched, Walkable
  <2>6. CASE UNCHANGED pvars
    BY <1>2, <2>6 DEF pvars, PagesInv, PagesTypeOK, Untouched, OneUse, Walkable, InUse
  <2> QED BY <1>2, <2>1, <2>2, <2>3, <2>4, <2>5, <2>6 DEF PagesNext
<1> QED BY <1>1, <1>2

\* The page list and the tables are well typed and the list is never read past
\* its end.
THEOREM PagesType == PagesSpec => []PagesTypeOK
<1>1. PagesInv => PagesTypeOK
  BY DEF PagesInv
<1> QED BY PagesInductive, <1>1, PTL DEF PagesSpec

\* No page is handed out twice or used for two purposes.
THEOREM PagesOneUse == PagesSpec => []OneUse
<1>1. PagesInv => OneUse
  BY DEF PagesInv
<1> QED BY PagesInductive, <1>1, PTL DEF PagesSpec

\* Every page that is mapped can be reached from the root table.
THEOREM PagesWalkable == PagesSpec => []Walkable
<1>1. PagesInv => Walkable
  BY DEF PagesInv
<1> QED BY PagesInductive, <1>1, PTL DEF PagesSpec

\* A walk neither moves a table nor changes another page's mapping.
THEOREM PagesStable == PagesSpec => TablesStable
<1> DEFINE Stable ==
      /\ \A i \in Idx : l1[i] # 0 => l1'[i] = l1[i]
      /\ \A x \in Idx \X Idx : l2[x] # 0 => l2'[x] = l2[x]
      /\ \A va, vb \in Vas :
            leaf'[va] # leaf[va] /\ leaf'[vb] # leaf[vb] => va = vb
<1>1. ASSUME PagesInv, NEW va \in Vas, NEW n \in Nat, NEW target,
             WalkAndMap(va, n, target)
      PROVE  Stable
  <2>1. CASE WalkNull(va, n)
    BY <1>1, <2>1 DEF WalkAndMap
  <2>2. CASE ~WalkNull(va, n)
    <3>1. /\ l1' = [l1 EXCEPT ![va[1]] = WalkL1(va, n)]
          /\ l2' = [l2 EXCEPT ![<<va[1], va[2]>>] = WalkL2(va, n)]
          /\ leaf' = [leaf EXCEPT ![va] = target]
      BY <1>1, <2>2 DEF WalkAndMap
    <3>2. l1 \in [Idx -> Nat] /\ l2 \in [Idx \X Idx -> Nat] /\ DOMAIN leaf = Vas
      BY <1>1 DEF PagesInv, PagesTypeOK
    <3>3. /\ l1[va[1]] # 0 => WalkL1(va, n) = l1[va[1]]
          /\ l2[<<va[1], va[2]>>] # 0 => WalkL2(va, n) = l2[<<va[1], va[2]>>]
      BY DEF WalkL1, WalkL2, Needs1, Needs2
    <3>4. /\ \A i \in Idx : l1[i] # 0 => l1'[i] = l1[i]
          /\ \A x \in Idx \X Idx : l2[x] # 0 => l2'[x] = l2[x]
      BY <3>1, <3>2, <3>3
    <3>5. \A w \in Vas : leaf'[w] # leaf[w] => w = va
      BY <3>1, <3>2
    <3> QED BY <3>4, <3>5
  <2> QED BY <2>1, <2>2
<1>2. ASSUME PagesInv, PagesNext PROVE Stable
  <2>1. taken \in Nat /\ Taken(taken) \in Nat
    BY <1>2 DEF PagesInv, PagesTypeOK, Taken
  <2>2. ASSUME NEW va \in Vas, EnclaveAllocPage(va) PROVE Stable
    BY <1>1, <1>2, <2>1, <2>2 DEF EnclaveAllocPage
  <2>3. ASSUME NEW va \in Vas, NEW f \in Frames, MapVa2Pa(va, f) PROVE Stable
    BY <1>1, <1>2, <2>1, <2>3 DEF MapVa2Pa
  <2>4. CASE EnclaveMemInt \/ TakeFreeMem \/ EnclaveMemDestroy
    BY <2>4 DEF EnclaveMemInt, TakeFreeMem, EnclaveMemDestroy
  <2> QED BY <1>2, <2>2, <2>3, <2>4 DEF PagesNext
<1>3. PagesInv /\ [PagesNext]_pvars => [Stable]_pvars
  BY <1>2
<1> QED BY PagesInductive, <1>3, PTL DEF PagesSpec, TablesStable

-----------------------------------------------------------------------------
(* The loader                                                              *)

\* app.lds starts every segment on a page boundary, and within the address space.
SegmentsAligned ==
    \A r \in Requests : \A p \in Range(r.segs) :
        p.addr % PgSize = 0 /\ p.addr + p.size <= Top

-----------------------------------------------------------------------------
(* Arithmetic: an address is found by its indices                          *)

LEMMA Division ==
    ASSUME NEW a \in Int, NEW n \in Nat \ {0}
    PROVE  /\ a \div n \in Int /\ a % n \in 0 .. n - 1
           /\ a = n * (a \div n) + (a % n)
  BY SMTT(30)

LEMMA DivisionUnique ==
    ASSUME NEW q \in Int, NEW n \in Nat \ {0}, NEW r \in 0 .. n - 1
    PROVE  (n * q + r) \div n = q /\ (n * q + r) % n = r
  BY SMTT(30)

LEMMA VaOfType == ASSUME NEW a \in Int PROVE VaOf(a) \in Vas
<1>1. PgSize \in Nat \ {0} /\ Fan \in Nat \ {0} /\ Fan * Fan \in Nat \ {0} /\ Idx = 0 .. Fan - 1
  BY LoaderAssumption
<1>2. \A x \in Int : x % Fan \in Idx
  BY <1>1, Division
<1>3. a \div PgSize \in Int /\ (a \div PgSize) \div Fan \in Int
      /\ (a \div PgSize) \div (Fan * Fan) \in Int
  BY <1>1, Division
<1> QED
  BY <1>2, <1>3 DEF VaOf, Vas

\* The three indices of a page number
LEMMA ThreeDigits ==
    ASSUME NEW p \in 0 .. Fan * Fan * Fan - 1
    PROVE  p = Fan * (Fan * ((p \div (Fan * Fan)) % Fan) + ((p \div Fan) % Fan)) + (p % Fan)
<1> DEFINE F == Fan
           u == p \div F
           c == p % F
           v == u \div F
           b == u % F
<1>1. F \in Nat \ {0} /\ F * F \in Nat \ {0} /\ F * F * F \in Nat /\ p \in Int
  BY LoaderAssumption
<1>2. u \in Int /\ c \in 0 .. F - 1 /\ p = F * u + c
  BY <1>1, Division
<1>3. v \in Int /\ b \in 0 .. F - 1 /\ u = F * v + b
  BY <1>1, <1>2, Division
<1> HIDE DEF u, c, v, b
<1>4. F * b + c \in 0 .. F * F - 1
  <2>1. F - 1 - b \in Nat /\ F * (F - 1 - b) \in Nat /\ F * b \in Nat
    BY <1>1, <1>3
  <2>2. F * (F - 1 - b) = F * F - F - F * b
    BY <1>1, <1>3
  <2> QED
    BY <1>1, <1>2, <1>3, <2>1, <2>2
<1>5. p = (F * F) * v + (F * b + c)
  BY <1>1, <1>2, <1>3
<1>6. p \div (F * F) = v
  BY <1>1, <1>3, <1>4, <1>5, DivisionUnique
<1> DEFINE w == (F * F) * v
<1>7. v \in 0 .. F - 1
  <2>1. ASSUME v < 0 PROVE FALSE
    <3>1. -v - 1 \in Nat /\ (F * F) * (-v - 1) \in Nat
      BY <1>1, <1>3, <2>1
    <3>2. (F * F) * (-v - 1) = -w - F * F /\ w \in Int
      BY <1>1, <1>3
    <3> HIDE DEF w
    <3>3. p = w + (F * b + c) /\ w + F * F <= 0
      BY <1>1, <1>5, <3>1, <3>2 DEF w
    <3> QED
      BY <1>1, <1>4, <3>2, <3>3
  <2>2. ASSUME v >= F PROVE FALSE
    <3>1. v - F \in Nat /\ (F * F) * (v - F) \in Nat
      BY <1>1, <1>3, <2>2
    <3>2. (F * F) * (v - F) = w - F * F * F /\ w \in Int
      BY <1>1, <1>3
    <3> HIDE DEF w
    <3>3. p = w + (F * b + c) /\ w >= F * F * F
      BY <1>1, <1>5, <3>1, <3>2 DEF w
    <3> QED
      BY <1>1, <1>4, <3>2, <3>3
  <2> QED
    BY <1>1, <1>3, <2>1, <2>2
<1>8. v % F = v
  BY <1>1, <1>7
<1>9. p = F * (F * v + b) + c
  BY <1>2, <1>3
<1> QED
  BY <1>6, <1>8, <1>9 DEF u, c, b

\* Two addresses in pages with the same indices lie in the same page.
LEMMA SameIndices ==
    ASSUME NEW a \in 0 .. Top - 1, NEW f \in 0 .. Top - 1, VaOf(a) = VaOf(f)
    PROVE  a \div PgSize = f \div PgSize
<1>1. PgSize \in Nat \ {0} /\ Fan \in Nat \ {0} /\ Fan * Fan * Fan \in Nat
  BY LoaderAssumption
<1> DEFINE Cube == Fan * Fan * Fan
           p == a \div PgSize
           q == f \div PgSize
<1>2. Top = PgSize * Cube /\ Top \in Nat
  BY <1>1 DEF Top
<1>3. ASSUME NEW x \in 0 .. Top - 1 PROVE x \div PgSize \in 0 .. Cube - 1
  <2> DEFINE d == x \div PgSize
             r == x % PgSize
  <2>1. d \in Int /\ r \in 0 .. PgSize - 1 /\ x = PgSize * d + r /\ x \in Int
    BY <1>1, <1>2, Division
  <2> HIDE DEF d, r, Cube
  <2>2. ASSUME d < 0 PROVE FALSE
    <3>1. -d - 1 \in Nat /\ PgSize * (-d - 1) \in Nat
      BY <1>1, <2>1, <2>2
    <3>2. PgSize * (-d - 1) = -(PgSize * d) - PgSize
      BY <1>1, <2>1
    <3> QED
      BY <1>1, <2>1, <3>1, <3>2
  <2>3. ASSUME d >= Cube PROVE FALSE
    <3>1. d - Cube \in Nat /\ PgSize * (d - Cube) \in Nat
      BY <1>1, <2>1, <2>3 DEF Cube
    <3>2. PgSize * (d - Cube) = PgSize * d - PgSize * Cube
      BY <1>1, <2>1 DEF Cube
    <3> QED
      BY <1>1, <1>2, <2>1, <3>1, <3>2
  <2>4. Cube \in Int
    BY <1>1 DEF Cube
  <2> QED
    BY <2>1, <2>2, <2>3, <2>4 DEF d
<1>4. p \in 0 .. Cube - 1 /\ q \in 0 .. Cube - 1
  BY <1>3
<1>5. /\ (p \div (Fan * Fan)) % Fan = (q \div (Fan * Fan)) % Fan
      /\ (p \div Fan) % Fan = (q \div Fan) % Fan
      /\ p % Fan = q % Fan
  BY DEF VaOf
<1> HIDE DEF p, q
<1>6. p = q
  BY <1>4, <1>5, ThreeDigits
<1> QED
  BY <1>6 DEF p, q

LEMMA SamePage ==
    ASSUME NEW a \in 0 .. Top - 1, NEW f \in 0 .. Top - 1, f % PgSize = 0, VaOf(a) = VaOf(f)
    PROVE  f + (a % PgSize) = a
<1>1. PgSize \in Nat \ {0} /\ a \in Int /\ f \in Int
  BY LoaderAssumption
<1>2. a \div PgSize = f \div PgSize
  BY SameIndices
<1> DEFINE p == a \div PgSize
           q == f \div PgSize
<1>3. a = PgSize * p + (a % PgSize) /\ f = PgSize * q + (f % PgSize) /\ a % PgSize \in Int
      /\ p \in Int /\ q \in Int
  BY <1>1, Division
<1> HIDE DEF p, q
<1>4. p = q
  BY <1>2 DEF p, q
<1> QED
  BY <1>1, <1>3, <1>4

-----------------------------------------------------------------------------
(* The inductive invariant                                                 *)

Kinds == {"stack", "header", "zero", "file", "entry", "untrusted", "kbuffer"}

JobSizes == Nat \cup {UntrustedSize(r) : r \in Requests}

\* Ranges of segments are aligned and lie in the address space.
JobSet == {j \in [kind : Kinds, addr : Int, size : JobSizes, at : Int] :
             /\ j.at >= j.addr
             /\ j.kind = "file" =>
                   /\ j.addr \in Nat /\ j.size \in Nat
                   /\ j.at % PgSize = 0 /\ j.addr + j.size <= Top}

\* The memory as far as it is filled: pages that are mapped or written to have
\* been taken from the list, and a page with bytes of a segment is mapped at the
\* address of the first of them or nowhere.
MemoryInv ==
    /\ total \in Nat /\ taken \in 0 .. total
    /\ leaf \in [Vas -> Int \cup {Unmapped}]
    /\ \A va \in Vas : leaf[va] \in Pages => leaf[va] <= taken
    /\ \A p \in DOMAIN content :
          /\ p \in 1 .. taken
          /\ content[p].kind = "file" =>
                /\ content[p].from \in 0 .. Top - 1 /\ content[p].from % PgSize = 0
                /\ \A va \in Vas : leaf[va] = p => va = VaOf(content[p].from)

\* The entry point that was read is the image's, and while it is not known to be
\* there the test of it is still to come.
EntryInv ==
    /\ entry \in BOOLEAN /\ (entry => req.entry)
    /\ stage = "created" => entry
    /\ stage = "load" /\ ~entry => \E i \in DOMAIN todo : todo[i].kind = "entry"

LoadInv ==
    /\ req \in Requests
    /\ todo \in Seq(JobSet)
    /\ st = "oops" => stage = "load"
    /\ EntryInv
    /\ st = "none" => taken = 0
    /\ st # "oops" => MemoryInv

-----------------------------------------------------------------------------
(* Lists of jobs                                                           *)

LEMMA Joined ==
    ASSUME NEW S, NEW a \in Seq(S), NEW b \in Seq(S)
    PROVE  /\ a \o b \in Seq(S) /\ Len(a \o b) = Len(a) + Len(b)
           /\ \A i \in 1 .. Len(a) : (a \o b)[i] = a[i]
           /\ \A i \in 1 .. Len(b) : (a \o b)[Len(a) + i] = b[i]
  OBVIOUS

LEMMA JobTyped ==
    ASSUME NEW kind \in Kinds, NEW addr \in Int, NEW size \in JobSizes,
           kind = "file" =>
               addr \in Nat /\ size \in Nat /\ addr % PgSize = 0 /\ addr + size <= Top
    PROVE  Job(kind, addr, size) \in JobSet
  BY DEF Job, JobSet

LEMMA JobsTyped ==
    ASSUME SegmentsAligned, NEW r \in Requests
    PROVE  /\ SharedJobs(r) \in Seq(JobSet)
           /\ 1 \in DOMAIN SharedJobs(r) /\ SharedJobs(r)[1].kind = "entry"
           /\ Jobs(r) \in Seq(JobSet)
           /\ \E i \in DOMAIN Jobs(r) : Jobs(r)[i].kind = "entry"
<1> DEFINE Parts == [addr : Nat, size : Nat]
           shared == SharedJobs(r)
           stack == << Job("stack", StackPoint - r.stack, r.stack), Job("header", 0, 0) >>
           zero == JobsOf("zero", Placeable(r.nobits))
           file == JobsOf("file", r.segs)
<1>1. /\ r.nobits \in Seq(Parts) /\ r.segs \in Seq(Parts) /\ r.stack \in Nat
      /\ PgSize \in Nat /\ StackPoint \in Nat /\ UntrustedPtr \in Nat /\ Kbuffer \in Nat
  BY LoaderAssumption DEF RequestOK
<1>2. 0 \in JobSizes /\ PgSize \in JobSizes /\ r.stack \in JobSizes /\ UntrustedSize(r) \in JobSizes
  BY <1>1 DEF JobSizes
<1>3. shared \in Seq(JobSet) /\ Len(shared) = 3 /\ shared[1].kind = "entry"
  <2> DEFINE a == Job("entry", 0, 0)
             b == Job("untrusted", UntrustedPtr, IF r.alloc THEN UntrustedSize(r) ELSE 0)
             c == Job("kbuffer", Kbuffer, PgSize)
  <2>1. a \in JobSet /\ b \in JobSet /\ c \in JobSet
    <3>1. a \in JobSet
      BY <1>2, JobTyped DEF Kinds
    <3>2. b \in JobSet
      <4>1. (IF r.alloc THEN UntrustedSize(r) ELSE 0) \in JobSizes
        BY <1>2
      <4>2. "untrusted" \in Kinds /\ "untrusted" # "file" /\ UntrustedPtr \in Int
        BY <1>1 DEF Kinds
      <4> QED
        BY <4>1, <4>2, JobTyped
    <3>3. c \in JobSet
      BY <1>1, <1>2, JobTyped DEF Kinds
    <3> QED
      BY <3>1, <3>2, <3>3
  <2>2. a.kind = "entry"
    BY DEF Job
  <2> HIDE DEF a, b, c
  <2>3. shared = <<a, b, c>>
    BY DEF SharedJobs, a, b, c
  <2> QED
    BY <2>1, <2>2, <2>3
<1>4. stack \in Seq(JobSet)
  <2>1. Job("stack", StackPoint - r.stack, r.stack) \in JobSet
    BY <1>1, <1>2, JobTyped DEF Kinds
  <2>2. Job("header", 0, 0) \in JobSet
    BY <1>2, JobTyped DEF Kinds
  <2> QED
    BY <2>1, <2>2
<1>5. zero \in Seq(JobSet)
  <2>1. ASSUME NEW i \in DOMAIN r.nobits
        PROVE  /\ Placeable(r.nobits)[i].addr \in Nat
               /\ Placeable(r.nobits)[i].size \in Nat
    <3> HIDE DEF Parts
    <3>1. r.nobits[i] \in Parts
      BY <1>1
    <3> USE DEF Parts
    <3> QED
      BY <3>1 DEF Placeable
  <2>2. DOMAIN Placeable(r.nobits) = DOMAIN r.nobits
    BY DEF Placeable
  <2>3. \A i \in DOMAIN r.nobits : zero[i] \in JobSet
    BY <2>1, <2>2, JobTyped DEF JobsOf, Kinds, JobSizes
  <2>4. DOMAIN r.nobits = 1 .. Len(r.nobits) /\ Len(r.nobits) \in Nat
    BY <1>1
  <2>5. zero = [i \in 1 .. Len(r.nobits) |-> zero[i]]
    BY <2>2, <2>4 DEF JobsOf
  <2> HIDE DEF zero
  <2> QED
    BY <2>3, <2>4, <2>5
<1>6. file \in Seq(JobSet)
  <2>1. ASSUME NEW i \in DOMAIN r.segs PROVE file[i] \in JobSet
    <3> HIDE DEF Parts
    <3>1. r.segs[i] \in Parts
      BY <1>1
    <3>0. r.segs[i] \in Range(r.segs)
      BY DEF Range
    <3> USE DEF Parts
    <3>2. /\ r.segs[i].addr % PgSize = 0 /\ r.segs[i].addr + r.segs[i].size <= Top
          /\ r.segs[i].addr \in Nat /\ r.segs[i].size \in Nat
      BY <3>0, <3>1 DEF SegmentsAligned
    <3> QED
      BY <3>2, JobTyped DEF JobsOf, Kinds, JobSizes
  <2>2. DOMAIN r.segs = 1 .. Len(r.segs) /\ Len(r.segs) \in Nat
    BY <1>1
  <2>3. file = [i \in 1 .. Len(r.segs) |-> file[i]]
    BY <2>2 DEF JobsOf
  <2> HIDE DEF file
  <2> QED
    BY <2>1, <2>2, <2>3
<1>7. Jobs(r) = ((stack \o zero) \o file) \o shared
  BY DEF Jobs
<1> HIDE DEF stack, zero, file, shared
<1> DEFINE front == (stack \o zero) \o file
<1>8. front \in Seq(JobSet) /\ Jobs(r) = front \o shared
  BY <1>4, <1>5, <1>6, <1>7
<1> HIDE DEF front
<1>9. Jobs(r) \in Seq(JobSet) /\ Len(front) + 1 \in DOMAIN Jobs(r)
      /\ Jobs(r)[Len(front) + 1] = shared[1]
  <2> DEFINE all == front \o shared
  <2>1. /\ all \in Seq(JobSet) /\ Len(all) = Len(front) + 3 /\ Len(front) \in Nat
        /\ all[Len(front) + 1] = shared[1]
    <3>1. /\ all \in Seq(JobSet) /\ Len(all) = Len(front) + Len(shared)
          /\ \A i \in 1 .. Len(shared) : all[Len(front) + i] = shared[i]
      <4>1. front \in Seq(JobSet) /\ shared \in Seq(JobSet)
        BY <1>3, <1>8
      <4> QED
        BY <4>1, Joined
    <3>2. Len(front) \in Nat
      BY <1>8
    <3> QED
      BY <1>3, <3>1, <3>2
  <2> HIDE DEF all
  <2> QED
    BY <1>8, <2>1 DEF all
<1> QED
  BY <1>3, <1>9 DEF shared

\* The first range is done, or one page of it
LEMMA TodoKept ==
    ASSUME todo \in Seq(JobSet), todo # <<>>
    PROVE  /\ Head(todo) \in JobSet /\ Tail(todo) \in Seq(JobSet)
           /\ Head(todo).kind # "entry" /\ (\E i \in DOMAIN todo : todo[i].kind = "entry")
                => \E i \in DOMAIN Tail(todo) : Tail(todo)[i].kind = "entry"
           /\ [todo EXCEPT ![1].at = @ + PgSize] \in Seq(JobSet)
           /\ (\E i \in DOMAIN todo : todo[i].kind = "entry")
                => \E i \in DOMAIN todo :
                      [todo EXCEPT ![1].at = @ + PgSize][i].kind = "entry"
<1> DEFINE j == todo[1]
           k == [j EXCEPT !.at = @ + PgSize]
           next == [todo EXCEPT ![1].at = @ + PgSize]
<1>1. /\ Len(todo) \in Nat /\ Len(todo) >= 1 /\ DOMAIN todo = 1 .. Len(todo)
      /\ Head(todo) = j /\ j \in JobSet
  OBVIOUS
<1>2. Tail(todo) \in Seq(JobSet)
  OBVIOUS
<1>3. ASSUME NEW i \in DOMAIN todo, todo[i].kind = "entry", j.kind # "entry"
      PROVE  \E m \in DOMAIN Tail(todo) : Tail(todo)[m].kind = "entry"
  <2>1. i - 1 \in DOMAIN Tail(todo) /\ Tail(todo)[i - 1] = todo[i]
    <3>1. i # 1 /\ i \in 1 .. Len(todo)
      BY <1>1, <1>3
    <3>2. i - 1 \in 1 .. Len(todo) - 1 /\ (i - 1) + 1 = i
      BY <1>1, <3>1
    <3>3. Len(Tail(todo)) = Len(todo) - 1 /\ DOMAIN Tail(todo) = 1 .. Len(todo) - 1
          /\ \A m \in 1 .. Len(todo) - 1 : Tail(todo)[m] = todo[m + 1]
      BY <1>1
    <3> QED
      BY <3>2, <3>3
  <2> QED
    BY <1>3, <2>1
<1>4. k \in JobSet /\ k.kind = j.kind
  <2>1. /\ j.kind \in Kinds /\ j.addr \in Int /\ j.size \in JobSizes /\ j.at \in Int
        /\ j.at >= j.addr
        /\ j.kind = "file" => /\ j.addr \in Nat /\ j.size \in Nat
                              /\ j.at % PgSize = 0 /\ j.addr + j.size <= Top
    BY <1>1 DEF JobSet
  <2>2. k = [kind |-> j.kind, addr |-> j.addr, size |-> j.size, at |-> j.at + PgSize]
    BY <1>1 DEF JobSet
  <2>3. PgSize \in Nat \ {0}
    BY LoaderAssumption
  <2>4. j.at % PgSize = 0 => (j.at + PgSize) % PgSize = 0
    <3> SUFFICES ASSUME j.at % PgSize = 0 PROVE (j.at + PgSize) % PgSize = 0
      OBVIOUS
    <3>1. PICK q \in Int : j.at = PgSize * q + 0
      BY <2>1, <2>3, Division
    <3>2. j.at + PgSize = PgSize * (q + 1) + 0 /\ q + 1 \in Int /\ 0 \in 0 .. PgSize - 1
      BY <2>3, <3>1
    <3>3. (PgSize * (q + 1) + 0) % PgSize = 0
      BY <2>3, <3>2, DivisionUnique
    <3> QED
      BY <3>2, <3>3
  <2> HIDE DEF k
  <2> QED
    BY <2>1, <2>2, <2>3, <2>4 DEF JobSet
<1>5. next = [i \in 1 .. Len(todo) |-> IF i = 1 THEN k ELSE todo[i]]
  BY <1>1
<1> HIDE DEF next, k
<1>6. next \in Seq(JobSet)
  BY <1>1, <1>4, <1>5
<1>7. \A i \in DOMAIN todo : next[i].kind = todo[i].kind
  BY <1>1, <1>4, <1>5
<1> QED
  BY <1>1, <1>2, <1>3, <1>6, <1>7 DEF next

-----------------------------------------------------------------------------
(* Steps on the memory                                                     *)

\* A walk takes pages above n and changes one mapping, or stops the kernel.
LEMMA WalkEffect ==
    ASSUME MemoryInv, NEW va \in Vas, NEW n \in taken .. total, NEW target,
           WalkAndMap(va, n, target)
    PROVE  \/ st' = "oops"
           \/ /\ leaf' = [leaf EXCEPT ![va] = target] /\ st' = st
              /\ total' = total /\ taken' \in n .. total
<1>1. total \in Nat /\ taken \in Nat /\ n \in Nat /\ n <= total
  BY DEF MemoryInv
<1>2. ASSUME NEW k \in n .. total PROVE Taken(k) \in k .. total
  BY <1>1 DEF Taken
<1>3. WalkCount1(va, n) \in n .. total
  BY <1>1, <1>2 DEF WalkCount1
<1>4. WalkCount(va, n) \in n .. total
  BY <1>1, <1>2, <1>3 DEF WalkCount
<1> QED
  BY <1>4 DEF WalkAndMap

\* A page that is taken for a range, or a page outside, is mapped; contents stay.
LEMMA MappedKept ==
    ASSUME MemoryInv, NEW va \in Vas, NEW n \in taken .. total,
           NEW target \in Int, WalkAndMap(va, n, target), st' # "oops",
           target \in Pages => target \in taken + 1 .. n, UNCHANGED content
    PROVE  MemoryInv'
<1>1. /\ leaf' = [leaf EXCEPT ![va] = target]
      /\ total' = total /\ taken' \in n .. total
  BY WalkEffect
<1>2. total \in Nat /\ taken \in 0 .. total /\ n \in Nat /\ taken' \in Nat /\ taken <= taken'
      /\ n <= taken' /\ taken' <= total
  BY <1>1 DEF MemoryInv
<1>3. leaf \in [Vas -> Int \cup {Unmapped}]
  BY DEF MemoryInv
<1>4. leaf' \in [Vas -> Int \cup {Unmapped}]
      /\ \A vb \in Vas : leaf'[vb] = IF vb = va THEN target ELSE leaf[vb]
  BY <1>1, <1>3
<1>5. \A vb \in Vas : leaf'[vb] \in Pages => leaf'[vb] <= taken'
  BY <1>2, <1>4 DEF MemoryInv, Pages
<1>6. ASSUME NEW p \in DOMAIN content
      PROVE  /\ p \in 1 .. taken'
             /\ \A vb \in Vas : leaf'[vb] = p => leaf[vb] = p
  <2>1. p \in 1 .. taken
    BY DEF MemoryInv
  <2>2. target # p
    BY <1>2, <2>1 DEF Pages
  <2> QED
    BY <1>2, <1>4, <2>1, <2>2
<1>7. \A p \in DOMAIN content :
         /\ p \in 1 .. taken'
         /\ content[p].kind = "file" =>
               /\ content[p].from \in 0 .. Top - 1 /\ content[p].from % PgSize = 0
               /\ \A vb \in Vas : leaf'[vb] = p => vb = VaOf(content[p].from)
  BY <1>6 DEF MemoryInv
<1> QED
  BY <1>1, <1>2, <1>4, <1>5, <1>7 DEF MemoryInv

\* A new page is filled and mapped.
LEMMA FilledKept ==
    ASSUME MemoryInv, NEW j \in JobSet, j.kind = "file" => j.at < j.addr + j.size,
           GetFreeMem(taken) # 0, st' # "oops",
           WalkAndMap(VaOf(j.at), Taken(taken), GetFreeMem(taken)),
           WriteChunk(GetFreeMem(taken), Chunk(j))
    PROVE  MemoryInv'
<1> DEFINE va == VaOf(j.at)
           new == taken + 1
<1>1. total \in Nat /\ taken \in Nat /\ GetFreeMem(taken) = new /\ Taken(taken) = new
      /\ new <= total
  BY DEF MemoryInv, GetFreeMem, Taken
<1>2. j.at \in Int /\ va \in Vas
  BY VaOfType DEF JobSet
<1>3. WalkAndMap(va, new, new) /\ new \in taken .. total
  BY <1>1
<1>4. /\ leaf' = [leaf EXCEPT ![va] = new]
      /\ total' = total /\ taken' \in new .. total
  BY <1>2, <1>3, WalkEffect
<1> HIDE DEF va
<1>5. leaf' \in [Vas -> Int \cup {Unmapped}]
      /\ \A vb \in Vas : leaf'[vb] = IF vb = va THEN new ELSE leaf[vb]
  BY <1>1, <1>2, <1>4 DEF MemoryInv
<1>6. \A vb \in Vas : leaf'[vb] \in Pages => leaf'[vb] <= taken'
  BY <1>1, <1>4, <1>5 DEF MemoryInv, Pages
<1>7. content' = [p \in {new} \cup DOMAIN content |->
                    IF p = new THEN Chunk(j) ELSE content[p]]
  BY <1>1 DEF WriteChunk
<1>8. /\ content'[new] = Chunk(j)
      /\ \A p \in DOMAIN content : p # new /\ content'[p] = content[p]
      /\ DOMAIN content' = {new} \cup DOMAIN content
  <2>1. \A p \in DOMAIN content : p # new
    BY <1>1 DEF MemoryInv
  <2> QED
    BY <1>7, <2>1
<1>9. ASSUME NEW p \in DOMAIN content
      PROVE  /\ p \in 1 .. taken' /\ content'[p] = content[p]
             /\ \A vb \in Vas : leaf'[vb] = p => leaf[vb] = p
  <2>1. p \in 1 .. taken
    BY DEF MemoryInv
  <2> QED
    BY <1>1, <1>4, <1>5, <1>8, <2>1
<1>10. ASSUME NEW p \in DOMAIN content
       PROVE  /\ p \in 1 .. taken'
              /\ content'[p].kind = "file" =>
                    /\ content'[p].from \in 0 .. Top - 1 /\ content'[p].from % PgSize = 0
                    /\ \A vb \in Vas : leaf'[vb] = p => vb = VaOf(content'[p].from)
  BY <1>9 DEF MemoryInv
<1>11. /\ new \in 1 .. taken'
       /\ content'[new].kind = "file" =>
             /\ content'[new].from \in 0 .. Top - 1 /\ content'[new].from % PgSize = 0
             /\ \A vb \in Vas : leaf'[vb] = new => vb = VaOf(content'[new].from)
  <2>1. content'[new].kind = j.kind /\ content'[new].from = j.at
    BY <1>8 DEF Chunk
  <2>2. \A vb \in Vas : leaf'[vb] = new => vb = va
    BY <1>1, <1>5 DEF MemoryInv, Pages
  <2>3. ASSUME j.kind = "file" PROVE j.at \in 0 .. Top - 1 /\ j.at % PgSize = 0
    <3>1. /\ j.at \in Int /\ j.addr \in Nat /\ j.size \in Nat /\ j.at >= j.addr
          /\ j.at % PgSize = 0 /\ j.addr + j.size <= Top
      BY <2>3 DEF JobSet
    <3>2. Top \in Int
      BY LoaderAssumption DEF Top
    <3> QED
      BY <2>3, <3>1, <3>2
  <2>4. new \in 1 .. taken'
    BY <1>1, <1>4
  <2> QED
    BY <2>1, <2>2, <2>3, <2>4 DEF va
<1>12. \A p \in DOMAIN content' :
          /\ p \in 1 .. taken'
          /\ content'[p].kind = "file" =>
                /\ content'[p].from \in 0 .. Top - 1 /\ content'[p].from % PgSize = 0
                /\ \A vb \in Vas : leaf'[vb] = p => vb = VaOf(content'[p].from)
  BY <1>8, <1>10, <1>11
<1>13. total' \in Nat /\ taken' \in 0 .. total'
  BY <1>1, <1>4
<1> QED
  BY <1>5, <1>6, <1>12, <1>13 DEF MemoryInv

\* Nothing happens to the memory.
LEMMA MemoryUnchanged ==
    ASSUME MemoryInv, UNCHANGED <<total, taken, leaf, content>>
    PROVE  MemoryInv'
  BY DEF MemoryInv

-----------------------------------------------------------------------------
(* One lemma for the steps that go through the list of ranges               *)

\* The first range is left, or one page of it is done.
LEMMA RangeStep ==
    ASSUME LoadInv, stage = "load", todo # <<>>, Head(todo).kind # "entry",
           todo' = Tail(todo) \/ Advance, UNCHANGED <<req, entry, stage>>
    PROVE  todo' \in Seq(JobSet) /\ EntryInv'
<1>1. todo \in Seq(JobSet) /\ EntryInv
  BY DEF LoadInv
<1>2. todo' \in Seq(JobSet)
  BY <1>1, TodoKept DEF Advance
<1>3. ASSUME \E i \in DOMAIN todo : todo[i].kind = "entry"
      PROVE  \E i \in DOMAIN todo' : todo'[i].kind = "entry"
  <2>1. CASE todo' = Tail(todo)
    BY <1>1, <1>3, <2>1, TodoKept
  <2>2. CASE Advance
    <3>1. DOMAIN todo' = DOMAIN todo
      BY <1>1, <2>2 DEF Advance
    <3> QED
      BY <1>1, <1>3, <2>2, <3>1, TodoKept DEF Advance
  <2> QED
    BY <2>1, <2>2
<1> QED
  BY <1>1, <1>2, <1>3 DEF EntryInv

LEMMA LoadInvKept ==
    ASSUME SegmentsAligned, LoadInv, [LNext]_<<pvars, lvars>>
    PROVE  LoadInv'
<1> USE DEF Doing
<1>0. /\ req \in Requests /\ todo \in Seq(JobSet) /\ EntryInv /\ (st = "none" => taken = 0)
      /\ (st = "oops" => stage = "load") /\ (st # "oops" => MemoryInv)
  BY DEF LoadInv
<1>1. CASE Refuse
  <2>1. UNCHANGED <<pvars, req, todo, content, entry>> /\ stage = "args" /\ stage' = "refused"
    BY <1>1 DEF Refuse
  <2>2. EntryInv'
    BY <1>0, <2>1 DEF EntryInv
  <2>3. st # "oops" /\ UNCHANGED <<st, taken>>
    BY <1>0, <2>1 DEF pvars
  <2>4. MemoryInv'
    BY <1>0, <2>1, <2>3, MemoryUnchanged DEF pvars
  <2> QED
    BY <1>0, <2>1, <2>2, <2>3, <2>4 DEF LoadInv
<1>2. CASE Create
  <2>1. /\ UNCHANGED <<req, content, entry>> /\ stage' = "load" /\ todo' = Jobs(req)
        /\ EnclaveMemInt /\ stage = "args"
    BY <1>2 DEF Create
  <2>2. todo' \in Seq(JobSet) /\ EntryInv'
    <3>1. Jobs(req) \in Seq(JobSet) /\ \E i \in DOMAIN Jobs(req) : Jobs(req)[i].kind = "entry"
      BY <1>0, JobsTyped
    <3> QED
      BY <1>0, <2>1, <3>1 DEF EntryInv
  <2>3. MemoryInv /\ st' = "ready" /\ taken = 0
    BY <1>0, <2>1 DEF EnclaveMemInt
  <2>4. MemoryInv'
    <3>1. total' \in Nat /\ taken' = (IF 1 < total' THEN 2 ELSE total') /\ leaf' = leaf
      BY <2>1, PagesAssumption DEF EnclaveMemInt
    <3>2. taken' \in 0 .. total'
      BY <3>1
    <3>3. (\A va \in Vas : leaf[va] \notin Pages) /\ DOMAIN content = {}
      <4>1. \A va \in Vas : leaf[va] \in Pages => leaf[va] <= 0
        BY <2>3 DEF MemoryInv
      <4>2. \A p \in DOMAIN content : p \in 1 .. 0
        BY <2>3 DEF MemoryInv
      <4>3. \A n \in Pages : ~(n <= 0)
        BY DEF Pages
      <4>4. \A n \in 1 .. 0 : FALSE
        OBVIOUS
      <4> QED
        BY <4>1, <4>2, <4>3, <4>4, Zenon
    <3> QED
      BY <2>1, <2>3, <3>1, <3>2, <3>3 DEF MemoryInv
  <2> QED
    BY <1>0, <2>1, <2>2, <2>3, <2>4 DEF LoadInv
<1>3. CASE NextRange \/ SkipHeader \/ SharedAllocFails
  <2>1. /\ stage = "load" /\ st = "ready" /\ todo # <<>> /\ Head(todo).kind # "entry"
        /\ todo' = Tail(todo) /\ UNCHANGED <<pvars, req, content, entry, stage>>
    BY <1>3 DEF NextRange, SkipHeader, SharedAllocFails
  <2>2. todo' \in Seq(JobSet) /\ EntryInv'
    BY <2>1, RangeStep
  <2>3. UNCHANGED <<st, total, taken, leaf>>
    BY <2>1 DEF pvars
  <2>4. MemoryInv'
    BY <1>0, <2>1, <2>3, MemoryUnchanged
  <2> QED
    BY <1>0, <2>1, <2>2, <2>3, <2>4 DEF LoadInv
<1>4. CASE LoadStackPage
  <2>1. /\ stage = "load" /\ st = "ready" /\ todo # <<>> /\ Head(todo).kind # "entry"
        /\ Advance /\ UNCHANGED <<req, content, entry, stage>>
        /\ WalkAndMap(VaOf(Head(todo).at), Taken(taken), GetFreeMem(taken))
    BY <1>4 DEF LoadStackPage, EnclaveAllocPage
  <2>2. todo' \in Seq(JobSet) /\ EntryInv'
    BY <2>1, RangeStep
  <2>3. VaOf(Head(todo).at) \in Vas
    BY <1>0, <2>1, TodoKept, VaOfType DEF JobSet
  <2>4. /\ Taken(taken) \in taken .. total /\ GetFreeMem(taken) \in Int
        /\ GetFreeMem(taken) \in Pages => GetFreeMem(taken) \in taken + 1 .. Taken(taken)
    BY <1>0, <2>1 DEF MemoryInv, Taken, GetFreeMem, Pages
  <2>5. st' = "oops" \/ st' = st
    BY <1>0, <2>1, <2>3, <2>4, WalkEffect
  <2>6. st' # "oops" => MemoryInv'
    BY <1>0, <2>1, <2>3, <2>4, MappedKept
  <2> QED
    BY <1>0, <2>1, <2>2, <2>5, <2>6 DEF LoadInv
<1>5. CASE ReadHeader
  <2>1. /\ stage = "load" /\ st = "ready" /\ todo # <<>> /\ Head(todo).kind = "header"
        /\ UNCHANGED <<pvars, req, content, stage>>
        /\ \/ entry' = req.entry /\ todo' = Tail(todo)
           \/ entry' = entry /\ todo' = SharedJobs(req)
    BY <1>5 DEF ReadHeader
  <2>2. todo' \in Seq(JobSet)
        /\ (entry \/ \E i \in DOMAIN todo' : todo'[i].kind = "entry")
    <3>1. CASE todo' = SharedJobs(req)
      BY <1>0, <3>1, JobsTyped
    <3>2. CASE todo' = Tail(todo)
      BY <1>0, <2>1, <3>2, TodoKept DEF EntryInv
    <3> QED
      BY <2>1, <3>1, <3>2
  <2>3. entry' \in BOOLEAN /\ (entry' => req.entry)
    BY <1>0, <2>1, LoaderAssumption DEF EntryInv, RequestOK
  <2>4. UNCHANGED <<st, total, taken, leaf>>
    BY <2>1 DEF pvars
  <2>5. MemoryInv'
    BY <1>0, <2>1, <2>4, MemoryUnchanged
  <2>6. EntryInv'
    BY <1>0, <2>1, <2>2, <2>3 DEF EntryInv
  <2> QED
    BY <1>0, <2>1, <2>2, <2>4, <2>5, <2>6 DEF LoadInv
<1>6. CASE LoadElfPage
  <2> DEFINE j == Head(todo)
  <2>1. /\ stage = "load" /\ st = "ready" /\ todo # <<>> /\ j.kind \in {"zero", "file"}
        /\ j.at < j.addr + j.size /\ Advance /\ UNCHANGED <<req, entry, stage>>
    BY <1>6 DEF LoadElfPage, More
  <2>2. todo' \in Seq(JobSet) /\ EntryInv' /\ j \in JobSet
    BY <1>0, <2>1, RangeStep, TodoKept
  <2>3. st' = "oops" \/ (st' = st /\ MemoryInv')
    <3>1. CASE GetFreeMem(taken) = 0
      <4>1. st' = "oops"
        BY <1>6, <3>1 DEF LoadElfPage
      <4> QED
        BY <4>1
    <3>2. CASE GetFreeMem(taken) # 0
      <4>1. /\ WalkAndMap(VaOf(j.at), Taken(taken), GetFreeMem(taken))
            /\ WriteChunk(GetFreeMem(taken), Chunk(j)) \/ UNCHANGED content
        BY <1>6, <3>2 DEF LoadElfPage, EnclaveAllocPage
      <4>2. VaOf(j.at) \in Vas
        BY <2>2, VaOfType DEF JobSet
      <4>3. /\ Taken(taken) \in taken .. total /\ GetFreeMem(taken) \in Int
            /\ GetFreeMem(taken) \in taken + 1 .. Taken(taken)
        BY <1>0, <2>1, <3>2 DEF MemoryInv, Taken, GetFreeMem
      <4>4. st' = "oops" \/ st' = st
        BY <1>0, <2>1, <4>1, <4>2, <4>3, WalkEffect
      <4>5. ASSUME st' # "oops", UNCHANGED content PROVE MemoryInv'
        BY <1>0, <2>1, <4>1, <4>2, <4>3, <4>5, MappedKept
      <4>6. ASSUME st' # "oops", WriteChunk(GetFreeMem(taken), Chunk(j)) PROVE MemoryInv'
        BY <1>0, <2>1, <2>2, <3>2, <4>1, <4>6, FilledKept
      <4>7. CASE st' = "oops"
        BY <4>7
      <4>8. CASE st' # "oops"
        <5>1. MemoryInv'
          BY <4>1, <4>5, <4>6, <4>8
        <5> QED
          BY <4>4, <4>8, <5>1
      <4> QED
        BY <4>7, <4>8
    <3> QED
      BY <3>1, <3>2
  <2> QED
    BY <1>0, <2>1, <2>2, <2>3 DEF LoadInv
<1>7. CASE CheckEntry
  <2>1. /\ stage = "load" /\ st = "ready" /\ todo # <<>> /\ UNCHANGED <<req, content, entry>>
    BY <1>7 DEF CheckEntry
  <2>2. CASE entry /\ todo' = Tail(todo) /\ UNCHANGED <<pvars, stage>>
    <3>1. todo' \in Seq(JobSet) /\ EntryInv'
      BY <1>0, <2>1, <2>2, TodoKept DEF EntryInv
    <3>2. UNCHANGED <<st, total, taken, leaf>>
      BY <2>2 DEF pvars
    <3>3. MemoryInv'
      BY <1>0, <2>1, <3>2, MemoryUnchanged
    <3> QED
      BY <1>0, <2>1, <2>2, <3>1, <3>2, <3>3 DEF LoadInv
  <2>3. CASE EnclaveMemDestroy /\ stage' = "failed" /\ UNCHANGED todo
    <3>1. EntryInv'
      BY <1>0, <2>1, <2>3 DEF EntryInv
    <3>2. st' = "clean" /\ taken' = total /\ UNCHANGED <<total, leaf>>
      BY <2>3 DEF EnclaveMemDestroy
    <3>3. MemoryInv'
      BY <1>0, <2>1, <3>2 DEF MemoryInv, Pages
    <3> QED
      BY <1>0, <2>1, <2>3, <3>1, <3>2, <3>3 DEF LoadInv
  <2> QED
    BY <1>7, <2>2, <2>3 DEF CheckEntry
<1>8. CASE MapSharedPage
  <2> DEFINE j == Head(todo)
             f == IF j.kind = "kbuffer" THEN KbufferFrame
                  ELSE UntrustedFrame((j.at - j.addr) \div PgSize)
  <2>1. /\ stage = "load" /\ st = "ready" /\ todo # <<>> /\ j.kind # "entry"
        /\ Advance /\ UNCHANGED <<req, content, entry, stage>>
        /\ WalkAndMap(VaOf(j.at), taken, f)
    BY <1>8 DEF MapSharedPage, MapVa2Pa
  <2>2. todo' \in Seq(JobSet) /\ EntryInv' /\ j \in JobSet
    BY <1>0, <2>1, RangeStep, TodoKept
  <2>3. VaOf(j.at) \in Vas
    BY <2>2, VaOfType DEF JobSet
  <2>4. f \in Int /\ f \notin Pages /\ taken \in taken .. total
    <3>1. j.at - j.addr \in Nat /\ PgSize \in Nat \ {0}
      BY <2>2, LoaderAssumption DEF JobSet
    <3>2. (j.at - j.addr) \div PgSize \in Nat
      BY <3>1
    <3>3. f \in Int /\ f < 0
      BY <3>2 DEF KbufferFrame, UntrustedFrame
    <3> QED
      BY <1>0, <2>1, <3>3 DEF Pages, MemoryInv
  <2> HIDE DEF f
  <2>5. st' = "oops" \/ st' = st
    BY <1>0, <2>1, <2>3, <2>4, WalkEffect
  <2>6. st' # "oops" => MemoryInv'
    BY <1>0, <2>1, <2>3, <2>4, MappedKept
  <2> QED
    BY <1>0, <2>1, <2>2, <2>5, <2>6 DEF LoadInv
<1>9. CASE HandOver
  <2>1. /\ stage = "load" /\ todo = <<>> /\ stage' = "created" /\ st = "ready"
        /\ UNCHANGED <<req, todo, content, entry, st, total, leaf>> /\ taken' = Taken(taken)
    BY <1>9 DEF HandOver, TakeFreeMem
  <2>2. entry
    BY <1>0, <2>1 DEF EntryInv
  <2>3. MemoryInv'
    <3>1. taken' \in taken .. total /\ total \in Nat /\ taken \in Nat
      BY <1>0, <2>1 DEF MemoryInv, Taken
    <3> QED
      BY <1>0, <2>1, <3>1 DEF MemoryInv, Pages
  <2>4. EntryInv'
    BY <1>0, <2>1, <2>2 DEF EntryInv
  <2> QED
    BY <1>0, <2>1, <2>3, <2>4 DEF LoadInv
<1>10. CASE UNCHANGED <<pvars, lvars>>
  <2>1. UNCHANGED <<req, todo, content, entry, stage, st, total, taken, leaf>>
    BY <1>10 DEF pvars, lvars
  <2>2. EntryInv'
    BY <1>0, <2>1 DEF EntryInv
  <2>3. st # "oops" => MemoryInv'
    BY <1>0, <2>1, MemoryUnchanged
  <2> QED
    BY <1>0, <2>1, <2>2, <2>3 DEF LoadInv
<1> QED
  BY <1>1, <1>2, <1>3, <1>4, <1>5, <1>6, <1>7, <1>8, <1>9, <1>10 DEF LNext

-----------------------------------------------------------------------------
(* The theorem                                                             *)

LEMMA InvSound == ASSUME SegmentsAligned, LoadInv PROVE PartialLoadSound
<1> SUFFICES ASSUME stage = "created"
             PROVE  /\ req.entry /\ entry
                    /\ \A p \in Range(req.segs) : \A a \in Bytes(p) :
                          Reads(a).kind = "file" => Reads(a).from = a
  BY DEF PartialLoadSound
<1>1. req.entry /\ entry /\ MemoryInv /\ req \in Requests
  BY DEF LoadInv, EntryInv
<1>2. ASSUME NEW p \in Range(req.segs), NEW a \in Bytes(p), Reads(a).kind = "file"
      PROVE  Reads(a).from = a
  <2> DEFINE m == leaf[VaOf(a)]
  <2>1. a \in 0 .. Top - 1
    <3>1. p \in [addr : Nat, size : Nat]
      <4> DEFINE Parts == [addr : Nat, size : Nat]
      <4>1. req.segs \in Seq(Parts)
        BY <1>1, LoaderAssumption DEF RequestOK
      <4>2. PICK i \in DOMAIN req.segs : p = req.segs[i]
        BY DEF Range
      <4> HIDE DEF Parts
      <4>3. p \in Parts
        BY <4>1, <4>2
      <4> QED
        BY <4>3 DEF Parts
    <3>2. p.addr + p.size <= Top /\ Top \in Int
      BY <1>1, LoaderAssumption DEF SegmentsAligned, Top
    <3> QED
      BY <3>1, <3>2 DEF Bytes
  <2>2. VaOf(a) \in Vas
    BY <2>1, VaOfType
  <2>3. /\ m \in DOMAIN content /\ content[m].kind = "file"
        /\ Reads(a).from = content[m].from + (a % PgSize)
    BY <1>2 DEF Reads
  <2> HIDE DEF m
  <2>4. /\ content[m].from \in 0 .. Top - 1 /\ content[m].from % PgSize = 0
        /\ VaOf(a) = VaOf(content[m].from)
    BY <1>1, <2>2, <2>3 DEF MemoryInv, m
  <2>5. content[m].from + (a % PgSize) = a
    BY <2>1, <2>4, SamePage
  <2> QED
    BY <2>3, <2>5
<1> QED
  BY <1>1, <1>2

LEMMA LoadInvFirst == ASSUME LInit PROVE LoadInv
<1>1. /\ req \in Requests /\ todo = <<>> /\ content = <<>> /\ entry = FALSE
      /\ stage = "args" /\ st = "none" /\ total = 0 /\ taken = 0
      /\ leaf = [va \in Vas |-> Unmapped]
  BY DEF LInit, PagesInit
<1>2. DOMAIN content = {} /\ todo \in Seq(JobSet)
  BY <1>1
<1>3. MemoryInv
  BY <1>1, <1>2, PagesAssumption DEF MemoryInv, Pages
<1>4. EntryInv
  BY <1>1 DEF EntryInv
<1> QED
  BY <1>1, <1>2, <1>3, <1>4 DEF LoadInv

\* For images whose segments start on page boundaries, whatever copies and
\* allocations fail while create loads the image: an enclave is handed over only
\* with an entry point that was read, and no byte of a segment is at another
\* address than its own.
THEOREM NothingMisplaced == SegmentsAligned /\ LSpec => []PartialLoadSound
<1> SUFFICES ASSUME SegmentsAligned PROVE LSpec => []PartialLoadSound
  OBVIOUS
<1>1. LInit => LoadInv
  BY LoadInvFirst
<1>2. LoadInv /\ [LNext]_<<pvars, lvars>> => LoadInv'
  BY LoadInvKept
<1>3. LoadInv => PartialLoadSound
  BY InvSound
<1> QED
  BY <1>1, <1>2, <1>3, PTL DEF LSpec

-----------------------------------------------------------------------------
(* What is done and what is still to do                                    *)

\* how many ranges are done with
Done == Len(Jobs(req)) - Len(todo)

\* The list of ranges is the rest of Jobs(req); the first may be partly done.
SuffixInv ==
    /\ Len(todo) <= Len(Jobs(req))
    /\ \A k \in DOMAIN todo :
          LET j == Jobs(req)[Done + k]
          IN  /\ todo[k].kind = j.kind /\ todo[k].addr = j.addr /\ todo[k].size = j.size
              /\ (todo[k].at - j.addr) % PgSize = 0
              /\ k # 1 => todo[k].at = j.addr

\* Address a of the i-th range is still to be visited.
Pending(i, a) == i > Done /\ todo[i - Done].at <= a

\* Address a of range j has been visited, and what was put there is still there.
Holds(j, a) ==
    LET p == leaf[VaOf(a)]
    IN  /\ j.kind \in {"stack", "zero"} => p \in Pages
        /\ j.kind = "file" =>
              /\ p \in Pages /\ p \in DOMAIN content
              /\ content[p] = Chunk([j EXCEPT !.at = a])
        /\ j.kind = "untrusted" => p = UntrustedFrame((a - j.addr) \div PgSize)

FilledInv ==
    \A i \in DOMAIN Jobs(req) : \A a \in Visits(Jobs(req)[i]) :
        Pending(i, a) \/ Holds(Jobs(req)[i], a)

\* Written pages hold zeros or bytes of one segment.
ChunkInv ==
    \A p \in DOMAIN content :
        /\ content[p].kind \in {"zero", "file"} /\ content[p].len \in Nat
        /\ content[p].kind = "file" =>
              \E s \in Range(req.segs) :
                  /\ content[p].from >= s.addr
                  /\ content[p].from + content[p].len <= s.addr + s.size

\* The pages and the tables still needed
Left       == {v \in PageTakers(req) : Pending(v[1], v[2])}
MidToCome  == {i \in MidTables(req) : l1[i] = 0}
LastToCome == {x \in LastTables(req) : l2[x] = 0}

BudgetInv ==
    /\ root # 0 /\ UntrustedSize(req) \in Nat
    /\ l1 \in [Idx -> Nat] /\ l2 \in [Idx \X Idx -> Nat]
    /\ taken + Cardinality(Left) + Cardinality(MidToCome) + Cardinality(LastToCome) < total

-----------------------------------------------------------------------------
(* The ranges of a request, by their place in the list                     *)

\* The parts of a request
LEMMA PartsTyped ==
    ASSUME NEW r \in Requests
    PROVE  /\ r.stack \in Nat /\ r.alloc \in BOOLEAN
           /\ Len(r.nobits) \in Nat /\ DOMAIN r.nobits = 1 .. Len(r.nobits)
           /\ Len(r.segs) \in Nat /\ DOMAIN r.segs = 1 .. Len(r.segs)
           /\ \A i \in 1 .. Len(r.nobits) : r.nobits[i].addr \in Nat /\ r.nobits[i].size \in Nat
           /\ \A i \in 1 .. Len(r.segs) : r.segs[i].addr \in Nat /\ r.segs[i].size \in Nat
<1> DEFINE Parts == [addr : Nat, size : Nat]
<1>1. r.nobits \in Seq(Parts) /\ r.segs \in Seq(Parts) /\ r.stack \in Nat /\ r.alloc \in BOOLEAN
  BY LoaderAssumption DEF RequestOK
<1>2. \A x \in Parts : x.addr \in Nat /\ x.size \in Nat
  OBVIOUS
<1> HIDE DEF Parts
<1>3. /\ Len(r.nobits) \in Nat /\ DOMAIN r.nobits = 1 .. Len(r.nobits)
      /\ Len(r.segs) \in Nat /\ DOMAIN r.segs = 1 .. Len(r.segs)
      /\ \A i \in 1 .. Len(r.nobits) : r.nobits[i] \in Parts
      /\ \A i \in 1 .. Len(r.segs) : r.segs[i] \in Parts
  BY <1>1
<1> QED
  BY <1>1, <1>2, <1>3

LEMMA SegmentParts ==
    ASSUME NEW r \in Requests, NEW p \in Range(r.segs)
    PROVE  p.addr \in Nat /\ p.size \in Nat
<1>1. PICK i \in DOMAIN r.segs : p = r.segs[i]
  BY DEF Range
<1> QED
  BY <1>1, PartsTyped

\* Where each range stands in the list
LEMMA JobsIndexed ==
    ASSUME SegmentsAligned, NEW r \in Requests
    PROVE  LET z == Len(r.nobits)
               f == Len(r.segs)
           IN  /\ Jobs(r) \in Seq(JobSet) /\ Len(Jobs(r)) = z + f + 5
               /\ Jobs(r)[1] = Job("stack", StackPoint - r.stack, r.stack)
               /\ Jobs(r)[2] = Job("header", 0, 0)
               /\ \A i \in 1 .. z :
                     Jobs(r)[2 + i] = Job("zero", r.nobits[i].addr,
                                          IF r.nobits[i].addr = 0 THEN 0 ELSE r.nobits[i].size)
               /\ \A i \in 1 .. f :
                     Jobs(r)[2 + z + i] = Job("file", r.segs[i].addr, r.segs[i].size)
               /\ Len(SharedJobs(r)) = 3 /\ SharedJobs(r) \in Seq(JobSet)
               /\ \A i \in 1 .. 3 : Jobs(r)[2 + z + f + i] = SharedJobs(r)[i]
<1> DEFINE z == Len(r.nobits)
           f == Len(r.segs)
           stack == << Job("stack", StackPoint - r.stack, r.stack), Job("header", 0, 0) >>
           zero == JobsOf("zero", Placeable(r.nobits))
           file == JobsOf("file", r.segs)
           shared == SharedJobs(r)
           Every == Range(stack) \cup Range(zero) \cup Range(file) \cup Range(shared)
<1>1. z \in Nat /\ f \in Nat /\ DOMAIN r.nobits = 1 .. z /\ DOMAIN r.segs = 1 .. f
      /\ \A i \in 1 .. z : r.nobits[i].addr \in Nat /\ r.nobits[i].size \in Nat
  BY PartsTyped
<1>2. /\ Jobs(r) \in Seq(JobSet) /\ shared \in Seq(JobSet)
  BY JobsTyped
<1>3. Len(shared) = 3
  BY DEF SharedJobs
<1>4. /\ zero = [i \in 1 .. z |-> zero[i]]
      /\ \A i \in 1 .. z : zero[i] = Job("zero", r.nobits[i].addr,
                                         IF r.nobits[i].addr = 0 THEN 0 ELSE r.nobits[i].size)
  <2> DEFINE pl == Placeable(r.nobits)
  <2>1. DOMAIN pl = 1 .. z /\ \A i \in 1 .. z :
           pl[i] = IF r.nobits[i].addr = 0 THEN [r.nobits[i] EXCEPT !.size = 0] ELSE r.nobits[i]
    BY <1>1 DEF Placeable
  <2>2. \A i \in 1 .. z :
           /\ pl[i].addr = r.nobits[i].addr
           /\ pl[i].size = IF r.nobits[i].addr = 0 THEN 0 ELSE r.nobits[i].size
    <3> SUFFICES ASSUME NEW i \in 1 .. z
                 PROVE  /\ pl[i].addr = r.nobits[i].addr
                        /\ pl[i].size = IF r.nobits[i].addr = 0 THEN 0 ELSE r.nobits[i].size
      OBVIOUS
    <3>1. r.nobits[i] \in [addr : Nat, size : Nat]
      <4> DEFINE Parts == [addr : Nat, size : Nat]
      <4>1. r.nobits \in Seq(Parts)
        BY LoaderAssumption DEF RequestOK
      <4> HIDE DEF Parts
      <4>2. r.nobits[i] \in Parts
        BY <1>1, <4>1
      <4> QED
        BY <4>2 DEF Parts
    <3> QED
      BY <2>1, <3>1
  <2>3. zero = [i \in 1 .. z |-> Job("zero", pl[i].addr, pl[i].size)]
    BY <2>1 DEF JobsOf
  <2> HIDE DEF pl, zero
  <2> QED
    BY <2>2, <2>3
<1>5. /\ file = [i \in 1 .. f |-> file[i]]
      /\ \A i \in 1 .. f : file[i] = Job("file", r.segs[i].addr, r.segs[i].size)
  BY <1>1 DEF JobsOf
<1>6. Len(stack) = 2 /\ stack = [i \in 1 .. 2 |-> stack[i]]
      /\ stack[1] = Job("stack", StackPoint - r.stack, r.stack) /\ stack[2] = Job("header", 0, 0)
  OBVIOUS
<1>7. Jobs(r) = ((stack \o zero) \o file) \o shared
  BY DEF Jobs
<1>8. DOMAIN stack = 1 .. 2 /\ DOMAIN zero = 1 .. z /\ DOMAIN file = 1 .. f
      /\ DOMAIN shared = 1 .. 3
  BY <1>2, <1>3, <1>4, <1>5, <1>6
<1>9. \A i \in 1 .. 2 : stack[i] \in Every
  BY <1>8 DEF Range
<1>10. \A i \in 1 .. z : zero[i] \in Every
  BY <1>8 DEF Range
<1>11. \A i \in 1 .. f : file[i] \in Every
  BY <1>8 DEF Range
<1>12. \A i \in 1 .. 3 : shared[i] \in Every
  BY <1>8 DEF Range
<1> HIDE DEF z, f, stack, zero, file, shared, Every
<1>13. stack \in Seq(Every)
  BY <1>6, <1>9
<1>14. zero \in Seq(Every) /\ Len(zero) = z
  BY <1>1, <1>4, <1>10
<1>15. file \in Seq(Every) /\ Len(file) = f
  BY <1>1, <1>5, <1>11
<1>16. shared \in Seq(Every)
  <2>1. shared = [i \in 1 .. 3 |-> shared[i]]
    BY <1>2, <1>3
  <2> QED
    BY <1>12, <2>1
<1> DEFINE sz == stack \o zero
           szf == sz \o file
<1>17. /\ sz \in Seq(Every) /\ Len(sz) = 2 + z
       /\ \A i \in 1 .. 2 : sz[i] = stack[i]
       /\ \A i \in 1 .. z : sz[2 + i] = zero[i]
  BY <1>6, <1>13, <1>14, Joined
<1> HIDE DEF sz
<1>18. /\ szf \in Seq(Every) /\ Len(szf) = 2 + z + f
       /\ \A i \in 1 .. 2 + z : szf[i] = sz[i]
       /\ \A i \in 1 .. f : szf[2 + z + i] = file[i]
  <2>0. sz \in Seq(Every) /\ file \in Seq(Every)
    BY <1>15, <1>17
  <2>1. /\ sz \o file \in Seq(Every) /\ Len(sz \o file) = Len(sz) + Len(file)
        /\ \A i \in 1 .. Len(sz) : (sz \o file)[i] = sz[i]
        /\ \A i \in 1 .. Len(file) : (sz \o file)[Len(sz) + i] = file[i]
    BY <2>0, Joined
  <2> QED
    BY <1>15, <1>17, <2>1
<1> HIDE DEF szf
<1>19. /\ Len(Jobs(r)) = 2 + z + f + 3
       /\ \A i \in 1 .. 2 + z + f : Jobs(r)[i] = szf[i]
       /\ \A i \in 1 .. 3 : Jobs(r)[2 + z + f + i] = shared[i]
  <2>1. Jobs(r) = szf \o shared
    BY <1>7 DEF szf, sz
  <2>0. szf \in Seq(Every) /\ shared \in Seq(Every)
    BY <1>16, <1>18
  <2>2. /\ Len(szf \o shared) = Len(szf) + Len(shared)
        /\ \A i \in 1 .. Len(szf) : (szf \o shared)[i] = szf[i]
        /\ \A i \in 1 .. Len(shared) : (szf \o shared)[Len(szf) + i] = shared[i]
    BY <2>0, Joined
  <2> QED
    BY <1>3, <1>18, <2>1, <2>2
<1>20. Jobs(r)[1] = stack[1] /\ Jobs(r)[2] = stack[2]
  <2>1. 1 \in 1 .. 2 /\ 2 \in 1 .. 2 /\ 1 \in 1 .. 2 + z /\ 2 \in 1 .. 2 + z
        /\ 1 \in 1 .. 2 + z + f /\ 2 \in 1 .. 2 + z + f
    BY <1>1
  <2> QED
    BY <1>17, <1>18, <1>19, <2>1
<1>21. ASSUME NEW i \in 1 .. z PROVE Jobs(r)[2 + i] = zero[i]
  <2>1. 2 + i \in 1 .. 2 + z /\ 2 + i \in 1 .. 2 + z + f
    BY <1>1
  <2> QED
    BY <1>17, <1>18, <1>19, <2>1
<1>22. ASSUME NEW i \in 1 .. f PROVE Jobs(r)[2 + z + i] = file[i]
  <2>1. 2 + z + i \in 1 .. 2 + z + f
    BY <1>1
  <2> QED
    BY <1>18, <1>19, <2>1
<1>23. Len(Jobs(r)) = z + f + 5
  BY <1>1, <1>19
<1>24. /\ Jobs(r)[1] = Job("stack", StackPoint - r.stack, r.stack)
       /\ Jobs(r)[2] = Job("header", 0, 0)
  BY <1>6, <1>20
<1>25. \A i \in 1 .. z :
          Jobs(r)[2 + i] = Job("zero", r.nobits[i].addr,
                               IF r.nobits[i].addr = 0 THEN 0 ELSE r.nobits[i].size)
  BY <1>4, <1>21
<1>26. \A i \in 1 .. f : Jobs(r)[2 + z + i] = Job("file", r.segs[i].addr, r.segs[i].size)
  BY <1>5, <1>22
<1>27. \A i \in 1 .. 3 : Jobs(r)[2 + z + f + i] = shared[i]
  BY <1>19
<1> QED
  BY <1>2, <1>3, <1>23, <1>24, <1>25, <1>26, <1>27, Zenon DEF z, f, shared

\* Each range is the stack's, or comes from a part of the image, or is shared.
LEMMA JobFacts ==
    ASSUME SegmentsAligned, NEW r \in Requests, NEW i \in DOMAIN Jobs(r)
    PROVE  LET j == Jobs(r)[i]
               z == Len(r.nobits)
           IN  /\ j \in JobSet /\ j.at = j.addr
               /\ j.kind = "stack" =>
                     i = 1 /\ j.addr = StackPoint - r.stack /\ j.size = r.stack
               /\ j.kind = "header" => i = 2
               /\ j.kind = "zero" =>
                     /\ i <= 2 + z
                     /\ j.size = 0 \/ \E n \in NobitsParts(r) : j.addr = n.addr /\ j.size = n.size
               /\ j.kind = "file" =>
                     /\ i > 2 + z
                     /\ \E s \in Range(r.segs) : j.addr = s.addr /\ j.size = s.size
               /\ j.kind = "untrusted" =>
                     /\ j.addr = UntrustedPtr
                     /\ j.size = IF r.alloc THEN UntrustedSize(r) ELSE 0
               /\ j.kind = "kbuffer" => j.addr = Kbuffer /\ j.size = PgSize
<1> DEFINE z == Len(r.nobits)
           f == Len(r.segs)
           j == Jobs(r)[i]
<1>1. /\ Jobs(r) \in Seq(JobSet) /\ Len(Jobs(r)) = z + f + 5
      /\ Jobs(r)[1] = Job("stack", StackPoint - r.stack, r.stack)
      /\ Jobs(r)[2] = Job("header", 0, 0)
      /\ \A k \in 1 .. z :
            Jobs(r)[2 + k] = Job("zero", r.nobits[k].addr,
                                 IF r.nobits[k].addr = 0 THEN 0 ELSE r.nobits[k].size)
      /\ \A k \in 1 .. f : Jobs(r)[2 + z + k] = Job("file", r.segs[k].addr, r.segs[k].size)
      /\ \A k \in 1 .. 3 : Jobs(r)[2 + z + f + k] = SharedJobs(r)[k]
  BY JobsIndexed
<1>2. /\ z \in Nat /\ f \in Nat /\ DOMAIN r.nobits = 1 .. z /\ DOMAIN r.segs = 1 .. f
  BY PartsTyped
<1>3. i \in 1 .. z + f + 5 /\ j \in JobSet
  <2>0. Jobs(r) \in Seq(JobSet)
    BY <1>1
  <2>1. j \in JobSet /\ i \in 1 .. Len(Jobs(r))
    BY <2>0
  <2> HIDE DEF j, z, f
  <2> QED
    BY <1>1, <2>1
<1> DEFINE Facts ==
      /\ j.at = j.addr
      /\ j.kind = "stack" =>
            i = 1 /\ j.addr = StackPoint - r.stack /\ j.size = r.stack
      /\ j.kind = "header" => i = 2
      /\ j.kind = "zero" =>
            /\ i <= 2 + z
            /\ j.size = 0 \/ \E n \in NobitsParts(r) : j.addr = n.addr /\ j.size = n.size
      /\ j.kind = "file" =>
            /\ i > 2 + z
            /\ \E s \in Range(r.segs) : j.addr = s.addr /\ j.size = s.size
      /\ j.kind = "untrusted" =>
            /\ j.addr = UntrustedPtr
            /\ j.size = IF r.alloc THEN UntrustedSize(r) ELSE 0
      /\ j.kind = "kbuffer" => j.addr = Kbuffer /\ j.size = PgSize
<1>4. ASSUME NEW kind, NEW addr, NEW size, j = Job(kind, addr, size)
      PROVE  j.kind = kind /\ j.addr = addr /\ j.size = size /\ j.at = addr
  BY <1>4 DEF Job
<1> HIDE DEF j, z, f
<1>5. CASE i = 1
  <2>1. j = Job("stack", StackPoint - r.stack, r.stack)
    BY <1>1, <1>5 DEF j
  <2>2. j.kind = "stack" /\ j.addr = StackPoint - r.stack /\ j.size = r.stack /\ j.at = j.addr
    BY <1>4, <2>1
  <2>3. Facts
    BY <1>5, <2>2
  <2> QED
    BY <1>3, <2>3 DEF j, z
<1>6. CASE i = 2
  <2>1. j = Job("header", 0, 0)
    BY <1>1, <1>6 DEF j
  <2>2. j.kind = "header" /\ j.at = j.addr
    BY <1>4, <2>1
  <2>3. Facts
    BY <1>6, <2>2
  <2> QED
    BY <1>3, <2>3 DEF j, z
<1>7. CASE i \in 3 .. 2 + z
  <2> DEFINE k == i - 2
             n == r.nobits[k]
  <2>1. k \in 1 .. z /\ i = 2 + k /\ i <= 2 + z
    BY <1>2, <1>7
  <2> HIDE DEF k
  <2>2. j = Job("zero", n.addr, IF n.addr = 0 THEN 0 ELSE n.size)
    BY <1>1, <2>1 DEF j
  <2>3. n \in Range(r.nobits)
    BY <1>2, <2>1 DEF Range
  <2> HIDE DEF n
  <2>4. j.kind = "zero" /\ j.addr = n.addr /\ j.at = j.addr
        /\ j.size = IF n.addr = 0 THEN 0 ELSE n.size
    BY <1>4, <2>2
  <2>5. j.size = 0 \/ \E m \in NobitsParts(r) : j.addr = m.addr /\ j.size = m.size
    BY <2>3, <2>4 DEF NobitsParts
  <2>6. Facts
    BY <2>1, <2>4, <2>5
  <2> QED
    BY <1>3, <2>6 DEF j, z
<1>8. CASE i \in 3 + z .. 2 + z + f
  <2> DEFINE k == i - (2 + z)
             s == r.segs[k]
  <2>1. k \in 1 .. f /\ i = 2 + z + k /\ i > 2 + z
    BY <1>2, <1>8
  <2> HIDE DEF k
  <2>2. j = Job("file", s.addr, s.size)
    BY <1>1, <2>1 DEF j
  <2>3. s \in Range(r.segs)
    BY <1>2, <2>1 DEF Range
  <2> HIDE DEF s
  <2>4. j.kind = "file" /\ j.addr = s.addr /\ j.at = j.addr /\ j.size = s.size
    BY <1>4, <2>2
  <2>6. Facts
    BY <2>1, <2>3, <2>4
  <2> QED
    BY <1>3, <2>6 DEF j, z
<1>9. CASE i \in 3 + z + f .. 5 + z + f
  <2> DEFINE k == i - (2 + z + f)
             u == IF r.alloc THEN UntrustedSize(r) ELSE 0
  <2>1. k \in 1 .. 3 /\ i = 2 + z + f + k
    BY <1>2, <1>9
  <2> HIDE DEF k
  <2>2. j = SharedJobs(r)[k]
    BY <1>1, <2>1 DEF j
  <2>3. \/ j = Job("entry", 0, 0)
        \/ j = Job("untrusted", UntrustedPtr, u)
        \/ j = Job("kbuffer", Kbuffer, PgSize)
    BY <2>1, <2>2 DEF SharedJobs
  <2> HIDE DEF u
  <2>4. /\ j.at = j.addr
        /\ \/ j.kind = "entry"
           \/ j.kind = "untrusted" /\ j.addr = UntrustedPtr /\ j.size = u
           \/ j.kind = "kbuffer" /\ j.addr = Kbuffer /\ j.size = PgSize
    BY <1>4, <2>3
  <2>5. Facts
    BY <2>4 DEF u
  <2> QED
    BY <1>3, <2>5 DEF j, z
<1> QED
  BY <1>2, <1>3, <1>5, <1>6, <1>7, <1>8, <1>9

\* Every part of the image has its range.
LEMMA JobsThere ==
    ASSUME SegmentsAligned, NEW r \in Requests
    PROVE  /\ 1 \in DOMAIN Jobs(r) /\ Jobs(r)[1].kind = "stack"
           /\ \A p \in NobitsParts(r) : \E i \in DOMAIN Jobs(r) :
                 Jobs(r)[i].kind = "zero" /\ Jobs(r)[i].addr = p.addr /\ Jobs(r)[i].size = p.size
           /\ \A p \in Range(r.segs) : \E i \in DOMAIN Jobs(r) :
                 Jobs(r)[i].kind = "file" /\ Jobs(r)[i].addr = p.addr /\ Jobs(r)[i].size = p.size
           /\ \E i \in DOMAIN Jobs(r) : Jobs(r)[i].kind = "untrusted"
<1> DEFINE z == Len(r.nobits)
           f == Len(r.segs)
<1>1. /\ Jobs(r) \in Seq(JobSet) /\ Len(Jobs(r)) = z + f + 5
      /\ Jobs(r)[1] = Job("stack", StackPoint - r.stack, r.stack)
      /\ \A k \in 1 .. z :
            Jobs(r)[2 + k] = Job("zero", r.nobits[k].addr,
                                 IF r.nobits[k].addr = 0 THEN 0 ELSE r.nobits[k].size)
      /\ \A k \in 1 .. f : Jobs(r)[2 + z + k] = Job("file", r.segs[k].addr, r.segs[k].size)
      /\ \A k \in 1 .. 3 : Jobs(r)[2 + z + f + k] = SharedJobs(r)[k]
  BY JobsIndexed
<1>2. /\ z \in Nat /\ f \in Nat /\ DOMAIN r.nobits = 1 .. z /\ DOMAIN r.segs = 1 .. f
  BY PartsTyped
<1> HIDE DEF z, f
<1>3. DOMAIN Jobs(r) = 1 .. z + f + 5
  BY <1>1
<1>4. 1 \in DOMAIN Jobs(r) /\ Jobs(r)[1].kind = "stack"
  BY <1>1, <1>2, <1>3 DEF Job
<1>5. ASSUME NEW p \in NobitsParts(r)
      PROVE  \E i \in DOMAIN Jobs(r) :
                Jobs(r)[i].kind = "zero" /\ Jobs(r)[i].addr = p.addr /\ Jobs(r)[i].size = p.size
  <2>1. PICK k \in 1 .. z : p = r.nobits[k]
    BY <1>2 DEF NobitsParts, Range
  <2>2. p.addr # 0
    BY DEF NobitsParts
  <2>3. 2 + k \in DOMAIN Jobs(r) /\ Jobs(r)[2 + k] = Job("zero", p.addr, p.size)
    BY <1>1, <1>2, <1>3, <2>1, <2>2
  <2> QED
    BY <2>3 DEF Job
<1>6. ASSUME NEW p \in Range(r.segs)
      PROVE  \E i \in DOMAIN Jobs(r) :
                Jobs(r)[i].kind = "file" /\ Jobs(r)[i].addr = p.addr /\ Jobs(r)[i].size = p.size
  <2>1. PICK k \in 1 .. f : p = r.segs[k]
    BY <1>2 DEF Range
  <2>2. 2 + z + k \in DOMAIN Jobs(r) /\ Jobs(r)[2 + z + k] = Job("file", p.addr, p.size)
    BY <1>1, <1>2, <1>3, <2>1
  <2> QED
    BY <2>2 DEF Job
<1>7. \E i \in DOMAIN Jobs(r) : Jobs(r)[i].kind = "untrusted"
  <2>1. 2 + z + f + 2 \in DOMAIN Jobs(r) /\ Jobs(r)[2 + z + f + 2] = SharedJobs(r)[2]
    BY <1>1, <1>2, <1>3
  <2>2. SharedJobs(r)[2].kind = "untrusted"
    BY DEF SharedJobs, Job
  <2> QED
    BY <2>1, <2>2
<1> QED
  BY <1>4, <1>5, <1>6, <1>7

-----------------------------------------------------------------------------
(* Going through the list                                                  *)

\* Addresses a whole number of pages apart
LEMMA NextPage ==
    ASSUME NEW x \in Int, NEW y \in Int, NEW c \in Int,
           (x - c) % PgSize = 0, (y - c) % PgSize = 0
    PROVE  (x + PgSize - c) % PgSize = 0 /\ (x < y => x + PgSize <= y)
<1>1. PgSize \in Nat \ {0}
  BY LoaderAssumption
<1>2. ASSUME NEW d \in Int, d % PgSize = 0
      PROVE  \E q \in Int : d = PgSize * q
  <2>1. d \div PgSize \in Int /\ d = PgSize * (d \div PgSize) + (d % PgSize)
    BY <1>1, Division
  <2>2. d = PgSize * (d \div PgSize)
    BY <1>1, <1>2, <2>1
  <2> QED
    BY <2>1, <2>2
<1>3. x - c \in Int /\ y - c \in Int
  OBVIOUS
<1>4. PICK q \in Int : x - c = PgSize * q
  BY <1>2, <1>3
<1>5. PICK s \in Int : y - c = PgSize * s
  BY <1>2, <1>3
<1>6. (x + PgSize - c) % PgSize = 0
  <2>1. x + PgSize - c = PgSize * (q + 1) + 0 /\ q + 1 \in Int /\ 0 \in 0 .. PgSize - 1
    BY <1>1, <1>4
  <2>2. (PgSize * (q + 1) + 0) % PgSize = 0
    BY <1>1, <2>1, DivisionUnique
  <2> QED
    BY <2>1, <2>2
<1>7. ASSUME x < y PROVE x + PgSize <= y
  <2>1. PgSize * s - PgSize * q > 0
    BY <1>1, <1>4, <1>5, <1>7
  <2>2. s > q
    <3> SUFFICES ASSUME s <= q PROVE FALSE
      OBVIOUS
    <3>1. q - s \in Nat /\ PgSize * (q - s) \in Nat /\ PgSize * (q - s) = PgSize * q - PgSize * s
      BY <1>1
    <3>2. PgSize * q \in Int /\ PgSize * s \in Int
      BY <1>1
    <3> QED
      BY <2>1, <3>1, <3>2
  <2>3. s - q - 1 \in Nat /\ PgSize * (s - q - 1) \in Nat
        /\ PgSize * (s - q - 1) = PgSize * s - PgSize * q - PgSize
    BY <1>1, <2>2
  <2>4. PgSize * q \in Int /\ PgSize * s \in Int
    BY <1>1
  <2> QED
    BY <1>1, <1>4, <1>5, <2>3, <2>4
<1> QED
  BY <1>6, <1>7

\* What the list says about the range in front
LEMMA SuffixFacts ==
    ASSUME SegmentsAligned, req \in Requests, todo \in Seq(JobSet), SuffixInv
    PROVE  /\ Jobs(req) \in Seq(JobSet) /\ Len(Jobs(req)) \in Nat /\ Len(todo) \in Nat
           /\ Done \in Nat /\ Done + Len(todo) = Len(Jobs(req))
           /\ DOMAIN Jobs(req) = 1 .. Len(Jobs(req)) /\ DOMAIN todo = 1 .. Len(todo)
           /\ \A k \in DOMAIN todo : todo[k] \in JobSet /\ Done + k \in DOMAIN Jobs(req)
<1>1. Jobs(req) \in Seq(JobSet)
  BY JobsIndexed
<1>2. Len(Jobs(req)) \in Nat /\ Len(todo) \in Nat /\ Len(todo) <= Len(Jobs(req))
      /\ DOMAIN Jobs(req) = 1 .. Len(Jobs(req)) /\ DOMAIN todo = 1 .. Len(todo)
      /\ \A k \in DOMAIN todo : todo[k] \in JobSet
  BY <1>1 DEF SuffixInv
<1> QED
  BY <1>1, <1>2 DEF Done

LEMMA SuffixAdvance ==
    ASSUME SegmentsAligned, req \in Requests, todo \in Seq(JobSet), SuffixInv,
           todo # <<>>, Advance, req' = req
    PROVE  /\ SuffixInv'
           /\ \A i \in DOMAIN Jobs(req) : \A a \in Visits(Jobs(req)[i]) :
                 Pending(i, a)' <=> Pending(i, a) /\ ~(i = Done + 1 /\ a = Head(todo).at)
<1> DEFINE n == Len(todo)
           t == todo[1]
           J == Jobs(req)
<1>1. /\ J \in Seq(JobSet) /\ Len(J) \in Nat /\ n \in Nat /\ Done \in Nat /\ Done + n = Len(J)
      /\ DOMAIN J = 1 .. Len(J) /\ DOMAIN todo = 1 .. n
      /\ \A k \in DOMAIN todo : todo[k] \in JobSet /\ Done + k \in DOMAIN J
  BY SuffixFacts
<1>2. n >= 1 /\ Head(todo) = t /\ 1 \in DOMAIN todo
  BY <1>1
<1>3. /\ DOMAIN todo' = 1 .. n /\ Len(todo') = n
      /\ todo'[1] = [t EXCEPT !.at = @ + PgSize]
      /\ \A k \in 2 .. n : todo'[k] = todo[k]
  BY <1>1, <1>2 DEF Advance
<1>4. /\ t.at \in Int /\ t.addr \in Int /\ PgSize \in Nat \ {0} /\ t.at >= t.addr
      /\ todo'[1].at = t.at + PgSize /\ todo'[1].kind = t.kind
      /\ todo'[1].addr = t.addr /\ todo'[1].size = t.size
  BY <1>1, <1>2, <1>3, LoaderAssumption DEF JobSet
<1>5. Done' = Done /\ Jobs(req)' = J
  BY <1>3 DEF Done
<1> HIDE DEF t, J, n
<1>6. \A k \in 1 .. n :
         /\ todo[k].kind = J[Done + k].kind /\ todo[k].addr = J[Done + k].addr
         /\ todo[k].size = J[Done + k].size
         /\ (todo[k].at - J[Done + k].addr) % PgSize = 0
         /\ k # 1 => todo[k].at = J[Done + k].addr
  BY <1>1 DEF SuffixInv, J
<1>7. /\ t.kind = J[Done + 1].kind /\ t.addr = J[Done + 1].addr /\ t.size = J[Done + 1].size
      /\ (t.at - t.addr) % PgSize = 0
  BY <1>1, <1>2, <1>6 DEF t
<1>8. (t.at + PgSize - t.addr) % PgSize = 0
  BY <1>4, <1>7, NextPage
<1>9. ASSUME NEW k \in 1 .. n
      PROVE  /\ todo'[k].kind = J[Done + k].kind /\ todo'[k].addr = J[Done + k].addr
             /\ todo'[k].size = J[Done + k].size
             /\ (todo'[k].at - J[Done + k].addr) % PgSize = 0
             /\ k # 1 => todo'[k].at = J[Done + k].addr
  <2>1. CASE k = 1
    BY <1>4, <1>7, <1>8, <2>1
  <2>2. CASE k # 1
    <3>1. todo'[k] = todo[k]
      BY <1>1, <1>3, <2>2
    <3> QED
      BY <1>6, <2>2, <3>1
  <2> QED
    BY <2>1, <2>2
<1>10. SuffixInv'
  <2>1. Len(todo') <= Len(J)
    BY <1>1, <1>3
  <2> QED
    BY <1>3, <1>5, <1>9, <2>1 DEF SuffixInv
<1>11. ASSUME NEW i \in DOMAIN J, NEW a \in Visits(J[i])
       PROVE  (i > Done /\ todo'[i - Done].at <= a)
                <=> (i > Done /\ todo[i - Done].at <= a) /\ ~(i = Done + 1 /\ a = t.at)
  <2>1. CASE i = Done + 1
    <3>1. i - Done = 1 /\ i > Done /\ todo[i - Done] = t
      BY <1>1, <2>1 DEF t
    <3>2. J[i] \in JobSet
      BY <1>1
    <3>3. a \in Int /\ (a - t.addr) % PgSize = 0
      <4>1. J[i].addr \in Int /\ a \in Bytes(J[i]) /\ (a - J[i].addr) % PgSize = 0
        BY <3>2 DEF Visits, JobSet
      <4> QED
        BY <1>7, <2>1, <4>1 DEF Bytes
    <3>4. t.at < a => t.at + PgSize <= a
      BY <1>4, <1>7, <3>3, NextPage
    <3> QED
      BY <1>4, <2>1, <3>1, <3>3, <3>4
  <2>2. CASE i # Done + 1
    <3>1. i > Done => i - Done \in 2 .. n
      BY <1>1, <2>2
    <3>2. i > Done => todo'[i - Done] = todo[i - Done]
      BY <1>3, <3>1
    <3> QED
      BY <2>2, <3>2
  <2> QED
    BY <2>1, <2>2
<1> QED
  BY <1>2, <1>5, <1>10, <1>11 DEF Pending, J

LEMMA SuffixTail ==
    ASSUME SegmentsAligned, req \in Requests, todo \in Seq(JobSet), SuffixInv,
           todo # <<>>, todo' = Tail(todo), req' = req
    PROVE  /\ SuffixInv'
           /\ \A i \in DOMAIN Jobs(req) : \A a :
                 Pending(i, a)' <=> Pending(i, a) /\ i # Done + 1
<1> DEFINE n == Len(todo)
           J == Jobs(req)
<1>1. /\ J \in Seq(JobSet) /\ Len(J) \in Nat /\ n \in Nat /\ Done \in Nat /\ Done + n = Len(J)
      /\ DOMAIN J = 1 .. Len(J) /\ DOMAIN todo = 1 .. n
  BY SuffixFacts
<1>2. n >= 1
  BY <1>1
<1>3. /\ DOMAIN todo' = 1 .. n - 1 /\ Len(todo') = n - 1
      /\ \A k \in 1 .. n - 1 : todo'[k] = todo[k + 1]
  BY <1>1, <1>2
<1>4. Done' = Done + 1 /\ Jobs(req)' = J
  BY <1>1, <1>3 DEF Done
<1> HIDE DEF J, n
<1>5. \A k \in 1 .. n :
         /\ todo[k].kind = J[Done + k].kind /\ todo[k].addr = J[Done + k].addr
         /\ todo[k].size = J[Done + k].size
         /\ (todo[k].at - J[Done + k].addr) % PgSize = 0
         /\ k # 1 => todo[k].at = J[Done + k].addr
  BY <1>1 DEF SuffixInv, J
<1>6. ASSUME NEW k \in 1 .. n - 1
      PROVE  /\ todo'[k].kind = J[Done' + k].kind /\ todo'[k].addr = J[Done' + k].addr
             /\ todo'[k].size = J[Done' + k].size
             /\ (todo'[k].at - J[Done' + k].addr) % PgSize = 0
             /\ k # 1 => todo'[k].at = J[Done' + k].addr
  <2>1. k + 1 \in 1 .. n /\ Done' + k = Done + (k + 1) /\ k + 1 # 1
    BY <1>1, <1>2, <1>4
  <2> QED
    BY <1>3, <1>5, <2>1
<1>7. SuffixInv'
  <2>1. Len(todo') <= Len(J)
    BY <1>1, <1>3
  <2> QED
    BY <1>3, <1>4, <1>6, <2>1 DEF SuffixInv
<1>8. ASSUME NEW i \in DOMAIN J, NEW a
      PROVE  (i > Done + 1 /\ todo'[i - (Done + 1)].at <= a)
                <=> (i > Done /\ todo[i - Done].at <= a) /\ i # Done + 1
  <2>1. CASE i > Done + 1
    <3>1. i - (Done + 1) \in 1 .. n - 1 /\ (i - (Done + 1)) + 1 = i - Done
      BY <1>1, <2>1
    <3>2. todo'[i - (Done + 1)] = todo[i - Done]
      BY <1>3, <3>1
    <3> QED
      BY <1>1, <2>1, <3>2
  <2>2. CASE ~(i > Done + 1)
    BY <1>1, <2>2
  <2> QED
    BY <2>1, <2>2
<1> QED
  BY <1>4, <1>7, <1>8 DEF Pending, J

\* When the header cannot be read only the shared ranges remain.
LEMMA SuffixShared ==
    ASSUME SegmentsAligned, req \in Requests, todo \in Seq(JobSet), SuffixInv,
           todo # <<>>, Head(todo).kind = "header", todo' = SharedJobs(req), req' = req
    PROVE  /\ SuffixInv'
           /\ \A i \in DOMAIN Jobs(req) : \A a \in Visits(Jobs(req)[i]) :
                 Pending(i, a)' => Pending(i, a)
<1> DEFINE n == Len(todo)
           J == Jobs(req)
           z == Len(req.nobits)
           f == Len(req.segs)
<1>1. /\ J \in Seq(JobSet) /\ Len(J) \in Nat /\ n \in Nat /\ Done \in Nat /\ Done + n = Len(J)
      /\ DOMAIN J = 1 .. Len(J) /\ DOMAIN todo = 1 .. n
      /\ \A k \in DOMAIN todo : todo[k] \in JobSet /\ Done + k \in DOMAIN J
  BY SuffixFacts
<1>2. n >= 1 /\ Head(todo) = todo[1]
  BY <1>1
<1>3. /\ Len(J) = z + f + 5 /\ Len(SharedJobs(req)) = 3 /\ SharedJobs(req) \in Seq(JobSet)
      /\ \A i \in 1 .. 3 : J[2 + z + f + i] = SharedJobs(req)[i]
  BY JobsIndexed
<1>4. z \in Nat /\ f \in Nat
  BY PartsTyped
<1> HIDE DEF J, n, z, f
<1>5. Done + 1 = 2
  <2>1. J[Done + 1].kind = "header" /\ Done + 1 \in DOMAIN J
    BY <1>1, <1>2 DEF SuffixInv, J
  <2> QED
    BY <2>1, JobFacts DEF J
<1>6. DOMAIN todo' = 1 .. 3 /\ Len(todo') = 3 /\ Done' = z + f + 2 /\ Jobs(req)' = J
  BY <1>1, <1>3, <1>4 DEF Done, J
<1>7. ASSUME NEW k \in 1 .. 3
      PROVE  /\ todo'[k] = J[Done' + k] /\ Done' + k \in DOMAIN J
             /\ todo'[k].at = J[Done' + k].addr /\ J[Done' + k].addr \in Int
             /\ (todo'[k].at - J[Done' + k].addr) % PgSize = 0
  <2>1. todo'[k] = J[Done' + k] /\ Done' + k \in DOMAIN J
    BY <1>1, <1>3, <1>4, <1>6
  <2>2. J[Done' + k] \in JobSet /\ J[Done' + k].at = J[Done' + k].addr
    BY <2>1, JobFacts DEF J
  <2>3. J[Done' + k].addr \in Int
    BY <2>2 DEF JobSet
  <2>4. (todo'[k].at - J[Done' + k].addr) % PgSize = 0
    <3>1. todo'[k].at - J[Done' + k].addr = 0
      BY <2>1, <2>2, <2>3
    <3>2. PgSize * 0 + 0 = 0 /\ 0 \in 0 .. PgSize - 1 /\ PgSize \in Nat \ {0}
      BY LoaderAssumption
    <3>3. 0 % PgSize = 0
      BY <3>2, DivisionUnique
    <3> QED
      BY <3>1, <3>3
  <2> QED
    BY <2>1, <2>2, <2>3, <2>4
<1>8. SuffixInv'
  <2>1. Len(todo') <= Len(J)
    BY <1>3, <1>4, <1>6
  <2> QED
    BY <1>6, <1>7, <2>1 DEF SuffixInv
<1>9. ASSUME NEW i \in DOMAIN J, NEW a \in Visits(J[i]), i > Done'
      PROVE  i > Done /\ todo[i - Done].at <= a
  <2>1. i \in Int /\ i > 2 /\ i - Done \in 2 .. n /\ i > Done /\ Done + (i - Done) = i
    BY <1>1, <1>3, <1>4, <1>5, <1>6, <1>9
  <2>2. todo[i - Done].at = J[i].addr
    BY <1>1, <2>1 DEF SuffixInv, J
  <2>3. a \in Bytes(J[i]) /\ J[i].addr \in Int
    BY <1>1 DEF Visits, JobSet
  <2> QED
    BY <2>1, <2>2, <2>3 DEF Bytes
<1> QED
  BY <1>6, <1>8, <1>9 DEF Pending, J

-----------------------------------------------------------------------------
(* The pages that are needed                                               *)

\* The sizes of the ranges that are walked through
LEMMA JobSizeTyped ==
    ASSUME SegmentsAligned, NEW r \in Requests, NEW i \in DOMAIN Jobs(r),
           Jobs(r)[i].kind \in {"stack", "zero", "file", "untrusted", "kbuffer"},
           Jobs(r)[i].kind = "untrusted" => UntrustedSize(r) \in Nat
    PROVE  Jobs(r)[i].size \in Nat /\ Jobs(r)[i].addr \in Int
<1> DEFINE j == Jobs(r)[i]
<1>1. /\ j \in JobSet
      /\ j.kind = "stack" => j.size = r.stack
      /\ j.kind = "zero" => j.size = 0 \/ \E n \in NobitsParts(r) : j.size = n.size
      /\ j.kind = "file" => \E s \in Range(r.segs) : j.size = s.size
      /\ j.kind = "untrusted" => j.size = IF r.alloc THEN UntrustedSize(r) ELSE 0
      /\ j.kind = "kbuffer" => j.size = PgSize
  BY JobFacts
<1>2. \A n \in NobitsParts(r) : n.size \in Nat
  <2> SUFFICES ASSUME NEW n \in NobitsParts(r) PROVE n.size \in Nat
    OBVIOUS
  <2>1. PICK k \in DOMAIN r.nobits : n = r.nobits[k]
    BY DEF NobitsParts, Range
  <2> QED
    BY <2>1, PartsTyped
<1>3. \A s \in Range(r.segs) : s.size \in Nat
  BY SegmentParts
<1>4. r.stack \in Nat /\ PgSize \in Nat
  BY PartsTyped, LoaderAssumption
<1>5. j.addr \in Int
  BY <1>1 DEF JobSet
<1> HIDE DEF j
<1>6. j.kind \in {"stack", "zero", "file", "untrusted", "kbuffer"}
      /\ (j.kind = "untrusted" => UntrustedSize(r) \in Nat)
  BY DEF j
<1>7. j.size \in Nat
  BY <1>1, <1>2, <1>3, <1>4, <1>6
<1> QED
  BY <1>5, <1>7 DEF j

\* The calls of enclave_alloc_page
LEMMA Takers ==
    ASSUME NEW r, NEW v \in PageTakers(r)
    PROVE  /\ v[1] \in DOMAIN Jobs(r) /\ v[2] \in Visits(Jobs(r)[v[1]])
           /\ v = <<v[1], v[2]>>
           /\ Jobs(r)[v[1]].kind \in {"stack", "zero", "file"}
<1> DEFINE D == {k \in DOMAIN Jobs(r) : Jobs(r)[k].kind \in {"stack", "zero", "file"}}
<1>1. PICK i \in D : v \in {i} \X Visits(Jobs(r)[i])
  BY DEF PageTakers
<1> QED
  BY <1>1

LEMMA TakersFinite ==
    ASSUME SegmentsAligned, NEW r \in Requests
    PROVE  IsFiniteSet(PageTakers(r))
<1> DEFINE D == {k \in DOMAIN Jobs(r) : Jobs(r)[k].kind \in {"stack", "zero", "file"}}
           calls == [i \in D |-> {i} \X Visits(Jobs(r)[i])]
           S == {{i} \X Visits(Jobs(r)[i]) : i \in D}
<1>1. IsFiniteSet(D)
  <2>1. Jobs(r) \in Seq(JobSet)
    BY JobsIndexed
  <2>2. DOMAIN Jobs(r) = 1 .. Len(Jobs(r)) /\ Len(Jobs(r)) \in Int /\ 1 \in Int
    BY <2>1
  <2>3. IsFiniteSet(DOMAIN Jobs(r))
    BY <2>2, FS_Interval
  <2> QED
    BY <2>3, FS_Subset
<1>2. ASSUME NEW i \in D PROVE IsFiniteSet({i} \X Visits(Jobs(r)[i]))
  <2> DEFINE j == Jobs(r)[i]
  <2>1. j.size \in Nat /\ j.addr \in Int
    BY JobSizeTyped
  <2>2. j.addr + j.size - 1 \in Int
    BY <2>1
  <2>3. IsFiniteSet(Bytes(j))
    BY <2>1, <2>2, FS_Interval DEF Bytes
  <2>4. Visits(j) \subseteq Bytes(j)
    BY DEF Visits
  <2>5. IsFiniteSet(Visits(j))
    BY <2>3, <2>4, FS_Subset
  <2>6. IsFiniteSet({i})
    BY FS_Singleton
  <2> HIDE DEF j
  <2>7. IsFiniteSet({i} \X Visits(j))
    BY <2>5, <2>6, FS_Product
  <2> QED
    BY <2>7 DEF j
<1>3. calls \in Surjection(D, S)
  BY DEF Surjection
<1>4. IsFiniteSet(S)
  BY <1>1, <1>3, FS_Surjection
<1>5. \A T \in S : IsFiniteSet(T)
  BY <1>2
<1>6. IsFiniteSet(UNION S)
  BY <1>4, <1>5, FS_UNION
<1> QED
  BY <1>6 DEF PageTakers

LEMMA TablesFinite ==
    ASSUME SegmentsAligned, NEW r \in Requests
    PROVE  IsFiniteSet(MidTables(r)) /\ IsFiniteSet(LastTables(r))
           /\ MidTables(r) \subseteq Idx /\ LastTables(r) \subseteq Idx \X Idx
<1>1. Walked(r) \subseteq Vas
  <2> SUFFICES ASSUME NEW va \in Walked(r) PROVE va \in Vas
    OBVIOUS
  <2>1. PICK j \in Range(Jobs(r)) : va \in {VaOf(a) : a \in Visits(j)}
    BY DEF Walked
  <2>2. PICK a \in Visits(j) : va = VaOf(a)
    BY <2>1
  <2>3. a \in Int
    BY DEF Visits, Bytes
  <2> QED
    BY <2>2, <2>3, VaOfType
<1>2. MidTables(r) \subseteq Idx /\ LastTables(r) \subseteq Idx \X Idx
  BY <1>1 DEF MidTables, LastTables, Vas
<1>3. IsFiniteSet(Idx)
  <2>1. Idx = 0 .. Fan - 1 /\ 0 \in Int /\ Fan - 1 \in Int
    BY LoaderAssumption
  <2> QED
    BY <2>1, FS_Interval
<1>4. IsFiniteSet(Idx \X Idx)
  BY <1>3, FS_Product
<1> QED
  BY <1>2, <1>3, <1>4, FS_Subset

\* The page in front is one of those that the request needs.
LEMMA HeadVisit ==
    ASSUME SegmentsAligned, req \in Requests, todo \in Seq(JobSet), SuffixInv,
           todo # <<>>, More, UntrustedSize(req) \in Nat,
           Head(todo).kind \in {"stack", "zero", "file", "untrusted", "kbuffer"}
    PROVE  LET i == Done + 1
               a == Head(todo).at
           IN  /\ i \in DOMAIN Jobs(req) /\ a \in Visits(Jobs(req)[i])
               /\ Jobs(req)[i].kind = Head(todo).kind /\ Jobs(req)[i].addr = Head(todo).addr
               /\ Jobs(req)[i].size = Head(todo).size
               /\ a \in Int /\ VaOf(a) \in Vas /\ VaOf(a) \in Walked(req)
               /\ Pending(i, a)
<1> DEFINE i == Done + 1
           a == Head(todo).at
           j == Jobs(req)[i]
<1>1. /\ Done \in Nat /\ DOMAIN todo = 1 .. Len(todo) /\ Len(todo) \in Nat
      /\ \A k \in DOMAIN todo : todo[k] \in JobSet /\ Done + k \in DOMAIN Jobs(req)
  BY SuffixFacts
<1>2. 1 \in DOMAIN todo /\ Head(todo) = todo[1]
  BY <1>1
<1>3. /\ i \in DOMAIN Jobs(req) /\ Head(todo) \in JobSet
      /\ Head(todo).kind = j.kind /\ Head(todo).addr = j.addr /\ Head(todo).size = j.size
      /\ (a - j.addr) % PgSize = 0
  BY <1>1, <1>2 DEF SuffixInv
<1>4. a \in Int /\ a >= Head(todo).addr /\ a < Head(todo).addr + Head(todo).size
  BY <1>3 DEF JobSet, More
<1>5. j.size \in Nat /\ j.addr \in Int
  BY <1>3, JobSizeTyped
<1>6. a \in Visits(j)
  BY <1>3, <1>4, <1>5 DEF Visits, Bytes
<1>7. VaOf(a) \in Vas
  BY <1>4, VaOfType
<1>8. VaOf(a) \in Walked(req)
  <2>1. j \in Range(Jobs(req))
    BY <1>3 DEF Range
  <2> QED
    BY <1>6, <2>1 DEF Walked
<1>9. Pending(i, a)
  <2>1. i > Done /\ i - Done = 1
    BY <1>1
  <2> QED
    BY <1>2, <1>4, <2>1 DEF Pending
<1> QED
  BY <1>3, <1>4, <1>6, <1>7, <1>8, <1>9

\* A walk to one of these addresses takes a page for each table that is missing.
LEMMA WalkPays ==
    ASSUME SegmentsAligned, req \in Requests, MemoryInv, BudgetInv,
           NEW va \in Vas, va \in Walked(req), NEW n \in taken .. total, NEW target,
           n + Cardinality(MidToCome) + Cardinality(LastToCome) < total,
           WalkAndMap(va, n, target), req' = req
    PROVE  /\ st' = st /\ root' = root /\ total' = total
           /\ (l1 \in [Idx -> Nat] /\ l2 \in [Idx \X Idx -> Nat])'
           /\ leaf' = [leaf EXCEPT ![va] = target]
           /\ taken' + Cardinality(MidToCome)' + Cardinality(LastToCome)'
                = n + Cardinality(MidToCome) + Cardinality(LastToCome)
<1> DEFINE x == va[1]
           y == <<va[1], va[2]>>
           mid == Cardinality(MidToCome)
           last == Cardinality(LastToCome)
           d1 == IF Needs1(va) THEN 1 ELSE 0
           d2 == IF Needs2(va) THEN 1 ELSE 0
<1>1. /\ total \in Nat /\ taken \in Nat /\ n \in Nat
      /\ root # 0 /\ l1 \in [Idx -> Nat] /\ l2 \in [Idx \X Idx -> Nat]
      /\ x \in Idx /\ y \in Idx \X Idx
  BY DEF MemoryInv, BudgetInv, Vas
<1>2. x \in MidTables(req) /\ y \in LastTables(req)
  BY DEF MidTables, LastTables
<1>3. /\ IsFiniteSet(MidTables(req)) /\ IsFiniteSet(LastTables(req))
      /\ MidTables(req) \subseteq Idx /\ LastTables(req) \subseteq Idx \X Idx
  BY TablesFinite
<1>4. IsFiniteSet(MidToCome) /\ IsFiniteSet(LastToCome)
  <2>1. MidToCome \subseteq MidTables(req) /\ LastToCome \subseteq LastTables(req)
    BY DEF MidToCome, LastToCome
  <2> QED
    BY <1>3, <2>1, FS_Subset
<1>5. mid \in Nat /\ last \in Nat
  BY <1>4, FS_CardinalityType
<1>6. Needs1(va) <=> x \in MidToCome
  BY <1>2 DEF Needs1, MidToCome
<1>7. Needs2(va) <=> y \in LastToCome
  BY <1>2 DEF Needs2, LastToCome
<1>8. /\ Cardinality(MidToCome \ {x}) = mid - d1 /\ Cardinality(MidToCome \ {x}) \in Nat
  <2>1. /\ IsFiniteSet(MidToCome \ {x})
        /\ Cardinality(MidToCome \ {x}) = IF x \in MidToCome THEN mid - 1 ELSE mid
    BY <1>4, FS_RemoveElement
  <2>2. Cardinality(MidToCome \ {x}) \in Nat
    BY <2>1, FS_CardinalityType
  <2> QED
    BY <1>5, <1>6, <2>1, <2>2
<1>9. /\ Cardinality(LastToCome \ {y}) = last - d2 /\ Cardinality(LastToCome \ {y}) \in Nat
  <2>1. /\ IsFiniteSet(LastToCome \ {y})
        /\ Cardinality(LastToCome \ {y}) = IF y \in LastToCome THEN last - 1 ELSE last
    BY <1>4, FS_RemoveElement
  <2>2. Cardinality(LastToCome \ {y}) \in Nat
    BY <2>1, FS_CardinalityType
  <2> QED
    BY <1>5, <1>7, <2>1, <2>2
<1> HIDE DEF mid, last, x, y
<1>10. n + d1 + d2 < total /\ d1 \in {0, 1} /\ d2 \in {0, 1}
  <2>1. n + mid + last < total
    BY DEF mid, last
  <2>2. mid - d1 >= 0 /\ last - d2 >= 0
    BY <1>8, <1>9
  <2> HIDE DEF d1, d2
  <2>3. d1 \in {0, 1} /\ d2 \in {0, 1}
    BY DEF d1, d2
  <2> QED
    BY <1>1, <1>5, <2>1, <2>2, <2>3
<1>11. WalkCount1(va, n) = n + d1 /\ WalkL1(va, n) # 0 /\ WalkL1(va, n) \in Nat
  BY <1>1, <1>10 DEF WalkCount1, WalkL1, GetFreeMem, Taken, Needs1, x
<1>12. WalkCount(va, n) = n + d1 + d2 /\ WalkL2(va, n) # 0 /\ WalkL2(va, n) \in Nat
  <2> DEFINE c == n + d1
  <2>1. c \in Nat /\ c + d2 < total /\ WalkCount1(va, n) = c
    BY <1>1, <1>10, <1>11
  <2> HIDE DEF c
  <2>2. WalkCount(va, n) = c + d2 /\ WalkL2(va, n) # 0 /\ WalkL2(va, n) \in Nat
    BY <1>1, <2>1 DEF WalkCount, WalkL2, GetFreeMem, Taken, Needs2, y
  <2> QED
    BY <2>2 DEF c
<1>13. ~WalkNull(va, n)
  BY <1>1, <1>11, <1>12 DEF WalkNull
<1>14. /\ l1' = [l1 EXCEPT ![x] = WalkL1(va, n)]
       /\ l2' = [l2 EXCEPT ![y] = WalkL2(va, n)]
       /\ leaf' = [leaf EXCEPT ![va] = target]
       /\ taken' = n + d1 + d2
       /\ UNCHANGED <<total, root, st>>
  BY <1>12, <1>13 DEF WalkAndMap, x, y
<1>15. (l1 \in [Idx -> Nat] /\ l2 \in [Idx \X Idx -> Nat])'
  BY <1>1, <1>11, <1>12, <1>14
<1>16. MidToCome' = MidToCome \ {x}
  <2>1. \A i \in Idx : l1'[i] = 0 <=> l1[i] = 0 /\ i # x
    BY <1>1, <1>11, <1>14
  <2> QED
    BY <1>3, <2>1 DEF MidToCome
<1>17. LastToCome' = LastToCome \ {y}
  <2>1. \A i \in Idx \X Idx : l2'[i] = 0 <=> l2[i] = 0 /\ i # y
    BY <1>1, <1>12, <1>14
  <2> QED
    BY <1>3, <2>1 DEF LastToCome
<1>18. taken' + Cardinality(MidToCome)' + Cardinality(LastToCome)' = n + mid + last
  <2>1. Cardinality(MidToCome)' = mid - d1 /\ Cardinality(LastToCome)' = last - d2
    BY <1>8, <1>9, <1>16, <1>17
  <2> QED
    BY <1>1, <1>5, <1>10, <1>14, <2>1
<1> QED
  BY <1>14, <1>15, <1>18 DEF mid, last

\* The counts are numbers.
LEMMA CountsTyped ==
    ASSUME SegmentsAligned, req \in Requests
    PROVE  /\ IsFiniteSet(Left) /\ IsFiniteSet(MidToCome) /\ IsFiniteSet(LastToCome)
           /\ Cardinality(Left) \in Nat /\ Cardinality(MidToCome) \in Nat
           /\ Cardinality(LastToCome) \in Nat
           /\ Cardinality(Left) <= Cardinality(PageTakers(req))
           /\ Cardinality(MidToCome) <= Cardinality(MidTables(req))
           /\ Cardinality(LastToCome) <= Cardinality(LastTables(req))
           /\ Cardinality(PageTakers(req)) \in Nat /\ Cardinality(MidTables(req)) \in Nat
           /\ Cardinality(LastTables(req)) \in Nat
<1>1. /\ IsFiniteSet(PageTakers(req)) /\ IsFiniteSet(MidTables(req))
      /\ IsFiniteSet(LastTables(req))
  BY TakersFinite, TablesFinite
<1>2. /\ Left \subseteq PageTakers(req) /\ MidToCome \subseteq MidTables(req)
      /\ LastToCome \subseteq LastTables(req)
  BY DEF Left, MidToCome, LastToCome
<1>3. /\ IsFiniteSet(Left) /\ Cardinality(Left) <= Cardinality(PageTakers(req))
      /\ IsFiniteSet(MidToCome) /\ Cardinality(MidToCome) <= Cardinality(MidTables(req))
      /\ IsFiniteSet(LastToCome) /\ Cardinality(LastToCome) <= Cardinality(LastTables(req))
  BY <1>1, <1>2, FS_Subset
<1> QED
  BY <1>1, <1>3, FS_CardinalityType

\* Steps that leave the memory alone and only shorten the list
LEMMA BudgetUnchanged ==
    ASSUME SegmentsAligned, req \in Requests, MemoryInv, BudgetInv,
           UNCHANGED <<pvars, req>>,
           \A i \in DOMAIN Jobs(req) : \A a \in Visits(Jobs(req)[i]) :
               Pending(i, a)' => Pending(i, a)
    PROVE  BudgetInv'
<1>1. UNCHANGED <<total, taken, root, l1, l2, req>>
  BY DEF pvars
<1>2. Left' \subseteq Left
  <2> SUFFICES ASSUME NEW v \in PageTakers(req), Pending(v[1], v[2])' PROVE Pending(v[1], v[2])
    BY <1>1 DEF Left
  <2> QED
    BY Takers
<1>3. MidToCome' = MidToCome /\ LastToCome' = LastToCome
  BY <1>1 DEF MidToCome, LastToCome
<1>4. /\ IsFiniteSet(Left) /\ Cardinality(Left) \in Nat /\ Cardinality(MidToCome) \in Nat
      /\ Cardinality(LastToCome) \in Nat
  BY CountsTyped
<1>5. Cardinality(Left') <= Cardinality(Left) /\ Cardinality(Left') \in Nat
  BY <1>2, <1>4, FS_Subset, FS_CardinalityType
<1>6. total \in Nat /\ taken \in Nat
  BY DEF MemoryInv
<1>7. taken + Cardinality(Left') + Cardinality(MidToCome) + Cardinality(LastToCome) < total
  BY <1>4, <1>5, <1>6 DEF BudgetInv
<1> QED
  BY <1>1, <1>3, <1>7 DEF BudgetInv

\* A private page is taken and mapped.
LEMMA BudgetPrivate ==
    ASSUME SegmentsAligned, req \in Requests, todo \in Seq(JobSet), MemoryInv, BudgetInv,
           SuffixInv, todo # <<>>, More, Advance, req' = req,
           Head(todo).kind \in {"stack", "zero", "file"},
           NEW target, WalkAndMap(VaOf(Head(todo).at), Taken(taken), target)
    PROVE  /\ BudgetInv' /\ st' = st
           /\ leaf' = [leaf EXCEPT ![VaOf(Head(todo).at)] = target]
<1> DEFINE i == Done + 1
           a == Head(todo).at
           v == <<i, a>>
           va == VaOf(a)
           left == Cardinality(Left)
           mid == Cardinality(MidToCome)
           last == Cardinality(LastToCome)
<1>1. /\ i \in DOMAIN Jobs(req) /\ a \in Visits(Jobs(req)[i])
      /\ Jobs(req)[i].kind = Head(todo).kind
      /\ va \in Vas /\ va \in Walked(req) /\ Pending(i, a)
  BY HeadVisit DEF BudgetInv
<1>2. v \in Left
  <2>1. v \in PageTakers(req)
    BY <1>1 DEF PageTakers
  <2>2. v[1] = i /\ v[2] = a
    OBVIOUS
  <2> HIDE DEF v, i, a
  <2> QED
    BY <1>1, <2>1, <2>2 DEF Left
<1>3. Left' \subseteq Left \ {v}
  <2> SUFFICES ASSUME NEW w \in PageTakers(req), Pending(w[1], w[2])'
               PROVE  Pending(w[1], w[2]) /\ w # v
    BY DEF Left
  <2>1. w[1] \in DOMAIN Jobs(req) /\ w[2] \in Visits(Jobs(req)[w[1]]) /\ w = <<w[1], w[2]>>
    BY Takers
  <2>2. Pending(w[1], w[2]) /\ ~(w[1] = i /\ w[2] = a)
    BY <2>1, SuffixAdvance
  <2> QED
    BY <2>2
<1>4. /\ IsFiniteSet(Left) /\ left \in Nat /\ mid \in Nat /\ last \in Nat
  BY CountsTyped
<1>5. Cardinality(Left') <= left - 1 /\ Cardinality(Left') \in Nat /\ left - 1 \in Nat
  <2>1. IsFiniteSet(Left \ {v}) /\ Cardinality(Left \ {v}) = left - 1
    BY <1>2, <1>4, FS_RemoveElement
  <2>2. Cardinality(Left') <= Cardinality(Left \ {v}) /\ Cardinality(Left') \in Nat
    BY <1>3, <2>1, FS_Subset, FS_CardinalityType
  <2>3. Cardinality(Left \ {v}) \in Nat
    BY <2>1, FS_CardinalityType
  <2> QED
    BY <2>1, <2>2, <2>3
<1>6. total \in Nat /\ taken \in Nat
  BY DEF MemoryInv
<1>7. taken + left + mid + last < total
  BY DEF BudgetInv
<1> HIDE DEF left, mid, last, i, a, va, v
<1>8. Taken(taken) = taken + 1 /\ Taken(taken) \in taken .. total
  BY <1>4, <1>5, <1>6, <1>7 DEF Taken
<1>9. Taken(taken) + mid + last < total
  BY <1>4, <1>5, <1>6, <1>7, <1>8
<1>10. /\ st' = st /\ root' = root /\ total' = total
       /\ (l1 \in [Idx -> Nat] /\ l2 \in [Idx \X Idx -> Nat])'
       /\ leaf' = [leaf EXCEPT ![va] = target]
       /\ taken' + Cardinality(MidToCome)' + Cardinality(LastToCome)' = Taken(taken) + mid + last
  <2>1. WalkAndMap(va, Taken(taken), target)
    BY DEF va, a
  <2>2. Taken(taken) + Cardinality(MidToCome) + Cardinality(LastToCome) < total
    BY <1>9 DEF mid, last
  <2> QED
    BY <1>1, <1>8, <2>1, <2>2, WalkPays DEF mid, last
<1>11. (Cardinality(MidToCome) \in Nat /\ Cardinality(LastToCome) \in Nat)'
  <2>1. MidToCome' \subseteq MidTables(req) /\ LastToCome' \subseteq LastTables(req)
    BY DEF MidToCome, LastToCome
  <2>2. IsFiniteSet(MidToCome') /\ IsFiniteSet(LastToCome')
    BY <2>1, TablesFinite, FS_Subset
  <2> QED
    BY <2>2, FS_CardinalityType
<1>12. taken' \in Int
  BY <1>6, <1>8, <1>10, <1>1 DEF WalkAndMap, WalkCount, WalkCount1, Taken, va, a
<1>13. taken' + Cardinality(Left)' + Cardinality(MidToCome)' + Cardinality(LastToCome)' < total'
  <2>1. Cardinality(Left)' + Taken(taken) <= taken + left /\ Cardinality(Left)' \in Nat
        /\ Taken(taken) \in Nat
    BY <1>4, <1>5, <1>6, <1>8
  <2>2. taken' + Cardinality(MidToCome)' + Cardinality(LastToCome)' = Taken(taken) + mid + last
    BY <1>10
  <2>3. Cardinality(MidToCome)' \in Nat /\ Cardinality(LastToCome)' \in Nat
    BY <1>11
  <2>4. PICK k \in Nat : k = Cardinality(Left)'
    BY <2>1
  <2>5. PICK m \in Nat : m = Cardinality(MidToCome)'
    BY <2>3
  <2>6. PICK s \in Nat : s = Cardinality(LastToCome)'
    BY <2>3
  <2>7. PICK t \in Int : t = taken'
    BY <1>12
  <2>8. k + Taken(taken) <= taken + left /\ t + m + s = Taken(taken) + mid + last
    BY <2>1, <2>2, <2>4, <2>5, <2>6, <2>7
  <2>9. t + k + m + s < total
    BY <1>4, <1>6, <1>7, <1>8, <2>8
  <2> QED
    BY <1>10, <2>4, <2>5, <2>6, <2>7, <2>9
<1>14. UntrustedSize(req) \in Nat /\ root # 0
  BY DEF BudgetInv
<1>15. BudgetInv'
  BY <1>10, <1>13, <1>14 DEF BudgetInv
<1> QED
  BY <1>10, <1>15 DEF va, a

\* A shared page is mapped.
LEMMA BudgetShared ==
    ASSUME SegmentsAligned, req \in Requests, todo \in Seq(JobSet), MemoryInv, BudgetInv,
           SuffixInv, todo # <<>>, More, Advance, req' = req,
           Head(todo).kind \in {"untrusted", "kbuffer"},
           NEW target, WalkAndMap(VaOf(Head(todo).at), taken, target)
    PROVE  /\ BudgetInv' /\ st' = st
           /\ leaf' = [leaf EXCEPT ![VaOf(Head(todo).at)] = target]
<1> DEFINE va == VaOf(Head(todo).at)
           left == Cardinality(Left)
           mid == Cardinality(MidToCome)
           last == Cardinality(LastToCome)
<1>1. va \in Vas /\ va \in Walked(req)
  BY HeadVisit DEF BudgetInv
<1>2. Left' \subseteq Left
  <2> SUFFICES ASSUME NEW w \in PageTakers(req), Pending(w[1], w[2])'
               PROVE  Pending(w[1], w[2])
    BY DEF Left
  <2>1. w[1] \in DOMAIN Jobs(req) /\ w[2] \in Visits(Jobs(req)[w[1]])
    BY Takers
  <2> QED
    BY <2>1, SuffixAdvance
<1>3. /\ IsFiniteSet(Left) /\ left \in Nat /\ mid \in Nat /\ last \in Nat
  BY CountsTyped
<1>4. Cardinality(Left') <= left /\ Cardinality(Left') \in Nat
  BY <1>2, <1>3, FS_Subset, FS_CardinalityType
<1>5. total \in Nat /\ taken \in Nat /\ taken \in taken .. total
  BY DEF MemoryInv
<1>6. taken + left + mid + last < total
  BY DEF BudgetInv
<1> HIDE DEF left, mid, last, va
<1>7. taken + mid + last < total
  BY <1>3, <1>5, <1>6
<1>8. /\ st' = st /\ root' = root /\ total' = total
      /\ (l1 \in [Idx -> Nat] /\ l2 \in [Idx \X Idx -> Nat])'
      /\ leaf' = [leaf EXCEPT ![va] = target]
      /\ taken' + Cardinality(MidToCome)' + Cardinality(LastToCome)' = taken + mid + last
  <2>1. WalkAndMap(va, taken, target)
    BY DEF va
  <2>2. taken + Cardinality(MidToCome) + Cardinality(LastToCome) < total
    BY <1>7 DEF mid, last
  <2> QED
    BY <1>1, <1>5, <2>1, <2>2, WalkPays DEF mid, last
<1>9. (Cardinality(MidToCome) \in Nat /\ Cardinality(LastToCome) \in Nat)'
  <2>1. MidToCome' \subseteq MidTables(req) /\ LastToCome' \subseteq LastTables(req)
    BY DEF MidToCome, LastToCome
  <2>2. IsFiniteSet(MidToCome') /\ IsFiniteSet(LastToCome')
    BY <2>1, TablesFinite, FS_Subset
  <2> QED
    BY <2>2, FS_CardinalityType
<1>10. taken' \in Int
  BY <1>5, <1>8, <1>1 DEF WalkAndMap, WalkCount, WalkCount1, Taken, va
<1>11. taken' + Cardinality(Left)' + Cardinality(MidToCome)' + Cardinality(LastToCome)' < total'
  <2>1. Cardinality(Left)' + taken <= taken + left /\ Cardinality(Left)' \in Nat
    BY <1>3, <1>4, <1>5
  <2>2. taken' + Cardinality(MidToCome)' + Cardinality(LastToCome)' = taken + mid + last
    BY <1>8
  <2>3. Cardinality(MidToCome)' \in Nat /\ Cardinality(LastToCome)' \in Nat
    BY <1>9
  <2>4. PICK k \in Nat : k = Cardinality(Left)'
    BY <2>1
  <2>5. PICK m \in Nat : m = Cardinality(MidToCome)'
    BY <2>3
  <2>6. PICK s \in Nat : s = Cardinality(LastToCome)'
    BY <2>3
  <2>7. PICK t \in Int : t = taken'
    BY <1>10
  <2>8. k + taken <= taken + left /\ t + m + s = taken + mid + last
    BY <2>1, <2>2, <2>4, <2>5, <2>6, <2>7
  <2>9. t + k + m + s < total
    BY <1>3, <1>5, <1>6, <2>8
  <2> QED
    BY <1>8, <2>4, <2>5, <2>6, <2>7, <2>9
<1>12. UntrustedSize(req) \in Nat /\ root # 0
  BY DEF BudgetInv
<1>13. BudgetInv'
  BY <1>8, <1>11, <1>12 DEF BudgetInv
<1> QED
  BY <1>8, <1>13 DEF va

-----------------------------------------------------------------------------
(* The budget is enough                                                    *)

\* Every request that check_eapp_memory_size lets through asks for as many pages
\* as it needs.
Budgeted == \A r \in Requests : SizesInBounds(r) => BudgetOK(r)

\* While the image is loaded the pages not yet taken cover what is still needed,
\* and one more.
ExhaustInv ==
    /\ LoadInv
    /\ stage = "args" => l1 \in [Idx -> Nat] /\ l2 \in [Idx \X Idx -> Nat]
    /\ stage = "load" => st = "ready" /\ SuffixInv /\ BudgetInv
    /\ stage = "created" => fm # 0

\* create: nothing is loaded yet
LEMMA BudgetCreated ==
    ASSUME SegmentsAligned, Budgeted, ExhaustInv, Create
    PROVE  st' = "ready" /\ SuffixInv' /\ BudgetInv'
<1>1. /\ req \in Requests /\ BudgetOK(req) /\ stage = "args"
      /\ l1 \in [Idx -> Nat] /\ l2 \in [Idx \X Idx -> Nat]
  BY DEF Create, ExhaustInv, LoadInv, Budgeted
<1>2. /\ total' = TotalPages(req) /\ total' \in Nat /\ todo' = Jobs(req)
      /\ UNCHANGED <<l1, l2, req>> /\ st' = "ready"
      /\ root' = (IF 0 < total' THEN 1 ELSE 0)
      /\ taken' = (IF 1 < total' THEN 2 ELSE total')
  BY PagesAssumption DEF Create, EnclaveMemInt
<1>3. SuffixInv'
  <2>1. Jobs(req) \in Seq(JobSet)
    BY <1>1, JobsIndexed
  <2>2. Len(Jobs(req)) \in Nat /\ DOMAIN Jobs(req) = 1 .. Len(Jobs(req))
    BY <2>1
  <2>3. Done' = 0 /\ Jobs(req)' = Jobs(req)
    BY <1>2, <2>2 DEF Done
  <2>4. ASSUME NEW k \in DOMAIN Jobs(req)
        PROVE  0 + k = k /\ Jobs(req)[k].at = Jobs(req)[k].addr
               /\ (Jobs(req)[k].at - Jobs(req)[k].addr) % PgSize = 0
    <3>1. Jobs(req)[k] \in JobSet /\ Jobs(req)[k].at = Jobs(req)[k].addr
      BY <1>1, JobFacts
    <3>2. Jobs(req)[k].at - Jobs(req)[k].addr = 0
      BY <3>1 DEF JobSet
    <3>3. PgSize * 0 + 0 = 0 /\ 0 \in 0 .. PgSize - 1 /\ PgSize \in Nat \ {0} /\ 0 \in Int
      BY LoaderAssumption
    <3>4. 0 % PgSize = 0
      BY <3>3, DivisionUnique
    <3> QED
      BY <2>2, <3>1, <3>2, <3>4
  <2>5. Len(Jobs(req)) <= Len(Jobs(req))
    BY <2>2
  <2> QED
    BY <1>2, <2>3, <2>4, <2>5 DEF SuffixInv
<1> DEFINE k == Cardinality(PageTakers(req))
           m == Cardinality(MidTables(req))
           s == Cardinality(LastTables(req))
<1>4. k \in Nat /\ m \in Nat /\ s \in Nat
  BY <1>1, CountsTyped
<1>5. 3 + k + m + s <= total' /\ UntrustedSize(req) \in Nat
  BY <1>1, <1>2 DEF BudgetOK, PagesNeeded
<1> HIDE DEF k, m, s
<1>6. taken' = 2 /\ root' = 1
  <2>1. PICK n \in Nat : n = total'
    BY <1>2
  <2>2. n >= 3
    BY <1>4, <1>5, <2>1
  <2>3. 0 < n /\ 1 < n
    BY <2>2
  <2>4. 0 < total' /\ 1 < total'
    BY <2>1, <2>3
  <2> QED
    BY <1>2, <2>4
<1>7. /\ Cardinality(Left') \in Nat /\ Cardinality(Left') <= k
      /\ Cardinality(MidToCome') \in Nat /\ Cardinality(MidToCome') <= m
      /\ Cardinality(LastToCome') \in Nat /\ Cardinality(LastToCome') <= s
  <2>1. /\ Left' \subseteq PageTakers(req) /\ MidToCome' \subseteq MidTables(req)
        /\ LastToCome' \subseteq LastTables(req)
    BY <1>2 DEF Left, MidToCome, LastToCome
  <2>2. /\ IsFiniteSet(PageTakers(req)) /\ IsFiniteSet(MidTables(req))
        /\ IsFiniteSet(LastTables(req))
    BY <1>1, TakersFinite, TablesFinite
  <2> QED
    BY <2>1, <2>2, FS_Subset, FS_CardinalityType DEF k, m, s
<1>8. taken' + Cardinality(Left)' + Cardinality(MidToCome)' + Cardinality(LastToCome)' < total'
  <2>1. PICK n \in Nat : n = total'
    BY <1>2
  <2>2. PICK k1 \in Nat : k1 = Cardinality(Left')
    BY <1>7
  <2>3. PICK m1 \in Nat : m1 = Cardinality(MidToCome')
    BY <1>7
  <2>4. PICK s1 \in Nat : s1 = Cardinality(LastToCome')
    BY <1>7
  <2>5. k1 <= k /\ m1 <= m /\ s1 <= s /\ 3 + k + m + s <= n
    BY <1>5, <1>7, <2>1, <2>2, <2>3, <2>4
  <2>6. 2 + k1 + m1 + s1 < n
    BY <1>4, <2>5
  <2> QED
    BY <1>6, <2>1, <2>2, <2>3, <2>4, <2>6
<1>9. BudgetInv'
  BY <1>1, <1>2, <1>5, <1>6, <1>8 DEF BudgetInv
<1> QED
  BY <1>2, <1>3, <1>9

LEMMA ExhaustInvKept ==
    ASSUME SegmentsAligned, Budgeted, ExhaustInv, [LNext]_<<pvars, lvars>>
    PROVE  ExhaustInv'
<1> USE DEF Doing
<1>0. LoadInv /\ LoadInv'
  BY LoadInvKept DEF ExhaustInv
<1>1. req \in Requests /\ todo \in Seq(JobSet) /\ (st = "ready" => MemoryInv)
  BY <1>0 DEF LoadInv
<1>2. stage = "load" => st = "ready" /\ SuffixInv /\ BudgetInv /\ MemoryInv
  BY <1>1 DEF ExhaustInv
<1>3. ASSUME stage = "load", stage' = "load", st' = "ready", SuffixInv', BudgetInv'
      PROVE  ExhaustInv'
  BY <1>0, <1>3 DEF ExhaustInv
<1>4. CASE Refuse
  BY <1>0, <1>4 DEF Refuse, ExhaustInv
<1>5. CASE Create
  <2>1. stage' = "load"
    BY <1>5 DEF Create
  <2> QED
    BY <1>0, <1>5, <2>1, BudgetCreated DEF ExhaustInv
<1>6. CASE NextRange \/ SkipHeader \/ SharedAllocFails
  <2>1. /\ stage = "load" /\ todo # <<>> /\ todo' = Tail(todo) /\ UNCHANGED <<pvars, req>>
        /\ stage' = "load"
    BY <1>6 DEF NextRange, SkipHeader, SharedAllocFails
  <2>2. SuffixInv' /\ \A i \in DOMAIN Jobs(req) : \A a : Pending(i, a)' => Pending(i, a)
    BY <1>1, <1>2, <2>1, SuffixTail
  <2>3. BudgetInv'
    BY <1>1, <1>2, <2>1, <2>2, BudgetUnchanged
  <2>4. st' = "ready"
    BY <1>2, <2>1 DEF pvars
  <2> QED
    BY <1>3, <2>1, <2>2, <2>3, <2>4
<1>7. CASE ReadHeader
  <2>1. /\ stage = "load" /\ todo # <<>> /\ UNCHANGED <<pvars, req>> /\ stage' = "load"
        /\ Head(todo).kind = "header"
        /\ todo' = Tail(todo) \/ todo' = SharedJobs(req)
    BY <1>7 DEF ReadHeader
  <2>2. SuffixInv' /\ \A i \in DOMAIN Jobs(req) : \A a \in Visits(Jobs(req)[i]) :
                         Pending(i, a)' => Pending(i, a)
    <3>1. CASE todo' = Tail(todo)
      BY <1>1, <1>2, <2>1, <3>1, SuffixTail
    <3>2. CASE todo' = SharedJobs(req)
      BY <1>1, <1>2, <2>1, <3>2, SuffixShared
    <3> QED
      BY <2>1, <3>1, <3>2
  <2>3. BudgetInv'
    BY <1>1, <1>2, <2>1, <2>2, BudgetUnchanged
  <2>4. st' = "ready"
    BY <1>2, <2>1 DEF pvars
  <2> QED
    BY <1>3, <2>1, <2>2, <2>3, <2>4
<1>8. CASE LoadStackPage \/ LoadElfPage
  <2>1. /\ stage = "load" /\ todo # <<>> /\ req' = req /\ stage' = "load" /\ More /\ Advance
        /\ Head(todo).kind \in {"stack", "zero", "file"}
    BY <1>8 DEF LoadStackPage, LoadElfPage
  <2>2. GetFreeMem(taken) # 0
    <3>1. taken < total /\ taken \in Nat
      <4>1. /\ Cardinality(Left) \in Nat /\ Cardinality(MidToCome) \in Nat
            /\ Cardinality(LastToCome) \in Nat /\ taken \in Nat /\ total \in Nat
        BY <1>1, <1>2, <2>1, CountsTyped DEF MemoryInv
      <4> QED
        BY <1>2, <2>1, <4>1 DEF BudgetInv
    <3> QED
      BY <3>1 DEF GetFreeMem
  <2>3. WalkAndMap(VaOf(Head(todo).at), Taken(taken), GetFreeMem(taken))
    BY <1>8, <2>2 DEF LoadStackPage, LoadElfPage, EnclaveAllocPage
  <2>4. BudgetInv' /\ st' = st
    BY <1>1, <1>2, <2>1, <2>3, BudgetPrivate
  <2>5. SuffixInv'
    BY <1>1, <1>2, <2>1, SuffixAdvance
  <2> QED
    BY <1>2, <1>3, <2>1, <2>4, <2>5
<1>9. CASE MapSharedPage
  <2>1. /\ stage = "load" /\ todo # <<>> /\ req' = req /\ stage' = "load" /\ More /\ Advance
        /\ Head(todo).kind \in {"untrusted", "kbuffer"}
    BY <1>9 DEF MapSharedPage
  <2>2. PICK f : WalkAndMap(VaOf(Head(todo).at), taken, f)
    BY <1>9 DEF MapSharedPage, MapVa2Pa
  <2>3. BudgetInv' /\ st' = st
    BY <1>1, <1>2, <2>1, <2>2, BudgetShared
  <2>4. SuffixInv'
    BY <1>1, <1>2, <2>1, SuffixAdvance
  <2> QED
    BY <1>2, <1>3, <2>1, <2>3, <2>4
<1>10. CASE CheckEntry
  <2>1. stage = "load" /\ todo # <<>> /\ req' = req
    BY <1>10 DEF CheckEntry
  <2>2. CASE todo' = Tail(todo) /\ UNCHANGED <<pvars, stage>>
    <3>1. SuffixInv' /\ \A i \in DOMAIN Jobs(req) : \A a : Pending(i, a)' => Pending(i, a)
      BY <1>1, <1>2, <2>1, <2>2, SuffixTail
    <3>2. BudgetInv'
      BY <1>1, <1>2, <2>1, <2>2, <3>1, BudgetUnchanged
    <3>3. st' = "ready" /\ stage' = "load"
      BY <1>2, <2>1, <2>2 DEF pvars
    <3> QED
      BY <1>3, <2>1, <3>1, <3>2, <3>3
  <2>3. CASE stage' = "failed"
    BY <1>0, <2>3 DEF ExhaustInv
  <2> QED
    BY <1>10, <2>2, <2>3 DEF CheckEntry
<1>11. CASE HandOver
  <2>1. stage = "load" /\ stage' = "created" /\ fm' = GetFreeMem(taken)
    BY <1>11 DEF HandOver, TakeFreeMem
  <2>2. /\ Cardinality(Left) \in Nat /\ Cardinality(MidToCome) \in Nat
        /\ Cardinality(LastToCome) \in Nat /\ taken \in Nat /\ total \in Nat
    BY <1>1, <1>2, <2>1, CountsTyped DEF MemoryInv
  <2>3. taken < total
    BY <1>2, <2>1, <2>2 DEF BudgetInv
  <2>4. fm' # 0
    BY <2>1, <2>2, <2>3 DEF GetFreeMem
  <2> QED
    BY <1>0, <2>1, <2>4 DEF ExhaustInv
<1>12. CASE UNCHANGED <<pvars, lvars>>
  <2>1. UNCHANGED <<total, taken, root, l1, l2, st, fm, req, todo, stage>>
    BY <1>12 DEF pvars, lvars
  <2>2. Done' = Done /\ \A i, a : Pending(i, a)' <=> Pending(i, a)
    BY <2>1 DEF Done, Pending
  <2>3. SuffixInv => SuffixInv'
    BY <2>1, <2>2 DEF SuffixInv
  <2>4. stage = "load" => BudgetInv'
    BY <1>1, <1>2, <1>12, <2>1, <2>2, BudgetUnchanged
  <2> QED
    BY <1>0, <1>2, <2>1, <2>3, <2>4 DEF ExhaustInv
<1> QED
  BY <1>4, <1>5, <1>6, <1>7, <1>8, <1>9, <1>10, <1>11, <1>12 DEF LNext

LEMMA ExhaustInvFirst == ASSUME LInit, LoadInv PROVE ExhaustInv
  BY DEF LInit, PagesInit, ExhaustInv

\* Where create asks for as many pages as the image, its tables and the monitor
\* need, no walk fails for want of a page and the monitor gets its own, whatever
\* copies fail and in whatever order the tables come to be needed: the loader takes
\* no other pages.  total_enclave_page's 15 extra pages meet the hypothesis for the
\* layouts of app.lds, not for the largest untrusted memory (LargeRequests).
THEOREM NeverExhausted == SegmentsAligned /\ Budgeted /\ LSpec => []NoExhaustion
<1> SUFFICES ASSUME SegmentsAligned, Budgeted PROVE LSpec => []NoExhaustion
  OBVIOUS
<1>1. LInit => ExhaustInv
  BY LoadInvFirst, ExhaustInvFirst
<1>2. ExhaustInv /\ [LNext]_<<pvars, lvars>> => ExhaustInv'
  BY ExhaustInvKept
<1>3. ExhaustInv => NoExhaustion
  BY DEF ExhaustInv, LoadInv, NoExhaustion
<1> QED
  BY <1>1, <1>2, <1>3, PTL DEF LSpec

-----------------------------------------------------------------------------
(* Pages and the loops over them                                           *)

\* Multiples of the page size
LEMMA Whole ==
    ASSUME NEW d \in Int, d % PgSize = 0
    PROVE  \E q \in Int : d = PgSize * q
<1>1. PgSize \in Nat \ {0}
  BY LoaderAssumption
<1>2. d \div PgSize \in Int /\ d = PgSize * (d \div PgSize) + (d % PgSize)
  BY <1>1, Division
<1>3. d = PgSize * (d \div PgSize)
  BY <1>1, <1>2
<1> QED
  BY <1>2, <1>3

LEMMA WholeBack ==
    ASSUME NEW q \in Int PROVE (PgSize * q) % PgSize = 0 /\ (PgSize * q) \div PgSize = q
<1>1. PgSize \in Nat \ {0} /\ 0 \in 0 .. PgSize - 1 /\ PgSize * q \in Int
  BY LoaderAssumption
<1>2. (PgSize * q + 0) \div PgSize = q /\ (PgSize * q + 0) % PgSize = 0
  BY <1>1, DivisionUnique
<1>3. PgSize * q + 0 = PgSize * q
  BY <1>1
<1> QED
  BY <1>2, <1>3

\* The addresses visited in a range that starts on a page boundary
LEMMA VisitAligned ==
    ASSUME NEW addr \in Int, NEW a \in Int, addr % PgSize = 0, (a - addr) % PgSize = 0
    PROVE  a % PgSize = 0
<1>1. PgSize \in Nat \ {0} /\ a - addr \in Int
  BY LoaderAssumption
<1>2. PICK q \in Int : addr = PgSize * q
  BY Whole
<1>3. PICK s \in Int : a - addr = PgSize * s
  BY <1>1, Whole
<1>4. a = PgSize * (q + s) /\ q + s \in Int
  BY <1>1, <1>2, <1>3
<1>5. (PgSize * (q + s)) % PgSize = 0
  BY <1>4, WholeBack
<1> QED
  BY <1>4, <1>5

\* Comparing multiples
LEMMA Multiples ==
    ASSUME NEW x \in Int, NEW y \in Int
    PROVE  /\ PgSize * x \in Int
           /\ x <= y => PgSize * x <= PgSize * y
           /\ PgSize * x < PgSize * y + PgSize => x <= y
<1>1. PgSize \in Nat \ {0} /\ PgSize * x \in Int /\ PgSize * y \in Int
  BY LoaderAssumption
<1>2. ASSUME NEW u \in Int, NEW v \in Int, u <= v PROVE PgSize * u <= PgSize * v
  <2>1. v - u \in Nat /\ PgSize * (v - u) \in Nat /\ PgSize * u \in Int /\ PgSize * v \in Int
        /\ PgSize * (v - u) = PgSize * v - PgSize * u
    BY <1>1, <1>2
  <2> QED
    BY <2>1
<1>3. ASSUME PgSize * x < PgSize * y + PgSize, ~(x <= y) PROVE FALSE
  <2>1. y + 1 \in Int /\ y + 1 <= x /\ PgSize * (y + 1) = PgSize * y + PgSize
    BY <1>1, <1>3
  <2>2. PgSize * (y + 1) <= PgSize * x
    BY <1>2, <2>1
  <2> QED
    BY <1>1, <1>3, <2>1, <2>2
<1> QED
  BY <1>1, <1>2, <1>3

\* Rounding up to pages
LEMMA RoundedUp ==
    ASSUME NEW n \in Nat
    PROVE  \E c \in Int : PageUp(n) = PgSize * c /\ n <= PgSize * c /\ PgSize * c < n + PgSize
<1>1. PgSize \in Nat \ {0} /\ n + PgSize - 1 \in Int
  BY LoaderAssumption
<1> DEFINE m == n + PgSize - 1
           c == m \div PgSize
           e == m % PgSize
<1>2. c \in Int /\ e \in 0 .. PgSize - 1 /\ m = PgSize * c + e
  BY <1>1, Division
<1>3. PageUp(n) = c * PgSize
  BY DEF PageUp
<1>4. m = n + PgSize - 1
  OBVIOUS
<1> HIDE DEF m, c, e
<1>5. PgSize * c = c * PgSize /\ PgSize * c \in Int
  BY <1>1, <1>2
<1>6. n <= PgSize * c /\ PgSize * c < n + PgSize
  BY <1>1, <1>2, <1>4, <1>5
<1> QED
  BY <1>2, <1>3, <1>5, <1>6

\* The loop over a part that LoopCovers visits every page of it.
LEMMA LoopVisits ==
    ASSUME NEW p, p.addr \in Int, p.size \in Nat, LoopCovers(p), NEW b \in Bytes(p)
    PROVE  \E a \in Visits(p) : a \div PgSize = b \div PgSize /\ VaOf(a) = VaOf(b)
<1> DEFINE addr == p.addr
           size == p.size
           q == addr \div PgSize
           r == addr % PgSize
           d == b \div PgSize
           e == b % PgSize
           k == d - q
           a == addr + PgSize * k
<1>1. PgSize \in Nat \ {0} /\ addr \in Int /\ size \in Nat
  BY LoaderAssumption
<1>2. b \in Int /\ addr <= b /\ b < addr + size
  BY <1>1 DEF Bytes
<1>3. q \in Int /\ r \in 0 .. PgSize - 1 /\ addr = PgSize * q + r
  BY <1>1, Division
<1>4. d \in Int /\ e \in 0 .. PgSize - 1 /\ b = PgSize * d + e
  BY <1>1, <1>2, Division
<1>5. PICK c \in Int : PageUp(size) = PgSize * c /\ size <= PgSize * c /\ PgSize * c < size + PgSize
  BY <1>1, RoundedUp
<1>6. r + size <= PgSize * c
  BY <1>5 DEF LoopCovers
<1> HIDE DEF q, r, d, e, addr, size
<1>7. q <= d
  <2>1. PgSize * q < PgSize * d + PgSize
    <3>1. PgSize * q \in Int /\ PgSize * d \in Int
      BY <1>3, <1>4, Multiples
    <3> QED
      BY <1>1, <1>2, <1>3, <1>4, <3>1
  <2> QED
    BY <1>3, <1>4, <2>1, Multiples
<1>8. k \in Int /\ k >= 0 /\ PgSize * k = PgSize * d - PgSize * q /\ PgSize * k \in Int
      /\ PgSize * d \in Int /\ PgSize * q \in Int
  BY <1>1, <1>3, <1>4, <1>7
<1>9. PgSize * k < size
  <2>0. PgSize * c \in Int /\ c - 1 \in Int /\ PgSize * (c - 1) = PgSize * c - PgSize
    BY <1>1, <1>5
  <2>1. PgSize * k < PgSize * (c - 1) + PgSize
    BY <1>1, <1>2, <1>3, <1>4, <1>6, <1>8, <2>0
  <2> HIDE DEF k
  <2>2. k <= c - 1
    BY <1>8, <2>0, <2>1, Multiples
  <2>3. PgSize * k <= PgSize * (c - 1)
    BY <1>8, <2>0, <2>2, Multiples
  <2> QED
    BY <1>1, <1>5, <1>8, <2>0, <2>3
<1>10. a \in Int /\ a >= addr /\ a < addr + size /\ a = PgSize * d + r /\ a - addr = PgSize * k
  <2>1. PgSize * k >= 0
    <3>1. PgSize * 0 = 0
      BY <1>1
    <3> HIDE DEF k
    <3>2. PgSize * 0 <= PgSize * k
      BY <1>8, Multiples
    <3> QED
      BY <3>1, <3>2
  <2> QED
    BY <1>1, <1>3, <1>8, <1>9, <2>1
<1>11. a \div PgSize = d
  <2>1. (PgSize * d + r) \div PgSize = d
    BY <1>1, <1>3, <1>4, DivisionUnique
  <2> QED
    BY <1>10, <2>1
<1>12. (a - addr) % PgSize = 0
  BY <1>8, <1>10, WholeBack
<1>13. a \in Visits(p)
  BY <1>1, <1>10, <1>12 DEF Visits, Bytes, addr, size
<1>14. VaOf(a) = VaOf(b)
  BY <1>11 DEF VaOf, d
<1> QED
  BY <1>11, <1>13, <1>14 DEF d

LEMMA AlignedCovered ==
    ASSUME NEW p, p.size \in Nat, p.addr % PgSize = 0
    PROVE  LoopCovers(p)
<1>1. PICK c \in Int : PageUp(p.size) = PgSize * c /\ p.size <= PgSize * c
  BY RoundedUp
<1> QED
  BY <1>1 DEF LoopCovers

\* What is written to a page reaches to its end or to the end of the range.
LEMMA ChunkReaches ==
    ASSUME NEW j, j.addr \in Int, j.size \in Nat, j.at \in Visits(j)
    PROVE  /\ j.at + ChunkSize(j) <= j.addr + j.size /\ ChunkSize(j) \in Nat
           /\ \A x \in 0 .. PgSize - 1 : j.at + x < j.addr + j.size => x < ChunkSize(j)
<1> DEFINE addr == j.addr
           size == j.size
           at == j.at
           rest == addr + size - at
<1>1. PgSize \in Nat \ {0} /\ addr \in Int /\ size \in Nat
  BY LoaderAssumption
<1>2. at \in Int /\ addr <= at /\ at < addr + size /\ (at - addr) % PgSize = 0
  BY <1>1 DEF Visits, Bytes
<1>3. PICK q \in Int : at - addr = PgSize * q
  <2>1. at - addr \in Int
    BY <1>1, <1>2
  <2> QED
    BY <1>2, <2>1, Whole
<1>4. CASE at + PgSize > addr + size
  <2>1. rest \in 0 .. PgSize - 1 /\ size = PgSize * q + rest
    <3>1. PgSize * q \in Int
      BY <1>1, <1>3
    <3> QED
      BY <1>1, <1>2, <1>3, <1>4, <3>1
  <2>2. size % PgSize = rest
    <3>1. (PgSize * q + rest) % PgSize = rest
      BY <1>1, <2>1, DivisionUnique
    <3> QED
      BY <2>1, <3>1
  <2>3. ChunkSize(j) = rest
    BY <1>4, <2>2 DEF ChunkSize
  <2> QED
    BY <1>1, <1>2, <2>1, <2>3
<1>5. CASE ~(at + PgSize > addr + size)
  <2>1. ChunkSize(j) = PgSize
    BY <1>5 DEF ChunkSize
  <2> QED
    BY <1>1, <1>2, <1>5, <2>1
<1> QED
  BY <1>4, <1>5

-----------------------------------------------------------------------------
(* The parts of an image                                                   *)

\* Images are laid out as LayoutOK says.
LaidOut == \A r \in Requests : LayoutOK(r)

LEMMA LaidOutAligned == ASSUME LaidOut PROVE SegmentsAligned
<1> SUFFICES ASSUME NEW r \in Requests, NEW p \in Range(r.segs)
             PROVE  p.addr % PgSize = 0 /\ p.addr + p.size <= Top
  BY DEF SegmentsAligned
<1>1. p \in PrivateParts(r) \cup SharedParts(r) /\ LayoutOK(r)
  BY DEF PrivateParts, LaidOut
<1> QED
  BY <1>1 DEF LayoutOK, InSpace

\* A range that is walked through belongs to a part.
LEMMA JobPart ==
    ASSUME LaidOut, NEW r \in Requests, NEW i \in DOMAIN Jobs(r), NEW a \in Visits(Jobs(r)[i])
    PROVE  LET j == Jobs(r)[i]
           IN  /\ j.kind \in {"stack", "zero", "file"} =>
                     \E p \in PrivateParts(r) : a \in Bytes(p)
               /\ j.kind = "file" =>
                     \E p \in Range(r.segs) : j.addr = p.addr /\ j.size = p.size /\ a \in Bytes(p)
               /\ j.kind \in {"untrusted", "kbuffer"} =>
                     \E p \in SharedParts(r) : a \in Bytes(p)
               /\ j.kind = "untrusted" =>
                     r.alloc /\ j.addr = UntrustedPtr /\ a \in Bytes(UntrustedPart(r))
                     /\ j.size = UntrustedSize(r)
               /\ j.kind = "kbuffer" => a \in Bytes(KbufferPart)
<1> DEFINE j == Jobs(r)[i]
<1>1. SegmentsAligned /\ LayoutOK(r)
  BY LaidOutAligned DEF LaidOut
<1>2. /\ j \in JobSet
      /\ j.kind = "stack" => j.addr = StackPoint - r.stack /\ j.size = r.stack
      /\ j.kind = "zero" =>
            j.size = 0 \/ \E n \in NobitsParts(r) : j.addr = n.addr /\ j.size = n.size
      /\ j.kind = "file" => \E s \in Range(r.segs) : j.addr = s.addr /\ j.size = s.size
      /\ j.kind = "untrusted" =>
            j.addr = UntrustedPtr /\ j.size = IF r.alloc THEN UntrustedSize(r) ELSE 0
      /\ j.kind = "kbuffer" => j.addr = Kbuffer /\ j.size = PgSize
  BY <1>1, JobFacts
<1>3. a \in Bytes(j) /\ j.addr \in Int
  BY <1>2 DEF Visits, JobSet
<1>4. j.size # 0
  BY <1>3 DEF Bytes
<1>5. \A p : j.addr = p.addr /\ j.size = p.size => a \in Bytes(p)
  BY <1>3 DEF Bytes
<1> HIDE DEF j
<1>6. ASSUME j.kind = "stack" PROVE \E p \in PrivateParts(r) : a \in Bytes(p)
  <2>1. StackPart(r) \in PrivateParts(r) /\ j.addr = StackPart(r).addr /\ j.size = StackPart(r).size
    BY <1>2, <1>6 DEF PrivateParts, StackPart
  <2> QED
    BY <1>5, <2>1
<1>7. ASSUME j.kind = "zero" PROVE \E p \in PrivateParts(r) : a \in Bytes(p)
  <2>1. PICK n \in NobitsParts(r) : j.addr = n.addr /\ j.size = n.size
    BY <1>2, <1>4, <1>7
  <2>2. n \in PrivateParts(r)
    BY DEF PrivateParts
  <2> QED
    BY <1>5, <2>1, <2>2
<1>8. ASSUME j.kind = "file"
      PROVE  \E p \in Range(r.segs) :
                /\ j.addr = p.addr /\ j.size = p.size /\ a \in Bytes(p) /\ p \in PrivateParts(r)
  <2>1. PICK s \in Range(r.segs) : j.addr = s.addr /\ j.size = s.size
    BY <1>2, <1>8
  <2>2. s \in PrivateParts(r)
    BY DEF PrivateParts
  <2> QED
    BY <1>5, <2>1, <2>2
<1>9. ASSUME j.kind = "untrusted"
      PROVE  /\ r.alloc /\ j.addr = UntrustedPtr /\ a \in Bytes(UntrustedPart(r))
             /\ j.size = UntrustedSize(r) /\ UntrustedPart(r) \in SharedParts(r)
  <2>1. r.alloc /\ j.addr = UntrustedPtr /\ j.size = UntrustedSize(r)
    BY <1>2, <1>4, <1>9
  <2>2. /\ j.addr = UntrustedPart(r).addr /\ j.size = UntrustedPart(r).size
        /\ UntrustedPart(r) \in SharedParts(r)
    BY <2>1 DEF UntrustedPart, SharedParts
  <2> QED
    BY <1>5, <2>1, <2>2
<1>10. ASSUME j.kind = "kbuffer" PROVE a \in Bytes(KbufferPart) /\ KbufferPart \in SharedParts(r)
  <2>1. /\ j.addr = KbufferPart.addr /\ j.size = KbufferPart.size
        /\ KbufferPart \in SharedParts(r)
    BY <1>2, <1>10 DEF KbufferPart, SharedParts
  <2> QED
    BY <1>5, <2>1
<1> QED
  BY <1>6, <1>7, <1>8, <1>9, <1>10 DEF j

\* Bytes of the parts lie in the address space.
LEMMA InSpaceBytes ==
    ASSUME LaidOut, NEW r \in Requests, NEW p \in PrivateParts(r) \cup SharedParts(r),
           NEW a \in Bytes(p)
    PROVE  a \in 0 .. Top - 1 /\ p.addr \in Nat /\ p.size \in Nat
<1>1. InSpace(p)
  BY DEF LaidOut, LayoutOK
<1>2. Top \in Int
  BY LoaderAssumption DEF Top
<1> QED
  BY <1>1, <1>2 DEF InSpace, Bytes

\* Two visits that meet in a page
LEMMA Overlap ==
    ASSUME LaidOut, NEW r \in Requests, NEW i \in DOMAIN Jobs(r), NEW k \in DOMAIN Jobs(r),
           NEW a \in Visits(Jobs(r)[i]), NEW b \in Visits(Jobs(r)[k]), VaOf(a) = VaOf(b)
    PROVE  LET x == Jobs(r)[i]
               y == Jobs(r)[k]
           IN  /\ x.kind \in {"stack", "zero", "file"} => y.kind \notin {"untrusted", "kbuffer"}
               /\ x.kind = "untrusted" => y.kind \notin {"stack", "zero", "file", "kbuffer"}
               /\ x.kind = "file" /\ y.kind = "file" =>
                     a = b /\ x.addr = y.addr /\ x.size = y.size
               /\ x.kind = "untrusted" /\ y.kind = "untrusted" =>
                     a = b /\ x.addr = y.addr /\ x.size = y.size
<1> DEFINE x == Jobs(r)[i]
           y == Jobs(r)[k]
           All == PrivateParts(r) \cup SharedParts(r)
<1>1. LayoutOK(r) /\ PgSize \in Nat \ {0}
  BY LoaderAssumption DEF LaidOut
<1>2. /\ x.kind \in {"stack", "zero", "file"} => \E p \in PrivateParts(r) : a \in Bytes(p)
      /\ x.kind = "file" =>
            \E p \in Range(r.segs) : x.addr = p.addr /\ x.size = p.size /\ a \in Bytes(p)
      /\ x.kind = "untrusted" => /\ r.alloc /\ x.addr = UntrustedPtr
                                 /\ a \in Bytes(UntrustedPart(r)) /\ x.size = UntrustedSize(r)
      /\ x.kind \in {"untrusted", "kbuffer"} => \E p \in SharedParts(r) : a \in Bytes(p)
  BY JobPart
<1>3. /\ y.kind \in {"stack", "zero", "file"} => \E p \in PrivateParts(r) : b \in Bytes(p)
      /\ y.kind = "file" =>
            \E p \in Range(r.segs) : y.addr = p.addr /\ y.size = p.size /\ b \in Bytes(p)
      /\ y.kind \in {"untrusted", "kbuffer"} => \E p \in SharedParts(r) : b \in Bytes(p)
      /\ y.kind = "untrusted" => /\ r.alloc /\ y.addr = UntrustedPtr
                                 /\ b \in Bytes(UntrustedPart(r)) /\ y.size = UntrustedSize(r)
      /\ y.kind = "kbuffer" => b \in Bytes(KbufferPart)
  BY JobPart
<1>4. (a - x.addr) % PgSize = 0 /\ (b - y.addr) % PgSize = 0
  BY DEF Visits
<1> HIDE DEF x, y
<1>5. ASSUME NEW p \in All, NEW q \in All, a \in Bytes(p), b \in Bytes(q)
      PROVE  a \in 0 .. Top - 1 /\ b \in 0 .. Top - 1 /\ a \div PgSize = b \div PgSize
  <2>1. a \in 0 .. Top - 1 /\ b \in 0 .. Top - 1
    BY <1>5, InSpaceBytes
  <2> QED
    BY <2>1, SameIndices
<1>6. ASSUME x.kind \in {"stack", "zero", "file"}, y.kind \in {"untrusted", "kbuffer"}
      PROVE  FALSE
  <2>1. PICK p \in PrivateParts(r) : a \in Bytes(p)
    BY <1>2, <1>6
  <2>2. PICK q \in SharedParts(r) : b \in Bytes(q)
    BY <1>3, <1>6
  <2>3. a \div PgSize = b \div PgSize
    BY <1>5, <2>1, <2>2
  <2>4. Apart(p, q)
    BY <1>1 DEF LayoutOK
  <2> QED
    BY <2>1, <2>2, <2>3, <2>4 DEF Apart
<1>7. ASSUME x.kind = "untrusted", y.kind \in {"stack", "zero", "file"}
      PROVE  FALSE
  <2>1. PICK p \in SharedParts(r) : a \in Bytes(p)
    BY <1>2, <1>7
  <2>2. PICK q \in PrivateParts(r) : b \in Bytes(q)
    BY <1>3, <1>7
  <2>3. a \div PgSize = b \div PgSize
    BY <1>5, <2>1, <2>2
  <2>4. Apart(q, p)
    BY <1>1 DEF LayoutOK
  <2> QED
    BY <2>1, <2>2, <2>3, <2>4 DEF Apart
<1>8. ASSUME x.kind = "untrusted", y.kind = "kbuffer" PROVE FALSE
  <2>1. r.alloc /\ a \in Bytes(UntrustedPart(r)) /\ b \in Bytes(KbufferPart)
    BY <1>2, <1>3, <1>8
  <2>2. UntrustedPart(r) \in All /\ KbufferPart \in All
    BY <2>1 DEF SharedParts
  <2>3. a \div PgSize = b \div PgSize
    BY <1>5, <2>1, <2>2
  <2>4. Apart(UntrustedPart(r), KbufferPart)
    BY <1>1, <2>1 DEF LayoutOK
  <2> QED
    BY <2>1, <2>3, <2>4 DEF Apart
<1>9. ASSUME NEW p \in All, NEW q \in All, a \in Bytes(p), b \in Bytes(q),
             x.addr = p.addr, y.addr = q.addr, p.addr % PgSize = 0, q.addr % PgSize = 0
      PROVE  a = b
  <2>1. /\ a \in 0 .. Top - 1 /\ b \in 0 .. Top - 1 /\ p.addr \in Nat /\ q.addr \in Nat
    BY <1>5, <1>9, InSpaceBytes
  <2>2. a \in Int /\ b \in Int /\ p.addr \in Int /\ q.addr \in Int
    BY <2>1
  <2>3. a % PgSize = 0 /\ b % PgSize = 0
    BY <1>4, <1>9, <2>2, VisitAligned
  <2>4. b + (a % PgSize) = a
    BY <2>1, <2>3, SamePage
  <2> QED
    BY <2>2, <2>3, <2>4
<1>10. ASSUME x.kind = "file", y.kind = "file"
       PROVE  a = b /\ x.addr = y.addr /\ x.size = y.size
  <2>1. PICK p \in Range(r.segs) : x.addr = p.addr /\ x.size = p.size /\ a \in Bytes(p)
    BY <1>2, <1>10
  <2>2. PICK q \in Range(r.segs) : y.addr = q.addr /\ y.size = q.size /\ b \in Bytes(q)
    BY <1>3, <1>10
  <2>3. p \in All /\ q \in All
    BY DEF PrivateParts
  <2>4. a \div PgSize = b \div PgSize
    BY <1>5, <2>1, <2>2, <2>3
  <2>5. ~Apart(p, q)
    BY <2>1, <2>2, <2>4 DEF Apart
  <2>6. p = q /\ p.addr % PgSize = 0 /\ q.addr % PgSize = 0
    BY <1>1, <2>5 DEF LayoutOK
  <2> QED
    BY <1>9, <2>1, <2>2, <2>3, <2>6
<1>11. ASSUME x.kind = "untrusted", y.kind = "untrusted"
       PROVE  a = b /\ x.addr = y.addr /\ x.size = y.size
  <2>1. /\ r.alloc /\ x.addr = UntrustedPtr /\ y.addr = UntrustedPtr /\ x.size = y.size
        /\ a \in Bytes(UntrustedPart(r)) /\ b \in Bytes(UntrustedPart(r))
    BY <1>2, <1>3, <1>11
  <2>2. UntrustedPart(r) \in All /\ UntrustedPart(r).addr = UntrustedPtr
    BY <2>1 DEF SharedParts, UntrustedPart
  <2>3. UntrustedPtr % PgSize = 0
    BY <1>1, <2>1 DEF LayoutOK
  <2>4. a = b
    BY <1>9, <2>1, <2>2, <2>3
  <2> QED
    BY <2>1, <2>4
<1> QED
  BY <1>6, <1>7, <1>8, <1>10, <1>11 DEF x, y

-----------------------------------------------------------------------------
(* What is filled stays filled                                             *)

LEMMA HoldsKept ==
    ASSUME NEW j, NEW a, NEW va, NEW target, VaOf(a) \in Vas, leaf \in [Vas -> Int \cup {Unmapped}],
           leaf' = [leaf EXCEPT ![va] = target],
           \A p \in DOMAIN content : p \in DOMAIN content' /\ content'[p] = content[p],
           VaOf(a) = va => j.kind \in {"stack", "zero"} /\ target \in Pages,
           Holds(j, a)
    PROVE  Holds(j, a)'
<1>1. CASE VaOf(a) = va
  <2>1. leaf'[VaOf(a)] = target /\ target \in Pages /\ j.kind \in {"stack", "zero"}
    BY <1>1
  <2> QED
    BY <2>1 DEF Holds
<1>2. CASE VaOf(a) # va
  <2>1. leaf'[VaOf(a)] = leaf[VaOf(a)]
    BY <1>2
  <2> QED
    BY <2>1 DEF Holds
<1> QED
  BY <1>1, <1>2

LEMMA FilledByStep ==
    ASSUME LaidOut, req \in Requests, todo \in Seq(JobSet), MemoryInv, SuffixInv,
           UntrustedSize(req) \in Nat, FilledInv, todo # <<>>, More, Advance, req' = req,
           Head(todo).kind \in {"stack", "zero", "file", "untrusted", "kbuffer"},
           NEW target, leaf' = [leaf EXCEPT ![VaOf(Head(todo).at)] = target],
           \A p \in DOMAIN content : p \in DOMAIN content' /\ content'[p] = content[p],
           Head(todo).kind \in {"stack", "zero", "file"} => target \in Pages,
           Head(todo).kind = "file" =>
               target \in DOMAIN content' /\ content'[target] = Chunk(Head(todo)),
           Head(todo).kind = "untrusted" =>
               target = UntrustedFrame((Head(todo).at - Head(todo).addr) \div PgSize)
    PROVE  FilledInv'
<1>0. SegmentsAligned
  BY LaidOutAligned
<1> SUFFICES ASSUME NEW i \in DOMAIN Jobs(req), NEW a \in Visits(Jobs(req)[i])
             PROVE  Pending(i, a)' \/ Holds(Jobs(req)[i], a)'
  BY DEF FilledInv
<1>j. PICK j : j = Jobs(req)[i]
  OBVIOUS
<1> SUFFICES Pending(i, a)' \/ Holds(j, a)'
  <2>1. (Jobs(req)[i])' = j
    BY <1>j
  <2> QED
    BY <2>1 DEF Holds
<1> DEFINE t == Head(todo)
           b == t.at
           d == Done + 1
           h == Jobs(req)[d]
<1>1. /\ d \in DOMAIN Jobs(req) /\ b \in Visits(h)
      /\ h.kind = t.kind /\ h.addr = t.addr /\ h.size = t.size
      /\ b \in Int /\ VaOf(b) \in Vas /\ Pending(d, b)
  BY <1>0, HeadVisit
<1>2. leaf \in [Vas -> Int \cup {Unmapped}]
  BY DEF MemoryInv
<1>3. /\ j \in JobSet /\ t \in JobSet
      /\ j.kind = "file" => i > 2 + Len(req.nobits)
      /\ h.kind = "stack" => d = 1
      /\ h.kind = "zero" => d <= 2 + Len(req.nobits)
      /\ Len(req.nobits) \in Nat
  BY <1>0, <1>1, <1>j, JobFacts, PartsTyped, TodoKept
<1>4. a \in Int /\ a >= j.addr /\ j.addr \in Int /\ VaOf(a) \in Vas
  <2>1. j.addr \in Int
    BY <1>3 DEF JobSet
  <2>2. a \in Int /\ a >= j.addr
    BY <1>j, <2>1 DEF Visits, Bytes
  <2> QED
    BY <2>1, <2>2, VaOfType
<1>5. /\ Pending(i, a)' <=> Pending(i, a) /\ ~(i = d /\ a = b)
  BY <1>0, SuffixAdvance
<1>6. i > d => Pending(i, a)
  <2> SUFFICES ASSUME i > d PROVE Pending(i, a)
    OBVIOUS
  <2>1. /\ Done \in Nat /\ DOMAIN todo = 1 .. Len(todo) /\ Len(todo) \in Nat
        /\ Done + Len(todo) = Len(Jobs(req)) /\ DOMAIN Jobs(req) = 1 .. Len(Jobs(req))
    BY <1>0, SuffixFacts
  <2>2. i - Done \in DOMAIN todo /\ i - Done # 1 /\ Done + (i - Done) = i /\ i > Done
    BY <2>1
  <2>3. todo[i - Done].at = j.addr
    BY <1>j, <2>2 DEF SuffixInv
  <2> QED
    BY <1>4, <2>2, <2>3 DEF Pending
<1> HIDE DEF d, h
<1>7. ASSUME j.kind = t.kind, j.addr = t.addr, j.size = t.size, a = b
      PROVE  Holds(j, a)'
  <2>1. leaf'[VaOf(a)] = target
    BY <1>1, <1>2, <1>7
  <2>2. ASSUME j.kind = "file" PROVE Chunk([j EXCEPT !.at = a]) = Chunk(t)
    <3>1. [j EXCEPT !.at = a].kind = t.kind /\ [j EXCEPT !.at = a].addr = t.addr
          /\ [j EXCEPT !.at = a].size = t.size /\ [j EXCEPT !.at = a].at = t.at
      BY <1>3, <1>7 DEF JobSet
    <3> QED
      BY <3>1 DEF Chunk, ChunkSize
  <2>3. j.kind \in {"stack", "zero"} => target \in Pages
    BY <1>7
  <2>4. j.kind = "file" =>
           /\ target \in Pages /\ target \in DOMAIN content'
           /\ content'[target] = Chunk([j EXCEPT !.at = a])
    BY <1>7, <2>2
  <2>5. j.kind = "untrusted" => target = UntrustedFrame((a - j.addr) \div PgSize)
    BY <1>7
  <2> QED
    BY <2>1, <2>3, <2>4, <2>5 DEF Holds
<1>8. CASE Pending(i, a)
  <2>1. CASE i = d /\ a = b
    <3>1. j = h
      BY <1>j, <2>1 DEF h
    <3> QED
      BY <1>1, <1>7, <2>1, <3>1
  <2>2. CASE ~(i = d /\ a = b)
    BY <1>5, <1>8, <2>2
  <2> QED
    BY <2>1, <2>2
<1>9. CASE ~Pending(i, a)
  <2>1. Holds(j, a)
    BY <1>j, <1>9 DEF FilledInv
  <2>2. CASE VaOf(a) # VaOf(b)
    <3>1. Holds(j, a)'
      BY <1>2, <1>4, <2>1, <2>2, HoldsKept
    <3> QED
      BY <3>1
  <2>3. CASE VaOf(a) = VaOf(b)
    <3>1. /\ j.kind \in {"stack", "zero", "file"} => h.kind \notin {"untrusted", "kbuffer"}
          /\ j.kind = "untrusted" => h.kind \notin {"stack", "zero", "file", "kbuffer"}
          /\ j.kind = "file" /\ h.kind = "file" =>
                a = b /\ j.addr = h.addr /\ j.size = h.size
          /\ j.kind = "untrusted" /\ h.kind = "untrusted" =>
                a = b /\ j.addr = h.addr /\ j.size = h.size
      BY <1>1, <1>j, <2>3, Overlap DEF h
    <3>2. CASE j.kind \in {"stack", "zero"}
      <4>1. target \in Pages
        BY <1>1, <3>1, <3>2
      <4>2. Holds(j, a)'
        BY <1>2, <1>4, <2>1, <3>2, <4>1, HoldsKept
      <4> QED
        BY <4>2
    <3>3. CASE j.kind = "file"
      <4>1. h.kind # "stack" /\ h.kind # "zero"
        <5>1. i \in Int /\ d \in Int
          <6>1. Done \in Nat /\ DOMAIN Jobs(req) = 1 .. Len(Jobs(req)) /\ Len(Jobs(req)) \in Nat
            BY <1>0, SuffixFacts
          <6> QED
            BY <6>1 DEF d
        <5>2. ~(i > d)
          BY <1>6, <1>9
        <5> QED
          BY <1>3, <3>3, <5>1, <5>2
      <4>2. h.kind = "file"
        BY <1>1, <3>1, <3>3, <4>1
      <4>3. Holds(j, a)'
        BY <1>1, <1>7, <3>1, <3>3, <4>2
      <4> QED
        BY <4>3
    <3>4. CASE j.kind = "untrusted"
      <4>1. h.kind = "untrusted"
        BY <1>1, <3>1, <3>4
      <4>2. Holds(j, a)'
        BY <1>1, <1>7, <3>1, <3>4, <4>1
      <4> QED
        BY <4>2
    <3>5. CASE j.kind \notin {"stack", "zero", "file", "untrusted"}
      <4>1. Holds(j, a)'
        BY <3>5 DEF Holds
      <4> QED
        BY <4>1
    <3> QED
      BY <3>2, <3>3, <3>4, <3>5
  <2> QED
    BY <2>2, <2>3
<1> QED
  BY <1>8, <1>9

\* Leaving a range that is done with forgets nothing.
LEMMA FilledNext ==
    ASSUME SegmentsAligned, req \in Requests, todo \in Seq(JobSet), SuffixInv, FilledInv,
           UntrustedSize(req) \in Nat,
           todo # <<>>, todo' = Tail(todo), UNCHANGED <<req, leaf, content>>,
           Head(todo).kind \in {"stack", "zero", "file", "untrusted", "kbuffer"} => ~More
    PROVE  FilledInv'
<1> SUFFICES ASSUME NEW i \in DOMAIN Jobs(req), NEW a \in Visits(Jobs(req)[i])
             PROVE  Pending(i, a)' \/ Holds(Jobs(req)[i], a)'
  BY DEF FilledInv
<1> DEFINE j == Jobs(req)[i]
<1>1. Holds(j, a) => Holds(j, a)'
  BY DEF Holds
<1>2. Pending(i, a)' <=> Pending(i, a) /\ i # Done + 1
  BY SuffixTail
<1>3. ASSUME Pending(i, a), i = Done + 1 PROVE Holds(j, a)
  <2>1. /\ Done \in Nat /\ DOMAIN todo = 1 .. Len(todo) /\ Len(todo) \in Nat
        /\ \A k \in DOMAIN todo : todo[k] \in JobSet
    BY SuffixFacts
  <2>2. 1 \in DOMAIN todo /\ Head(todo) = todo[1] /\ i - Done = 1
    BY <1>3, <2>1
  <2>3. todo[1].kind = j.kind /\ todo[1].addr = j.addr /\ todo[1].size = j.size
        /\ todo[1].at <= a /\ todo[1] \in JobSet
    BY <1>3, <2>1, <2>2 DEF SuffixInv, Pending
  <2>4. CASE j.kind \in {"stack", "zero", "file", "untrusted", "kbuffer"}
    <3>1. j.size \in Nat /\ j.addr \in Int
      BY <2>4, JobSizeTyped
    <3>2. a \in Int /\ a < j.addr + j.size
      BY <3>1 DEF Visits, Bytes
    <3>3. todo[1].at \in Int /\ ~(todo[1].at < todo[1].addr + todo[1].size)
      BY <2>2, <2>3, <2>4 DEF More, JobSet
    <3> QED
      BY <2>3, <3>1, <3>2, <3>3
  <2>5. CASE j.kind \notin {"stack", "zero", "file", "untrusted", "kbuffer"}
    BY <2>5 DEF Holds
  <2> QED
    BY <2>4, <2>5
<1>4. Pending(i, a) \/ Holds(j, a)
  BY DEF FilledInv
<1> QED
  BY <1>1, <1>2, <1>3, <1>4

-----------------------------------------------------------------------------
(* The image is loaded                                                     *)

\* As long as nothing failed, each page of the image that has been visited
\* still holds what was put there; when the enclave is handed over, all have been.
ImageInv ==
    /\ ExhaustInv /\ ChunkInv
    /\ stage \in {"load", "created"} /\ ~fault => FilledInv
    /\ stage = "created" => todo = <<>>

\* What holds while the image is loaded
LEMMA Loading ==
    ASSUME LaidOut, ImageInv, stage = "load"
    PROVE  /\ SegmentsAligned /\ req \in Requests /\ todo \in Seq(JobSet) /\ st = "ready"
           /\ MemoryInv /\ SuffixInv /\ BudgetInv /\ UntrustedSize(req) \in Nat
           /\ taken \in Nat /\ total \in Nat /\ taken < total
           /\ (~fault => FilledInv)
<1>1. /\ SegmentsAligned /\ req \in Requests /\ todo \in Seq(JobSet) /\ st = "ready"
      /\ MemoryInv /\ SuffixInv /\ BudgetInv /\ UntrustedSize(req) \in Nat
      /\ (~fault => FilledInv)
  BY LaidOutAligned DEF ImageInv, ExhaustInv, LoadInv, BudgetInv
<1>2. /\ Cardinality(Left) \in Nat /\ Cardinality(MidToCome) \in Nat
      /\ Cardinality(LastToCome) \in Nat /\ taken \in Nat /\ total \in Nat
  BY <1>1, CountsTyped DEF MemoryInv
<1>3. taken < total
  BY <1>1, <1>2 DEF BudgetInv
<1> QED
  BY <1>1, <1>2, <1>3

\* create: all is still to be visited
LEMMA FilledCreated ==
    ASSUME SegmentsAligned, req \in Requests, todo' = Jobs(req), req' = req
    PROVE  FilledInv'
<1> SUFFICES ASSUME NEW i \in DOMAIN Jobs(req), NEW a \in Visits(Jobs(req)[i])
             PROVE  Pending(i, a)'
  BY DEF FilledInv
<1>1. Jobs(req) \in Seq(JobSet)
  BY JobsIndexed
<1>2. Len(Jobs(req)) \in Nat /\ DOMAIN Jobs(req) = 1 .. Len(Jobs(req))
  BY <1>1
<1>3. Done' = 0 /\ i > 0 /\ i - 0 = i
  BY <1>2 DEF Done
<1>4. Jobs(req)[i] \in JobSet /\ Jobs(req)[i].at = Jobs(req)[i].addr
  BY JobFacts
<1>5. Jobs(req)[i].at <= a
  BY <1>4 DEF Visits, Bytes, JobSet
<1> QED
  BY <1>3, <1>5 DEF Pending

\* A private page is filled or only mapped.
LEMMA PrivateStep ==
    ASSUME LaidOut, ImageInv, LoadStackPage \/ LoadElfPage
    PROVE  ChunkInv' /\ (~fault' => FilledInv')
<1> USE DEF Doing
<1>1. /\ stage = "load" /\ todo # <<>> /\ More /\ Advance /\ req' = req
      /\ Head(todo).kind \in {"stack", "zero", "file"}
  BY DEF LoadStackPage, LoadElfPage
<1>2. /\ SegmentsAligned /\ req \in Requests /\ todo \in Seq(JobSet) /\ st = "ready"
      /\ MemoryInv /\ SuffixInv /\ BudgetInv /\ UntrustedSize(req) \in Nat
      /\ taken \in Nat /\ total \in Nat /\ taken < total
      /\ (~fault => FilledInv)
  BY <1>1, Loading
<1>3. PICK g \in Pages : g = taken + 1
  BY <1>2 DEF Pages
<1>4. GetFreeMem(taken) = g /\ GetFreeMem(taken) # 0
  BY <1>2, <1>3 DEF GetFreeMem
<1>5. WalkAndMap(VaOf(Head(todo).at), Taken(taken), g)
  BY <1>4 DEF LoadStackPage, LoadElfPage, EnclaveAllocPage
<1>6. leaf' = [leaf EXCEPT ![VaOf(Head(todo).at)] = g]
  BY <1>1, <1>2, <1>5, BudgetPrivate
<1>7. CASE content' = content /\ Head(todo).kind = "stack" /\ fault' = fault
  <2>1. ChunkInv'
    BY <1>1, <1>7 DEF ImageInv, ChunkInv
  <2>2. ASSUME ~fault' PROVE FilledInv'
    <3>1. FilledInv /\ Head(todo).kind = "stack"
      BY <1>2, <1>7, <2>2
    <3>2. \A p \in DOMAIN content : p \in DOMAIN content' /\ content'[p] = content[p]
      BY <1>7
    <3> QED
      BY <1>1, <1>2, <1>3, <1>6, <3>1, <3>2, FilledByStep
  <2> QED
    BY <2>1, <2>2
<1>8. CASE /\ WriteChunk(g, Chunk(Head(todo))) /\ fault' = fault
           /\ Head(todo).kind \in {"zero", "file"}
  <2>1. /\ DOMAIN content' = {g} \cup DOMAIN content /\ content'[g] = Chunk(Head(todo))
        /\ \A p \in DOMAIN content : content'[p] = content[p]
    <3>1. \A p \in DOMAIN content : p # g
      BY <1>2, <1>3 DEF MemoryInv
    <3> QED
      BY <1>8, <3>1 DEF WriteChunk
  <2>2. ASSUME ~fault' PROVE FilledInv'
    <3>1. FilledInv
      BY <1>2, <1>8, <2>2
    <3>2. /\ \A p \in DOMAIN content : p \in DOMAIN content' /\ content'[p] = content[p]
          /\ g \in DOMAIN content' /\ content'[g] = Chunk(Head(todo))
      BY <2>1
    <3>3. Head(todo).kind # "untrusted"
      BY <1>1
    <3> QED
      BY <1>1, <1>2, <1>3, <1>6, <3>1, <3>2, <3>3, FilledByStep
  <2>3. PICK c : c = Chunk(Head(todo))
    OBVIOUS
  <2>4. /\ c.kind \in {"zero", "file"} /\ c.len \in Nat
        /\ c.kind = "file" =>
              \E s \in Range(req.segs) : c.from >= s.addr /\ c.from + c.len <= s.addr + s.size
    <3> DEFINE t == Head(todo)
               j == Jobs(req)[Done + 1]
    <3>1. /\ Done + 1 \in DOMAIN Jobs(req) /\ t.at \in Visits(j)
          /\ j.kind = t.kind /\ j.addr = t.addr /\ j.size = t.size
      BY <1>1, <1>2, HeadVisit
    <3>2. /\ t.addr \in Int /\ t.size \in Nat
      BY <1>1, <1>2, <3>1, JobSizeTyped
    <3>3. t.at \in Visits(t) /\ t.at \in Int /\ t.at >= t.addr
      BY <3>1, <3>2 DEF Visits, Bytes
    <3>4. t.at + ChunkSize(t) <= t.addr + t.size /\ ChunkSize(t) \in Nat
      BY <3>2, <3>3, ChunkReaches
    <3>5. t.kind = "file" => \E s \in Range(req.segs) : t.addr = s.addr /\ t.size = s.size
      BY <1>2, <3>1, JobFacts
    <3>6. c.kind = t.kind /\ c.from = t.at /\ c.len = ChunkSize(t) /\ t.kind \in {"zero", "file"}
      BY <1>8, <2>3 DEF Chunk
    <3> HIDE DEF t
    <3> QED
      BY <3>3, <3>4, <3>5, <3>6
  <2>5. ChunkInv'
    <3> SUFFICES ASSUME NEW p \in DOMAIN content'
                 PROVE  /\ content'[p].kind \in {"zero", "file"} /\ content'[p].len \in Nat
                        /\ content'[p].kind = "file" =>
                              \E s \in Range(req.segs) :
                                  /\ content'[p].from >= s.addr
                                  /\ content'[p].from + content'[p].len <= s.addr + s.size
      BY <1>1 DEF ChunkInv
    <3>1. CASE p = g
      <4>1. content'[p] = c
        BY <2>1, <2>3, <3>1
      <4> QED
        BY <2>4, <4>1
    <3>2. CASE p # g
      <4>1. p \in DOMAIN content /\ content'[p] = content[p]
        BY <2>1, <3>2
      <4> QED
        BY <4>1 DEF ImageInv, ChunkInv
    <3> QED
      BY <3>1, <3>2
  <2> QED
    BY <2>2, <2>5
<1>9. CASE LoadStackPage
  BY <1>7, <1>9 DEF LoadStackPage
<1>10. CASE LoadElfPage
  <2>1. /\ Head(todo).kind \in {"zero", "file"}
        /\ \/ WriteChunk(GetFreeMem(taken), Chunk(Head(todo))) /\ UNCHANGED fault
           \/ fault' = TRUE /\ content' = content
    BY <1>4, <1>10, Zenon DEF LoadElfPage
  <2>2. CASE WriteChunk(GetFreeMem(taken), Chunk(Head(todo))) /\ UNCHANGED fault
    <3>1. WriteChunk(g, Chunk(Head(todo)))
      BY <1>4, <2>2, Zenon
    <3> QED
      BY <1>8, <2>1, <2>2, <3>1, Zenon
  <2>3. CASE fault' = TRUE /\ content' = content
    <3>1. fault'
      BY <2>3
    <3>2. ChunkInv'
      BY <1>1, <2>3 DEF ImageInv, ChunkInv
    <3> QED
      BY <3>1, <3>2
  <2> QED
    BY <2>1, <2>2, <2>3, Zenon
<1> QED
  BY <1>9, <1>10

LEMMA SharedStep ==
    ASSUME LaidOut, ImageInv, MapSharedPage
    PROVE  ChunkInv' /\ (~fault' => FilledInv')
<1> USE DEF Doing
<1>1. /\ stage = "load" /\ todo # <<>> /\ More /\ Advance /\ UNCHANGED <<req, content, fault>>
      /\ Head(todo).kind \in {"untrusted", "kbuffer"}
  BY DEF MapSharedPage
<1>2. /\ SegmentsAligned /\ req \in Requests /\ todo \in Seq(JobSet)
      /\ MemoryInv /\ SuffixInv /\ BudgetInv /\ UntrustedSize(req) \in Nat
      /\ (~fault => FilledInv)
  BY <1>1, Loading
<1>3. PICK g : /\ g = IF Head(todo).kind = "kbuffer" THEN KbufferFrame
                      ELSE UntrustedFrame((Head(todo).at - Head(todo).addr) \div PgSize)
               /\ WalkAndMap(VaOf(Head(todo).at), taken, g)
  BY DEF MapSharedPage, MapVa2Pa
<1>4. leaf' = [leaf EXCEPT ![VaOf(Head(todo).at)] = g]
  BY <1>1, <1>2, <1>3, BudgetShared
<1>5. ChunkInv'
  BY <1>1 DEF ImageInv, ChunkInv
<1>6. ASSUME ~fault' PROVE FilledInv'
  <2>1. FilledInv /\ \A p \in DOMAIN content : p \in DOMAIN content' /\ content'[p] = content[p]
    BY <1>1, <1>2, <1>6
  <2>2. /\ Head(todo).kind \notin {"stack", "zero", "file"}
        /\ Head(todo).kind = "untrusted" =>
              g = UntrustedFrame((Head(todo).at - Head(todo).addr) \div PgSize)
    BY <1>1, <1>3
  <2> QED
    BY <1>1, <1>2, <1>4, <2>1, <2>2, FilledByStep
<1> QED
  BY <1>5, <1>6

LEMMA ImageInvKept ==
    ASSUME LaidOut, Budgeted, ImageInv, [LNext]_<<pvars, lvars>>
    PROVE  ImageInv'
<1> USE DEF Doing
<1>0. SegmentsAligned /\ ExhaustInv /\ ChunkInv
  BY LaidOutAligned DEF ImageInv
<1>1. ExhaustInv'
  BY <1>0, ExhaustInvKept
<1>2. req \in Requests /\ todo \in Seq(JobSet)
  BY <1>0 DEF ExhaustInv, LoadInv
<1>3. ASSUME UNCHANGED <<content, req>> PROVE ChunkInv'
  BY <1>0, <1>3 DEF ChunkInv
<1>4. CASE Refuse
  BY <1>1, <1>3, <1>4 DEF Refuse, ImageInv
<1>5. CASE Create
  <2>1. todo' = Jobs(req) /\ req' = req /\ content' = content /\ stage' = "load"
    BY <1>5 DEF Create
  <2>2. FilledInv'
    BY <1>0, <1>2, <2>1, FilledCreated
  <2> QED
    BY <1>1, <1>3, <2>1, <2>2 DEF ImageInv
<1>6. CASE SkipHeader \/ SharedAllocFails
  <2>1. fault' = TRUE /\ UNCHANGED <<content, req, stage>> /\ stage = "load"
    BY <1>6 DEF SkipHeader, SharedAllocFails
  <2> QED
    BY <1>1, <1>3, <2>1 DEF ImageInv
<1>7. ASSUME stage = "load", UNCHANGED <<req, leaf, content, fault, stage>>, todo # <<>>,
             todo' = Tail(todo),
             Head(todo).kind \in {"stack", "zero", "file", "untrusted", "kbuffer"} => ~More
      PROVE  ImageInv'
  <2>1. SuffixInv /\ UntrustedSize(req) \in Nat /\ (~fault => FilledInv)
    BY <1>7, Loading
  <2>2. ~fault => FilledInv'
    BY <1>0, <1>2, <1>7, <2>1, FilledNext
  <2> QED
    BY <1>1, <1>3, <1>7, <2>2 DEF ImageInv
<1>8. CASE NextRange
  <2>1. /\ stage = "load" /\ UNCHANGED <<req, leaf, content, fault, stage>> /\ todo # <<>>
        /\ todo' = Tail(todo) /\ ~More
    BY <1>8 DEF NextRange, pvars
  <2> QED
    BY <1>7, <2>1
<1>9. CASE ReadHeader
  <2>1. /\ stage = "load" /\ UNCHANGED <<req, leaf, content, stage>> /\ todo # <<>>
        /\ Head(todo).kind = "header"
        /\ (todo' = Tail(todo) /\ fault' = fault) \/ fault' = TRUE
    BY <1>9 DEF ReadHeader, pvars
  <2>2. CASE fault' = TRUE
    BY <1>1, <1>3, <2>1, <2>2 DEF ImageInv
  <2>3. CASE todo' = Tail(todo) /\ fault' = fault
    BY <1>7, <2>1, <2>3
  <2> QED
    BY <2>1, <2>2, <2>3
<1>10. CASE LoadStackPage \/ LoadElfPage
  <2>1. stage' = "load"
    BY <1>10 DEF LoadStackPage, LoadElfPage
  <2> QED
    BY <1>1, <1>10, <2>1, PrivateStep DEF ImageInv
<1>11. CASE MapSharedPage
  <2>1. stage' = "load"
    BY <1>11 DEF MapSharedPage
  <2> QED
    BY <1>1, <1>11, <2>1, SharedStep DEF ImageInv
<1>12. CASE CheckEntry
  <2>1. /\ stage = "load" /\ todo # <<>> /\ Head(todo).kind = "entry"
        /\ UNCHANGED <<req, content, fault>>
        /\ \/ todo' = Tail(todo) /\ UNCHANGED <<leaf, stage>>
           \/ stage' = "failed"
    BY <1>12 DEF CheckEntry, pvars
  <2>2. CASE stage' = "failed"
    BY <1>1, <1>3, <2>1, <2>2 DEF ImageInv
  <2>3. CASE todo' = Tail(todo) /\ UNCHANGED <<leaf, stage>>
    BY <1>7, <2>1, <2>3
  <2> QED
    BY <2>1, <2>2, <2>3
<1>13. ASSUME UNCHANGED <<req, todo, leaf, content, fault>>,
              stage \in {"load", "created"} => FilledInv \/ fault,
              stage' \in {"load", "created"} => stage \in {"load", "created"},
              stage' = "created" => todo = <<>>
       PROVE  ImageInv'
  <2>1. Done' = Done /\ \A i, a : Pending(i, a)' <=> Pending(i, a)
    BY <1>13 DEF Done, Pending
  <2>2. \A j, a : Holds(j, a)' <=> Holds(j, a)
    BY <1>13 DEF Holds
  <2>3. FilledInv => FilledInv'
    BY <1>13, <2>1, <2>2 DEF FilledInv
  <2> QED
    BY <1>1, <1>3, <1>13, <2>3 DEF ImageInv
<1>14. CASE HandOver
  <2>1. /\ stage = "load" /\ stage' = "created" /\ todo = <<>>
        /\ UNCHANGED <<req, todo, leaf, content, fault>>
    BY <1>14 DEF HandOver, TakeFreeMem
  <2> QED
    BY <1>13, <2>1 DEF ImageInv
<1>15. CASE UNCHANGED <<pvars, lvars>>
  <2>1. UNCHANGED <<req, todo, leaf, content, fault, stage>>
    BY <1>15 DEF pvars, lvars
  <2> QED
    BY <1>13, <2>1 DEF ImageInv
<1> QED
  BY <1>4, <1>5, <1>6, <1>8, <1>9, <1>10, <1>11, <1>12, <1>14, <1>15 DEF LNext

\* With nothing left to visit, every page of every range holds what it should.
LEMMA AllHeld ==
    ASSUME LaidOut, ImageInv, stage = "created", ~fault
    PROVE  \A i \in DOMAIN Jobs(req) : \A a \in Visits(Jobs(req)[i]) : Holds(Jobs(req)[i], a)
<1>1. req \in Requests /\ SegmentsAligned /\ todo = <<>> /\ FilledInv
  BY LaidOutAligned DEF ImageInv, ExhaustInv, LoadInv
<1>2. Jobs(req) \in Seq(JobSet)
  BY <1>1, JobsIndexed
<1>3. Len(Jobs(req)) \in Nat /\ DOMAIN Jobs(req) = 1 .. Len(Jobs(req)) /\ Len(todo) = 0
  BY <1>1, <1>2
<1>4. \A i \in DOMAIN Jobs(req) : ~(i > Done)
  BY <1>3 DEF Done
<1> QED
  BY <1>1, <1>4 DEF FilledInv, Pending

\* A byte of a part that the loop covers lies in a page that was visited.
LEMMA PartVisited ==
    ASSUME LaidOut, req \in Requests, NEW p \in PrivateParts(req) \cup SharedParts(req),
           LoopCovers(p), NEW b \in Bytes(p),
           NEW i \in DOMAIN Jobs(req), Jobs(req)[i].addr = p.addr, Jobs(req)[i].size = p.size
    PROVE  \E a \in Visits(Jobs(req)[i]) :
              /\ a \in Bytes(p) /\ (a - p.addr) % PgSize = 0 /\ VaOf(a) = VaOf(b)
              /\ a \in 0 .. Top - 1 /\ b \in 0 .. Top - 1 /\ p.addr \in Nat /\ p.size \in Nat
<1>1. b \in 0 .. Top - 1 /\ p.addr \in Nat /\ p.size \in Nat
  BY InSpaceBytes
<1>2. p.addr \in Int
  BY <1>1
<1>3. PICK a \in Visits(p) : VaOf(a) = VaOf(b)
  BY <1>1, <1>2, LoopVisits
<1>4. a \in Bytes(p) /\ (a - p.addr) % PgSize = 0
  BY DEF Visits
<1>5. a \in Visits(Jobs(req)[i])
  BY <1>4 DEF Visits, Bytes
<1>6. a \in 0 .. Top - 1
  BY <1>4, InSpaceBytes
<1> QED
  BY <1>1, <1>3, <1>4, <1>5, <1>6

LEMMA SegmentsLoaded ==
    ASSUME LaidOut, ImageInv, stage = "created", ~fault,
           NEW p \in Range(req.segs), NEW b \in Bytes(p)
    PROVE  Reads(b) = [kind |-> "file", from |-> b]
<1>1. req \in Requests /\ SegmentsAligned /\ LayoutOK(req) /\ PgSize \in Nat \ {0}
  BY LaidOutAligned, LoaderAssumption DEF ImageInv, ExhaustInv, LoadInv, LaidOut
<1>2. PICK i \in DOMAIN Jobs(req) :
         Jobs(req)[i].kind = "file" /\ Jobs(req)[i].addr = p.addr /\ Jobs(req)[i].size = p.size
  BY <1>1, JobsThere
<1>3. p \in PrivateParts(req) /\ p.addr % PgSize = 0 /\ LoopCovers(p)
  BY <1>1, SegmentParts, AlignedCovered DEF PrivateParts, LayoutOK
<1>4. PICK a \in Visits(Jobs(req)[i]) :
         /\ a \in Bytes(p) /\ (a - p.addr) % PgSize = 0 /\ VaOf(a) = VaOf(b)
         /\ a \in 0 .. Top - 1 /\ b \in 0 .. Top - 1 /\ p.addr \in Nat /\ p.size \in Nat
  BY <1>1, <1>2, <1>3, PartVisited
<1>5. a \in Int /\ b \in Int /\ p.addr \in Int
  BY <1>4
<1>6. a % PgSize = 0
  BY <1>3, <1>4, <1>5, VisitAligned
<1>7. a + (b % PgSize) = b
  BY <1>4, <1>6, SamePage
<1> DEFINE k == [Jobs(req)[i] EXCEPT !.at = a]
           m == leaf[VaOf(b)]
<1>8. m \in Pages /\ m \in DOMAIN content /\ content[m] = Chunk(k)
  <2>1. Holds(Jobs(req)[i], a)
    BY AllHeld
  <2> QED
    BY <1>2, <1>4, <2>1 DEF Holds
<1>9. k.kind = "file" /\ k.addr = p.addr /\ k.size = p.size /\ k.at = a
  <2>1. Jobs(req)[i] \in JobSet
    BY <1>1, JobFacts
  <2> QED
    BY <1>2, <2>1 DEF JobSet
<1> HIDE DEF k, m
<1>10. k.at \in Visits(k)
  BY <1>4, <1>9 DEF Visits, Bytes
<1>11. b % PgSize < ChunkSize(k)
  <2>1. \A x \in 0 .. PgSize - 1 : k.at + x < k.addr + k.size => x < ChunkSize(k)
    BY <1>4, <1>5, <1>9, <1>10, ChunkReaches
  <2>2. b % PgSize \in 0 .. PgSize - 1
    BY <1>1, <1>5, Division
  <2>3. b < p.addr + p.size
    BY <1>4, <1>5 DEF Bytes
  <2> QED
    BY <1>7, <1>9, <2>1, <2>2, <2>3
<1>12. content[m].kind = "file" /\ content[m].from = a /\ content[m].len = ChunkSize(k)
  BY <1>8, <1>9 DEF Chunk
<1>13. Reads(b) = [kind |-> content[m].kind, from |-> content[m].from + (b % PgSize)]
  BY <1>8, <1>11, <1>12 DEF Reads, m
<1> QED
  BY <1>7, <1>12, <1>13

LEMMA NobitsCleared ==
    ASSUME LaidOut, ImageInv, stage = "created", ~fault,
           NEW p \in Range(req.nobits), p.addr # 0, NEW b \in Bytes(p)
    PROVE  Reads(b).kind \in {"zero", "clear"}
<1>1. /\ req \in Requests /\ SegmentsAligned /\ LayoutOK(req) /\ PgSize \in Nat \ {0}
      /\ ChunkInv /\ MemoryInv
  BY LaidOutAligned, LoaderAssumption DEF ImageInv, ExhaustInv, LoadInv, LaidOut
<1>2. p \in NobitsParts(req) /\ p \in PrivateParts(req) /\ LoopCovers(p)
  BY <1>1 DEF PrivateParts, NobitsParts, LayoutOK
<1>3. PICK i \in DOMAIN Jobs(req) :
         Jobs(req)[i].kind = "zero" /\ Jobs(req)[i].addr = p.addr /\ Jobs(req)[i].size = p.size
  BY <1>1, <1>2, JobsThere
<1>4. PICK a \in Visits(Jobs(req)[i]) : VaOf(a) = VaOf(b) /\ b \in 0 .. Top - 1
  BY <1>1, <1>2, <1>3, PartVisited
<1> DEFINE m == leaf[VaOf(b)]
<1>5. m \in Pages
  <2>1. Holds(Jobs(req)[i], a)
    BY AllHeld
  <2> QED
    BY <1>3, <1>4, <2>1 DEF Holds
<1>6. CASE ~(m \in DOMAIN content /\ b % PgSize < content[m].len)
  BY <1>5, <1>6 DEF Reads
<1>7. CASE m \in DOMAIN content /\ b % PgSize < content[m].len
  <2>1. Reads(b) = [kind |-> content[m].kind, from |-> content[m].from + (b % PgSize)]
    BY <1>5, <1>7 DEF Reads
  <2>2. content[m].kind \in {"zero", "file"} /\ content[m].len \in Nat
    BY <1>1, <1>7 DEF ChunkInv
  <2>3. ASSUME content[m].kind = "file" PROVE FALSE
    <3> DEFINE from == content[m].from
               len == content[m].len
    <3>1. VaOf(b) \in Vas
      BY <1>4, VaOfType
    <3>2. from \in 0 .. Top - 1 /\ from % PgSize = 0 /\ VaOf(b) = VaOf(from)
      BY <1>1, <1>7, <2>3, <3>1 DEF MemoryInv
    <3>3. PICK s \in Range(req.segs) : from >= s.addr /\ from + len <= s.addr + s.size
      BY <1>1, <1>7, <2>3 DEF ChunkInv
    <3>4. s.addr \in Nat /\ s.size \in Nat
      BY <1>1, SegmentParts
    <3>5. b % PgSize < len /\ len \in Nat
      BY <1>7, <2>2
    <3> HIDE DEF from, len
    <3>6. from + (b % PgSize) = b
      BY <1>4, <3>2, SamePage
    <3>7. b \in Int /\ from \in Int
      BY <1>4, <3>2
    <3>8. b % PgSize \in 0 .. PgSize - 1
      BY <1>1, <3>7, Division
    <3>9. b >= s.addr /\ b < s.addr + s.size
      BY <1>1, <3>3, <3>4, <3>5, <3>6, <3>7, <3>8
    <3>10. b \in Bytes(s)
      BY <3>4, <3>7, <3>9 DEF Bytes
    <3>11. Bytes(p) \cap Bytes(s) = {}
      BY <1>1, <1>2 DEF LayoutOK
    <3> QED
      BY <3>10, <3>11
  <2> HIDE DEF m
  <2> QED
    BY <2>1, <2>2, <2>3
<1> QED
  BY <1>6, <1>7

LEMMA StackLoaded ==
    ASSUME LaidOut, ImageInv, stage = "created", ~fault,
           NEW b \in StackPoint - req.stack .. StackPoint - 1
    PROVE  leaf[VaOf(b)] \in Pages
<1> DEFINE p == StackPart(req)
<1>1. req \in Requests /\ SegmentsAligned /\ LayoutOK(req) /\ StackPoint \in Nat
  BY LaidOutAligned, LoaderAssumption DEF ImageInv, ExhaustInv, LoadInv, LaidOut
<1>2. req.stack \in Nat
  BY <1>1, PartsTyped
<1>3. p.addr = StackPoint - req.stack /\ p.size = req.stack
  BY DEF StackPart
<1>4. p \in PrivateParts(req) /\ LoopCovers(p)
  BY <1>1 DEF PrivateParts, LayoutOK
<1> HIDE DEF p
<1>5. b \in Bytes(p)
  BY <1>1, <1>2, <1>3 DEF Bytes
<1>6. /\ 1 \in DOMAIN Jobs(req) /\ Jobs(req)[1].kind = "stack"
      /\ Jobs(req)[1].addr = p.addr /\ Jobs(req)[1].size = p.size
  <2>1. 1 \in DOMAIN Jobs(req) /\ Jobs(req)[1].kind = "stack"
    BY <1>1, JobsThere
  <2> QED
    BY <1>1, <1>3, <2>1, JobFacts
<1>7. PICK a \in Visits(Jobs(req)[1]) : VaOf(a) = VaOf(b)
  BY <1>1, <1>4, <1>5, <1>6, PartVisited
<1>8. Holds(Jobs(req)[1], a)
  BY <1>6, AllHeld
<1> QED
  BY <1>6, <1>7, <1>8 DEF Holds

LEMMA UntrustedLoaded ==
    ASSUME LaidOut, ImageInv, stage = "created", ~fault, req.alloc,
           NEW n \in 0 .. UntrustedSize(req) - 1
    PROVE  leaf[VaOf(UntrustedPtr + n)] = UntrustedFrame(n \div PgSize)
<1> DEFINE p == UntrustedPart(req)
           b == UntrustedPtr + n
<1>1. /\ req \in Requests /\ SegmentsAligned /\ LayoutOK(req) /\ UntrustedPtr \in Nat
      /\ PgSize \in Nat \ {0}
  BY LaidOutAligned, LoaderAssumption DEF ImageInv, ExhaustInv, LoadInv, LaidOut
<1>2. p.addr = UntrustedPtr /\ p.size = UntrustedSize(req)
  BY DEF UntrustedPart
<1>3. p \in SharedParts(req) /\ p.addr % PgSize = 0
  BY <1>1, <1>2 DEF SharedParts, LayoutOK
<1>4. p.size \in Nat
  BY <1>1, <1>3 DEF LayoutOK, InSpace
<1>5. b \in Bytes(p) /\ n \in Int
  BY <1>1, <1>2, <1>4 DEF Bytes
<1> HIDE DEF p
<1>6. LoopCovers(p)
  BY <1>3, <1>4, AlignedCovered
<1>7. PICK i \in DOMAIN Jobs(req) : Jobs(req)[i].kind = "untrusted"
  BY <1>1, JobsThere
<1>8. Jobs(req)[i].addr = p.addr /\ Jobs(req)[i].size = p.size
  BY <1>1, <1>2, <1>7, JobFacts
<1>9. PICK a \in Visits(Jobs(req)[i]) :
         /\ (a - p.addr) % PgSize = 0 /\ VaOf(a) = VaOf(b)
         /\ a \in 0 .. Top - 1 /\ b \in 0 .. Top - 1
  BY <1>1, <1>3, <1>5, <1>6, <1>8, PartVisited
<1>10. leaf[VaOf(b)] = UntrustedFrame((a - p.addr) \div PgSize)
  <2>1. Holds(Jobs(req)[i], a)
    BY AllHeld
  <2> QED
    BY <1>7, <1>8, <1>9, <2>1 DEF Holds
<1>11. a \in Int /\ p.addr \in Int /\ b \in Int /\ a - p.addr \in Int /\ b = p.addr + n
  BY <1>1, <1>2, <1>9
<1>12. a % PgSize = 0
  BY <1>3, <1>9, <1>11, VisitAligned
<1> DEFINE e == b % PgSize
<1>13. a + e = b
  BY <1>9, <1>12, SamePage
<1>14. e \in 0 .. PgSize - 1
  BY <1>1, <1>11, Division
<1>15. PICK q \in Int : a - p.addr = PgSize * q
  BY <1>9, <1>11, Whole
<1> HIDE DEF e, b
<1>16. n = PgSize * q + e
  BY <1>1, <1>5, <1>11, <1>13, <1>14, <1>15
<1>17. (PgSize * q + e) \div PgSize = q
  BY <1>1, <1>14, DivisionUnique
<1>18. (PgSize * q) \div PgSize = q
  BY WholeBack
<1>19. (a - p.addr) \div PgSize = n \div PgSize
  BY <1>15, <1>16, <1>17, <1>18
<1> QED
  BY <1>10, <1>19 DEF b

LEMMA ImageComplete == ASSUME LaidOut, ImageInv PROVE ImageFaithful
<1>1. ASSUME stage = "created", ~fault
      PROVE  /\ \A p \in Range(req.segs) : \A a \in Bytes(p) :
                   Reads(a) = [kind |-> "file", from |-> a]
             /\ \A p \in Range(req.nobits) : p.addr # 0 =>
                   \A a \in Bytes(p) : Reads(a).kind \in {"zero", "clear"}
             /\ \A a \in StackPoint - req.stack .. StackPoint - 1 : leaf[VaOf(a)] \in Pages
             /\ req.alloc => \A i \in 0 .. UntrustedSize(req) - 1 :
                   leaf[VaOf(UntrustedPtr + i)] = UntrustedFrame(i \div PgSize)
  BY <1>1, SegmentsLoaded, NobitsCleared, StackLoaded, UntrustedLoaded
<1> QED
  BY <1>1 DEF ImageFaithful

LEMMA ImageInvFirst == ASSUME LInit PROVE ImageInv
<1>1. ExhaustInv
  BY LoadInvFirst, ExhaustInvFirst
<1>2. stage = "args" /\ DOMAIN content = {}
  BY DEF LInit
<1> QED
  BY <1>1, <1>2 DEF ImageInv, ChunkInv

\* An image laid out as app.lds and the SDK's fixed addresses do, for which create
\* asks for enough pages, is loaded completely when nothing fails: segments have
\* the file's bytes at their addresses although .bss may begin in the page where
\* the data ends and is loaded first, NOBITS sections read as zeros, the stack
\* is private memory and the untrusted pages are mapped in order.
THEOREM ImageLoaded == LaidOut /\ Budgeted /\ LSpec => []ImageFaithful
<1> SUFFICES ASSUME LaidOut, Budgeted PROVE LSpec => []ImageFaithful
  OBVIOUS
<1>1. LInit => ImageInv
  BY ImageInvFirst
<1>2. ImageInv /\ [LNext]_<<pvars, lvars>> => ImageInv'
  BY ImageInvKept
<1>3. ImageInv => ImageFaithful
  BY ImageComplete
<1> QED
  BY <1>1, <1>2, <1>3, PTL DEF LSpec
=============================================================================
