-------------------------- MODULE EnclaveHeapProofs --------------------------
(***************************************************************************)
(* Theorems about EnclaveHeap, for an mmap area, pages, requests and heap  *)
(* growth of any size: the headers of SYS_mmap form a chain through memory *)
(* that programs write to, no tidy program breaks it, and a program of one *)
(* size is refused only when the area is full.                             *)
(***************************************************************************)
EXTENDS EnclaveHeap, FiniteSetTheorems, TLAPS

\* A program is tidy if it fills what it gives back, or maps one size only, of
\* at most a page.
Tidy == \A p \in Programs : p.fills \/ \E n \in 1 .. Page : p.sizes = {n}

\* What the counters are worth, and that a search has changed nothing yet.
Counters ==
    /\ pc = "scan" /\ for = "heap" => step < grown
    /\ brk = -1 => off = BrkStart
    /\ pc = "scan" /\ for = "mmap" => req \in prog.sizes
    /\ pc = "scan" => found = mem

TInv == HeapTypeOK /\ Counters

\* The payload behind a header
Payload(h) == h + 1 .. h + mem[h].size

\* H is the chain of headers: it starts at 0, every block that is or was in use
\* is followed by the next header, with none inside it, and the untouched rest
\* comes last.
Chain(H) ==
    /\ H \subseteq Granules /\ 0 \in H
    /\ \A h \in H : mem[h].type = 0 => \A k \in H : k <= h
    /\ \A h \in H : mem[h].type # 0 =>
          /\ h + 1 + mem[h].size \in H
          /\ \A k \in H : k <= h \/ h + mem[h].size < k

\* The blocks in use have headers of their own on the chain.
Owned(H) ==
    /\ \A b \in live : b.at - 1 \in H /\ mem[b.at - 1] = [type |-> 2, size |-> b.len]
    /\ \A b, c \in live : b.at = c.at => b = c

\* A block given back is full of non-zero data, or as long as every request.
Recycled(H) ==
    \A h \in H : mem[h].type = 1 =>
        IF prog.fills THEN \A g \in Payload(h) : mem[g].size # 0
                      ELSE mem[h].size \in prog.sizes

\* The sizes of a program that does not fill
OneSize ==
    ~prog.fills =>
        /\ \A b \in live : ~b.heap => b.len \in prog.sizes
        /\ pc = "scan" => \A n \in prog.sizes : n <= req

\* The search stands on a header.
OnChain(H) == pc = "scan" => at \in H

ChainInv(H) == Chain(H) /\ Owned(H) /\ Recycled(H) /\ OnChain(H)

HeapInv == TInv /\ OneSize /\ \E H \in SUBSET Granules : ChainInv(H)

-----------------------------------------------------------------------------
(* Types and counters                                                      *)

LEMMA WordParts ==
    /\ \A w \in Word : w.type \in 0 .. 2 /\ w.size \in 0 .. Wrap - 1
    /\ \A t \in 0 .. 2, n \in 0 .. Wrap - 1 : [type |-> t, size |-> n] \in Word
  BY DEF Word

LEMMA AreaFits ==
    /\ Wrap \in Nat /\ Arena \in Nat /\ Start \in Nat
    /\ Arena < Wrap /\ Arena <= Wrap - Start
<1>1. /\ Wrap \in Nat /\ Arena \in Nat /\ Start \in Nat \ {0}
      /\ Start + Arena <= Wrap \div 2
  BY HeapAssumption
<1>2. Wrap \div 2 \in Nat /\ Wrap \div 2 <= Wrap
  BY <1>1
<1> QED
  BY <1>1, <1>2

LEMMA ZerosType == Zeros \in [Granules -> Word]
<1>1. Zero \in Word
  BY AreaFits DEF Zero, Word
<1> QED
  BY <1>1 DEF Zeros

\* The restored header is the old one.
LEMMA RestoredIsMem ==
    ASSUME TInv, ~PastEnd
    PROVE  Restored = mem
<1>1. at \in Granules /\ mem \in [Granules -> Word]
  BY AreaFits DEF TInv, HeapTypeOK, PastEnd, Granules
<1>2. mem[at] \in [type : 0..2, size : 0 .. Wrap - 1]
  BY <1>1 DEF Word
<1> DEFINE w == [type |-> mem[at].type, size |-> mem[at].size]
<1>3. mem[at] = w
  BY <1>2
<1>4. Stamped = [g \in Granules |-> IF g = at THEN [type |-> 2, size |-> req] ELSE mem[g]]
  BY <1>1 DEF Stamped
<1>5. [Stamped EXCEPT ![at].type = mem[at].type]
        = [g \in Granules |-> IF g = at THEN [type |-> mem[at].type, size |-> req]
                                        ELSE mem[g]]
  <2>1. Stamped[at] = [type |-> 2, size |-> req]
    BY <1>1, <1>4
  <2>2. [Stamped[at] EXCEPT !.type = mem[at].type] = [type |-> mem[at].type, size |-> req]
    BY <2>1
  <2> QED
    BY <1>1, <1>4, <2>2
<1>6. Restored = [g \in Granules |-> IF g = at THEN w ELSE mem[g]]
  <2> DEFINE half == [Stamped EXCEPT ![at].type = mem[at].type]
  <2>1. half[at] = [type |-> mem[at].type, size |-> req]
    BY <1>1, <1>5
  <2>2. [half[at] EXCEPT !.size = mem[at].size] = w
    BY <2>1
  <2>3. Restored = [half EXCEPT ![at].size = mem[at].size]
    BY DEF Restored
  <2> HIDE DEF half
  <2>4. half = [g \in Granules |-> IF g = at THEN [type |-> mem[at].type, size |-> req]
                                            ELSE mem[g]]
    BY <1>5 DEF half
  <2> QED
    BY <1>1, <2>2, <2>3, <2>4
<1> QED
  BY <1>1, <1>3, <1>6

\* A search that returns a block counts a heap area only while an expansion of
\* the heap is under way.
LEMMA ReturnType ==
    ASSUME TInv, pc = "scan", Return, mem' \in [Granules -> Word]
    PROVE  TInv'
<1>1. [at |-> at + 1, len |-> req, heap |-> for = "heap"] \in Block
  BY DEF TInv, HeapTypeOK, Block
<1>2. step' \in 0 .. grown'
  BY DEF TInv, HeapTypeOK, Counters, Return
<1> QED
  BY <1>1, <1>2, ZerosType DEF TInv, HeapTypeOK, Counters, Return

\* The two headers that a split writes are words.
LEMMA SplitType ==
    ASSUME TInv, Split
    PROVE  mem' \in [Granules -> Word]
<1>1. /\ at \in Nat /\ req \in Nat /\ at < Arena /\ at + 1 + req < Arena
      /\ Arena \in Nat /\ Wrap \in Nat /\ Wrap > Arena
      /\ mem \in [Granules -> Word]
  BY AreaFits DEF TInv, HeapTypeOK, Split, Scanning, PastEnd, Behind
<1>2. at \in Granules /\ Behind \in Granules /\ req \in 0 .. Wrap - 1
  BY <1>1 DEF Granules, Behind
<1>3. [type |-> 2, size |-> req] \in Word
  BY <1>2, WordParts
<1>4. /\ mem[at].type \in 0 .. 2 /\ mem[at].size \in 0 .. Wrap - 1
  BY <1>1, <1>2, WordParts
<1>5. (mem[at].size - req - 1) % Wrap \in 0 .. Wrap - 1 /\ 0 \in 0 .. Wrap - 1
  BY <1>1, <1>4
<1>6. SplitWord(mem[at], Stamped[Behind]) \in Word
  BY <1>4, <1>5, WordParts DEF SplitWord
<1>7. Stamped \in [Granules -> Word]
  BY <1>1, <1>3 DEF Stamped
<1> QED
  BY <1>6, <1>7 DEF Split

\* Both headers of a split are written, and the word that is read behind the new
\* block is the one that was there.
LEMMA SplitMem ==
    ASSUME TInv, Split
    PROVE  /\ Behind # at
           /\ mem' = [mem EXCEPT ![at] = [type |-> 2, size |-> req],
                                 ![Behind] = SplitWord(mem[at], mem[Behind])]
<1>1. /\ at \in Nat /\ req \in Nat /\ mem \in [Granules -> Word]
  BY DEF TInv, HeapTypeOK
<1>2. Behind # at
  BY <1>1 DEF Behind
<1>3. Stamped[Behind] = mem[Behind]
  BY <1>1, <1>2, SplitType DEF Stamped, Split, Granules, Behind
<1> QED
  BY <1>1, <1>2, <1>3 DEF Split, Stamped

\* __expand_heap: the break it keeps is a number once it has been called, and the
\* first break is the one the image starts with.
LEMMA ExpandType ==
    ASSUME TInv, ExpandHeap
    PROVE  TInv'
<1> USE DEF TInv, HeapTypeOK, Counters
<1>1. PICK n \in Growth :
        IF TooMuch(n)
        THEN UNCHANGED <<pc, for, req, at, off, brk, found>>
        ELSE /\ BrkSyscall(Break + n)
             /\ IF BrkGrants(Break + n)
                THEN /\ brk' = Break + n
                     /\ UNCHANGED <<pc, for, req, at, found>>
                ELSE /\ brk' = Break
                     /\ Search(LargerOf(n, MinPages) * Page, "heap")
  BY DEF ExpandHeap
<1>2. /\ BrkStart \in Nat /\ Page \in Nat \ {0} /\ MaxHeap \in Nat /\ n \in Nat \ {0}
  BY HeapAssumption
<1>3. Break \in Nat /\ (brk = -1 => Break = BrkStart)
  BY <1>2 DEF Break
<1>4. ~TooMuch(n) => off' \in Nat /\ brk' \in Nat /\ brk' # -1
  BY <1>1, <1>2, <1>3 DEF BrkSyscall
<1>5. grown' \in 0 .. MaxHeap /\ step' \in 0 .. grown' /\ step' < grown'
  BY <1>2 DEF ExpandHeap
<1>6. step \div 2 \in 0 .. MaxHeap
  BY <1>2
<1>7. MinPages \in Nat
  BY <1>6, PowersAreNumbers DEF MinPages
<1>8. LargerOf(n, MinPages) \in Nat
  BY <1>2, <1>7 DEF LargerOf
<1>9. LargerOf(n, MinPages) * Page \in Nat
  BY <1>2, <1>8
<1>10. pc = "idle" /\ UNCHANGED <<mem, live, step, prog>>
  BY DEF ExpandHeap
<1>11. CASE TooMuch(n)
  BY <1>1, <1>5, <1>10, <1>11
<1>12. CASE ~TooMuch(n) /\ BrkGrants(Break + n)
  BY <1>1, <1>4, <1>5, <1>10, <1>12
<1>13. CASE ~TooMuch(n) /\ ~BrkGrants(Break + n)
  <2>1. pc' = "scan" /\ req' \in Nat /\ for' = "heap" /\ at' = 0 /\ found' = mem
    BY <1>1, <1>9, <1>13 DEF Search
  <2> QED
    BY <1>4, <1>5, <1>10, <1>13, <2>1
<1> QED
  BY <1>11, <1>12, <1>13

\* Types and counters are inductive, whatever the programs do.
LEMMA TypeKept ==
    ASSUME TInv, [Next]_vars
    PROVE  TInv'
<1>1. CASE MmapCall
  <2>1. PICK n \in prog.sizes : Search(n, "mmap")
    BY <1>1 DEF MmapCall
  <2>2. n \in Nat
    BY HeapAssumption DEF TInv, HeapTypeOK
  <2> QED
    BY <1>1, <2>1, <2>2 DEF MmapCall, Search, TInv, HeapTypeOK, Counters
<1>2. CASE Split
  BY <1>2, SplitType, ReturnType DEF Split, Scanning
<1>3. CASE SplitFail
  <2>1. mem' = mem
    BY <1>3, RestoredIsMem DEF SplitFail
  <2> QED
    BY <1>3, <2>1, ZerosType DEF SplitFail, Fail, TInv, HeapTypeOK, Counters
<1>4. CASE Reuse
  <2>1. at \in Granules
    BY <1>4, HeapAssumption DEF Reuse, Scanning, PastEnd, Granules, TInv, HeapTypeOK
  <2>2. [mem[at] EXCEPT !.type = 2] \in Word
    BY <2>1 DEF TInv, HeapTypeOK, Word
  <2>3. mem' \in [Granules -> Word]
    BY <1>4, <2>1, <2>2 DEF Reuse, TInv, HeapTypeOK
  <2> QED
    BY <1>4, <2>3, ReturnType DEF Reuse, Scanning
<1>5. CASE Advance
  <2>1. at \in Granules
    BY <1>5, HeapAssumption DEF Advance, Scanning, PastEnd, Granules, TInv, HeapTypeOK
  <2>2. at \in Nat /\ mem[at].size \in Nat
    BY <2>1, AreaFits DEF TInv, HeapTypeOK, Word
  <2>3. at' \in Nat
    BY <1>5, <2>2, AreaFits DEF Advance
  <2> QED
    BY <1>5, <2>3 DEF Advance, TInv, HeapTypeOK, Counters
<1>6. CASE Munmap
  <2>1. PICK b \in live : mem' = [mem EXCEPT ![b.at - 1].type = 1] /\ live' = live \ {b}
    BY <1>6 DEF Munmap
  <2>2. \A w \in Word : [w EXCEPT !.type = 1] \in Word
    BY DEF Word
  <2>3. mem' \in [Granules -> Word]
    BY <2>1, <2>2 DEF TInv, HeapTypeOK
  <2> QED
    BY <1>6, <2>1, <2>3 DEF Munmap, TInv, HeapTypeOK, Counters
<1>7. CASE Write
  <2>1. mem' \in [Granules -> Word]
    BY <1>7, HeapAssumption DEF Write, TInv, HeapTypeOK
  <2> QED
    BY <1>7, <2>1 DEF Write, TInv, HeapTypeOK, Counters
<1>8. CASE ExpandHeap
  BY <1>8, ExpandType
<1>9. CASE UNCHANGED vars
  BY <1>9 DEF vars, TInv, HeapTypeOK, Counters
<1> QED
  BY <1>1, <1>2, <1>3, <1>4, <1>5, <1>6, <1>7, <1>8, <1>9 DEF Next, Scan

-----------------------------------------------------------------------------
(* The chain                                                               *)

\* Headers are in the area and read as words.
LEMMA HeaderFacts ==
    ASSUME TInv, NEW H, Chain(H), NEW h \in H
    PROVE  /\ h \in Nat /\ h \in Granules /\ h < Arena
           /\ mem[h].type \in 0 .. 2 /\ mem[h].size \in Nat /\ mem[h].size < Wrap
           /\ mem[h] = [type |-> mem[h].type, size |-> mem[h].size]
           /\ mem[h].type # 0 =>
                 /\ h + 1 + mem[h].size \in H /\ h + 1 + mem[h].size < Arena
<1>1. Arena \in Nat /\ Wrap \in Nat
  BY HeapAssumption
<1>2. h \in Nat /\ h \in Granules /\ h < Arena
  BY <1>1 DEF Chain, Granules
<1>3. mem[h] \in Word
  BY <1>2 DEF TInv, HeapTypeOK
<1>4. /\ mem[h].type \in 0 .. 2 /\ mem[h].size \in Nat /\ mem[h].size < Wrap
      /\ mem[h] = [type |-> mem[h].type, size |-> mem[h].size]
  BY <1>1, <1>3 DEF Word
<1>5. mem[h].type # 0 => h + 1 + mem[h].size \in H /\ h + 1 + mem[h].size < Arena
  BY <1>1 DEF Chain, Granules
<1> QED
  BY <1>2, <1>4, <1>5

\* No header lies inside a block, and blocks do not overlap.
LEMMA Disjoint ==
    ASSUME TInv, NEW H, Chain(H), NEW h \in H, mem[h].type # 0
    PROVE  /\ \A k \in H : k \notin Payload(h)
           /\ \A k \in H : k # h /\ mem[k].type # 0 => Payload(h) \cap Payload(k) = {}
           /\ Payload(h) \subseteq Granules
<1>1. /\ h \in Nat /\ mem[h].size \in Nat /\ h + 1 + mem[h].size < Arena /\ Arena \in Nat
      /\ \A k \in H : k \in Nat /\ mem[k].size \in Nat
  BY HeaderFacts, HeapAssumption
<1>2. \A k \in H : k <= h \/ h + mem[h].size < k
  BY DEF Chain
<1>3. \A k \in H : k \notin Payload(h)
  BY <1>1, <1>2 DEF Payload
<1>4. ASSUME NEW k \in H, k # h, mem[k].type # 0
      PROVE  Payload(h) \cap Payload(k) = {}
  <2>1. h <= k \/ k + mem[k].size < h
    BY <1>4 DEF Chain
  <2> QED
    BY <1>1, <1>2, <1>4, <2>1 DEF Payload
<1>5. Payload(h) \subseteq Granules
  BY <1>1 DEF Payload, Granules
<1> QED
  BY <1>3, <1>4, <1>5

\* The header of a block in use
LEMMA BlockFacts ==
    ASSUME TInv, NEW H, ChainInv(H), NEW b \in live
    PROVE  /\ b.at \in Nat /\ b.len \in Nat /\ b.at - 1 \in H
           /\ mem[b.at - 1].type = 2 /\ mem[b.at - 1].size = b.len
           /\ Payload(b.at - 1) = b.at .. b.at + b.len - 1
<1>1. b.at \in Nat /\ b.len \in Nat
  BY DEF TInv, HeapTypeOK, Block
<1>2. b.at - 1 \in H /\ mem[b.at - 1].type = 2 /\ mem[b.at - 1].size = b.len
  <2>1. b.at - 1 \in H /\ mem[b.at - 1] = [type |-> 2, size |-> b.len]
    BY DEF ChainInv, Owned
  <2> QED
    BY <2>1
<1>3. b.at - 1 + 1 = b.at /\ b.at - 1 + b.len = b.at + b.len - 1
  BY <1>1
<1> QED
  BY <1>1, <1>2, <1>3 DEF Payload

-----------------------------------------------------------------------------
(* The steps of SYS_mmap                                                   *)

\* Where a search stands
LEMMA ScanFacts ==
    ASSUME TInv, NEW H, ChainInv(H), pc = "scan"
    PROVE  /\ at \in H /\ at \in Nat /\ req \in Nat
           /\ mem[at].type \in 0 .. 2 /\ mem[at].size \in Nat
  BY HeaderFacts DEF ChainInv, OnChain, TInv, HeapTypeOK

\* A split of a freed block: the granule that becomes the next header is not
\* zero, so the rest gets its true size.
LEMMA FreedSplit ==
    ASSUME TInv, OneSize, NEW H, ChainInv(H), Split, mem[at].type = 1
    PROVE  /\ prog.fills
           /\ Behind \in Payload(at)
           /\ SplitWord(mem[at], mem[Behind])
                = [type |-> 1, size |-> mem[at].size - req - 1]
           /\ mem[at].size - req - 1 \in Nat
<1>1. /\ at \in H /\ at \in Nat /\ req \in Nat /\ mem[at].size \in Nat
      /\ mem[at].size < Wrap /\ Wrap \in Nat
  BY ScanFacts, HeaderFacts, HeapAssumption DEF Split, Scanning, ChainInv
<1>2. mem[at].size >= req + 1
  BY DEF Split, Splits
<1>3. prog.fills
  <2> SUFFICES ASSUME ~prog.fills PROVE FALSE
    OBVIOUS
  <2>1. mem[at].size \in prog.sizes
    BY <1>1 DEF ChainInv, Recycled
  <2>2. mem[at].size <= req
    BY <2>1 DEF OneSize, Split, Scanning
  <2> QED
    BY <1>1, <1>2, <2>2
<1>4. Behind \in Payload(at)
  BY <1>1, <1>2 DEF Behind, Payload
<1>5. mem[Behind].size # 0
  BY <1>1, <1>3, <1>4 DEF ChainInv, Recycled
<1>6. /\ mem[at].size - req - 1 \in Nat
      /\ (mem[at].size - req - 1) % Wrap = mem[at].size - req - 1
  BY <1>1, <1>2
<1> QED
  BY <1>3, <1>4, <1>5, <1>6 DEF SplitWord

\* The chain after the split of the untouched rest
LEMMA RestChain ==
    ASSUME TInv, NEW H, ChainInv(H), Split, mem[at].type = 0
    PROVE  /\ Chain(H \cup {Behind})'
           /\ Behind \notin H
           /\ \A h \in H : mem[h].type # 0 => Behind \notin Payload(h)
<1>1. /\ at \in H /\ at \in Nat /\ req \in Nat /\ mem \in [Granules -> Word]
      /\ Arena \in Nat
  BY ScanFacts, HeapAssumption DEF Split, Scanning, TInv, HeapTypeOK
<1>2. Behind = at + 1 + req /\ Behind \in Nat /\ Behind < Arena /\ Behind \in Granules
  BY <1>1 DEF Behind, Split, Granules
<1>3. \A k \in H : k \in Nat /\ k \in Granules /\ mem[k].size \in Nat /\ k <= at
  BY <1>1, HeaderFacts DEF ChainInv, Chain
<1>4. Behind \notin H
  BY <1>1, <1>2, <1>3
<1>5. ASSUME NEW h \in H, mem[h].type # 0
      PROVE  h + 1 + mem[h].size \in H /\ h + 1 + mem[h].size <= at
  BY <1>3, <1>5, HeaderFacts DEF ChainInv, Chain
<1>6. \A h \in H : mem[h].type # 0 => Behind \notin Payload(h)
  BY <1>1, <1>2, <1>3, <1>5 DEF Payload
<1>7. /\ mem'[at].type = 2 /\ mem'[at].size = req /\ mem'[Behind].type = 0
      /\ \A h \in H : h # at => mem'[h] = mem[h]
  BY <1>1, <1>2, <1>3, <1>4, SplitMem DEF SplitWord
<1>8. Behind' = Behind
  BY DEF Split, Return, Behind
<1>9. \A h \in H \cup {Behind} :
        mem'[h].type = 0 => \A k \in H \cup {Behind} : k <= h
  <2>1. \A h \in H : h # at => mem[h].type # 0
    BY <1>1, <1>3 DEF ChainInv, Chain
  <2>2. \A h \in H : mem'[h].type # 0
    BY <1>7, <2>1
  <2> QED
    BY <1>1, <1>2, <1>3, <2>2
<1>10. ASSUME NEW h \in H \cup {Behind}, mem'[h].type # 0
       PROVE  /\ h + 1 + mem'[h].size \in H \cup {Behind}
              /\ \A k \in H \cup {Behind} : k <= h \/ h + mem'[h].size < k
  <2>1. CASE h = at
    BY <1>1, <1>2, <1>3, <1>7, <2>1
  <2>2. CASE h \in H /\ h # at
    <3>1. mem'[h] = mem[h]
      BY <1>7, <2>2
    <3>2. \A k \in H : k <= h \/ h + mem[h].size < k
      BY <1>10, <2>2, <3>1 DEF ChainInv, Chain
    <3>3. h + mem[h].size < Behind
      <4>1. h + 1 + mem[h].size <= at
        BY <1>5, <1>10, <2>2, <3>1
      <4>2. h \in Nat /\ mem[h].size \in Nat
        BY <1>3, <2>2
      <4> QED
        BY <1>1, <1>2, <4>1, <4>2
    <3> QED
      BY <1>5, <1>10, <2>2, <3>1, <3>2, <3>3
  <2> QED
    BY <1>7, <1>10, <2>1, <2>2
<1>11. H \cup {Behind} \subseteq Granules /\ 0 \in H \cup {Behind}
  BY <1>2 DEF ChainInv, Chain
<1>12. Chain(H \cup {Behind})'
  BY <1>8, <1>9, <1>10, <1>11 DEF Chain
<1> QED
  BY <1>4, <1>6, <1>12

\* The chain after the split of a freed block
LEMMA FreedChain ==
    ASSUME TInv, OneSize, NEW H, ChainInv(H), Split, mem[at].type = 1
    PROVE  /\ Chain(H \cup {Behind})'
           /\ Behind \notin H
           /\ \A h \in H : h # at /\ mem[h].type # 0 => Behind \notin Payload(h)
<1>1. /\ at \in H /\ at \in Nat /\ req \in Nat /\ mem \in [Granules -> Word]
      /\ mem[at].size \in Nat /\ Arena \in Nat
  BY ScanFacts, HeapAssumption DEF Split, Scanning, TInv, HeapTypeOK
<1>2. /\ Behind = at + 1 + req /\ Behind \in Nat /\ Behind < Arena /\ Behind \in Granules
      /\ Behind \in Payload(at) /\ Behind <= at + mem[at].size
  BY <1>1, FreedSplit DEF Behind, Split, Granules, Payload
<1>3. \A k \in H : k \in Nat /\ k \in Granules /\ mem[k].size \in Nat
  BY HeaderFacts DEF ChainInv
<1>4. Behind \notin H /\ \A h \in H : h # at /\ mem[h].type # 0 => Behind \notin Payload(h)
  BY <1>1, <1>2, Disjoint DEF ChainInv
<1>5. /\ mem'[at].type = 2 /\ mem'[at].size = req
      /\ mem'[Behind].type = 1 /\ mem'[Behind].size = mem[at].size - req - 1
      /\ \A h \in H : h # at => mem'[h] = mem[h]
  BY <1>1, <1>2, <1>3, <1>4, FreedSplit, SplitMem
<1>6. Behind' = Behind
  BY DEF Split, Return, Behind
<1>7. /\ at + 1 + mem[at].size \in H
      /\ \A k \in H : k <= at \/ at + mem[at].size < k
  BY <1>1 DEF ChainInv, Chain
<1>8. ASSUME NEW h \in H \cup {Behind}, mem'[h].type = 0
      PROVE  \A k \in H \cup {Behind} : k <= h
  <2>1. h \in H /\ h # at /\ mem[h].type = 0
    BY <1>5, <1>8
  <2>2. \A k \in H : k <= h
    BY <2>1 DEF ChainInv, Chain
  <2>3. Behind <= h
    BY <1>1, <1>2, <1>3, <1>7, <2>1, <2>2
  <2> QED
    BY <2>2, <2>3
<1>9. ASSUME NEW h \in H \cup {Behind}, mem'[h].type # 0
      PROVE  /\ h + 1 + mem'[h].size \in H \cup {Behind}
             /\ \A k \in H \cup {Behind} : k <= h \/ h + mem'[h].size < k
  <2>1. CASE h = at
    <3>1. h + 1 + mem'[h].size = Behind
      BY <1>2, <1>5, <2>1
    <3>2. ASSUME NEW k \in H PROVE k <= at \/ at + req < k
      BY <1>1, <1>2, <1>3, <1>7
    <3>3. at + req < Behind
      BY <1>1, <1>2
    <3> QED
      BY <1>5, <2>1, <3>1, <3>2, <3>3
  <2>2. CASE h = Behind
    <3>1. h + 1 + mem'[h].size = at + 1 + mem[at].size
      BY <1>1, <1>2, <1>5, <2>2
    <3>2. h + mem'[h].size = at + mem[at].size
      BY <1>1, <1>2, <1>5, <2>2
    <3> QED
      BY <1>1, <1>2, <1>3, <1>7, <2>2, <3>1, <3>2
  <2>3. CASE h \in H /\ h # at
    <3>1. mem'[h] = mem[h] /\ mem[h].type # 0
      BY <1>5, <1>9, <2>3
    <3>2. h + 1 + mem[h].size \in H /\ \A k \in H : k <= h \/ h + mem[h].size < k
      BY <2>3, <3>1 DEF ChainInv, Chain
    <3>3. Behind <= h \/ h + mem[h].size < Behind
      BY <1>1, <1>2, <1>3, <1>7, <2>3, <3>2
    <3> QED
      BY <3>1, <3>2, <3>3
  <2> QED
    BY <1>9, <2>1, <2>2, <2>3
<1>10. H \cup {Behind} \subseteq Granules /\ 0 \in H \cup {Behind}
  BY <1>2 DEF ChainInv, Chain
<1>11. Chain(H \cup {Behind})'
  BY <1>6, <1>8, <1>9, <1>10 DEF Chain
<1> QED
  BY <1>4, <1>11

\* A split keeps everything.
LEMMA SplitKeeps ==
    ASSUME TInv, OneSize, NEW H, ChainInv(H), Split
    PROVE  ChainInv(H \cup {Behind})' /\ OneSize'
<1> DEFINE b0 == [at |-> at + 1, len |-> req, heap |-> for = "heap"]
<1>1. /\ at \in H /\ at \in Nat /\ req \in Nat /\ mem \in [Granules -> Word]
      /\ Chain(H) /\ mem[at].type \in {0, 1}
  BY ScanFacts DEF Split, Scanning, Splits, TInv, HeapTypeOK, ChainInv
<1>2. /\ Chain(H \cup {Behind})' /\ Behind \notin H /\ Behind \in Granules
      /\ \A h \in H : h # at /\ mem[h].type # 0 => Behind \notin Payload(h)
  <2>1. Behind \in Granules
    BY <1>1, HeapAssumption DEF Split, Behind, Granules
  <2> QED
    BY <1>1, <2>1, RestChain, FreedChain
<1>3. \A h \in H : h \in Granules
  BY <1>1, HeaderFacts
<1>4. /\ mem'[at] = [type |-> 2, size |-> req]
      /\ mem'[Behind] = SplitWord(mem[at], mem[Behind])
      /\ \A g \in Granules : g # at /\ g # Behind => mem'[g] = mem[g]
  BY <1>1, <1>2, <1>3, SplitMem
<1>5. live' = live \cup {b0} /\ pc' = "idle" /\ prog' = prog
  BY DEF Split, Return
<1>6. ASSUME NEW c \in live
      PROVE  /\ c.at # b0.at /\ c.at - 1 \in H
             /\ mem'[c.at - 1] = [type |-> 2, size |-> c.len]
  <2>1. /\ c.at \in Nat /\ c.at - 1 \in H /\ mem[c.at - 1].type = 2
        /\ mem[c.at - 1] = [type |-> 2, size |-> c.len]
    BY BlockFacts DEF ChainInv, Owned
  <2>2. c.at - 1 # at /\ c.at - 1 # Behind /\ c.at - 1 \in Granules
    BY <1>1, <1>2, <1>3, <2>1
  <2> QED
    BY <1>1, <1>4, <2>1, <2>2
<1>7. b0.at - 1 = at /\ b0.len = req
  BY <1>1
<1>8. Owned(H \cup {Behind})'
  <2>1. \A b \in live' : /\ b.at - 1 \in H \cup {Behind}
                         /\ mem'[b.at - 1] = [type |-> 2, size |-> b.len]
    BY <1>1, <1>4, <1>5, <1>6, <1>7
  <2>2. \A b, c \in live' : b.at = c.at => b = c
    BY <1>5, <1>6 DEF ChainInv, Owned
  <2>3. Behind' = Behind
    BY DEF Split, Return, Behind
  <2> QED
    BY <2>1, <2>2, <2>3 DEF Owned
<1>9. ASSUME NEW h \in H \cup {Behind}, mem'[h].type = 1
      PROVE  IF prog.fills THEN \A g \in Payload(h)' : mem'[g].size # 0
                           ELSE mem'[h].size \in prog.sizes
  <2>1. CASE h = Behind
    <3>1. mem[at].type = 1
      BY <1>1, <1>4, <1>9, <2>1 DEF SplitWord
    <3>2. /\ prog.fills /\ mem'[h].size = mem[at].size - req - 1
          /\ mem[at].size \in Nat
      BY <1>4, <2>1, <3>1, FreedSplit, ScanFacts DEF Split, Scanning
    <3>3. ASSUME NEW g \in Payload(h)' PROVE mem'[g].size # 0
      <4>1. g \in Payload(at) /\ g # at /\ g # Behind
        BY <1>1, <2>1, <3>2 DEF Payload, Behind
      <4>2. mem[g].size # 0
        BY <1>1, <3>1, <3>2, <4>1 DEF ChainInv, Recycled
      <4>3. g \in Granules
        BY <1>1, <3>1, <4>1, Disjoint
      <4> QED
        BY <1>4, <4>1, <4>2, <4>3
    <3> QED
      BY <3>2, <3>3
  <2>2. CASE h \in H
    <3>1. h # at /\ h # Behind /\ mem'[h] = mem[h] /\ mem[h].type = 1
      BY <1>2, <1>3, <1>4, <1>9, <2>2
    <3>2. Payload(h)' = Payload(h)
      BY <3>1 DEF Payload
    <3>3. ASSUME NEW g \in Payload(h) PROVE mem'[g] = mem[g]
      <4>1. g # at /\ g \in Granules
        BY <1>1, <2>2, <3>1, Disjoint
      <4>2. g # Behind
        BY <1>2, <2>2, <3>1
      <4> QED
        BY <1>4, <4>1, <4>2
    <3>4. IF prog.fills THEN \A g \in Payload(h) : mem[g].size # 0
                        ELSE mem[h].size \in prog.sizes
      BY <2>2, <3>1 DEF ChainInv, Recycled
    <3> QED
      BY <3>1, <3>2, <3>3, <3>4
  <2> QED
    BY <2>1, <2>2
<1>10. Recycled(H \cup {Behind})'
  <2>1. Behind' = Behind
    BY DEF Split, Return, Behind
  <2> QED
    BY <1>5, <1>9, <2>1 DEF Recycled, Payload
<1>11. OneSize'
  <2>1. ~b0.heap => req \in prog.sizes
    BY DEF TInv, HeapTypeOK, Counters, Split, Scanning
  <2> QED
    BY <1>5, <1>7, <2>1 DEF OneSize
<1> QED
  BY <1>2, <1>5, <1>8, <1>10, <1>11 DEF ChainInv, OnChain

\* A freed block that is taken as it is has exactly the size asked for.
LEMMA ReuseKeeps ==
    ASSUME TInv, OneSize, NEW H, ChainInv(H), Reuse
    PROVE  ChainInv(H)' /\ OneSize'
<1> DEFINE b0 == [at |-> at + 1, len |-> req, heap |-> for = "heap"]
<1>1. /\ at \in H /\ at \in Nat /\ req \in Nat /\ mem \in [Granules -> Word]
      /\ Chain(H) /\ mem[at].type = 1 /\ mem[at].size = req /\ at \in Granules
  <2>1. pc = "scan" /\ mem[at].type = 1 /\ mem[at].size < req + 1 /\ mem[at].size >= req
    BY DEF Reuse, Scanning, Fits
  <2>2. /\ at \in H /\ at \in Nat /\ req \in Nat /\ mem[at].size \in Nat
        /\ Chain(H) /\ mem \in [Granules -> Word]
    BY <2>1, ScanFacts DEF TInv, HeapTypeOK, ChainInv
  <2>3. at \in Granules
    BY <2>2, HeaderFacts
  <2> QED
    BY <2>1, <2>2, <2>3
<1>2. /\ mem'[at] = [type |-> 2, size |-> req]
      /\ \A g \in Granules : mem'[g].size = mem[g].size
      /\ \A g \in Granules : g # at => mem'[g] = mem[g]
  <2>1. mem[at] \in Word
    BY <1>1
  <2>2. [mem[at] EXCEPT !.type = 2] = [type |-> 2, size |-> req]
    BY <1>1, <2>1 DEF Word
  <2> QED
    BY <1>1, <2>2 DEF Reuse
<1>3. live' = live \cup {b0} /\ pc' = "idle" /\ prog' = prog
  BY DEF Reuse, Return
<1>4. H \subseteq Granules
  BY <1>1 DEF Chain
<1>5. Chain(H)'
  <2>1. \A h \in H : mem'[h].size = mem[h].size /\ (mem'[h].type = 0 <=> mem[h].type = 0)
    BY <1>1, <1>2, <1>4
  <2> QED
    BY <1>1, <2>1 DEF Chain
<1>6. ASSUME NEW c \in live
      PROVE  /\ c.at # b0.at /\ c.at - 1 \in H
             /\ mem'[c.at - 1] = [type |-> 2, size |-> c.len]
  <2>1. /\ c.at \in Nat /\ c.at - 1 \in H /\ mem[c.at - 1].type = 2
        /\ mem[c.at - 1] = [type |-> 2, size |-> c.len]
    BY BlockFacts DEF ChainInv, Owned
  <2> QED
    BY <1>1, <1>2, <1>4, <2>1
<1>7. b0.at - 1 = at /\ b0.len = req
  BY <1>1
<1>8. Owned(H)'
  <2>1. \A b \in live' : b.at - 1 \in H /\ mem'[b.at - 1] = [type |-> 2, size |-> b.len]
    BY <1>1, <1>2, <1>3, <1>6, <1>7
  <2>2. \A b, c \in live' : b.at = c.at => b = c
    BY <1>3, <1>6 DEF ChainInv, Owned
  <2> QED
    BY <2>1, <2>2 DEF Owned
<1>9. Recycled(H)'
  <2>1. ASSUME NEW h \in H, mem'[h].type = 1
        PROVE  IF prog.fills THEN \A g \in Payload(h)' : mem'[g].size # 0
                             ELSE mem'[h].size \in prog.sizes
    <3>1. h # at /\ mem'[h] = mem[h] /\ mem[h].type = 1
      BY <1>2, <1>4, <2>1
    <3>2. Payload(h)' = Payload(h) /\ Payload(h) \subseteq Granules
      BY <1>1, <3>1, Disjoint DEF Payload
    <3> QED
      BY <1>2, <3>1, <3>2 DEF ChainInv, Recycled
  <2> QED
    BY <1>3, <2>1 DEF Recycled, Payload
<1>10. OneSize'
  <2>1. ~b0.heap => req \in prog.sizes
    BY DEF TInv, HeapTypeOK, Counters, Reuse, Scanning
  <2> QED
    BY <1>3, <1>7, <2>1 DEF OneSize
<1> QED
  BY <1>3, <1>5, <1>8, <1>9, <1>10 DEF ChainInv, OnChain

\* The search steps from header to header; it never leaves the area.
LEMMA AdvanceKeeps ==
    ASSUME TInv, OneSize, NEW H, ChainInv(H), Advance
    PROVE  ChainInv(H)' /\ OneSize'
<1>1. /\ at \in H /\ at \in Nat /\ mem[at].type # 0 /\ mem[at].size \in Nat
      /\ at + 1 + mem[at].size \in H /\ at + 1 + mem[at].size < Arena
      /\ Arena \in Nat /\ Wrap \in Nat /\ Arena < Wrap /\ Arena <= Wrap - Start
  BY ScanFacts, HeaderFacts, AreaFits DEF Advance, Scanning, Splits, ChainInv
<1>2. (at + 1 + mem[at].size) % Wrap = at + 1 + mem[at].size
  BY <1>1
<1>3. ~InFront(at')
  BY <1>1, <1>2, AreaFits DEF Advance, InFront
<1>4. at' \in H /\ UNCHANGED <<mem, live, pc, req, prog>>
  BY <1>1, <1>2, <1>3 DEF Advance
<1> QED
  BY <1>4 DEF ChainInv, Chain, Owned, Recycled, Payload, OnChain, OneSize

-----------------------------------------------------------------------------
(* The program's steps                                                     *)

\* A block is given back full, or in the program's one size.
LEMMA MunmapKeeps ==
    ASSUME TInv, OneSize, NEW H, ChainInv(H), Munmap
    PROVE  ChainInv(H)' /\ OneSize'
<1>1. PICK b \in live :
        /\ ~b.heap
        /\ prog.fills => \A g \in b.at .. b.at + b.len - 1 : mem[g].size # 0
        /\ mem' = [mem EXCEPT ![b.at - 1].type = 1]
        /\ live' = live \ {b}
  BY DEF Munmap
<1> DEFINE h0 == b.at - 1
<1>2. /\ b.at \in Nat /\ h0 \in H /\ mem[h0].type = 2 /\ mem[h0].size = b.len
      /\ Payload(h0) = b.at .. b.at + b.len - 1
      /\ Chain(H) /\ H \subseteq Granules /\ mem \in [Granules -> Word]
  BY BlockFacts DEF ChainInv, Chain, TInv, HeapTypeOK
<1>3. /\ mem'[h0].type = 1
      /\ \A g \in Granules : mem'[g].size = mem[g].size
      /\ \A g \in Granules : g # h0 => mem'[g] = mem[g]
  <2>1. mem[h0] \in Word /\ h0 \in Granules
    BY <1>2
  <2>2. /\ [mem[h0] EXCEPT !.type = 1].type = 1
        /\ [mem[h0] EXCEPT !.type = 1].size = mem[h0].size
    BY <2>1 DEF Word
  <2>3. mem' = [mem EXCEPT ![h0] = [mem[h0] EXCEPT !.type = 1]]
    BY <1>1
  <2> QED
    BY <1>2, <2>1, <2>2, <2>3
<1>4. pc = "idle" /\ pc' = "idle" /\ prog' = prog
  BY DEF Munmap
<1>5. Chain(H)'
  <2>1. \A h \in H : mem'[h].size = mem[h].size /\ (mem'[h].type = 0 <=> mem[h].type = 0)
    BY <1>2, <1>3
  <2> QED
    BY <1>2, <2>1 DEF Chain
<1>6. Owned(H)'
  <2>1. ASSUME NEW c \in live'
        PROVE  c.at - 1 \in H /\ mem'[c.at - 1] = [type |-> 2, size |-> c.len]
    <3>1. c \in live /\ c # b
      BY <1>1
    <3>2. /\ c.at \in Nat /\ c.at - 1 \in H /\ c.at # b.at
          /\ mem[c.at - 1] = [type |-> 2, size |-> c.len]
      BY <3>1, BlockFacts DEF ChainInv, Owned
    <3> QED
      BY <1>2, <1>3, <3>2
  <2>2. \A c, d \in live' : c.at = d.at => c = d
    BY <1>1 DEF ChainInv, Owned
  <2> QED
    BY <2>1, <2>2 DEF Owned
<1>7. Recycled(H)'
  <2>1. ASSUME NEW h \in H, mem'[h].type = 1
        PROVE  IF prog.fills THEN \A g \in Payload(h)' : mem'[g].size # 0
                             ELSE mem'[h].size \in prog.sizes
    <3>1. mem[h].type # 0 /\ mem'[h].size = mem[h].size
      BY <1>2, <1>3, <2>1
    <3>2. Payload(h)' = Payload(h) /\ Payload(h) \subseteq Granules
      BY <1>2, <3>1, Disjoint DEF Payload
    <3>3. IF prog.fills THEN \A g \in Payload(h) : mem[g].size # 0
                        ELSE mem[h].size \in prog.sizes
      <4>1. CASE h = h0
        BY <1>1, <1>2, <4>1 DEF OneSize
      <4>2. CASE h # h0
        BY <1>2, <1>3, <2>1, <4>2 DEF ChainInv, Recycled
      <4> QED
        BY <4>1, <4>2
    <3> QED
      BY <1>3, <3>1, <3>2, <3>3
  <2> QED
    BY <1>4, <2>1 DEF Recycled, Payload
<1> QED
  BY <1>1, <1>4, <1>5, <1>6, <1>7 DEF ChainInv, OnChain, OneSize

\* What a program writes to a block in use reaches no header, and nothing that
\* was given back.
LEMMA WriteKeeps ==
    ASSUME TInv, OneSize, NEW H, ChainInv(H), Write
    PROVE  ChainInv(H)' /\ OneSize'
<1>1. PICK b \in live, d \in Data : \E g \in b.at .. b.at + b.len - 1 :
                                     mem' = [mem EXCEPT ![g] = d]
  BY DEF Write
<1>2. PICK g0 \in b.at .. b.at + b.len - 1 : mem' = [mem EXCEPT ![g0] = d]
  BY <1>1
<1>3. /\ b.at - 1 \in H /\ mem[b.at - 1].type = 2 /\ g0 \in Payload(b.at - 1)
      /\ Chain(H) /\ H \subseteq Granules /\ mem \in [Granules -> Word]
  BY BlockFacts DEF ChainInv, Chain, TInv, HeapTypeOK
<1>4. /\ g0 \notin H
      /\ \A h \in H : mem[h].type = 1 => g0 \notin Payload(h)
  BY <1>3, Disjoint
<1>5. /\ \A g \in Granules : g # g0 => mem'[g] = mem[g]
      /\ \A h \in H : mem'[h] = mem[h]
  BY <1>2, <1>3, <1>4
<1>6. pc = "idle" /\ pc' = "idle" /\ prog' = prog /\ live' = live
  BY DEF Write
<1>7. Chain(H)' /\ Owned(H)'
  BY <1>3, <1>5, <1>6 DEF Chain, Owned, ChainInv
<1>8. Recycled(H)'
  <2>1. ASSUME NEW h \in H, mem'[h].type = 1
        PROVE  IF prog.fills THEN \A g \in Payload(h)' : mem'[g].size # 0
                             ELSE mem'[h].size \in prog.sizes
    <3>1. mem'[h] = mem[h] /\ mem[h].type = 1 /\ Payload(h)' = Payload(h)
      BY <1>5, <2>1 DEF Payload
    <3>2. Payload(h) \subseteq Granules /\ g0 \notin Payload(h)
      BY <1>3, <1>4, <3>1, Disjoint
    <3> QED
      BY <1>5, <3>1, <3>2 DEF ChainInv, Recycled
  <2> QED
    BY <1>6, <2>1 DEF Recycled, Payload
<1> QED
  BY <1>6, <1>7, <1>8 DEF ChainInv, OnChain, OneSize

\* A search starts at the first header, and asks for at least the one size of a
\* program that does not fill.
LEMMA CallKeeps ==
    ASSUME Tidy, TInv, OneSize, NEW H, ChainInv(H), MmapCall \/ ExpandHeap
    PROVE  ChainInv(H)' /\ OneSize'
<1>1. UNCHANGED <<mem, live, prog>> /\ pc = "idle"
  BY DEF MmapCall, ExpandHeap
<1>2. 0 \in H
  BY DEF ChainInv, Chain
<1>3. pc' = "scan" => at' = 0
  BY <1>1 DEF MmapCall, ExpandHeap, Search
<1>4. ASSUME ~prog.fills, pc' = "scan", NEW m \in prog.sizes
      PROVE  m <= req'
  <2>1. PICK n \in 1 .. Page : prog.sizes = {n}
    BY <1>4 DEF Tidy, TInv, HeapTypeOK
  <2>2. m = n /\ m \in Nat /\ m <= Page /\ Page \in Nat
    BY <2>1, HeapAssumption
  <2>3. CASE MmapCall
    <3>1. req' \in prog.sizes
      BY <2>3 DEF MmapCall, Search
    <3> QED
      BY <2>1, <2>2, <3>1
  <2>4. CASE ExpandHeap
    <3>1. PICK k \in Growth : req' = LargerOf(k, MinPages) * Page
      BY <1>1, <1>4, <2>4 DEF ExpandHeap, Search
    <3>2. step \div 2 \in 0 .. MaxHeap
      BY HeapAssumption DEF TInv, HeapTypeOK
    <3>3. MinPages \in Nat
      BY <3>2, PowersAreNumbers DEF MinPages
    <3>4. LargerOf(k, MinPages) \in Nat /\ LargerOf(k, MinPages) >= 1
      BY <3>3, HeapAssumption DEF LargerOf
    <3>5. \A x \in Nat : x >= 1 => x * Page >= Page
      BY <2>2
    <3> QED
      BY <2>2, <3>1, <3>4, <3>5
  <2> QED
    BY <2>3, <2>4
<1>5. OneSize'
  BY <1>1, <1>4 DEF OneSize
<1> QED
  BY <1>1, <1>2, <1>3, <1>5 DEF ChainInv, Chain, Owned, Recycled, Payload, OnChain

\* Every step keeps the chain.
LEMMA ChainKept ==
    ASSUME Tidy, HeapInv, [Next]_vars
    PROVE  HeapInv'
<1>1. TInv' /\ TInv /\ OneSize
  BY TypeKept DEF HeapInv
<1>2. PICK H \in SUBSET Granules : ChainInv(H)
  BY DEF HeapInv
<1>3. CASE Split
  <2>1. ChainInv(H \cup {Behind})' /\ OneSize'
    BY <1>1, <1>2, <1>3, SplitKeeps
  <2>2. Behind' = Behind
    BY <1>3 DEF Split, Return, Behind
  <2>3. H \cup {Behind} \in SUBSET Granules
    BY <2>1, <2>2 DEF ChainInv, Chain
  <2> QED
    BY <1>1, <2>1, <2>2, <2>3 DEF HeapInv
<1>4. CASE ~Split
  <2>1. ChainInv(H)' /\ OneSize'
    <3>1. CASE MmapCall \/ ExpandHeap
      BY <1>1, <1>2, <3>1, CallKeeps
    <3>2. CASE SplitFail
      <4>1. mem' = mem
        BY <1>1, <3>2, RestoredIsMem DEF SplitFail
      <4> QED
        BY <1>1, <1>2, <3>2, <4>1 DEF SplitFail, Fail, ChainInv, Chain, Owned,
           Recycled, Payload, OnChain, OneSize
    <3>3. CASE Reuse
      BY <1>1, <1>2, <3>3, ReuseKeeps
    <3>4. CASE Advance
      BY <1>1, <1>2, <3>4, AdvanceKeeps
    <3>5. CASE Munmap
      BY <1>1, <1>2, <3>5, MunmapKeeps
    <3>6. CASE Write
      BY <1>1, <1>2, <3>6, WriteKeeps
    <3>7. CASE UNCHANGED vars
      BY <1>1, <1>2, <3>7 DEF vars, ChainInv, Chain, Owned, Recycled, Payload,
         OnChain, OneSize
    <3> QED
      BY <1>4, <3>1, <3>2, <3>3, <3>4, <3>5, <3>6, <3>7 DEF Next, Scan
  <2> QED
    BY <1>1, <1>2, <2>1 DEF HeapInv
<1> QED
  BY <1>3, <1>4

-----------------------------------------------------------------------------
(* The theorems                                                            *)

LEMMA InitTInv == Init => TInv
<1> SUFFICES ASSUME Init PROVE TInv
  OBVIOUS
<1>1. MaxHeap \in Nat
  BY HeapAssumption
<1>2. HeapTypeOK
  BY <1>1, ZerosType, HeapAssumption DEF Init, HeapTypeOK
<1>3. Counters
  BY HeapAssumption DEF Init, Counters
<1> QED
  BY <1>2, <1>3 DEF TInv

LEMMA InitHeapInv == Init => HeapInv
<1> SUFFICES ASSUME Init PROVE HeapInv
  OBVIOUS
<1>1. {0} \in SUBSET Granules
  BY HeapAssumption DEF Granules
<1>2. mem[0].type = 0
  BY <1>1 DEF Init, Zeros, Zero
<1>3. ChainInv({0})
  BY <1>1, <1>2 DEF Init, ChainInv, Chain, Owned, Recycled, OnChain
<1>4. OneSize
  BY DEF Init, OneSize
<1> QED
  BY <1>1, <1>3, <1>4, InitTInv DEF HeapInv

LEMMA HeapInvHolds ==
    ASSUME Tidy
    PROVE  Spec => []HeapInv
<1>1. HeapInv /\ [Next]_vars => HeapInv'
  BY ChainKept
<1> QED
  BY <1>1, InitHeapInv, PTL DEF Spec

\* Every granule reads as a header, and an area is counted for malloc only after
\* a call of __expand_heap, whatever programs write into what they hold.
THEOREM HeapType == Spec => []HeapTypeOK
<1>1. TInv /\ [Next]_vars => TInv'
  BY TypeKept
<1>2. TInv => HeapTypeOK
  BY DEF TInv
<1> QED
  BY <1>1, <1>2, InitTInv, PTL DEF Spec

\* For programs that fill what they unmap, or map one size of at most a page:
\* no two blocks in use share a granule and no header of one is overwritten, in
\* an area of any size and with any data written into the blocks.
THEOREM TidyBlocksApart == Tidy /\ Spec => [](NoOverlap /\ HeadersIntact)
<1> SUFFICES ASSUME Tidy PROVE Spec => [](NoOverlap /\ HeadersIntact)
  OBVIOUS
<1>1. ASSUME HeapInv PROVE NoOverlap /\ HeadersIntact
  <2>1. PICK H \in SUBSET Granules : ChainInv(H)
    BY <1>1 DEF HeapInv
  <2>2. TInv /\ Chain(H)
    BY <1>1, <2>1 DEF HeapInv, ChainInv
  <2>3. HeadersIntact
    BY <2>1 DEF ChainInv, Owned, HeadersIntact
  <2>4. ASSUME NEW b \in live
        PROVE  /\ b.at - 1 \in H /\ b.at - 1 \in Granules
               /\ mem[b.at - 1].type # 0
               /\ Extent(b) = {b.at - 1} \cup Payload(b.at - 1)
               /\ Payload(b.at - 1) \subseteq Granules
    <3>1. /\ b.at \in Nat /\ b.len \in Nat /\ b.at - 1 \in H
          /\ mem[b.at - 1].type = 2
          /\ Payload(b.at - 1) = b.at .. b.at + b.len - 1
      BY <2>1, <2>2, BlockFacts
    <3>2. Extent(b) = {b.at - 1} \cup (b.at .. b.at + b.len - 1)
      BY <3>1 DEF Extent
    <3> QED
      BY <2>2, <3>1, <3>2, Disjoint, HeaderFacts
  <2>5. ASSUME NEW b \in live, NEW c \in live, b # c
        PROVE  Extent(b) \cap Extent(c) = {}
    <3>1. b.at - 1 # c.at - 1
      <4>1. b.at # c.at /\ b.at \in Nat /\ c.at \in Nat
        BY <2>1, <2>2, <2>5, BlockFacts DEF ChainInv, Owned
      <4> QED
        BY <4>1
    <3>2. /\ b.at - 1 \notin Payload(c.at - 1) /\ c.at - 1 \notin Payload(b.at - 1)
          /\ Payload(b.at - 1) \cap Payload(c.at - 1) = {}
      BY <2>2, <2>4, <3>1, Disjoint
    <3> QED
      BY <2>4, <3>1, <3>2
  <2> QED
    BY <2>3, <2>4, <2>5 DEF NoOverlap
<1> QED
  BY <1>1, HeapInvHolds, PTL

\* In particular no header of a block in use is overwritten, by a store of the
\* program or by the split of another block.
COROLLARY TidyHeadersSurvive == Tidy /\ Spec => []HeadersIntact
  BY TidyBlocksApart, PTL

\* For the same programs a refused SYS_mmap leaves the area as its call found it:
\* its steps over headers change none, the header it has claimed is restored in
\* both words, and the only other way out of the search hands out a block that
\* was not in use.
THEOREM RefusalChangesNothing == Tidy /\ Spec => FailChangesNothing
<1> SUFFICES ASSUME Tidy PROVE Spec => FailChangesNothing
  OBVIOUS
<1>1. ASSUME HeapInv, [Next]_vars
      PROVE  [pc = "scan" /\ pc' = "idle" /\ live' = live => mem' = found]_vars
  <2> SUFFICES ASSUME Next, pc = "scan", pc' = "idle", live' = live
               PROVE  mem' = found
    BY <1>1
  <2>1. PICK H \in SUBSET Granules : ChainInv(H)
    BY <1>1 DEF HeapInv
  <2>2. at \in Nat
    BY <1>1 DEF HeapInv, TInv, HeapTypeOK
  <2>3. ASSUME Return PROVE mem[at].type = 2
    <3> DEFINE b0 == [at |-> at + 1, len |-> req, heap |-> for = "heap"]
    <3>0. b0 \in live /\ b0.at = at + 1
      BY <2>3 DEF Return
    <3>1. PICK b \in live : b.at = at + 1
      BY <3>0
    <3>2. mem[b.at - 1].type = 2
      BY <1>1, <2>1, BlockFacts DEF HeapInv
    <3> QED
      BY <2>2, <3>1, <3>2
  <2>4. ~Split
    BY <2>3 DEF Split, Splits
  <2>5. ~Reuse
    BY <2>3 DEF Reuse, Fits
  <2>6. ~Advance
    BY DEF Advance
  <2>7. SplitFail
    BY <2>4, <2>5, <2>6 DEF Next, Scan, MmapCall, Munmap, Write, ExpandHeap
  <2>8. mem' = mem
    BY <1>1, <2>7, RestoredIsMem DEF SplitFail, HeapInv
  <2> QED
    BY <1>1, <2>8 DEF HeapInv, TInv, Counters
<1> QED
  BY <1>1, HeapInvHolds, PTL DEF Spec, FailChangesNothing

-----------------------------------------------------------------------------
(* A program that maps one size                                            *)

\* Where the i-th block of length n has its header, and the block
Slot(n, i) == i * (n + 1)

SlotBlock(n, i) == [at |-> Slot(n, i) + 1, len |-> n, heap |-> FALSE]

\* The area is k slots of length n and an untouched rest; the search has passed
\* slots in use only.
Slots(n, k) ==
    /\ Slot(n, k) < Arena
    /\ mem[Slot(n, k)].type = 0
    /\ \A i \in 0 .. k - 1 : mem[Slot(n, i)].type \in {1, 2} /\ mem[Slot(n, i)].size = n
    /\ \A b : b \in live <=>
          \E i \in 0 .. k - 1 : mem[Slot(n, i)].type = 2 /\ b = SlotBlock(n, i)
    /\ for = "mmap"
    /\ pc = "scan" =>
          /\ req = n
          /\ \E j \in 0 .. k : /\ at = Slot(n, j)
                               /\ \A i \in 0 .. j - 1 : mem[Slot(n, i)].type = 2

\* Until malloc asks for heap, a program with one size keeps to slots.
SlotsInv ==
    grown = 0 => \A n \in Nat : prog.sizes = {n} => \E k \in Nat : Slots(n, k)

LEMMA SlotFacts ==
    ASSUME NEW n \in Nat
    PROVE  /\ \A i \in Nat : Slot(n, i) \in Nat
           /\ \A i \in Nat : Slot(n, i + 1) = Slot(n, i) + 1 + n
           /\ \A i, j \in Nat : i < j => Slot(n, i) + n < Slot(n, j)
           /\ \A i, j \in Nat : Slot(n, i) = Slot(n, j) => i = j
           /\ Slot(n, 0) = 0
<1>1. \A i \in Nat : Slot(n, i) \in Nat /\ Slot(n, i + 1) = Slot(n, i) + 1 + n
  BY DEF Slot
<1>2. ASSUME NEW i \in Nat, NEW j \in Nat, i < j PROVE Slot(n, i) + n < Slot(n, j)
  <2>1. (j - i - 1) * (n + 1) >= 0
    <3>1. \A a, b \in Nat : a * b >= 0
      OBVIOUS
    <3> QED
      BY <1>2, <3>1
  <2>2. (j - i - 1) * (n + 1) = j * (n + 1) - i * (n + 1) - (n + 1)
    OBVIOUS
  <2> QED
    BY <2>1, <2>2 DEF Slot
<1>3. \A i, j \in Nat : Slot(n, i) = Slot(n, j) => i = j
  <2> SUFFICES ASSUME NEW i \in Nat, NEW j \in Nat, i # j PROVE Slot(n, i) # Slot(n, j)
    OBVIOUS
  <2>1. Slot(n, i) \in Nat /\ Slot(n, j) \in Nat
    BY <1>1
  <2> QED
    BY <1>2, <2>1
<1> QED
  BY <1>1, <1>2, <1>3 DEF Slot

\* What the slots say about the header under the search
LEMMA SlotScan ==
    ASSUME TInv, NEW n \in Nat, NEW k \in Nat, Slots(n, k), pc = "scan"
    PROVE  \E j \in 0 .. k :
              /\ at = Slot(n, j) /\ at \in Granules /\ req = n
              /\ \A i \in 0 .. j - 1 : mem[Slot(n, i)].type = 2
              /\ mem[at].type = 0 <=> j = k
              /\ j < k => mem[at].type \in {1, 2} /\ mem[at].size = n
<1>1. PICK j \in 0 .. k : at = Slot(n, j) /\ \A i \in 0 .. j - 1 : mem[Slot(n, i)].type = 2
  BY DEF Slots
<1>2. at \in Nat /\ Slot(n, k) \in Nat /\ Arena \in Nat
  BY SlotFacts, HeapAssumption DEF TInv, HeapTypeOK
<1>3. at <= Slot(n, k)
  BY <1>1, <1>2, SlotFacts
<1>4. at \in Granules /\ req = n
  BY <1>2, <1>3, HeapAssumption DEF Slots, Granules
<1>5. (mem[at].type = 0 <=> j = k) /\ (j < k => mem[at].type \in {1, 2} /\ mem[at].size = n)
  <2>1. CASE j = k
    BY <1>1, <2>1 DEF Slots
  <2>2. CASE j # k
    <3>1. j \in 0 .. k - 1 /\ j < k
      BY <2>2
    <3> QED
      BY <1>1, <2>2, <3>1 DEF Slots
  <2> QED
    BY <2>1, <2>2
<1> QED
  BY <1>1, <1>4, <1>5

\* A search that hands out the untouched rest adds a slot.
LEMMA SlotsSplit ==
    ASSUME TInv, NEW n \in Nat, NEW k \in Nat, Slots(n, k), Split
    PROVE  Slots(n, k + 1)'
<1>1. pc = "scan" /\ Splits /\ Behind < Arena /\ Return
  BY DEF Split, Scanning
<1>2. PICK j \in 0 .. k :
        /\ at = Slot(n, j) /\ at \in Granules /\ req = n
        /\ \A i \in 0 .. j - 1 : mem[Slot(n, i)].type = 2
        /\ mem[at].type = 0 <=> j = k
        /\ j < k => mem[at].type \in {1, 2} /\ mem[at].size = n
  BY <1>1, SlotScan
<1>3. j = k /\ mem[at].type = 0
  BY <1>1, <1>2 DEF Splits
<1>4. /\ Slot(n, k) \in Nat /\ Slot(n, k + 1) = Slot(n, k) + 1 + n
      /\ Behind = Slot(n, k + 1) /\ Behind \in Granules /\ Behind # at
  <2>1. Slot(n, k) \in Nat /\ Slot(n, k + 1) = Slot(n, k) + 1 + n
    BY SlotFacts
  <2>2. Behind = Slot(n, k) + 1 + n
    BY <1>2, <1>3, <2>1 DEF Behind
  <2> QED
    BY <1>1, <1>2, <1>3, <2>1, <2>2, HeapAssumption DEF Granules
<1>5. /\ mem'[at] = [type |-> 2, size |-> n]
      /\ mem'[Behind].type = 0
      /\ \A g \in Granules : g # at /\ g # Behind => mem'[g] = mem[g]
  BY <1>2, <1>3, <1>4, SplitMem DEF SplitWord, TInv, HeapTypeOK
<1>6. \A i \in 0 .. k - 1 :
        Slot(n, i) \in Granules /\ Slot(n, i) # at /\ Slot(n, i) # Behind
  <2> SUFFICES ASSUME NEW i \in 0 .. k - 1
               PROVE  Slot(n, i) \in Granules /\ Slot(n, i) # at /\ Slot(n, i) # Behind
    OBVIOUS
  <2>0. i \in Nat /\ i < k
    OBVIOUS
  <2>1. Slot(n, i) \in Nat
    BY <2>0, SlotFacts
  <2>2. Slot(n, i) + n < Slot(n, k)
    BY <2>0, SlotFacts
  <2>3. Slot(n, k) < Arena /\ Arena \in Nat
    BY HeapAssumption DEF Slots
  <2> QED
    BY <1>2, <1>3, <1>4, <2>1, <2>2, <2>3 DEF Granules
<1>7. \A i \in 0 .. k - 1 : mem'[Slot(n, i)] = mem[Slot(n, i)]
  BY <1>5, <1>6
<1>8. mem'[Slot(n, k)] = [type |-> 2, size |-> n]
  BY <1>2, <1>3, <1>5
<1>9. 0 .. (k + 1) - 1 = (0 .. k - 1) \cup {k}
  OBVIOUS
<1>10. ASSUME NEW b
       PROVE  b \in live' <=> \E i \in 0 .. (k + 1) - 1 :
                                 mem'[Slot(n, i)].type = 2 /\ b = SlotBlock(n, i)
  <2>1. live' = live \cup {SlotBlock(n, k)}
    BY <1>1, <1>2, <1>3 DEF Return, SlotBlock, Slots
  <2>2. b \in live <=> \E i \in 0 .. k - 1 : mem'[Slot(n, i)].type = 2 /\ b = SlotBlock(n, i)
    BY <1>7 DEF Slots
  <2> QED
    BY <1>8, <1>9, <2>1, <2>2
<1>11. \A i \in 0 .. (k + 1) - 1 :
          mem'[Slot(n, i)].type \in {1, 2} /\ mem'[Slot(n, i)].size = n
  BY <1>7, <1>8, <1>9 DEF Slots
<1>12. for' = "mmap" /\ pc' = "idle"
  BY <1>1 DEF Return, Slots
<1> QED
  BY <1>1, <1>4, <1>5, <1>10, <1>11, <1>12 DEF Slots, Slot, SlotBlock

\* A change of the type of one used slot, and the blocks in use with it
LEMMA SlotsRetyped ==
    ASSUME TInv, NEW n \in Nat, NEW k \in Nat, Slots(n, k), NEW j \in 0 .. k - 1,
           NEW t \in {1, 2}, mem' = [mem EXCEPT ![Slot(n, j)].type = t],
           live' = IF t = 2 THEN live \cup {SlotBlock(n, j)} ELSE live \ {SlotBlock(n, j)},
           pc' = "idle", for' = for
    PROVE  Slots(n, k)'
<1>1. /\ j \in Nat /\ j < k /\ Slot(n, j) \in Nat /\ Slot(n, k) \in Nat
      /\ Slot(n, j) + n < Slot(n, k) /\ Slot(n, k) < Arena
  <2>1. j \in Nat /\ j < k
    OBVIOUS
  <2> QED
    BY <2>1, SlotFacts DEF Slots
<1>2. Slot(n, j) \in Granules /\ Slot(n, k) \in Granules
  BY <1>1, HeapAssumption DEF Granules
<1>3. /\ mem'[Slot(n, j)].type = t /\ mem'[Slot(n, j)].size = n
      /\ \A g \in Granules : g # Slot(n, j) => mem'[g] = mem[g]
  BY <1>2 DEF TInv, HeapTypeOK, Word, Slots
<1>4. ASSUME NEW i \in 0 .. k - 1, i # j
      PROVE  mem'[Slot(n, i)] = mem[Slot(n, i)] /\ SlotBlock(n, i) # SlotBlock(n, j)
  <2>1. i \in Nat /\ i < k /\ Slot(n, i) \in Nat /\ Slot(n, i) + n < Slot(n, k)
    <3>1. i \in Nat /\ i < k
      OBVIOUS
    <3> QED
      BY <3>1, SlotFacts
  <2>2. Slot(n, i) # Slot(n, j)
    BY <1>1, <1>4, <2>1, SlotFacts
  <2>3. Slot(n, i) \in Granules
    BY <1>1, <2>1, HeapAssumption DEF Granules
  <2>4. SlotBlock(n, i).at # SlotBlock(n, j).at
    BY <1>1, <2>1, <2>2 DEF SlotBlock
  <2> QED
    BY <1>3, <2>2, <2>3, <2>4
<1>5. mem'[Slot(n, k)] = mem[Slot(n, k)]
  BY <1>1, <1>2, <1>3
<1>6. ASSUME NEW b
      PROVE  b \in live' <=> \E i \in 0 .. k - 1 :
                                mem'[Slot(n, i)].type = 2 /\ b = SlotBlock(n, i)
  <2>1. b \in live <=> \E i \in 0 .. k - 1 : mem[Slot(n, i)].type = 2 /\ b = SlotBlock(n, i)
    BY DEF Slots
  <2>2. CASE t = 2
    BY <1>3, <1>4, <2>1, <2>2
  <2>3. CASE t = 1
    BY <1>3, <1>4, <2>1, <2>3
  <2> QED
    BY <2>2, <2>3
<1>7. \A i \in 0 .. k - 1 : mem'[Slot(n, i)].type \in {1, 2} /\ mem'[Slot(n, i)].size = n
  BY <1>3, <1>4 DEF Slots
<1> QED
  BY <1>1, <1>5, <1>6, <1>7 DEF Slots, Slot, SlotBlock

\* The steps that hand out or take back no block
LEMMA SlotsSearch ==
    ASSUME TInv, NEW n \in Nat, NEW k \in Nat, Slots(n, k), prog.sizes = {n},
           MmapCall \/ SplitFail \/ Advance
    PROVE  Slots(n, k)'
<1>1. UNCHANGED <<mem, live>>
  BY RestoredIsMem DEF MmapCall, SplitFail, Fail, Advance
<1>2. for' = "mmap"
  BY DEF MmapCall, SplitFail, Fail, Advance, Search, Slots
<1>3. pc' = "scan" =>
        /\ req' = n
        /\ \E j \in 0 .. k : at' = Slot(n, j) /\ \A i \in 0 .. j - 1 : mem[Slot(n, i)].type = 2
  <2>1. CASE MmapCall
    <3>1. at' = 0 /\ req' = n
      BY <2>1 DEF MmapCall, Search
    <3>2. at' = Slot(n, 0) /\ 0 \in 0 .. k /\ \A i \in 0 .. 0 - 1 : mem[Slot(n, i)].type = 2
      BY <3>1, SlotFacts
    <3> QED
      BY <3>1, <3>2
  <2>2. CASE SplitFail
    BY <2>2 DEF SplitFail, Fail
  <2>3. CASE Advance
    <3>1. PICK j \in 0 .. k :
            /\ at = Slot(n, j) /\ at \in Granules /\ req = n
            /\ \A i \in 0 .. j - 1 : mem[Slot(n, i)].type = 2
            /\ mem[at].type = 0 <=> j = k
            /\ j < k => mem[at].type \in {1, 2} /\ mem[at].size = n
      BY <2>3, SlotScan DEF Advance, Scanning
    <3>2. j < k /\ mem[at].type = 2 /\ mem[at].size = n
      BY <2>3, <3>1 DEF Advance, Splits, Fits
    <3>3. j + 1 \in 0 .. k /\ j \in Nat /\ j + 1 \in Nat
      BY <3>2
    <3>4. Slot(n, j + 1) = at + 1 + n /\ Slot(n, j + 1) \in Nat
      BY <3>1, <3>3, SlotFacts
    <3>5. Slot(n, j + 1) <= Slot(n, k)
      <4>1. j + 1 = k \/ j + 1 < k
        BY <3>2, <3>3
      <4>2. Slot(n, k) \in Nat
        BY SlotFacts
      <4>3. j + 1 < k => Slot(n, j + 1) + n < Slot(n, k)
        BY <3>3, SlotFacts
      <4> QED
        BY <3>4, <4>1, <4>2, <4>3
    <3>6. Slot(n, j + 1) < Wrap /\ Wrap \in Nat
      <4>1. Slot(n, k) < Arena /\ Arena < Wrap /\ Arena \in Nat /\ Wrap \in Nat
        BY AreaFits DEF Slots
      <4>2. Slot(n, k) \in Nat
        BY SlotFacts
      <4> QED
        BY <3>4, <3>5, <4>1, <4>2
    <3>7. at' = Slot(n, j + 1)
      <4>1. at' = (at + 1 + n) % Wrap
        BY <2>3, <3>2 DEF Advance
      <4>2. \A w, a \in Nat : a < w => a % w = a
        OBVIOUS
      <4> QED
        BY <3>4, <3>6, <4>1, <4>2
    <3>8. \A i \in 0 .. (j + 1) - 1 : mem[Slot(n, i)].type = 2
      <4>1. 0 .. (j + 1) - 1 = (0 .. j - 1) \cup {j}
        BY <3>3
      <4> QED
        BY <3>1, <3>2, <4>1
    <3>9. req' = n
      BY <2>3, <3>1 DEF Advance
    <3> QED
      BY <3>3, <3>7, <3>8, <3>9
  <2> QED
    BY <2>1, <2>2, <2>3
<1> QED
  BY <1>1, <1>2, <1>3 DEF Slots, Slot, SlotBlock

\* A store of the program stays between two headers.
LEMMA SlotsWrite ==
    ASSUME TInv, NEW n \in Nat, NEW k \in Nat, Slots(n, k), Write
    PROVE  Slots(n, k)'
<1>1. PICK b \in live, d \in Data : \E g \in b.at .. b.at + b.len - 1 :
                                     mem' = [mem EXCEPT ![g] = d]
  BY DEF Write
<1>2. PICK g \in b.at .. b.at + b.len - 1 : mem' = [mem EXCEPT ![g] = d]
  BY <1>1
<1>3. PICK j \in 0 .. k - 1 : b = SlotBlock(n, j)
  BY DEF Slots
<1>4. j \in Nat /\ j + 1 \in Nat /\ Slot(n, j) \in Nat /\ Slot(n, j + 1) = Slot(n, j) + 1 + n
  <2>1. j \in Nat /\ j + 1 \in Nat
    OBVIOUS
  <2>2. Slot(n, j) \in Nat /\ Slot(n, j + 1) = Slot(n, j) + 1 + n
    BY <2>1, SlotFacts
  <2> QED
    BY <2>1, <2>2
<1>5. g \in Nat /\ Slot(n, j) < g /\ g < Slot(n, j + 1)
  BY <1>3, <1>4 DEF SlotBlock
<1>6. ASSUME NEW i \in 0 .. k PROVE mem'[Slot(n, i)] = mem[Slot(n, i)]
  <2>1. i \in Nat /\ i <= k
    OBVIOUS
  <2>2. Slot(n, i) \in Nat
    BY <2>1, SlotFacts
  <2>3. g # Slot(n, i)
    <3>1. CASE i < j
      BY <1>4, <1>5, <2>1, <2>2, <3>1, SlotFacts
    <3>2. CASE i = j
      BY <1>4, <1>5, <3>2
    <3>3. CASE i = j + 1
      BY <1>4, <1>5, <3>3
    <3>4. CASE i > j + 1
      <4>1. Slot(n, j + 1) + n < Slot(n, i)
        BY <1>4, <2>1, <3>4, SlotFacts
      <4> QED
        BY <1>4, <1>5, <2>2, <4>1
    <3> QED
      BY <1>4, <2>1, <3>1, <3>2, <3>3, <3>4
  <2>4. Slot(n, i) \in Granules
    <3>1. Slot(n, k) < Arena /\ Arena \in Nat /\ Slot(n, k) \in Nat
      BY HeapAssumption, SlotFacts DEF Slots
    <3>2. i < k => Slot(n, i) + n < Slot(n, k)
      BY <2>1, SlotFacts
    <3> QED
      BY <2>1, <2>2, <3>1, <3>2 DEF Granules
  <2> QED
    BY <1>2, <2>3, <2>4 DEF TInv, HeapTypeOK
<1>7. /\ mem'[Slot(n, k)] = mem[Slot(n, k)]
      /\ \A i \in 0 .. k - 1 : mem'[Slot(n, i)] = mem[Slot(n, i)]
  <2>1. k \in 0 .. k /\ \A i \in 0 .. k - 1 : i \in 0 .. k
    OBVIOUS
  <2> QED
    BY <1>6, <2>1
<1>8. pc' = "idle" /\ for' = for /\ live' = live
  BY DEF Write
<1> QED
  BY <1>7, <1>8 DEF Slots, Slot, SlotBlock

LEMMA SlotsKept ==
    ASSUME TInv, SlotsInv, [Next]_vars
    PROVE  SlotsInv'
<1> SUFFICES ASSUME grown' = 0, NEW n \in Nat, prog'.sizes = {n}
             PROVE  \E k \in Nat : Slots(n, k)'
  BY DEF SlotsInv
<1>0. ~ExpandHeap
  BY DEF ExpandHeap, TInv, HeapTypeOK
<1>1. grown = 0 /\ prog' = prog
  BY <1>0 DEF Next, Scan, MmapCall, Split, SplitFail, Reuse, Advance, Return, Fail,
              Munmap, Write, vars
<1>2. PICK k \in Nat : Slots(n, k)
  BY <1>1 DEF SlotsInv
<1>3. CASE Split
  BY <1>2, <1>3, SlotsSplit
<1>4. CASE Reuse
  <2>1. pc = "scan" /\ Fits /\ ~Splits /\ Return /\ mem' = [mem EXCEPT ![at].type = 2]
    BY <1>4 DEF Reuse, Scanning
  <2>2. PICK j \in 0 .. k :
          /\ at = Slot(n, j) /\ at \in Granules /\ req = n
          /\ \A i \in 0 .. j - 1 : mem[Slot(n, i)].type = 2
          /\ mem[at].type = 0 <=> j = k
          /\ j < k => mem[at].type \in {1, 2} /\ mem[at].size = n
    BY <1>2, <2>1, SlotScan
  <2>3. j \in 0 .. k - 1
    BY <2>1, <2>2 DEF Fits
  <2>4. live' = live \cup {SlotBlock(n, j)} /\ pc' = "idle" /\ for' = for
    BY <1>2, <2>1, <2>2 DEF Return, SlotBlock, Slots
  <2> QED
    BY <1>2, <2>1, <2>2, <2>3, <2>4, SlotsRetyped
<1>5. CASE Munmap
  <2>1. PICK b \in live : mem' = [mem EXCEPT ![b.at - 1].type = 1] /\ live' = live \ {b}
    BY <1>5 DEF Munmap
  <2>2. PICK j \in 0 .. k - 1 : b = SlotBlock(n, j)
    BY <1>2 DEF Slots
  <2>3. b.at - 1 = Slot(n, j)
    <3>1. j \in Nat
      OBVIOUS
    <3>2. Slot(n, j) \in Nat
      BY <3>1, SlotFacts
    <3> QED
      BY <2>2, <3>2 DEF SlotBlock
  <2>4. pc' = "idle" /\ for' = for
    BY <1>5 DEF Munmap
  <2>5. mem' = [mem EXCEPT ![Slot(n, j)].type = 1] /\ live' = live \ {SlotBlock(n, j)}
    BY <2>1, <2>2, <2>3
  <2> DEFINE t == 1
  <2>6. t \in {1, 2} /\ t # 2
    OBVIOUS
  <2>7. mem' = [mem EXCEPT ![Slot(n, j)].type = t]
    BY <2>5
  <2> HIDE DEF t
  <2>8. Slots(n, k)'
    BY <1>2, <2>4, <2>5, <2>6, <2>7, SlotsRetyped
  <2> QED
    BY <2>8
<1>6. CASE MmapCall \/ SplitFail \/ Advance
  BY <1>1, <1>2, <1>6, SlotsSearch
<1>7. CASE Write
  BY <1>2, <1>7, SlotsWrite
<1>8. CASE UNCHANGED vars
  BY <1>2, <1>8 DEF vars, Slots, Slot, SlotBlock
<1> QED
  BY <1>0, <1>3, <1>4, <1>5, <1>6, <1>7, <1>8 DEF Next, Scan

LEMMA InitSlots == Init => SlotsInv
<1> SUFFICES ASSUME Init, NEW n \in Nat PROVE Slots(n, 0)
  BY DEF SlotsInv
<1>1. Slot(n, 0) = 0 /\ 0 \in Granules /\ Arena > 0
  <2>1. Slot(n, 0) = 0
    BY SlotFacts
  <2> QED
    BY <2>1, HeapAssumption DEF Granules
<1>2. 0 .. 0 - 1 = {}
  OBVIOUS
<1> QED
  BY <1>1, <1>2 DEF Init, Slots, Zeros, Zero

\* The number of slots is the number of blocks in use when all are.
LEMMA CountSlots ==
    ASSUME TInv, NEW n \in Nat, NEW k \in Nat, Slots(n, k),
           \A i \in 0 .. k - 1 : mem[Slot(n, i)].type = 2
    PROVE  Cardinality(live) = k
<1> DEFINE f == [i \in 1 .. k |-> SlotBlock(n, i - 1)]
<1>1. \A i \in 1 .. k : i - 1 \in 0 .. k - 1
  OBVIOUS
<1>2. \A i \in 0 .. k - 1 : i + 1 \in 1 .. k /\ (i + 1) - 1 = i
  OBVIOUS
<1>3. \A i \in 1 .. k : f[i] \in live
  BY <1>1 DEF Slots
<1>4. \A b \in live : \E i \in 1 .. k : f[i] = b
  <2> SUFFICES ASSUME NEW b \in live PROVE \E i \in 1 .. k : f[i] = b
    OBVIOUS
  <2>1. PICK i \in 0 .. k - 1 : b = SlotBlock(n, i)
    BY DEF Slots
  <2> QED
    BY <1>2, <2>1
<1>5. \A i, j \in 1 .. k : f[i] = f[j] => i = j
  <2> SUFFICES ASSUME NEW i \in 1 .. k, NEW j \in 1 .. k, f[i] = f[j] PROVE i = j
    OBVIOUS
  <2>1. i - 1 \in Nat /\ j - 1 \in Nat
    OBVIOUS
  <2>2. Slot(n, i - 1) + 1 = Slot(n, j - 1) + 1
    BY DEF SlotBlock
  <2>3. i - 1 = j - 1
    BY <2>1, <2>2, SlotFacts
  <2> QED
    BY <2>3
<1>6. f \in Bijection(1 .. k, live)
  <2>1. f \in [1 .. k -> live]
    BY <1>3
  <2> HIDE DEF f
  <2> QED
    BY <1>4, <1>5, <2>1 DEF Bijection, Injection, Surjection, IsInjective
<1> QED
  BY <1>6, FS_CountingElements DEF ExistsBijection

LEMMA Quotient ==
    ASSUME NEW q \in Int, NEW n \in Nat \ {0}, NEW r \in 0 .. n - 1
    PROVE  (n * q + r) \div n = q
  BY SMTT(30)

\* A program that maps one size, whether it fills what it gives back or not, is
\* refused only when the area is full of blocks in use, until malloc asks for
\* heap: the search finds every block that was given back.
THEOREM RefusedOnlyWhenFull == Spec => FailsOnlyWhenFull
<1>1. ASSUME TInv, SlotsInv, [Next]_vars
      PROVE  [pc = "scan" /\ pc' = "idle" /\ live' = live
                /\ grown = 0 /\ prog.sizes = {req} =>
                    Cardinality(live) = (Arena - 1) \div (req + 1)]_vars
  <2> SUFFICES ASSUME Next, pc = "scan", pc' = "idle", live' = live,
                      grown = 0, prog.sizes = {req}
               PROVE  Cardinality(live) = (Arena - 1) \div (req + 1)
    BY <1>1
  <2>1. req \in Nat
    BY <1>1 DEF TInv, HeapTypeOK
  <2> DEFINE n == req
  <2>2. PICK k \in Nat : Slots(n, k)
    BY <1>1, <2>1 DEF SlotsInv
  <2>3. PICK j \in 0 .. k :
          /\ at = Slot(n, j) /\ at \in Granules
          /\ \A i \in 0 .. j - 1 : mem[Slot(n, i)].type = 2
          /\ mem[at].type = 0 <=> j = k
          /\ j < k => mem[at].type \in {1, 2} /\ mem[at].size = n
    BY <1>1, <2>1, <2>2, SlotScan
  <2>4. ASSUME Return PROVE mem[at].type = 2
    <3>1. SlotBlock(n, j) \in live
      BY <2>2, <2>3, <2>4 DEF Return, SlotBlock, Slots
    <3>2. PICK i \in 0 .. k - 1 : mem[Slot(n, i)].type = 2 /\ SlotBlock(n, j) = SlotBlock(n, i)
      BY <2>2, <3>1 DEF Slots
    <3>3. Slot(n, j) + 1 = Slot(n, i) + 1 /\ Slot(n, j) \in Nat /\ Slot(n, i) \in Nat
      <4>1. i \in Nat /\ j \in Nat
        OBVIOUS
      <4>2. SlotBlock(n, j).at = SlotBlock(n, i).at
        BY <3>2
      <4> QED
        BY <2>1, <4>1, <4>2, SlotFacts DEF SlotBlock
    <3>4. Slot(n, j) = Slot(n, i)
      BY <3>3
    <3> QED
      BY <2>3, <3>2, <3>4
  <2>5. ~Split /\ ~Reuse /\ ~Advance
    BY <2>4 DEF Split, Splits, Reuse, Fits, Advance
  <2>6. SplitFail
    BY <2>5 DEF Next, Scan, MmapCall, Munmap, Write, ExpandHeap
  <2>7. Splits /\ Behind >= Arena
    BY <2>3, <2>6, HeapAssumption DEF SplitFail, PastEnd, Granules
  <2>8. j = k
    BY <2>1, <2>3, <2>7 DEF Splits
  <2>9. Cardinality(live) = k
    BY <1>1, <2>1, <2>2, <2>3, <2>8, CountSlots
  <2>10. k * (n + 1) <= Arena - 1 /\ Arena - 1 < k * (n + 1) + (n + 1) /\ Arena - 1 \in Nat
    <3>1. Slot(n, k) < Arena /\ Slot(n, k) \in Nat /\ Arena \in Nat /\ Arena > 0
      BY <2>1, <2>2, SlotFacts, HeapAssumption DEF Slots
    <3>2. Slot(n, k) + 1 + n >= Arena
      BY <2>3, <2>7, <2>8 DEF Behind
    <3> QED
      BY <2>1, <3>1, <3>2 DEF Slot
  <2>11. (Arena - 1) \div (n + 1) = k
    <3> DEFINE r == Arena - 1 - k * (n + 1)
    <3>1. n + 1 \in Nat \ {0} /\ k * (n + 1) \in Nat
      BY <2>1
    <3>2. r \in 0 .. (n + 1) - 1 /\ Arena - 1 = (n + 1) * k + r
      BY <2>1, <2>10, <3>1
    <3> HIDE DEF r
    <3>3. ((n + 1) * k + r) \div (n + 1) = k
      BY <3>1, <3>2, Quotient
    <3> QED
      BY <3>2, <3>3
  <2> QED
    BY <2>9, <2>11
<1>2. TInv /\ SlotsInv /\ [Next]_vars => TInv' /\ SlotsInv'
  BY TypeKept, SlotsKept
<1>3. Init => TInv /\ SlotsInv
  BY InitTInv, InitSlots
<1> QED
  BY <1>1, <1>2, <1>3, PTL DEF Spec, FailsOnlyWhenFull
=============================================================================
