------------------------- MODULE HostLibraryProofs -------------------------
(***************************************************************************)
(* Theorems about HostLibrary and DriverModule, for any number of threads, *)
(* allocations, sizes and page size: untrusted memory is private and never *)
(* refused for its address, and a host's enclave keeps the driver and its  *)
(* memory in place.                                                        *)
(***************************************************************************)
EXTENDS HostLibrary, TLAPS

sysVars == <<moduleVars, hostVars>>

-----------------------------------------------------------------------------
(* The inductive invariants                                                *)

\* What the module holds, by how far loading and unloading have come.  Only a
\* completely loaded module is in use, unless the device may be opened early.
ModuleInv ==
    /\ dev => mod \in {"registered", "allocated", "in", "leaving"}
    /\ mod \in {"allocated", "in", "broken"} => cma
    /\ mod \in {"out", "registered", "leaving"} => ~cma
    /\ ~EarlyOpen /\ users # {} => mod = "in"

\* The mutex is held by the one thread between lock and unlock.
MutexHeld ==
    /\ \A h \in Hosts : h \in mutex <=> hpc[h] \in {"mmap", "publish"}
    /\ \A h, k \in mutex : h = k

Whole(r) == r.at \in Nat /\ r.len \in Nat

\* The area a thread has mapped and not yet published
Fresh(h) == [at |-> cur, len |-> Default + want[h].size]

\* Everything mapped lies below current_untrusted_ptr, except the area of the
\* thread that is about to move the pointer.
MappedBelow ==
    /\ \A m \in mapped :
          /\ Whole(m)
          /\ \/ m.at + m.len <= cur
             \/ \E h \in Hosts : hpc[h] = "publish" /\ m = Fresh(h)
    /\ \A h \in Hosts : hpc[h] = "publish" => Fresh(h) \in mapped

\* The areas handed out: large enough, inside what is mapped, below the
\* pointer, and one behind the other.
Apart(r, s) == r.at + r.len <= s.at \/ s.at + s.len <= r.at

RegionsBelow ==
    /\ \A r \in regions :
          /\ Whole(r) /\ r.len >= r.asked /\ r.at + r.len <= cur
          /\ \E m \in mapped : m.at <= r.at /\ r.at + r.len <= m.at + m.len
    /\ \A r, s \in regions : r # s => Apart(r, s)

\* The rounding never shrinks a size, and keeps multiples of a page.
WantRounded ==
    \A h \in Hosts :
        /\ want[h].size >= want[h].asked
        /\ want[h].asked % Page = 0 => want[h].size % Page = 0

\* While only multiples of a page were asked for, the pointer is aligned and
\* no address was refused.
PointerAligned ==
    (\A r \in regions : r.asked % Page = 0) => cur % Page = 0 /\ ~refused

AreaInv ==
    /\ MutexHeld
    /\ MappedBelow
    /\ RegionsBelow
    /\ WantRounded
    /\ PointerAligned

HInv == HostTypeOK /\ ModuleInv /\ AreaInv

-----------------------------------------------------------------------------
(* Arithmetic                                                              *)

\* What a remainder of 0 means.
LEMMA Multiple ==
    ASSUME NEW a \in Nat, NEW p \in Nat \ {0}, a % p = 0
    PROVE  \E k \in Nat : a = k * p
  OBVIOUS

\* Sums of multiples are multiples.
LEMMA ModAdd ==
    ASSUME NEW a \in Nat, NEW b \in Nat, NEW p \in Nat \ {0},
           a % p = 0, b % p = 0
    PROVE  (a + b) % p = 0
<1>1. PICK k \in Nat : a = k * p
  BY Multiple
<1>2. PICK m \in Nat : b = m * p
  BY Multiple
<1>3. k * p + m * p = (k + m) * p
  OBVIOUS
<1>4. k + m \in Nat /\ a + b = (k + m) * p
  BY <1>1, <1>2, <1>3
<1>5. \A n \in Nat : (n * p) % p = 0
  OBVIOUS
<1> QED
  BY <1>4, <1>5

\* (size + 4096) & ~4096 is size or size + 4096.
LEMMA RoundFacts ==
    ASSUME NEW n \in Nat
    PROVE  /\ Round(n) \in Nat /\ Round(n) >= n
           /\ n % Page = 0 => Round(n) % Page = 0
<1>1. Page \in Nat \ {0} /\ Round(n) \in {n, n + Page}
  BY HostAssumption DEF Round
<1>2. Page % Page = 0
  BY <1>1
<1>3. n % Page = 0 => (n + Page) % Page = 0
  BY <1>1, <1>2, ModAdd
<1> QED
  BY <1>1, <1>3

-----------------------------------------------------------------------------
(* Loading and unloading the module                                        *)

\* Every step of loading and unloading keeps the module's invariant, and opens
\* or closes no file.
LEMMA ModuleStep ==
    ASSUME ModuleTypeOK, ModuleInv, ModuleNext
    PROVE  ModuleTypeOK' /\ ModuleInv' /\ UNCHANGED users
<1> USE ModuleAssumption DEF ModuleTypeOK, ModuleInv
<1>1. CASE Register
  BY <1>1 DEF Register
<1>2. CASE AllocCma
  BY <1>2 DEF AllocCma
<1>3. CASE AllocCmaFails
  BY <1>3 DEF AllocCmaFails
<1>4. CASE SmInit
  BY <1>4 DEF SmInit
<1>5. CASE SmInitFails
  <2>1. cma /\ ~dev' /\ UNCHANGED <<monitor, users>>
    BY <1>5 DEF SmInitFails
  <2>2. ~EarlyOpen => users = {}
    BY <1>5 DEF SmInitFails
  <2>3. leaked \in Int /\ Areas \in Int /\ 0 <= leaked /\ leaked + 1 <= Areas
    BY <2>1
  <2>4. CASE mod' = "out" /\ cma' = FALSE /\ leaked' = leaked + 1
    <3>1. ModuleInv'
      BY <2>1, <2>2, <2>4
    <3>2. leaked' \in 0 .. Areas /\ leaked' + 0 <= Areas
      BY <2>3, <2>4
    <3>3. ModuleTypeOK'
      BY <2>1, <2>4, <3>2, <1>5 DEF SmInitFails
    <3> QED
      BY <2>1, <3>1, <3>3
  <2>5. CASE mod' = "broken" /\ UNCHANGED <<cma, leaked>>
    <3>1. ModuleInv'
      BY <2>1, <2>2, <2>5
    <3>2. ModuleTypeOK'
      BY <2>1, <2>5, <1>5 DEF SmInitFails
    <3> QED
      BY <2>1, <3>1, <3>2
  <2> QED
    BY <1>5, <2>4, <2>5 DEF SmInitFails
<1>6. CASE ExitFree
  <2>1. cma /\ ~cma' /\ UNCHANGED <<dev, leaked, monitor, users>>
        /\ mod' = "leaving" /\ users = {}
    BY <1>6 DEF ExitFree
  <2>2. ModuleInv'
    BY <2>1
  <2>3. leaked' \in 0 .. Areas /\ leaked' + 0 <= Areas
    BY <2>1
  <2>4. ModuleTypeOK'
    BY <2>1, <2>3, <1>6 DEF ExitFree
  <2> QED
    BY <2>1, <2>2, <2>4
<1>7. CASE ExitDeregister
  BY <1>7 DEF ExitDeregister
<1>8. CASE ExitBroken
  BY <1>8 DEF ExitBroken
<1> QED
  BY <1>1, <1>2, <1>3, <1>4, <1>5, <1>6, <1>7, <1>8 DEF ModuleNext

-----------------------------------------------------------------------------
(* Types, and the open files                                               *)

\* alloc_untrusted_mem opens and closes nothing, and every value it stores has
\* its type.
LEMMA AllocType ==
    ASSUME HostTypeOK, ModuleInv, NEW h \in Hosts, Alloc(h), UNCHANGED moduleVars
    PROVE  HostTypeOK' /\ ModuleInv'
<1>1. ModuleTypeOK' /\ ModuleInv'
  BY DEF HostTypeOK, ModuleTypeOK, ModuleInv, moduleVars
<1>2. Default \in Nat /\ Asked \subseteq Nat
  BY HostAssumption
<1> USE DEF HostTypeOK, moduleVars
<1>3. CASE AllocCall(h)
  <2>1. PICK s \in Asked : want' = [want EXCEPT ![h] = [asked |-> s, size |-> Round(s)]]
    BY <1>3 DEF AllocCall
  <2>2. s \in Nat /\ Round(s) \in Nat
    BY <1>2, RoundFacts
  <2> QED
    BY <1>1, <1>3, <2>1, <2>2 DEF AllocCall
<1>4. CASE AllocLock(h)
  BY <1>1, <1>4 DEF AllocLock
<1>5. CASE Mmap(h)
  BY <1>1, <1>5 DEF Mmap
<1>6. CASE MmapElsewhere(h)
  BY <1>1, <1>6 DEF MmapElsewhere
<1>7. CASE MmapFails(h)
  BY <1>1, <1>7 DEF MmapFails
<1>8. CASE Publish(h)
  BY <1>1, <1>2, <1>8 DEF Publish
<1> QED
  BY <1>3, <1>4, <1>5, <1>6, <1>7, <1>8 DEF Alloc

\* Opening and closing the device: a file is opened only on a loaded module,
\* unless it may be opened early.
LEMMA OpenType ==
    ASSUME HostTypeOK, ModuleInv,
           \/ \E h \in Hosts : \/ PLenclaveInit(h) \/ PLenclaveCreate(h)
                               \/ PLenclaveDestroy(h) \/ PLenclaveFinalize(h)
           \/ Kill
    PROVE  HostTypeOK' /\ ModuleInv'
<1> USE DEF HostTypeOK, ModuleTypeOK, ModuleInv
<1>1. ASSUME NEW h \in Hosts, PLenclaveInit(h)
      PROVE  HostTypeOK' /\ ModuleInv'
  BY <1>1 DEF PLenclaveInit, CanOpen
<1>2. ASSUME NEW h \in Hosts, PLenclaveCreate(h)
      PROVE  HostTypeOK' /\ ModuleInv'
  BY <1>2 DEF PLenclaveCreate, moduleVars
<1>3. ASSUME NEW h \in Hosts, PLenclaveDestroy(h)
      PROVE  HostTypeOK' /\ ModuleInv'
  BY <1>3 DEF PLenclaveDestroy, moduleVars
<1>4. ASSUME NEW h \in Hosts, PLenclaveFinalize(h)
      PROVE  HostTypeOK' /\ ModuleInv'
  BY <1>4 DEF PLenclaveFinalize
<1>5. CASE Kill
  BY <1>5 DEF Kill
<1> QED
  BY <1>1, <1>2, <1>3, <1>4, <1>5

\* Types and the module's invariant are inductive without the rest.
LEMMA TypeKept ==
    ASSUME HostTypeOK, ModuleInv, [HostNext]_sysVars
    PROVE  HostTypeOK' /\ ModuleInv'
<1>1. CASE ModuleNext /\ UNCHANGED hostVars
  BY <1>1, ModuleStep DEF HostTypeOK, hostVars
<1>2. ASSUME NEW h \in Hosts, Alloc(h), UNCHANGED moduleVars
      PROVE  HostTypeOK' /\ ModuleInv'
  BY <1>2, AllocType
<1>3. CASE UNCHANGED sysVars
  BY <1>3 DEF sysVars, moduleVars, hostVars, HostTypeOK, ModuleTypeOK, ModuleInv
<1> QED
  BY <1>1, <1>2, <1>3, OpenType DEF HostNext

-----------------------------------------------------------------------------
(* Untrusted memory                                                        *)

\* A step of a thread that holds nothing and takes nothing leaves the areas.
LEMMA Bystander ==
    ASSUME HInv, NEW h \in Hosts, NEW v,
           hpc[h] \notin {"mmap", "publish"}, v \notin {"mmap", "publish"},
           hpc' = [hpc EXCEPT ![h] = v],
           UNCHANGED <<want, mutex, cur, mapped, regions, refused>>
    PROVE  AreaInv'
<1> USE DEF HInv, AreaInv, HostTypeOK
<1>1. \A k \in Hosts : /\ hpc'[k] = "publish" <=> hpc[k] = "publish"
                       /\ hpc'[k] = "mmap" <=> hpc[k] = "mmap"
                       /\ Fresh(k)' = Fresh(k)
  BY DEF Fresh
<1>2. MutexHeld'
  BY <1>1 DEF MutexHeld
<1>3. MappedBelow'
  BY <1>1 DEF MappedBelow, Whole
<1>4. RegionsBelow' /\ WantRounded' /\ PointerAligned'
  BY DEF RegionsBelow, WantRounded, PointerAligned, Whole, Apart
<1> QED
  BY <1>2, <1>3, <1>4

\* The thread in front of its mmap finds everything mapped below the pointer:
\* nobody else is between his mmap and his publication.
LEMMA AllBelow ==
    ASSUME HInv, NEW h \in Hosts, hpc[h] = "mmap"
    PROVE  \A m \in mapped : Whole(m) /\ m.at + m.len <= cur
<1>1. \A k \in Hosts : hpc[k] # "publish"
  BY DEF HInv, AreaInv, MutexHeld, HostTypeOK
<1> QED
  BY <1>1 DEF HInv, AreaInv, MappedBelow

\* So an aligned pointer is a hint the kernel takes.
LEMMA AlignedHintTaken ==
    ASSUME HInv, NEW h \in Hosts, hpc[h] = "mmap", cur % Page = 0
    PROVE  HintTaken(cur, Default + want[h].size)
<1>1. cur \in Nat /\ Default + want[h].size \in Nat
  BY HostAssumption DEF HInv, HostTypeOK
<1>2. \A m \in mapped : Whole(m) /\ m.at + m.len <= cur
  BY AllBelow
<1>3. ASSUME NEW m \in mapped
      PROVE  Span(cur, Default + want[h].size) \cap Span(m.at, m.len) = {}
  BY <1>1, <1>2 DEF Span, Whole
<1> QED
  BY <1>3 DEF HintTaken

\* alloc_untrusted_mem up to the mapping
LEMMA AreasBeforePublish ==
    ASSUME HInv, NEW h \in Hosts, Alloc(h), ~Publish(h), HostTypeOK'
    PROVE  AreaInv'
<1> USE DEF HInv, AreaInv, HostTypeOK
<1>1. CASE AllocCall(h)
  <2>1. PICK s \in Asked : want' = [want EXCEPT ![h] = [asked |-> s, size |-> Round(s)]]
    BY <1>1 DEF AllocCall
  <2>2. s \in Nat /\ Round(s) \in Nat /\ Round(s) >= s
        /\ (s % Page = 0 => Round(s) % Page = 0)
    BY HostAssumption, RoundFacts
  <2>3. WantRounded'
    BY <2>1, <2>2 DEF WantRounded
  <2>4. \A k \in Hosts : /\ hpc'[k] = "publish" <=> hpc[k] = "publish"
                         /\ hpc'[k] = "mmap" <=> hpc[k] = "mmap"
                         /\ hpc[k] = "publish" => Fresh(k)' = Fresh(k)
    BY <1>1, <2>1 DEF AllocCall, Fresh
  <2>5. MutexHeld' /\ RegionsBelow' /\ PointerAligned'
    BY <1>1, <2>4 DEF AllocCall, MutexHeld, RegionsBelow, PointerAligned, Whole, Apart
  <2>6. MappedBelow'
    BY <1>1, <2>4 DEF AllocCall, MappedBelow, Whole
  <2> QED
    BY <2>3, <2>5, <2>6
<1>2. CASE AllocLock(h)
  <2>1. \A k \in Hosts : /\ hpc'[k] = "publish" <=> hpc[k] = "publish"
                         /\ hpc'[k] = "mmap" <=> hpc[k] = "mmap" \/ k = h
                         /\ Fresh(k)' = Fresh(k)
    BY <1>2 DEF AllocLock, Fresh
  <2>2. MutexHeld'
    BY <1>2, <2>1 DEF AllocLock, MutexHeld
  <2>3. MappedBelow'
    BY <1>2, <2>1 DEF AllocLock, MappedBelow, Whole
  <2>4. RegionsBelow' /\ WantRounded' /\ PointerAligned'
    BY <1>2 DEF AllocLock, RegionsBelow, WantRounded, PointerAligned, Whole, Apart
  <2> QED
    BY <2>2, <2>3, <2>4
<1>3. CASE Mmap(h)
  <2>1. /\ mapped' = mapped \cup {Fresh(h)}
        /\ hpc' = [hpc EXCEPT ![h] = "publish"] /\ hpc[h] = "mmap"
        /\ UNCHANGED <<want, mutex, cur, regions, refused, enclaves>>
    BY <1>3 DEF Mmap, Fresh
  <2>2. /\ \A k \in Hosts : /\ hpc'[k] = "publish" <=> hpc[k] = "publish" \/ k = h
                            /\ Fresh(k)' = Fresh(k)
        /\ Whole(Fresh(h))
    BY <2>1, HostAssumption DEF Fresh, Whole
  <2>3. MutexHeld'
    BY <2>1 DEF MutexHeld
  <2>4. MappedBelow'
    BY <2>1, <2>2 DEF MappedBelow, Whole
  <2>5. RegionsBelow' /\ WantRounded' /\ PointerAligned'
    BY <2>1 DEF RegionsBelow, WantRounded, PointerAligned, Whole, Apart
  <2> QED
    BY <2>3, <2>4, <2>5
<1>4. CASE MmapElsewhere(h) \/ MmapFails(h)
  <2>1. /\ hpc[h] = "mmap" /\ hpc' = [hpc EXCEPT ![h] = "start"]
        /\ mutex' = mutex \ {h} /\ UNCHANGED <<want, cur, mapped, regions, enclaves>>
    BY <1>4 DEF MmapElsewhere, MmapFails
  <2>2. \A k \in Hosts : /\ hpc'[k] = "publish" <=> hpc[k] = "publish"
                         /\ hpc'[k] = "mmap" <=> hpc[k] = "mmap" /\ k # h
                         /\ Fresh(k)' = Fresh(k)
    BY <2>1 DEF Fresh
  <2>3. MutexHeld'
    BY <2>1, <2>2 DEF MutexHeld
  <2>4. MappedBelow'
    BY <2>1, <2>2 DEF MappedBelow, Whole
  <2>5. RegionsBelow' /\ WantRounded'
    BY <2>1 DEF RegionsBelow, WantRounded, Whole, Apart
  <2>6. cur % Page = 0 => ~MmapElsewhere(h)
    BY <2>1, AlignedHintTaken DEF MmapElsewhere
  <2>7. cur % Page = 0 => refused' = refused
    BY <1>4, <2>6 DEF MmapFails
  <2>8. PointerAligned'
    BY <2>1, <2>7 DEF PointerAligned
  <2> QED
    BY <2>3, <2>4, <2>5, <2>8
<1> QED
  BY <1>1, <1>2, <1>3, <1>4 DEF Alloc

\* The publication: the new area lies behind all others, and the pointer moves
\* behind it.
LEMMA AreasPublish ==
    ASSUME HInv, NEW h \in Hosts, Publish(h)
    PROVE  AreaInv'
<1> USE DEF HInv, AreaInv, HostTypeOK
<1> DEFINE r0 == [at |-> cur + Default, len |-> want[h].size, asked |-> want[h].asked]
<1>1. /\ hpc[h] = "publish" /\ regions' = regions \cup {r0}
      /\ cur' = cur + want[h].size + Default /\ mutex' = mutex \ {h}
      /\ hpc' = [hpc EXCEPT ![h] = "args"]
      /\ UNCHANGED <<want, mapped, refused, enclaves>>
  BY DEF Publish
<1>2. /\ cur \in Nat /\ Default \in Nat /\ want[h].size \in Nat /\ want[h].asked \in Nat
      /\ want[h].size >= want[h].asked /\ Page \in Nat \ {0} /\ Default % Page = 0
  BY HostAssumption DEF WantRounded
<1>3. \A k \in Hosts : hpc[k] \in {"mmap", "publish"} => k = h
  BY <1>1 DEF MutexHeld
<1>4. MutexHeld' /\ WantRounded'
  BY <1>1, <1>3 DEF MutexHeld, WantRounded
<1>5. \A k \in Hosts : hpc'[k] # "publish"
  BY <1>1, <1>3
<1>6. Fresh(h) \in mapped
  BY <1>1 DEF MappedBelow
<1>7. \A m \in mapped : Whole(m) /\ (m.at + m.len <= cur \/ m = Fresh(h))
  BY <1>3 DEF MappedBelow
<1>8. Fresh(h).at = cur /\ Fresh(h).len = Default + want[h].size
  BY DEF Fresh
<1>9. \A m \in mapped : Whole(m) /\ m.at + m.len <= cur'
  BY <1>1, <1>2, <1>7, <1>8 DEF Whole
<1>10. MappedBelow'
  BY <1>1, <1>5, <1>9 DEF MappedBelow, Whole
<1>11. r0.at = cur + Default /\ r0.len = want[h].size /\ r0.asked = want[h].asked
  OBVIOUS
<1> HIDE DEF r0
<1>12. ASSUME NEW r \in regions'
       PROVE  /\ Whole(r) /\ r.len >= r.asked /\ r.at + r.len <= cur'
              /\ \E m \in mapped : m.at <= r.at /\ r.at + r.len <= m.at + m.len
  <2>1. CASE r = r0
    BY <1>1, <1>2, <1>6, <1>8, <1>11, <2>1 DEF Whole
  <2>2. CASE r \in regions
    <3>1. /\ Whole(r) /\ r.len >= r.asked /\ r.at + r.len <= cur
          /\ \E m \in mapped : m.at <= r.at /\ r.at + r.len <= m.at + m.len
      BY <2>2 DEF RegionsBelow
    <3> QED
      BY <1>1, <1>2, <3>1 DEF Whole
  <2> QED
    BY <1>1, <2>1, <2>2
<1>13. ASSUME NEW r \in regions', NEW s \in regions', r # s
       PROVE  Apart(r, s)
  <2>1. \A q \in regions : Whole(q) /\ q.at + q.len <= cur
    BY DEF RegionsBelow
  <2>2. CASE r \in regions /\ s \in regions
    BY <2>2, <1>13 DEF RegionsBelow
  <2>3. CASE r = r0 /\ s \in regions
    BY <1>2, <1>11, <2>1, <2>3 DEF Apart, Whole
  <2>4. CASE s = r0 /\ r \in regions
    BY <1>2, <1>11, <2>1, <2>4 DEF Apart, Whole
  <2> QED
    BY <1>1, <1>13, <2>2, <2>3, <2>4
<1>14. RegionsBelow'
  BY <1>1, <1>12, <1>13 DEF RegionsBelow, Whole, Apart
<1>15. ASSUME \A r \in regions' : r.asked % Page = 0
       PROVE  cur' % Page = 0 /\ ~refused'
  <2>1. cur % Page = 0 /\ ~refused
    BY <1>1, <1>15 DEF PointerAligned
  <2>2. want[h].size % Page = 0
    BY <1>1, <1>11, <1>15 DEF WantRounded
  <2>3. (cur + want[h].size) % Page = 0
    BY ONLY <1>2, <2>1, <2>2, ModAdd
  <2>4. cur + want[h].size \in Nat
    BY <1>2
  <2>5. ((cur + want[h].size) + Default) % Page = 0
    BY ONLY <1>2, <2>3, <2>4, ModAdd
  <2> QED
    BY <1>1, <2>1, <2>5
<1>16. PointerAligned'
  BY <1>15 DEF PointerAligned
<1> QED
  BY <1>4, <1>10, <1>14, <1>16

\* All other steps leave the areas, or drop them all.
LEMMA AreasKept ==
    ASSUME HInv, [HostNext]_sysVars
    PROVE  AreaInv'
<1>1. HostTypeOK'
  BY TypeKept DEF HInv
<1>2. CASE UNCHANGED hostVars
  BY <1>2 DEF HInv, AreaInv, hostVars, MutexHeld, MappedBelow, Fresh, Whole,
     RegionsBelow, Apart, WantRounded, PointerAligned
<1>3. ASSUME NEW h \in Hosts, Alloc(h)
      PROVE  AreaInv'
  BY <1>1, <1>3, AreasBeforePublish, AreasPublish
<1>4. ASSUME NEW h \in Hosts,
             \/ PLenclaveInit(h) \/ PLenclaveCreate(h)
             \/ PLenclaveDestroy(h) \/ PLenclaveFinalize(h)
      PROVE  AreaInv'
  <2>1. CASE PLenclaveInit(h)
    BY <2>1, Bystander DEF PLenclaveInit
  <2>2. CASE PLenclaveCreate(h)
    BY <2>2, Bystander DEF PLenclaveCreate
  <2>3. CASE PLenclaveDestroy(h)
    BY <2>3, Bystander DEF PLenclaveDestroy
  <2>4. CASE PLenclaveFinalize(h)
    BY <2>4, Bystander DEF PLenclaveFinalize
  <2> QED
    BY <1>4, <2>1, <2>2, <2>3, <2>4
<1>5. CASE Kill
  <2>1. 0 % Page = 0
    BY HostAssumption
  <2> QED
    BY <1>5, <2>1 DEF Kill, AreaInv, MutexHeld, MappedBelow, RegionsBelow,
       WantRounded, PointerAligned
<1> QED
  BY <1>2, <1>3, <1>4, <1>5 DEF HostNext, sysVars

-----------------------------------------------------------------------------
(* The theorems                                                            *)

LEMMA InitHInv == SystemInit => HInv
<1> SUFFICES ASSUME SystemInit PROVE HInv
  OBVIOUS
<1>1. ModuleTypeOK /\ ModuleInv
  <2>1. mod = "out" /\ ~dev /\ ~cma /\ ~monitor /\ leaked = 0 /\ users = {}
    BY DEF SystemInit, ModuleInit
  <2>2. leaked \in 0 .. Areas /\ leaked + 0 <= Areas
    BY <2>1, ModuleAssumption
  <2>3. ModuleInv
    BY <2>1 DEF ModuleInv
  <2>4. ModuleTypeOK
    BY <2>1, <2>2 DEF SystemInit, ModuleInit, ModuleTypeOK
  <2> QED
    BY <2>3, <2>4
<1>2. HostTypeOK
  BY <1>1 DEF SystemInit, ModuleInit, HostInit, HostTypeOK
<1>3. 0 % Page = 0
  BY HostAssumption
<1>4. AreaInv
  BY <1>3 DEF SystemInit, HostInit, AreaInv, MutexHeld, MappedBelow, RegionsBelow,
     WantRounded, PointerAligned
<1> QED
  BY <1>1, <1>2, <1>4 DEF HInv

LEMMA HInvHolds == HostSpec => []HInv
<1>1. HInv /\ [HostNext]_sysVars => HInv'
  BY TypeKept, AreasKept DEF HInv
<1> QED
  BY <1>1, InitHInv, PTL DEF HostSpec, sysVars

\* Every thread is where its open file says it is (a descriptor is held exactly
\* between PLenclave_init and PLenclave_finalize), and the areas of contiguous
\* memory the module holds and leaks never exceed what there is.
THEOREM HostType == HostSpec => []HostTypeOK
<1>1. HInv => HostTypeOK
  BY DEF HInv
<1> QED
  BY <1>1, HInvHolds, PTL

\* alloc_untrusted_mem for any sizes and any number of threads: what a caller is
\* given is as large as he asked for, is mapped, and is nobody else's, although
\* the rounding at param.c:19 clears one bit instead of rounding up.
THEOREM RegionsArePrivate == HostSpec => []RegionsPrivate
<1>1. ASSUME HInv PROVE RegionsPrivate
  <2>1. ASSUME NEW r \in regions
        PROVE  /\ r.len >= r.asked
               /\ \E m \in mapped : Span(r.at, r.len) \subseteq Span(m.at, m.len)
    <3>1. /\ Whole(r) /\ r.len >= r.asked
          /\ \E m \in mapped : m.at <= r.at /\ r.at + r.len <= m.at + m.len
      BY <1>1 DEF HInv, AreaInv, RegionsBelow
    <3>2. PICK m \in mapped : m.at <= r.at /\ r.at + r.len <= m.at + m.len
      BY <3>1
    <3>3. Whole(m)
      BY <1>1 DEF HInv, AreaInv, MappedBelow
    <3>4. Span(r.at, r.len) \subseteq Span(m.at, m.len)
      BY <3>1, <3>2, <3>3 DEF Span, Whole
    <3> QED
      BY <3>1, <3>4
  <2>2. ASSUME NEW r \in regions, NEW s \in regions, s # r
        PROVE  Span(r.at, r.len) \cap Span(s.at, s.len) = {}
    <3>1. Whole(r) /\ Whole(s) /\ Apart(r, s)
      BY <1>1, <2>2 DEF HInv, AreaInv, RegionsBelow
    <3> QED
      BY <3>1 DEF Whole, Apart, Span
  <2> QED
    BY <2>1, <2>2 DEF RegionsPrivate
<1> QED
  BY <1>1, HInvHolds, PTL

\* While only multiples of a page are asked for, the test at param.c:33 never
\* refuses an address, whatever the threads do at once.
THEOREM HintIsFree == HostSpec => []HintAlwaysFree
<1>1. HInv => HintAlwaysFree
  BY DEF HInv, AreaInv, PointerAligned, HintAlwaysFree
<1> QED
  BY <1>1, HInvHolds, PTL

\* If the device is not opened while enclave_ioctl_init still runs, neither the
\* device nor an open file outlives the module: every error exit deregisters.
THEOREM DeviceKeepsModule == ~EarlyOpen /\ HostSpec => []DeviceHasModule
<1> SUFFICES ASSUME ~EarlyOpen PROVE HostSpec => []DeviceHasModule
  OBVIOUS
<1>1. HInv => DeviceHasModule
  BY DEF HInv, ModuleInv, DeviceHasModule
<1> QED
  BY <1>1, HInvHolds, PTL

\* And the enclave of a host that is alive keeps its memory: the host's open file
\* keeps the module loaded, and only a loaded module hands memory out.
THEOREM EnclaveKeepsMemory == ~EarlyOpen /\ HostSpec => []EnclaveHasMemory
<1> SUFFICES ASSUME ~EarlyOpen PROVE HostSpec => []EnclaveHasMemory
  OBVIOUS
<1>1. ASSUME HInv PROVE EnclaveHasMemory
  <2>1. ASSUME NEW h \in enclaves, hpc[h] = "created" PROVE cma
    <3>1. h \in Hosts
      BY <1>1 DEF HInv, HostTypeOK
    <3>2. h \in users
      BY <1>1, <2>1, <3>1 DEF HInv, HostTypeOK
    <3>3. mod = "in"
      BY <1>1, <3>2 DEF HInv, ModuleInv
    <3> QED
      BY <1>1, <3>3 DEF HInv, ModuleInv
  <2> QED
    BY <2>1 DEF EnclaveHasMemory
<1> QED
  BY <1>1, HInvHolds, PTL
=============================================================================
