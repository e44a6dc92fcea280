# Penglai driver and SDK: a TLA+ verification project

This project models the parts of `penglai-buildroot` that are Penglai's own: the
Linux driver that creates and runs enclaves for host programs, and the SDK around
it. The modules are translated from the C code; `PROJECT.json` gives the lines
behind every definition. Paths below are relative to
`src/br2-external/package/`.

## 1. Inventory

### The system

A host program opens `/dev/penglai_enclave_dev` and drives enclaves with ioctls.
The driver keeps a table of enclaves, fills an enclave's secure memory with its
ELF image and page tables, and calls the secure monitor (machine mode, SBI) to
create, run, resume, stop and destroy it. The monitor returns to the driver when
the enclave exits, is interrupted by the timer, or makes an OCALL; some OCALLs go
back to the host, which resumes the enclave with another ioctl.

| component | code | state | operations |
|---|---|---|---|
| ioctl core | `penglai-driver/src/penglai-enclave-ioctl.c`, `penglai-enclave.c` | `enclave_big_lock`, `kmalloc_enclave_lock`, `idr_enclave`, each `enclave_t` (eid, `is_running`, OCALL words) | create, run, resume, stop, attest, destroy |
| secure memory | `penglai-enclave-page.c` | list of free pages, three-level page table | `enclave_mem_int`, `get_free_mem`, `enclave_alloc_page`, `map_va2pa`, `enclave_mem_destroy` |
| ELF loader, page budget | `penglai-enclave-elfloader.c`, `penglai-enclave-ioctl.c:20-170` | the image being loaded | `elfmemsize`, `total_enclave_page`, `loadelf`, `map_untrusted_mem`, `map_kbuffer` |
| module load/unload | `penglai-enclave-driver.c` | misc device, CMA area, open files | init, exit |
| secure monitor | OpenSBI submodule, not in the tree | state of each enclave | `SBI_SM_*` calls |
| host library | `penglai-sdk/src/lib/host` | `PLenclave` handle, `current_untrusted_ptr` | `PLenclave_*`, `alloc_untrusted_mem` |
| enclave brk/mmap | `penglai-sdk/src/musl/arch/riscv64/syscall_arch.h`, `musl/src/malloc/expand_heap.c` | arena with in-band headers, `brk_offset`, `brk`, `mmap_step` | `SYS_brk`, `SYS_mmap`, `SYS_munmap`, `__expand_heap` |
| sealing | `penglai-sdk/src/lib/app/src/seal.c` | sealed data in storage | size, seal, unseal |
| random numbers | `penglai-sdk/src/lib/gm/source/Random.c` | `set_seed`, MIRACL's generator | set the seed, read |
| SM2, SM4, CBC, OCB | `SM2_sv.c`, `SM4.c`, `SM4_Enc.c` | `success_excuted` of `SM2_Init` | keys, sign, verify, encrypt, decrypt |
| SM3 | `SM3.c` | `SM3_STATE` | init, process, done |
| MIRACL, rest of musl, demos, build glue | | | vendored, examples, configuration |

### How the parts interact, and what is hard

* **Unlocked run loop.** run and resume look an enclave up under the big lock, set
  `is_running`, release the lock and then use the `enclave_t` for as long as the
  enclave runs. Other threads may stop, destroy or create enclaves meanwhile. What
  must hold: the `enclave_t` stays allocated; the end of a run unregisters its own
  enclave; nothing is freed twice or lost.
* **Deferred destruction.** destroy tells the monitor, and frees the driver's side
  only if `is_running` is clear; otherwise it relies on the thread in the loop.
* **Failures between steps.** create may fail at the arguments, at allocation, at
  the load, at the monitor, or run out of ids; run and resume may fail to copy to or
  from the host. Locks must be released and memory freed on every path.
* **Two nested locks.** create takes `kmalloc_enclave_lock` inside the big lock, and
  drops it around `enclave_mem_int`.
* **One list for everything.** Image pages, page tables, the page reported to the
  monitor: all come from one list, sized before the load by a formula.
* **Shared pages of the image.** `.data` and `.bss` may meet inside a page that is
  then mapped twice; sections and segments are cut into pages by hand. Copies that
  fail on the way are not reported to create.
* **Headers among the program's data.** The enclave's `mmap` keeps its block headers
  inside the area it hands out, and decides how to split a freed block by a word the
  program has written.
* **One pointer for all threads.** `alloc_untrusted_mem` takes addresses from a
  global pointer, with a rounding that does not round.
* **Loading and unloading.** The device is registered first and the memory freed
  before it is deregistered; only open files keep the module in. A host that dies
  leaves its enclaves behind.
* **One random generator.** Sealing, CBC and SM2 draw from MIRACL's only generator,
  which each start of the enclave, `penglai_set_rand_seed` and the first SM2 call
  reset.

`PROJECT.json` lists each hazard at its line.

## 2. Plan

| module | models | state |
|---|---|---|
| `EnclaveDriver`, `EnclaveDriverProofs`, `SharedDestroyProofs` | ioctl core with the monitor and the hosts' handles | done, safety proved |
| `EnclaveLifecycle`, `EnclaveRefinement`, `EnclaveRefinementProofs` | what the table of enclaves promises, and the mapping that shows the driver implements it | done, proved |
| `EnclavePages` | secure memory and page tables | done, proved in `ElfLoaderProofs` |
| `ElfLoader`, `ElfLayout`, `ElfLoaderProofs` | loader and page budget, on top of `EnclavePages`; the layouts it can load | done, proved |
| `EnclaveHeap`, `EnclaveHeapProofs` | brk, mmap, munmap and heap growth in an enclave | done, safety proved |
| `DriverModule`, `HostLibrary`, `HostLibraryProofs` | loading and unloading; host threads next to it | done, proved |
| `Sm4Modes`, `Sm4ModesProofs`, `Sm2Signature` | SM4, CBC, OCB and SM2 as functions | done, proved |
| `EnclaveCrypto`, `Sm3Stream`, `GmLibrary`, `GmLibraryProofs` | sealing, random numbers, SM2 and CBC over several lives of an enclave; SM3; both together | done, safety proved but for damaged data (`OpensAsSealed`) |

`ElfLoader` extends `EnclavePages`, `ElfLayout` extends `ElfLoader`, `HostLibrary`
extends `DriverModule`, `EnclaveCrypto` extends `Sm4Modes` and `Sm2Signature`,
`GmLibrary` extends `EnclaveCrypto` and `Sm3Stream`. Each `MC*` module holds the sets
and symmetries of the runs.

Every safety property of the passing runs is a theorem but `OpensAsSealed`; that and
liveness are model-checked. Section 9 says what stands in the way.

## 3. EnclaveDriver

An action is the code between two points where another thread can interfere: a lock
taken or released, or a call into the monitor. The handlers are split as follows.

| code | actions |
|---|---|
| `penglai_enclave_create`, `create_enclave` | `CreateArgs`, `CreateLock`, `CreateAlloc`/`CreateAllocFail`, `CreateMemInit`, `CreateRelock`, `CreateLoad`, `CreateSbi`, `CreateFinish`/`CreateFail` |
| `penglai_enclave_run` | `RunLock`, `CopyIn`, `RunEnter`, `SmReturn`, `LoopResume`, `LoopUserOcall`, `LoopExit`, `CopyOut`, `RunFinish` and the failing variants |
| `penglai_enclave_resume` | `ResumeLock`, `CopyIn`, `ResumeEnter`, then the same loop; `Unstop` for the resume of a stopped enclave |
| `penglai_enclave_stop`, `_attest` | `Stop`, `Attest` (whole handler under the big lock) |
| `penglai_enclave_destroy` | `DestroyLock`, `DestroyFinish` |
| `enclave_idr_alloc`, `_remove`, `get_enclave_by_id` | `IdrAlloc`, `IdrRemove`, `Lookup`, each inside its caller's step because it takes and releases its own lock |

Modelling choices:

* `Objs` are allocations, not addresses: one is never handed out twice, so "freed"
  is visible for ever. A read through a freed pointer may return anything; the model
  chooses nondeterministically (`EidOf`, `Freed`).
* `idr_alloc` returns the lowest free id, as Linux's idr does for a range.
* `umem` follows the 16-byte `untrusted_mem` descriptor. `create_enclave` frees it
  as soon as it has stored it (`penglai-enclave.c:119`), so it is "freed" whenever
  run and resume copy through it, and `destroy_enclave` frees it again.
  `create_enclave`'s error exit (`CreateAllocFail`) returns with no `enclave_t`; that
  it frees the descriptor twice there and `require_sec_memory` never
  (`penglai-enclave.c:131`) is memory no other step looks at, and is not modelled.
* The monitor is external. Assumed of it, from how the driver uses it: eids are not
  reused; RUN is refused unless the enclave is fresh; a stopped enclave answers
  with a timer return; a destroyed one returns to its caller as ended.
* `own` and `pend` are the host's side: the eid in its `PLenclave` and whether it
  owes a resume. What hosts do with them is an assumption about host programs,
  because neither SDK nor driver enforces anything: `SingleRunner` restricts run and
  resume to the creator, `SharedDestroy` lets any thread destroy (a heartbeat thread,
  say), and with `KeepHandles` a host goes on using its eid after a call on it has
  failed or has ended the enclave. `PLenclave_run` and `PLenclave_destroy` leave the
  eid in the `PLenclave`, so the SDK permits that; the demos call no enclave again
  once its run has returned. `Disciplined` hosts are those with `SingleRunner` and
  without `KeepHandles`, `Owned` hosts destroy only their own enclaves besides.
* The memory-extend and memory-free handlers (`penglai-enclave-ioctl.c:229-280`)
  have no caller and are left out; debug print changes nothing.

### What the table promises (`EnclaveLifecycle`, `EnclaveRefinement`)

`EnclaveLifecycle` is the table without locks, program counters or monitor: an
enclave is built by one create at a time, becomes known under a free id (or is lost
when none is left), is entered by at most one thread, and is freed in the same step
as its id, never under a thread that is inside. The mapping reads the table from
`idr`, the allocations from `objst`, takes an enclave as being built while a create
holds it, and a thread as inside from the moment it releases the big lock with a
reference to the moment it frees or returns. `ImplementsLifecycle` then says that
every step of every handler is one step of that table or none.

### Runs

| run | instance | shows |
|---|---|---|
| `driver_owners` | 3 threads, 3 allocations, 2 ids; load and copies may fail; `Owned` hosts | `TypeOK`, `OwnerInv` (the invariant that is proved; `NoUseAfterFree` follows from it), `FinishesOwnEntry`, `FreeIsExclusive`, `ImplementsLifecycle`, no deadlock |
| `driver_destroy_race` | 3 threads, 1 enclave, all failures; anybody may stop, resume a stop and destroy, and owners keep their handles | `RunningFlagCovers`, `NoOrphan`, `RegistrySound`, `NoUseAfterFree`: the flag is enough while ids are not reused. Threads may hang (below), so deadlock is not checked |
| `driver_live` | 2 threads, 1 enclave, `Disciplined` hosts, destroys from anywhere; no exhausted memory, no failing copy, no user-defined OCALL | `LoopExitsOnlyWhenEnded`, `BigLockReleased`, `DestroyReclaims` |
| `driver_alloc_hang` | exhausted memory | **violated** `BigLockReleased`: `create_enclave` returns from its error exit with `kmalloc_enclave_lock` held; the next create spins on it with the big lock held |
| `driver_ocall_leak` | a user-defined OCALL | **violated** `DestroyReclaims`: `is_running` is still set while the host serves the OCALL; a destroy then leaves the freeing to a loop nobody is in |

Limits of the code that the constants show, and that the passing runs exclude. Each
is a counterexample that TLC finds when `driver_live` is changed as stated:

* `SingleRunner = FALSE` with two threads violates `LoopExitsOnlyWhenEnded`. The
  comment at `penglai-enclave-ioctl.c:327` says the loop "will only exit when either:
  1. the enclave is finished and invoke exit_enclave 2. destroy_enclave is invoked";
  a second run of the same eid, by a second thread, is refused by the monitor, leaves
  the loop and frees the enclave under the first.
* `SharedDestroy = TRUE` with two allocations violates `NoUseAfterFree`. The id is
  reused as soon as another thread has destroyed the enclave; the first owner's run
  then finds the new enclave, and two loops share one `enclave_t`.
* `KeepHandles = TRUE` with `SharedDestroy = FALSE` and two allocations for one id
  violates `NoUseAfterFree` as well: an owner runs the eid of an enclave that it has
  destroyed; the id is another thread's by now, and the refused run frees that enclave
  under the other's loop.
* `KeepHandles = TRUE`, `SharedDestroy = FALSE` and `Faults = {"user"}` violate
  `DestroyReclaims`. A run that returns because a size is too large or a copy failed
  (`penglai-enclave-ioctl.c:317`, `321`, `361`, `364`, `380`) leaves `is_running` set;
  the owner's destroy then leaves the freeing to a run that is over.
* With a user-defined OCALL besides, the same hosts violate `LoopExitsOnlyWhenEnded`:
  the run fails while the enclave is inside the OCALL, the owner runs it again, the
  monitor refuses, and the driver frees an enclave that has not ended.

When the ids run out, `idr_alloc` fails and create reports success with an eid that
names nothing (`Lose` in the abstract table): the enclave can be neither run nor
destroyed.

Bounds. Three threads make a run, a destroy and a create happen at once; with three
allocations and two ids, ids are reused and also run out, and one thread's reference
can be confused with another's. The proofs cover all larger instances. Threads and allocations are symmetric in the safety runs; ids are
ordered, so they are not; the liveness runs use no symmetry.

Fairness. `LiveSpec` assumes weak fairness of each thread's steps inside the driver:
the kernel schedules it, and timer interrupts bring an enclave back from its hart.
No fairness is assumed of host calls, and none that a contended spin lock is granted.
`DestroyReclaims` is therefore stated for hosts that eventually stop calling.

### Proofs (`EnclaveDriverProofs`, `SharedDestroyProofs`, `EnclaveRefinementProofs`)

For any sets of threads, allocations and ids, from `DriverAssumption`:

* `TypeCorrect`: `TypeOK` for every host, however it behaves, together with
  `RefsSet`: no handler dereferences NULL.
* `OwnerInvariant`: `Owned => (Spec => []OwnerInv)`. `NoUseAfterFree` is not
  inductive: that the enclave in the loop stays allocated follows from its being
  registered under the thread's own handle (`CallsOnOwnHandle`), from handles being
  held by one thread (`HandlesValid`), from the registry never dangling
  (`RegistrySound`) and from create being alone with an unregistered enclave under
  the lock (`CreatingUnregistered`, `LockHeld`). The proof has one lemma per handler.
* `ReferenceSafety` and `ExclusiveFree` follow from it: no use after free, a run
  unregisters its own entry, and frees exclude other users. `RegistryNeverDangles`
  and `RunEndsOwnEntry` state two parts of it by themselves.

`SharedDestroyProofs` allows destroys of any enclave by any thread, with one runner
for each enclave (`Disciplined`). What protects the run loop is then the flag
`is_running`, and the code protects it only while no id is handed out again to a new
enclave when some host still holds it from an old one. That is the hypothesis
`FreshIds` on the behaviour; `idr_alloc` does not ensure it (the second limit above). With
one enclave it holds, as in `driver_destroy_race` and `driver_live`; the former also
lets owners keep their handles, which the theorems exclude.

* `RaceInvariant`: `RaceInv` replaces the owner's handle by the flag: a thread in the
  loop has set it, nobody else clears it, and a destroy that finds it set only asks
  the monitor and leaves the freeing to the loop.
* `SharedDestroySafe`: from it `RunningFlagCovers`, `NoUseAfterFree`, `RegistrySound`
  and `FinishesOwnEntry`. `LoopEndsWithEnclave`: `LoopExitsOnlyWhenEnded`.
* `OwnersReuseNothing`: hosts with `Owned` satisfy `FreshIds`; `OwnersRunToTheEnd`
  therefore has no condition on ids.

`EnclaveRefinementProofs` shows that every step maps to a step of the abstract table
or to none:

* `DriverImplementsLifecycle` from `RaceInv` (so under `Disciplined` and
  `FreshIds`), `OwnersImplementLifecycle` for owners without a condition on ids.
* `NothingOrphaned`: `NoOrphan` as long as an id is free whenever a create registers
  (`IdsSuffice`; without it the enclave is lost, see `Lose`).
  `NothingOrphanedWithEnoughIds` discharges that condition by counting when there
  are at least as many ids as allocations.

Liveness (`BigLockReleased`, `DestroyReclaims`) is model-checked only.

## 4. EnclavePages

The list is filled once, in address order, and nothing is put back
(`init_free_mem`, `get_free_mem`), so it is a counter `taken` of `total`; page 0 is
the NULL of an empty list. `l1` and `l2` are the root's and the middle tables'
entries, `leaf` what each virtual page maps to; a virtual page is the triple of its
indices. `WalkAndMap` is `walk_enclave_pt` with creation followed by the write of
the entry, as in both of its callers; through NULL the write stops the kernel
(`st = "oops"`). `enclave_alloc_page` takes its page before it walks. New tables
have no entries because the monitor hands memory over cleared (external; nothing in
the driver clears them).

Run `pages`: tables of two entries (eight virtual pages) and 0 to 8 pages of memory,
any order of operations. With eight pages two separate branches of the table can
be built and memory still runs out at each step of a walk.
It checks `PagesTypeOK`, `OneUse` (no page has two uses), `Walkable` (every mapping
is reachable) and `TablesStable` (a walk moves no table and changes one mapping at
most). Deadlock is not checked: a destroyed memory has no further step.

`ElfLoaderProofs` proves all four for any table width and memory size. The
inductive invariant `PagesInv` adds to them that nothing is in use before
`enclave_mem_int` (`Untouched`). The argument: everything in use is at most `taken`
(`InUse`), and what a walk adds lies above it (`FreeMemIsNew`, `WalkAddsNew`), so
each new table or page differs from all old ones; `WalkAndMapInv` carries this
through the conjuncts once for both mapping operations.

## 5. ElfLoader

Extends `EnclavePages` with what create does under the big lock. `Jobs` is the list
of address ranges in the code's order: stack, ELF header, NOBITS sections, program
segments, the test of the entry point, untrusted memory, kbuffer. Each step fills or
maps one page of the first range, as the loops do, starting at the range's own first
byte. `content` records what was written at the start of each page. Every copy from
the host and both allocations of shared memory may fail; the code goes on, and the
model records `fault`. Sizes go through `penglai_enclave_elfmemsize`,
`total_enclave_page`, the rounding to a power of two and `check_eapp_memory_size`.
They are `int` in the loader (`penglai-enclave-elfloader.c:80`, `104`, `149`); images
whose sizes do not fit one, 2 GiB and more, are left out.

| run | instance | shows |
|---|---|---|
| `loader` | pages of 4 bytes, tables of 4, requests with images laid out as `app.lds` does, stacks and untrusted memory below and above the limits | `ImageFaithful`: file bytes at their addresses, zeroed sections, private stack, untrusted pages in order; `PartialLoadSound`: whatever fails, no byte is misplaced and no enclave without entry point is handed over; `NoExhaustion` where untrusted memory needs one last-level table |
| `loader_bss` | the same layouts with any `.bss` | **violated** `ImageFaithful`: a `.bss` from the middle of one page into the next is loaded without its tail |

`NoExhaustion` does not hold of every request that `check_eapp_memory_size` lets
through: with `Requests <- LargeRequests` (`Fan = 8`, `Idx <- Idx8`, `Frames <-
LargeFrames`, the areas at 512, 1024 and 1792, limits of 256 bytes) TLC finds a walk without a page. In real sizes:
`penglai-enclave-ioctl.h:69` allows 16 MiB of untrusted
memory, and `total_enclave_page` adds 15 pages whatever its size. In the code: 17 pages of image and stack, plus 15, make 32 pages; needed are those 17,
the root table, the special page, four middle tables (image, untrusted memory, stack
and kbuffer lie in different gigabytes) and 1 + 8 + 1 + 1 last-level tables: 34,
before the monitor's page. `walk_enclave_pt` then returns NULL and `map_va2pa` writes
through it. The rounding to a power of two hides this for most sizes.

Bounds. Four-byte pages give every position of a boundary within a page; segments of
less than, exactly and more than a page, and sections that share a page with a
segment, occur. The loader ends, so deadlock is not checked.

`ElfLoaderProofs` proves `NothingMisplaced`: `PartialLoadSound` in every behaviour,
for any page size, table width, image and pattern of failures, if segments start on a
page boundary and end below the top of the address space (`SegmentsAligned`).
`app.lds` lays images out like that. The hypothesis is needed: the loader copies to
the start of a page whatever the address's offset in the page, so the bytes of an
unaligned segment would be misplaced. The inductive invariant `LoadInv` has three
parts. Pages that are mapped or written have been taken from the free list, and a
page with bytes of a segment is mapped at the address of its first byte or not at all
(`MemoryInv`); as long as no entry point is known, its test is among the jobs still to
do (`EntryInv`); and the jobs are of the kinds and ranges of `JobSet`. A new page is
above `taken`, so a copy touches no page that holds something else; that two
addresses with the same three indices are in the same page is arithmetic
(`ThreeDigits`, `SamePage`).

For loads in which nothing fails, `ElfLayout` says what a request must be like, and
the same module proves that nothing more is needed:

* `NeverExhausted`: `NoExhaustion` if the budget covers what the load takes
  (`BudgetOK`): one page for every turn of a loop that allocates, one for every table
  on the way to an address that is visited, and three more. `BudgetInv` says that the
  pages taken and those still to come are fewer than there are. What is still to come
  is counted from the list of ranges, so `SuffixInv` says that this list is the rest
  of `Jobs`, the first range begun and the others not. A step takes at most the page
  and the tables it strikes off the count.
* `ImageLoaded`: `ImageFaithful` for requests that also meet `LayoutOK`. Segments
  start on page boundaries and share no page; `.bss` may begin in the last page of the
  data; private and shared memory have no page in common; and the loop over a zeroed
  section or the stack, which starts at its first byte and not at its first page,
  meets every page of it (`LoopCovers`). `FilledInv` says that every address already
  visited still has what was put there, although a later segment may have been copied
  over the page of a zeroed section. `ChunkInv`, that what is in a page are zeros or
  bytes of one segment, then shows that such a copy leaves the section's zeros alone:
  it ends with the segment, and they have no byte in common.

Both are about the formula `total_enclave_page` only through `BudgetOK`, because
that formula is not always enough: `LargeRequests` fails `BudgetOK`, and the
layouts of `loader_bss` that lose their tail fail `LoopCovers`. That the requests of
the run `loader` meet both hypotheses is the assumption `RequestsComplete` of
`MCElfLoader`, which TLC evaluates.

The host's copy of the image is taken to be constant during a create; the SDK maps
the file read-only and private. Permission bits of entries are left out.

## 6. EnclaveHeap

The mmap area counted in granules of one header (`struct mmap_metadata`). `mem` holds
each granule as the header it would be read as, because that is how `SYS_mmap` reads
whatever a program has left there; `live` is the ghost record of what has been handed
out. One turn of the search loop is one step. `SplitWord` is `syscall_arch.h:161-165`:
the header behind a split block gets its size only if the word was not already 0.
The header of the new block is written first (`Stamped`, lines 149-150) and put back
if the one behind it does not fit (`Restored`, lines 156-158); `found` is the area as
the call found it. An offset that wraps gives an address in front of the area, which
passes the test at line 143: the search is then `"stray"` and reads memory the model
does not have, for ever. Programs of the run never get there.
`ExpandHeap` is `__expand_heap` with the `SYS_brk` inside it: the offset is stored
before the limit is tested, the break `__expand_heap` keeps itself is not. It asks for
any number of pages in `Growth`; more than half the address space is refused at once
(`TooMuch`, `expand_heap.c:44`).
`brk_offset` is static in a header and so exists once per object file; only
`expand_heap.c` moves it.

Run `heap`: ten granules, payloads of one to three and of heap areas, heap growth by brk and
mmap, and two kinds of program: one that maps a single size and leaves anything
behind, one that maps two sizes and fills what it unmaps. Shown: `NoOverlap`,
`HeadersIntact`, `FailChangesNothing`, `FailsOnlyWhenFull`, and
`MmapReturns`, the end of every search of these programs, under weak fairness of the search loop (it is
the program's own straight-line code). `Scan`'s fairness is the only one assumed.

Bounds. Ten granules hold up to four blocks, so that a block is split, taken whole,
stepped over and refused; `Wrap` makes the remainder's size wrap as the unsigned
subtraction does. Three heap expansions pass the brk limit and double the mmap
minimum once; the third size in `Growth` is the one that is refused.

That malloc's heap stays in the brk area is not among the properties. `SYS_brk` tests
its own limit only, so it is a matter of two constants, and not always so: `penglai-sdk/src/docs/musl.config.md:8-9` tells the user to set
`CUSTOM_BRK_SIZE` (256 pages in its example) and `CUSTOM_MMAP_SIZE` when the SDK is
built. Both reach `syscall_arch.h` only, while `app.lds:21-34` always reserves 64 pages
for each area: malloc's heap grows over the blocks and headers of the mmap area, which
lies right behind. With the default sizes the limit is the size of the area
(2 * 32 pages), and the two are apart.

Limits of the code. A program that maps two sizes and leaves zeros in what it unmaps
violates `NoOverlap` (set `fills |-> FALSE` in `MCPrograms`): the rest of a split
block gets size 0, the next search reads a granule of the block behind it as a
header. Nothing in the repository says which programs the allocator is for, so this
is not a finding; a header read out of such data may also have a size that brings the
search back to it, so `MmapReturns` speaks of the two kinds of program only.

Proofs (`EnclaveHeapProofs`), for areas, pages and requests of any size:

* `HeapType`, whatever malloc asks `__expand_heap` for.
* `TidyBlocksApart` and `TidyHeadersSurvive`: `NoOverlap` and `HeadersIntact` for
  programs that fill what they unmap or map a single size of at most a page (`Tidy`,
  the two kinds of program of the run; the first limit above is a program outside
  it). `RefusalChangesNothing`: for them a refused mmap leaves the area as its call
  found it. The header claimed before the refusal gets back what was there, and no
  step of the search before that has written anything.
* `RefusedOnlyWhenFull`: `FailsOnlyWhenFull` for every program. It speaks of programs
  that map one size, until malloc asks for heap, and needs them neither to fill what they unmap
  nor to map at most a page.

`NoOverlap` and `HeadersIntact` are not inductive, since the allocator has no list of its blocks: it
rereads them out of program memory. `HeapInv` says that there is a set of positions
that is a chain of headers (`Chain`): it begins at the start of the area, the size of
each block that is or was in use leads to the next header with none in between, and
the untouched rest comes last. Every live block is behind a header of its own, a block
given back is full of data or as long as every request (`Recycled`, where `Tidy`
comes in: the header behind a split gets its size only then), and the search stands on
the chain. The set is
quantified existentially in the invariant and each step names the next one.
For `FailsOnlyWhenFull` the invariant is `SlotsInv`: the area is a row of slots of one
length followed by the untouched rest, the blocks in use are exactly the slots marked
so, and the search has passed used slots only. A search that reaches the end has then
seen all slots in use, and their number is the property's quotient.
`PowersAreNumbers` is an assumption because the provers cannot derive it from the
definition of exponentiation.

## 7. DriverModule and HostLibrary

`DriverModule` is `enclave_ioctl_init` cut at its three calls, each of which may fail,
and `enclave_ioctl_exit`. The kernel's part is external: a module is not unloaded
while a file of it is open. A failed `SBI_SM_INIT` leaks the area, and a value of 0 or
more leaves the module loaded without its device (`"broken"`), whose unloading then
goes through a device that is gone (`ExitBroken`). The leak is certain on that exit:
`leaked` counts it, and no property speaks of it.

`HostLibrary` puts the threads of a host process next to it: `alloc_untrusted_mem`
step by step (the mutex, the `mmap` at `current_untrusted_ptr`, the publication), then
`PLenclave_init`, create, destroy, finalize; `Kill` is the death of the process, after
which enclaves stay and files do not. `Round` is the code's `(size + 4096) & ~4096`,
which clears one bit.

Run `host`: two threads, sizes of one page, one and a half, and two, at most three
areas handed out, contiguous memory for two areas. Shown: `RegionsPrivate` (large
enough, mapped, no one else's), `HintAlwaysFree` (no call is refused while sizes are
whole pages), `DeviceHasModule`, `EnclaveHasMemory`, `HostTypeOK` (with the count of
CMA areas, and that a thread has the device open exactly between `PLenclave_init` and
`PLenclave_finalize`), no deadlock. Two threads are enough for two calls to meet at the pointer;
one and a half pages is the size that is not rounded.

Limits of the code. After an unaligned size every later call is refused, since the
pointer is no longer a page address. With `EarlyOpen = TRUE` a host may open the
device while the module is still loading, and `DeviceHasModule` is violated when the
loading then fails: the device is registered first (`penglai-enclave-driver.c:45`).
The passing run takes hosts to be started after the module, as the
boot script `S40penglai-driver` does. The enclaves of a killed host keep no reference to the module, so it can
be unloaded and its memory freed under them; `EnclaveHasMemory` speaks of hosts that
are alive.

Proofs (`HostLibraryProofs`), for any number of threads, sizes and areas:
`HostType`, `RegionsArePrivate` and `HintIsFree` for all hosts, `DeviceKeepsModule`
and `EnclaveKeepsMemory` for hosts that open the device after the module is loaded
(`~EarlyOpen`). The inductive invariant `HInv` has a part for the module
(`ModuleInv`: what exists at each step of loading and unloading, and that only a
completely loaded module is in use) and one for the areas (`AreaInv`): the mutex is
held by the thread between its two ends (`MutexHeld`), everything mapped and handed
out is below `current_untrusted_ptr` (`MappedBelow`, `RegionsBelow`), and a thread
that is about to map maps at least what was asked for (`WantRounded`). The pointer only
grows, hence areas are apart although the rounding is wrong: it may round up too
little, never below the size.

## 8. Sm4Modes, Sm2Signature, EnclaveCrypto, Sm3Stream, GmLibrary

`Sm4Modes` has two views of SM4. The rounds and the key schedule are kept as they are
over small words, with the S-box and linear layer an arbitrary function: decryption
must undo encryption for every one. For CBC and OCB the cipher is ideal, a byte being
the set of unknown terms whose exclusive or it is: two blocks are equal only if they
are equal for every key. `LLength` keeps the precedence of the macro at
`SM4_Enc.c:20`. `Sm2Signature` is sign and verify over a cyclic group of prime order
with given x coordinates; the error returns are in the code's order.

`EnclaveCrypto` is a program that uses them over several lives: it sets the seed,
seals, unseals, encrypts with CBC, makes SM2 keys, signs, verifies, and is started
again with its memory as in the image while sealed data stays in storage, where one
part of it may be damaged. An unseal for which the monitor gives no key returns before
the buffers are touched (`UnsealNoKey`). The generator is what it was seeded from and how many
numbers were drawn: equal states give equal numbers. `Sm3Stream` is the SM3 state with
its buffer, which is byte-swapped in place by every compression and never cleared.
`GmLibrary` puts both in one specification.

| run | instance | shows |
|---|---|---|
| `gm` | blocks of 2 bytes, 6 requests around the ends of blocks, two lives, two texts sealed; group of 7, all keys, hashes and random numbers; all S-boxes on one-bit words; SM3 with blocks of 8 and messages to 20 bytes, two with one state | `IntactOpens`, `OpensAsSealed`, `SizeExact`, `TableFits`, `KeysFresh`, `DecryptionInverts`, `SignedVerifies`, `HashesPadded`, `CryptoTypeOK` |
| `rand_seed` | a program that sets a new seed in each life, makes an SM2 key and seals | **violated** `KeysFresh`: `MIRACL_Init` calls `mirsys`, which resets the generator, and then reads the new seed from it; both lives seal with the same key and nonce |

Bounds. Two-byte blocks and texts of 0 to 8 bytes give every remainder, up to four
full blocks and a table of three entries; 20-byte messages over 8-byte blocks give
every fill of the last SM3 block twice; two lives are what a repeated key needs.
Programs in `gm` either seal or use SM2. The calls of a program end at the bounds, so
deadlock is not checked.

Two properties hold of the requests of `gm` and not of every request. `ByteMod = 4`,
so that additional texts are as long as a byte can say and longer (`MCLongMac`),
violates `IntactOpens`: a part of the additional text is stored, the tag is over all
of it, and the data cannot be unsealed (`seal.c:82`). A text of less than a block
without additional text (`MCShortRequest`) violates `TableFits`: the table has length
0 and its first entry is written (`SM4_Enc.c:205`, `213`), although
`penglai-sdk/src/demo/gm_test_enclaves/test_sm4_ocb.c:33` says "plaintext length can
be any number".

Other limits of the code. An unseal that fails returns a positive value, not -1, and has filled the caller's
buffers (`seal.c:203`). The 16-byte nonce makes `index` -1 at `SM4_Enc.c:226`.
`SM2_Sign` and `SM2_Verify` copy a message of any length into `MAX_MESSAGE_SIZE`
bytes. A program that sets no seed draws the same numbers in every life, as
`Random.c:28` says.

Proofs of the functions (`Sm4ModesProofs`), for inputs of any length:

* `CipherInverts`: SM4 with the round keys reversed undoes SM4, for any number of
  rounds, any S-box and linear layer and any keys.
* `CbcInverts`: CBC decryption gives back the text, for blocks of any size, any
  length and every buffer the ciphertext fits in.
* `OcbInverts`: OCB decryption gives back the text and accepts the tag, whatever
  either call finds behind its table. `TableLength`: with a full block the table has
  an entry for every block number.

These are inductions, over rounds, blocks and the two halves of a power of two. The
induction theorems of the library take an operator as a parameter, which the
installed provers cannot instantiate, but the existence of a minimal element (`WFMin`)
takes a set. `Least` and `Induction` are stated for sets of numbers from it, and each
induction defines the set of numbers for which the claim holds.

Proofs over the lives of a program (`GmLibraryProofs`):

* `IntactDataOpens`: `IntactOpens`, and that what comes back is the text and the
  additional text that were sealed (`OpensExactly`), if additional texts are shorter
  than the byte for their length can say (`ShortMacs`).
* `SealedDataFits`: `SizeExact`, if the parts together fit 32 bits (`SizesFit`).
* `TableLargeEnough`: `TableFits`, if there is a full block of text or of additional
  text (`FullBlocks`).
* `DecryptionUndoesEncryption`: `DecryptionInverts`, without a condition.

  The invariant of these four is `CallInv`: everything in storage was sealed by the
  functions above, possibly with one part changed since, and the last call has
  returned what its function computes. The requests of `gm` meet the three
  conditions; what lies outside is `MCLongMac`, `MCShortRequest`, and sizes at which
  `penglai_calc_sealed_data_size` returns `UINT32_MAX`.
* `SignaturesVerify`: `SM2_Verify` accepts what `SM2_Sign` returns, for a group of
  any order in which every number but 0 has an inverse (`InverseAssumption`; it
  follows from the order being prime). The argument is the
  textbook's, s(1 + d) + rd = k, in residues. `EverySignatureVerifies` carries it to
  `SignedVerifies` over the lives of a program.
* `CryptoType`, with the fact that SM2 is not initialised in a life before its
  `set_seed`.
* `KeysStayFresh`: `KeysFresh` over any number of lives for programs that do not mix
  SM2 with sealing or CBC (`Separate`), as those of `gm` are. `FreshInv`: every
  nonce is a number of a life that has set its seed, at a count the generator has
  passed, and no two are the same number. `rand_seed` is the program outside the hypothesis.
* `PaddedMessageHashed`: `HashesPadded` for any block size and any pieces. `Sm3Inv`
  relates the buffer to the message while it is taken in: full blocks have been
  compressed as they came, the rest lies at the start of the buffer; behind it
  there may be anything, and `SM3_done` overwrites exactly that.
* `SizesNeverWrap`: `penglai_calc_sealed_data_size` is the exact sum or `UINT32_MAX`.

## 9. Proofs and model checking

Proved for all constants that meet the `ASSUME`s of the modules, in eight proof
modules:

| proof module | properties | conditions |
|---|---|---|
| `EnclaveDriverProofs` | `TypeOK`; `OwnerInv`, `NoUseAfterFree`, `RegistrySound`, `FinishesOwnEntry`, `FreeIsExclusive` | none for `TypeOK`, else `Owned` |
| `SharedDestroyProofs` | `RunningFlagCovers`, `LoopExitsOnlyWhenEnded` | `Disciplined` and `FreshIds`, or `Owned` |
| `EnclaveRefinementProofs` | `ImplementsLifecycle`; `NoOrphan` | the same; for `NoOrphan` enough ids |
| `ElfLoaderProofs` | `PagesTypeOK`, `OneUse`, `Walkable`, `TablesStable`; `PartialLoadSound`; `NoExhaustion`; `ImageFaithful` | none for the first four; `SegmentsAligned`; also `Budgeted`; `LaidOut` and `Budgeted` |
| `EnclaveHeapProofs` | `HeapTypeOK`, `FailsOnlyWhenFull`; `NoOverlap`, `HeadersIntact`, `FailChangesNothing` | `Tidy` for the last three |
| `HostLibraryProofs` | `HostTypeOK`, `RegionsPrivate`, `HintAlwaysFree`; `DeviceHasModule`, `EnclaveHasMemory` | `~EarlyOpen` for the last two |
| `Sm4ModesProofs` | the functions behind the next row | those of each theorem |
| `GmLibraryProofs` | `CryptoTypeOK`, `SignedVerifies`, `HashesPadded`, `DecryptionInverts`; `KeysFresh`; `IntactOpens`; `SizeExact`; `TableFits` | none for the first four; `Separate`; `ShortMacs`; `SizesFit`; `FullBlocks` |

Model-checked only, on the instances above:

* `BigLockReleased`, `DestroyReclaims`, `MmapReturns`: liveness under fairness and
  `ENABLED` are outside the prover's reach.
* `OpensAsSealed`: for intact data opened into buffers of the reported sizes,
  `IntactDataOpens` states it. For damaged data
  it says that another text has another tag. The cipher is ideal, its outputs terms
  built from key and input, so this needs that a term is never among the terms it is
  built from. That holds of the values TLC makes, but nothing in TLA+ says so of every
  value, and the provers cannot be given it without an assumption about all terms.

## 10. Not modelled

* The repository has some 120,000 lines of C under `br2-external`, nearly all of it
  vendored: musl (about 100,000 lines), MIRACL (11,000), the AES demo. Penglai's own code is the
  driver, the host library, the runtime and crypto libraries and the changes to musl's
  system calls, some 5,000 lines with headers and demos, and that is what the map
  covers. A share of 30% of all lines would mean modelling musl's and MIRACL's
  functions, which are third-party code used through a few calls here.
* The secure monitor is a submodule without contents; what the driver sees of it is
  external in `EnclaveDriver`.
* SM3's compression function, SM4's tables, and MIRACL's curve arithmetic are fixed
  functions on 32- to 256-bit words; the self-checks compare them with published
  vectors, which is what a test is for.
* The `user_param` block two threads of a host may share: the driver copies it in and
  out whole, so the return of one call undoes what the other thread has stored.
* `penglai-enclave-ioctl.c:229-280` (memory extend and free) and `clear_enclave_pt`
  have no caller. `elf.c`, printing, trap stubs, demos and build configuration keep
  no state worth a model.

## 11. Running

In this directory: `tlc -workers 2 -config <run>.cfg <module>` with the module named
in `PROJECT.json`, and `tlapm <module>.tla` for each of the eight modules whose name
ends in `Proofs`.
TLC takes about a minute and a half each for `driver_owners`, `gm` and `pages`, half a
minute for `heap` and seconds for the others. Runs marked **violated** are meant to
fail; the `findings` of `PROJECT.json` quote the line each one contradicts.
