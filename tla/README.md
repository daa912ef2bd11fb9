# A TLA+ verification project for libdrm

libdrm is the user-space side of the Linux Direct Rendering Manager: a core library of ioctl
wrappers with a few containers, and one library per family of graphics hardware that manages
*buffer objects* (memory the GPU can use), their mappings, their sharing between processes and
the command streams that refer to them. This directory models the parts of it that keep state,
checks them with TLC on small instances, and proves the central facts with TLAPS for every
instance.

## 1. Inventory

| Part | Sources | State | Operations | Talks to | What is hard | What makes it correct |
|---|---|---|---|---|---|---|
| Intrusive lists | `libdrm_lists.h` | two pointers per node | init, add, add tail, del, del+init, join | everything below | deletion is undefined for zeroed or already deleted nodes | nodes are deleted only while linked or self-linked |
| Atomics | `xf86atomic.h` | a counter | inc, dec and test, add unless | all reference counts | three builds with different return values, contention | a count equals the references, the last one frees |
| Intel GEM: mappings | `intel/intel_bufmgr_gem.c` | `map_count`, `mem_virtual`, `gtt_virtual`, `vma_list`, `vma_cache`, `vma_count`, `vma_open`, `vma_max` | map, map_gtt, map_unsynchronized, unmap, set_vma_cache_size | buffer objects, kernel | counters kept by hand, eviction while opening, failing mmap | counters exact, no mapping in use is evicted, the limit holds |
| Intel GEM: buffer objects | same | `refcount`, `gem_handle`, `global_name`, `reusable`, `idle`, `named`, `cache_bucket`, `time` | alloc, reference, unreference, emit_reloc, clear_relocs, exec, busy, flink, create_from_name, create_from_prime, export_to_prime, disable_reuse | mappings, kernel, other processes | lock-free counts, revival by name, pages discarded by the kernel, handles that are not counted, failing ioctls | nothing reachable is freed, one structure per kernel object, what the cache hands out is clean and has its pages |
| Intel GEM: relocation trees | same | `reloc_tree_size`, `reloc_tree_fences`, `validate_index`, `exec_bos` | emit_reloc, check_aperture_space, exec, update_buffer_offsets | buffer objects | shared subtrees counted once or twice, flags set and cleared by two walks | the estimate bounds the sizes, the walk restores its flags |
| Intel GEM: buckets, tiling | same | the bucket table | bucket_for_size, tile_size, tile_pitch, set_in_aperture_size | alloc | rounding, table bound | a bucket holds what was asked for |
| Intel GEM: life cycle | same | `bufmgr_list`, its refcount | init, find, unref, destroy | all of it | two locks, sharing per fd | destroyed once, when unused |
| Fake buffer manager | `intel/intel_bufmgr_fake.c` | blocks on `lru`, `fenced`, `on_hardware`, fences, `need_fence` | alloc, map, validate, evict, fence | mm, kernel | fence wrap-around, eviction under use | no busy block is reused, contents survive eviction |
| Block allocator | `intel/mm.c` | blocks of a heap, free list | alloc, reserve, free, find | fake manager | alignment, merging, failed allocation half way | blocks tile the heap, no overlap |
| Batch decoder | `intel/intel_decode.c` | none | print | – | – | – |
| Hash table, skip list, random numbers | `xf86drmHash.c`, `xf86drmSL.c`, `xf86drmRandom.c` | buckets with an iterator, forward pointers, a seed | insert, lookup, delete, first, next | core, freedreno, omap | reorganisation during iteration | they implement a finite map |
| Core | `xf86drm.c` | table of open devices, table of fds | drmOpenOnce, drmCloseOnce, drmGetEntry, ioctl wrappers | kernel | a table at its limit | a device is closed with its last user |
| Mode setting | `xf86drmMode.c` | none | wrappers, drmHandleEvent | kernel | arrays that grow between two ioctls | every complete event is handled once |
| Radeon | `radeon/radeon_*.c` | counts, `space_accounted`, totals per manager, relocations, identities | space check, begin, write_reloc, emit, erase | kernel | double accounting, flush and retry | totals are the sum over the buffers |
| Nouveau | `nouveau/*.c` | `bo_list`, names, push records, memory used | bo_wrap, name_ref, prime, refn, space, validate | kernel | revival, undo of partial work, flush inside a call | as for GEM; memory used matches the list |
| Freedreno, OMAP | `freedreno/*`, `omap/omap_drm.c` | handle and name tables, bucket cache, ring buffers | new, from_name, from_dmabuf, del, flush | hash table, kernel | decrement before the lock | one structure per handle |
| Radeon surfaces | `radeon/radeon_surface.c` | none | init, best | – | four families of chips, fallback between tilings, 32-bit sums | levels do not overlap and are aligned |
| Radeon dumps | `radeon/bof.c` | counted documents, their file sizes | object_set, array_append, dump, load | files | sizes kept while a document grows, files that end early | what is returned is the whole document |
| Intel GEM: trace | `intel/intel_bufmgr_gem.c` | addresses and annotations | aub_exec, dump_bmp | exec | order of addresses, shared buffers | a frame can be replayed |
| Exynos, libkms | `exynos/*`, `libkms/*` | single-owner buffers | create, map, destroy | kernel | partial failure of creation | nothing leaks |

## 2. Modules and how they correspond to the code

```
 DrmLists ─► GemVma ─► GemBo        Mm ─► MmHeap          KeyMap ◄─ DrmHash, DrmSkipList
    │          │         │           └──► FakeBufmgr       (implemented by both)
DrmListsProofs │         │                FakeFence       DrmAtomic
    └─► GemVmaProofs     │                   │            DrmRandom  DrmDevice  DrmMode
               └─► GemBoProofs               │             └─── LibraryProofs ───┘
                     └─► GemShareProofs      │
            MCGemVma  MCGemBo             MCFake            └────── MCLibrary ──────┘
                         MmHeap, FakeFence ─► FakeProofs

 GemVma, GemReloc ─► MCGemReloc

 GemHandles ─► FdBo, OmapBo, NvBo, RadeonBo, ExynosBo, Kms ─┐
                                              GemManager ───┴► DriverHandles ─► DriverProofs
 FdMsm, FdKgsl, NvPush, RadeonCs, RadeonSurface, Bof, Fimg2d,        │
 GemGeometry, GemAub ────────────────────────────────────────► MCDrivers
```

An arrow is EXTENDS. In most modules the state of a component is one record, each function of the
code an operator on that record, and each public call one action. The `map` of `PROJECT.json`
names the lines of every definition.

### Intel GEM

**`DrmLists`** models a list as the sequence of its members and a node by what its pointers hold
("zero", "self", "linked", "stale"). That is what decides whether a later `DRMLISTDEL` is
defined, which an abstract sequence alone would hide.

**`GemVma`** has one variable, the record of every field the mapping code reads or writes. Every
operation runs under `bufmgr_gem->lock`, so it is one step; the code's functions are operators on
the record (`OpenVma`, `CloseVma`, `PurgeVmaCache`, ...), composed in the order in which the code
calls them. The purge loop is a single operator: the number of evictions is the smallest that
brings the count within the limit, and when no number does, the loop would take the list head for
an object, which is a `fault`. An `unmap` of an unmapped object changes nothing and is therefore
no step. The one function that does not take the lock, `set_vma_cache_size`, is an atomic step
here as well; that race is on the list of hazards.

**`DrmAtomic`** models one object's counter at the granularity of the machine: the read, every
turn of the compare-and-swap loop, the lock, the decrement under it. `Build` selects what the
primitives return.

**`GemBo`** composes the mappings with everything else that happens to buffer objects, by several
threads. A step is the code between two points where another thread can act: a function that
holds the lock throughout and does not loop is one step; `unreference`, `flink`,
`export_to_prime`, `create_from_prime` and `busy`, which do part of their work outside the lock,
are several; and loops under the lock (the retry loop of alloc, purge and cleanup of the cache,
the recursive release of relocation targets, kept as a stack of frames) take a step per turn, so
that the operations without a lock fall in between. Conventions:

* *The kernel is external*: a handle table per file, which gives an object one handle and reuses
  the lowest free number (what the second search of `create_from_name` relies on), global names,
  dma-bufs, objects the GPU uses, and pages the shrinker may take. Other processes may render to
  and let go of what is shared. An import opens its handle before it allocates the structure; when
  that `calloc` fails the handle stays open, and the history `leaked` remembers it until the kernel
  hands it to a later import of the same object.
* *The application is well behaved*: a call on an object is covered by a reference that nobody
  gives back during the call (`held`, `Lend`, `GiveBack`), one thread at a time builds the
  relocations of one batch, and the assertions of `emit_reloc` about its arguments hold.
* `atomic_add_unless` is one step here, which `DrmAtomic` justifies for the gcc build.
* Sizes are the bucket they fall in; tiling, offsets and contents of buffers are left out.

**`GemReloc`** looks at the same relocations from the side of accounting, with what `GemBo` leaves
out: sizes (in pages; the 32-bit sums wrap at `Word`), tiling, fence registers, the flags of the
marking walks, failed relocations. One thread builds the trees. The walks (`GetApertureSpace`,
`ClearFlags`, `ProcessReloc`) are the recursions of the code; `Closure` is the independent
definition of "the buffers of a tree" they are compared with. That a buffer is released when nothing
held leads to it is taken from `GemBo`, where reference counts are checked to be exact. `device` is
what the library finds at start-up, so that one run covers hardware with and without fences. The
count of `compute_batch_space` is by the sizes of buffers and leaves out the holes that the estimate
has room for; the history `counted` says that such a count has happened. The application respects
the assertions of `emit_reloc` and `set_tiling`, gives a tiled buffer no relocations (the code's
comment relies on it) and sets a tiling before it adds relocations (`set_tiling` would forget their
size). With `fenced_relocs` it adds nothing to a buffer after `clear_relocs`, whose documentation
declares the accounting undefined from then on. The offsets that `exec` stores are left out.

**`GemGeometry`** has the numbers of `tile_size`, `tile_pitch`, `alloc_tiled` and the bucket
table, for the generations of chips, and the caches as far as sizes go. **`GemManager`** is the
list of managers, one per descriptor, with `init`, `find`, `unref` and `destroy` by threads; giving
up a reference is two steps, as in the code. **`GemAub`** is the trace that `exec` writes for a
simulator: the addresses, the blocks that annotations cut a buffer into, and the relocations
resolved while a buffer is written.

### Intel fake manager

**`Mm`** is `mm.c`: two lists through the blocks of a heap; `MmHeap` lets it run alone, with
failing `calloc`s. **`FakeBufmgr`** extends it with the buffers, the lists `lru`, `fenced` and
`on_hardware`, the fences (numbers wrap at `MAXFENCE`), eviction, the backing store and the
callbacks. Everything is under one mutex, so a call is a step; the card is external and executes
batches in order, at any time. Contents are a version and the offsets in the relocation entries;
`truth` records what the program may expect. **`FakeFence`** is the loop of
`_fence_wait_internal`, statement by statement, against a card that advances in between.

### Core library

**`KeyMap`** is the abstract specification of a map with an iterator; **`DrmHash`** (buckets that
every lookup reorganises) and **`DrmSkipList`** (forward pointers per level, every random height)
instantiate it with refinement mappings. What a lookup gives its caller is a constant of the map
(`Gives`): the value in the hash table, the private entry in the skip list. Without memory for an
entry the skip list writes through a null pointer, which ends it (`sllive`). **`DrmRandom`**
computes with 32-bit intermediate values and is compared with the definition of the generator.
**`DrmDevice`** models `drmOpen` by bus id and by name, the connections of `drmOpenOnce`, the tags
of contexts and the calls that repeat an ioctl; **`DrmMode`** the queries, one description of lists
and comparisons per call of the code, with a device whose lists change between the two ioctls, and
the loop of `drmHandleEvent`, kept as a stack because handlers may call it again; the history `due`
is the set of events that have a handler.

### Other drivers

**`GemHandles`** is the kernel they share (external): handles of one file, the lowest free number
first, flink names and dma-bufs that stand for the object. **`FdBo`**, **`OmapBo`** and **`NvBo`**
have tables or a list in which threads find buffers again; the lock sections are steps, and the
decrement before the lock is a step of its own, and so is, in freedreno, counting a buffer that was
taken out of the cache under the lock. An import of nouveau that fails after it has opened a handle
leaves it open (`lost`). **`RadeonBo`** and **`ExynosBo`** have no table.
**`Kms`** adds the choice of the back end and the sizes, in unsigned arithmetic of `KmsBits` bits.
**`DriverHandles`** puts these and `GemManager` side by side, for the one property that is asked of
all of them.

**`FdMsm`** and **`FdKgsl`** are ring buffers: the index tables of a parent ring, and the submit and
pending lists with timestamps of two pipes. **`NvPush`** is the largest: references, narrowing and
moving of buffers, totals per memory, undo and flush, and the buffer context. Every submission
answers with the limits of the memories, which the library takes over even when it was refused
(`limit`); `most` is the largest there were since a push buffer's lists were emptied. **`RadeonCs`**
has the identities, relocations and the space accounting shared by all streams, and the words of a
stream in their sections. **`RadeonSurface`** and **`Fimg2d`** are mostly pure: layouts of mipmap
levels for four families of chips, and clipping with the command lists. **`Bof`** builds, writes and
reads documents, with a disk that may keep only a beginning.

Where the code has an error that ends any hope of the invariant (a revival after the last
reference, a second structure for one handle, a lock that stays held), the module names it in a
history variable (`odd`, `dropped`, `late`, `stale`) at the step where it happens. The property
then holds up to that step, its comment says so, and section 5 lists the cases. Histories
that end nothing (`leaked`, `lost`, `counted`, `most`) name the handles, estimates and limits a property
speaks of. The properties are thus statements of exactly when the code is right.

## 3. Runs

| Run | Instance | States | Shows |
|---|---|---|---|
| `gem_helpers` | the mapping cache: 3 objects, nesting 2, limits -1, 0, 1, 4; or the relocation trees: 3 buffers of 256 pages, a generation 3 device with one free fence and a generation 4 device on which `malloc` may fail | 225 282 | counters exact, list surgery defined, mappings in use valid, limit kept; estimates, fence counts, aperture check and validation list against their definitions |
| `gem_share` | 2 threads, 2 objects | 544 712 | counts and reachability during teardown of relocation trees, names and exports |
| `gem_cache` | 1 thread, 2 objects, GPU, shrinker, clock to 2 | 1 166 713 | what the reuse cache holds and hands out |
| `gem_import` | 1 thread, 2 objects, one of them foreign, failing ioctls and allocations, mappings | 293 732 | handles not lost, and leaked only by the imports that find no memory; the mapping part implements `GemVma` |
| `gem_live` | 2 threads, 2 objects, fair | 116 172 | every call returns |
| `library` | the nine parts of the core library, one at a time | 219 896 | containers implement maps, the heap is tiled, counts, connections, queries, events and waits |
| `fake` | 3 buffers (a batch, one that takes up room, one of two units with contents), a heap of 3 units, 3 fences around the wrap; or the wait loop | 450 380 | lists, heap and assertions; contents seen by program and card; the honest wait |
| `drivers` | the seventeen parts of the drivers and the remaining Intel parts, one at a time | 896 066 | handles, submissions, space and sizes |
| `vma_rejected` (violation) | the kernel may reject a tiling | | a zeroed node is unlinked |
| `atomic_ops` (violation) | libatomic_ops build | | an object is freed while referenced |
| `gem_prime` (violation) | 2 threads, export and prime import | | two structures for one kernel object |
| `vblank_timeout` (violation) | as `library` | | `drmWaitVBlank` goes on after its second |

`gem_helpers`, `library`, `drivers` and `fake` start in one of several parts, chosen by a variable
that never changes (`lib`, `driver`, `part`), and leave the other parts at their initial states: the
parts do not share state in the code either, so this is a sum and not a product.

**Properties of the Intel parts.** `CountsExact`, `VirtualIsMapped` and `MappingsBounded` are about
the mapping cache; `NoVmaFault` and `NoGemFault` about undefined list surgery and failing
assertions. `RefcountsExact` counts the references of a relocation tree while a thread is half way
through releasing it, `InUseIsLive` says that nothing reachable is freed or recycled.
`OneBoPerObject` and `SharedIsNamed` are the sharing discipline, `HandlesMatch` the handle
discipline: structures and open handles correspond, except for the handles that imports left behind
when they found no memory, which no structure has. `CacheIsClean`, `InUseIsRetained`, `IdleIsIdle`
and `CacheIsYoung` are what the reuse cache promises. `RelocsAreTrees` is why the recursions end; it
speaks of the relocations that still hold a reference, since an entry a teardown has passed may
outlive its target. `CallsReturn` is liveness. `MappingsImplemented` states that the composed
system, seen from its mappings, is a behaviour of `VmaSpec`. `ApertureIsJudged` relates the cached
estimates, and the walk that replaces them, to the sizes of trees with shared subtrees:
`check_aperture_space` accepts exactly when the sizes of the distinct buffers fit in three quarters
of the aperture. Whether the buffers fit is a different question for tiled buffers of the older
chipsets, which may need a hole of twice their size: the estimate has room for the holes until a
count replaces it, and the count leaves them out (section 5). `FencesCovered` does the same for
fence registers, `ValidationListIsOrdered` for the list the kernel gets.

`FakeSound` is the manager's lists, heap and assertions; `MappedIsCurrent` and `CardReadsCurrent`
say that the contents, wherever they have travelled, are the expected ones for the program and the
card; `WaitIsHonestButLate` that a wait for a fence returns after the fence, but for one race.

**Properties of the core library.** `HashImplementsMap` and `SkipListImplementsMap` are refinements
of `KeyMap`; `IterationIsExact` says what an undisturbed walk delivers, which is not what one would
expect (section 5). `HeapIsSound`: the blocks tile the heap, the free list is exact, neighbours are
joined. `CountExact`, `FreedUnreferenced` and `LastReferenceFrees` (liveness) are about the count.
`DevicesSound` and `AnswersAreSnapshots` are about connections and queries. `EventsInOrder`: the
events given to handlers are those that have one, each once and in order, less those still in the
kernel's queue or ahead of a walk under way. `WaitsAreBounded` says exactly when an interrupted wait
goes on, which is not what the code's comment says: that is `TimesOutAfterASecond`, and run
`vblank_timeout` refutes it. `RandomIsMinimalStandard` compares the generator with its definition.

**Properties of `drivers`** are one question each, asked of every part it applies to:

| | Parts |
|---|---|
| `HandlesSound`: structures and kernel handles correspond, none lost, shared or leaked | `FdSound`, `OmapSound`, `NvSound`, `RadeonBoSound`, `ExynosBoSound`, `KmsHandlesMatch`; `ManagersShared` for the managers |
| `SubmissionsHold`: what a stream refers to is listed, indexed and kept until the device is done | `StreamsHoldTheirBuffers`, `MsmIndicesAreRight`, `ContextIsListed`, `WaitIsOver`, `KgslRetains`, `AubReplays`; `BofCounted` for documents |
| `SpaceSuffices`: the totals never fall below what the buffers need | `SpaceIsConservative` |
| `EverythingFits`: nothing is written or laid out beyond what was allocated | `StreamFits`, `PushFits`, `PictureFits`, `AreasInside`, `ListsAreWhole`, `LevelsAreApart`, `BestIsAccepted`, `TiledPictureFits`, `BucketsAreExact`, `BofRoundTrip` |

**Bounds.** `MaxMapCount` 2 distinguishes the first, a nested and the last mapping. Two objects
and `MaxRelocs` 1 give a tree, a self-relocation and a target that is shared with the application;
`MaxRefs` 2 gives the last reference and one more. Two handles make every close reuse a number at
once. `MaxTime` 2 is the first value at which an entry of time 0 expires. Three threads are needed
for a compare-and-swap to fail twice; two for every interleaving of a call with another's lock
section. Instances are split by the operations they use because their product is too large; every
action fires in some run. `CacheIsYoung` and `IdleIsIdle` are checked with one thread, because the
code reads the clock before it takes the lock and stores the answer of the busy ioctl without it:
with two threads both fail, in ways the hazards describe.

In `gem_helpers` three buffers give a chain, a diamond and, once a count has shrunk an estimate, a
batch with two tiled targets. The aperture of 900 pages accepts two buffers and rejects three, so
estimates must be replaced by counts. `MaxTree` (1024 pages) lets a buffer be counted once too
often; without such a bound an estimate would grow with every clear and refill. `max_total` bounds
the relocations present at a time, to two where fences add to the state. Below `MaxTree` no 32-bit
sum wraps: a batch that refers to large buffers often enough without a check in between would
overflow its estimate, which the run therefore does not cover.

In `library`, four buckets and four keys put two keys in one bucket, one in bucket 0 and one in the
last; two levels make towers of different heights. A heap of 6 units from offset 2 gives free blocks
on both sides of an allocated one and alignments that cut twice. Three minors and two connection
slots fill both tables. A list of a query changes up to `QMaxChanges` times, so a retry can meet
another change; `EvDepth` 2 is a handler inside a handler. The clock of the waits ticks twice a
second (`WTicks`).

In `fake`, a heap of 3 units and buffers of 1, 1 and 2 cannot hold everything, so every use evicts.
The buffer of two units is the one whose contents are followed: the program and the card write it,
up to two versions, while it lives in the heap, as a static buffer, or without backing store, where
it is mapped on the card. The third buffer takes up room in batches and is never mapped
(`MaxMaps`). A name of a buffer is used again only when no batch in flight still uses the static
buffer it stood for (`Unnamed`): the program gives each static buffer memory of its own. The
fences start at 29 of 31 so that the third has wrapped. The wait loop has the case distances of the
code in proportion (`WaitMax`, `FenceWindow`); three fences in flight and numbers up to 9 are the
tightest values that `FenceAssumption` allows.

In `drivers`, two structures and one or two kernel objects, some foreign, suffice for a twin, a
reused number and a revival. `NvpLimit`, 1 unit of VRAM and 3 of GART, makes a buffer of two units
move; a refused submission leaves these limits, less GART (2) or, when the kernel did not get to
fill them in, zero. Only the first submission of a call is answered freely, the later ones are
taken. `IdBits` 1 makes the second radeon stream the one without identity. `G2D_MAX_GEM_CMD_NR` 3 is
reached within one operation. `KmsBits` 6, `G2dBits` 3 and `SurfBits` 20 put the wrap of unsigned
within reach of the inputs. Geometry uses the numbers of the code, with sizes at the edges: a page,
just above a bucket, just above the largest bucket. `FdMaxTime` 3 lets a buffer freed in the first
second expire. One of the two kgsl buffers is shared by name, so that the pipes' lists mix both
kinds; two relocations (`AubMaxRelocs`) are a chain or a shared target. The copies of `Fimg2d` start
inside, on and beyond an edge.

**Symmetry** permutes threads, structures and kernel objects in the GEM runs of safety properties
only, and kernel objects only where none is foreign. The other runs use none.

**Fairness.** In `gem_live` and for the reference count of `library`, a thread inside a call keeps
running (weak fairness on the steps of a call); a thread that waits for the mutex gets it if it is
free again and again (strong fairness), which glibc's mutex does not promise in the abstract but a
scheduler that does not starve threads gives. Nothing is assumed about the application, the GPU, the
shrinker or other processes.

**Deadlock** is checked in the GEM runs. In `library`, `fake` and `drivers` it is not, because parts
of them end: an assertion of the fake manager stops the program, a freed object, a generated
sequence, a computed layout or a behaviour cut off at a history flag has no successor.

## 4. Proofs

Every theorem holds for all values of the constants that satisfy the named assumptions of the
modules; a theorem with a further hypothesis names it here.

**Mappings (`GemVmaProofs`).** For every finite set of objects, all limits and every nesting depth,
and provided that the kernel rejects no tiling (the case the run `vma_rejected` refutes), the type
invariant, `NoVmaFault`, `CountsExact`, `VirtualIsMapped` and `MappingsBounded` always hold. None of
them is inductive alone: that the purge loop ends inside the list follows only if every mapping not
in use belongs to an object *on the list*, which in turn depends on what each node's pointers hold.
The invariant `VmaInv` adds exactly that (`Listed`, `NodeOK`) and the limit as it holds between
operations (`Bounded`). One lemma per operator shows that it preserves the part `Good`; `EvictGood`
and `PurgeEnds` are the heart, and rest on `CardinalitySplit`, `RemoveItemItems` and
`DropFirstItems` of `DrmListsProofs`.

**Buffer objects (`GemBoProofs`).** For any number of threads, structures, kernel objects and
buckets, again provided that the kernel rejects no tiling (`TRUE \notin CanReject`):
`GemRefcountsExact`, `GemInUseIsLive`, `GemNothingLeaks`, type correctness, and that the manager
implements `VmaSpec` (`GemImplementsVma`), from which `GemMappingsSound` carries the theorems of
`GemVmaProofs` over. All of them follow from one inductive invariant, `CoreInv`, because no part of
it survives a step without the others:

| Part | Says | Needed because |
|---|---|---|
| `CountInv` | the count is the references held, lent to calls and in relocations not yet passed | this is the theorem; a count that is not exact frees too early |
| `BorrowInv`, `LockInv` | which calls own a reference to which object; the lock is held exactly inside its sections | a call gives back what it was lent, and only one thread walks frames |
| `FramesInv`, `ClearInv` | the stack of `unreference_final` has live, distinct objects, all but the first without references, and positions within their relocations | the relocations behind the position are still counted, those before it are not |
| `LeakInv` | an object in use without references is on such a stack | otherwise nobody would ever retire it |
| `ParkedInv` | what is freed or cached has no references, relocations or mappings | alloc hands it out as it is |
| `CacheInv`, `NamedInv`, `RelocLen` | the lists hold each object once, and only objects of the right kind | removal from a list removes all of it |
| `GemTypeOK`, `VmaInv` | types; the invariant of the mappings | every operator of `GemVma` is applied where its lemma allows |

Each action has a lemma for `CoreInv`. Actions that change one object and one thread go through a
class lemma (`CalmInv`, `WorkInv`, `RefHeldInv`, `RefBorrowInv`, ...) that says which fields they
leave alone; the turns of `unreference_final` (`AdvanceInv`, `DropTargetInv`, `RetireBoInv`) are the
hard ones.

**Handles, sharing, relocation trees, the age of the cache (`GemShareProofs`).** `CoreInv` says
nothing of the kernel objects behind the structures. `ShareInv` does, and is inductive together with
it:

| Part | Says | Needed because |
|---|---|---|
| `FileInv` | an object has one handle in the file | GEM_OPEN answers with the handle there is, so a search by handle decides whether a structure exists |
| `OpenInv`, `ApartInv` | the handle of a live structure is open, and no two live structures have the same | freeing one structure must not close another's handle |
| `CoveredInv` | an open handle belongs to a live structure, or is one that an import without memory left behind; no live structure has such a handle | a handle that was lost otherwise would be found again without structure |
| `PrivateInv`, `LinkInv` | what is reusable is not shared; what a node of `name_list` holds agrees with the list, and only a buffer whose export is under way is both listed and reusable | unreference_final puts reusable buffers in the cache and deletes the others from the list |
| `ExportInv`, `PrimeFree` | what calls of export and import hold between their two sections | the lock is not held in between |
| `RetainedInv` | the kernel may discard only what the cache holds | alloc takes the advice back before it hands a buffer out |
| `SharedIsNamed`, `NoGemFault` | as checked by the runs | |

From it follow `GemOneBoPerObject`, `GemSharedIsNamed`, `GemNeverFaults`, `GemCacheIsClean`,
`GemInUseIsRetained` and `GemHandlesMatch`. All assume `Disciplined`: the kernel rejects no tiling
(run `vma_rejected` shows what happens otherwise), nobody imports dma-bufs (run `gem_prime`), and
HANDLE_TO_FD does not fail after export has put the buffer on the list, where the buffer would stay
reusable and reach the cache with its node still linked. `GemHandlesMatch` assumes in addition that
the tiling of an object opened by name can be read, because otherwise the call waits for its own
lock with a handle that no structure has. Everything else in `Fails` may happen.

`GemRelocsAreTrees` needs of these only that no tiling is rejected. It is inductive with `CoreInv`:
the actions either drop references of relocations (`TreesShrink`), add one from a buffer that is no
target yet (`TreesGrow`, the check of `used_as_reloc_target` in `do_bo_emit_reloc`), or leave them
alone (`TreesStay`). The attempt to prove an earlier statement, over all entries of all relocation
lists, failed because it is false: after a teardown has passed an entry, its target may be freed and
used again.

`GemCacheIsYoung` and `GemIdleIsIdle` assume `OneThread`, because the code reads the clock before it
takes the lock and stores the answer of the busy ioctl after the moment it is true of. They hold for
any number of objects, buckets and seconds. `YoungInv` orders the times: last cleanup, every
entry of a bucket from head to tail, the time the thread has read for what it is freeing, the clock.
A cleanup that stops at the first young entry of a bucket is right only because of that order, and
the order survives because an entry is appended with a time no smaller than any in the cache and the
rest of the code only takes entries out (`Within`). `IdleInv` adds to `IdleIsIdle` what is known
between the ioctl and the store. An execution clears the flag of the whole tree, which contains only
live objects because no teardown is under way (`ReachUsed`); that no other structure stands for one
of its objects is `ShareInv`, and that other processes render to nothing that is reusable is
`PrivateInv`, so `GemIdleIsIdle` assumes `Disciplined` too. `GemCacheIsYoung` assumes of it only that
no tiling is rejected. `Plain` covers the actions that neither depends on.

**Core library (`LibraryProofs`).** `VBlankWaitsBounded`: however many signals interrupt
`drmWaitVBlank`, it gives up only after a second, and repeats the ioctl only within that second or in
the second of the clock that its two tests leave out, which is within three.
`QueriesAnswerSnapshots`: for lists of any length, changing in any way between the two ioctls of a
query, the answer is complete and within its arrays. `DrawIsExact` and `RandomStaysInRange`: the
split multiplication of `drmRandom` computes the remainder it stands for, stays within 32 bits and
never sticks at zero. `ConnectionsShared`: on any machine and for any number of descriptors, the
table of `drmOpenOnce` counts its holders exactly and shares no entry, and no table of tags
outlives its device.

**The hash table (`LibraryProofs`).** `HashIsMap` is the refinement that the run `library` checks:
`DrmHash` implements `KeyMap` for any size of the table, any keys and values, and failing
allocations. The invariant `HashInv` says that each key is in the bucket of its hash, once, exactly
when the map has it, and that the iterator's pointer is an entry of the bucket it was loaded from;
the last part is what makes every entry the iterator delivers one of the map.
`HashIterates` proves `IterationIsExact`: `IterInv` computes how often each remaining entry has been
delivered from the iterator's position alone, so that it survives the deletion of other entries, and
at the end of the table it is the number the property names. The proof needs at least two buckets:
with one, the first pass would be its only one. `HashRange`, that the hash function stays
inside the table, is assumed for the proofs and evaluated by TLC, because the function is a loop over
the bytes of the key.

**Reference counts (`LibraryProofs`).** For any number of threads and references, for the gcc
build, the count is exact and nothing is freed early. The strengthening `RefInv` says that a thread
inside the loop never holds the value 1, and that the lock is held by the one thread past it.

**The heap of `mm.c` (`FakeProofs`).** `HeapAlwaysSound`: for every size of the heap, of the requests,
of the alignments and of `startSearch`, whatever is freed, twice if need be, and whichever calloc
fails, the blocks tile the heap and the free list has exactly the free ones. Free neighbours are
joined unless a calloc failed between the two cuts of a slice. The invariant `MmInv` orders *any two*
blocks of the list and not only neighbours, because a block is found by its offset, and a cut or a
join shifts the positions of all that follow. `JoinedBeside` and `JoinedAfter` say what a slice and
a free leave to be joined: at most the pair before and the pair behind the block they touched.

**Waiting for a fence (`FakeProofs`).** `WaitAlwaysHonest`: for all widths of the fence numbers and
every bound on the fences in flight below half of them, the wait ends with success only when the
card has passed the fence, or has wrapped around since the kernel last answered. The invariant
`WaitInv` ties the number the card shows, and the kernel's answer, to how far the card really is. The
proof showed that twice the fences in flight must stay *two* below the numbers there are: the
tests of cases C and D are strict, so a distance of exactly half is judged wrongly. TLC confirms
the violation at that edge.

**Buffer managers (`DriverProofs`).** `ManagersAlwaysShared`: for any number of threads, descriptors
and references, `ManagersShared` holds (the part of `HandlesSound` that is about the managers of
`GemManager`). The invariant `GmInv` counts references as a set of tokens, those
a thread holds and the one with which it waits for the mutex after `atomic_add_unless` declined: the
second decision under the mutex is right because that reference is still counted while another
thread finds the manager on the list and takes one more.

**Handles of the drivers (`DriverProofs`).** `HandlesAlwaysSound`: for any sets of structures, kernel
objects and threads, finite or not, and every bound on references, deletions under way, mappings and
time, `HandlesSound` holds in every state of `HandlesSpec`, the specification of the library in use.
It is proved library by library, since a step of one leaves the others alone; each has an inductive
invariant, over common lemmas that say what the ioctls do to the handles of a file (`GemCreateIs`,
`GemOpenIs`, `PrimeOpenIs`, `GemCloseIs`, ...). What each invariant adds to its property:

| Library | Invariant | Adds |
|---|---|---|
| freedreno | `FdOK` | a live structure has references or *exactly one* deletion under way; one taken out of the cache has neither until it is counted; the tables lead back and forth; the bucket has each cached structure once, and cleaning has a time to compare with whenever it is not empty; the device counts at least the live structures, so that it closes only when all are in the cache or gone, and closing empties the cache |
| omap | `OmOK` | a structure is live exactly while it has references; both directions of the table; the count of the device is users plus structures, those between closing the handle and `omap_device_del` included |
| nouveau | `NvOK` | a structure off the list has no name, and a handle that the kernel finds again by dma-buf belongs to a named one: this is why nothing can find the buffer that `nouveau_bo_del` is about to close outside the lock |
| radeon | `RadOK` | the successful maps are all of them or none; one structure per handle |
| exynos | `ExOK` | nothing beyond the shapes of the records |
| libkms | `KmsOK` | mappings held are at most those counted; the matching, for every back end but vmwgfx |
| managers | `GmInv` | see above |

Where a module records an error of the code in `odd`, the invariant says nothing of the handles from
that step on, as the property does. The nouveau model stops after the errors it records (the lock
that `name_ref` keeps, a name stored astray, a second thread that finds its buffer freed), and the
property holds there as well. The handles of failed imports are in `NvSound` itself: it says that
they are those that `lost` names, and that no structure has one of them. The removal of old buffers
in freedreno's `fd_cleanup_bo_cache` is the set of the buffers at the front of the bucket that are
older than a second, because a recursive definition is out of the prover's reach; `FdCleanOK` shows
that it leaves an exact cache.

**Only model-checked.** Liveness (`LastReferenceFrees`, `CallsReturn`) is out of the prover's reach.
The second part of `RandomIsMinimalStandard`, the published ten thousandth number, is an induction
over data; its step is `DrawIsExact`. `GemReloc` and `FakeBufmgr` are recursive throughout (walks
over relocation trees, eviction). `IdleIsIdle` and `CacheIsYoung` of `GemBo` are proved, as they are
checked, for one thread only. The events are read from a recursive function over the buffer. The
skip list and its refinement of `KeyMap`, and of the drivers `SubmissionsHold`, `SpaceSuffices` and
`EverythingFits` (sums over streams, and arithmetic on inputs), are checked and not proved.

## 5. What the work found

Shown by runs that expect a violation:

1. `create_from_prime` can make two structures for one kernel object (run `gem_prime`).
2. The failure path of `alloc_internal` unlinks a zeroed list node (run `vma_rejected`).
3. With libatomic_ops, `atomic_add_unless` decrements more than once (run `atomic_ops`).
4. `drmWaitVBlank` goes on after the second that its comment promises: the deadline, which is a
   second after the start, is compared by seconds plus one and by nanoseconds in its own second only
   (run `vblank_timeout`).

Cases that the properties name as their exceptions, or that reading the code for the models showed:

* *Intel GEM.* `create_from_name` waits for its own lock when GET_TILING fails (the failure is in
  `GemBo`, no run enables it). It and `create_from_prime` leave the handle they opened behind when
  there is no memory for the structure (`HandlesMatch`); the import may be repeated and then takes
  the handle over. A failed export leaves a buffer listed and reusable, so that it reaches the cache
  with its node linked (in `GemBo`, no run enables it). `compute_batch_space` counts sizes, while
  `set_in_aperture_size` says that a tiled buffer of the older chipsets may need a hole of twice its
  size: a batch that is accepted after a count may not fit, and the count, stored as the new
  estimate of the first buffer, is less than that estimate was (`ApertureIsJudged`). A manager stays
  listed under its descriptor after the program has closed the file, so a later file with that
  number gets it. Nested write mappings share `mapped_cpu_write`, so what is written after the first
  unmap is not flushed (not modelled). `dump_bmp` uses the address a buffer had in an older frame.
* *Fake manager.* `evict_all` gives up clean blocks without marking their buffers dirty, and
  `kick_all` gives up buffers without backing store without the callback. Case C of the fence wait
  never clears the fenced list, which makes `wait_idle` endless. A wait can end early when the card
  wraps just after the kernel has answered, or when exactly half of the numbers are in flight.
* *Containers.* `drmHashFirst` and `drmHashNext` deliver bucket 0 twice and the last bucket never;
  `drmSLLookup` answers with the library's private entry and not with its value, which is all that a
  caller could use; `drmSLInsert` writes through a null pointer when there is no memory for an entry,
  after it has raised the level of the list.
* *Core and mode setting.* Beyond a full table `drmOpenOnce` shares nothing. `drmGetBusid`,
  `drmGetBufInfo` and `drmMapBufs` trust that no list grows between their two ioctls. A handler that
  calls `drmHandleEvent` overtakes the events of the buffer it is called from.
* *Freedreno and OMAP.* A lookup between the decrement and the lock revives a buffer that is then
  freed; `from_handle` and `from_dmabuf` make twins, and `from_dmabuf` without memory for its
  structure closes the handle of the structure that has it. An msm buffer used by two rings of a pipe at
  once has the wrong index in one of them. A failed kgsl submission releases buffers in use.
* *Nouveau.* `name_ref` keeps the lock when GEM_OPEN fails; a buffer revived and dropped again is
  freed twice. An import whose GEM_INFO or allocation fails leaves its handle open, and `name_ref` then
  stores the name through whatever the caller's pointer held before. A refused submission may lower
  `vram_limit` and `gart_limit`, to zero when the kernel did not look at it, below what push buffers
  have already counted. Three endings leave `ContextIsListed` and `PushFits` without meaning, and the
  model stops there: validation that fails twice leaves buffers current that it has taken off the list
  (`given up`), validation that calls itself for ever (`no end`), and a list that lost the push buffer's
  own words, whose index is then computed from a null pointer (`words of an unlisted buffer`).
* *Radeon.* A failed map is counted; opening an object twice, or importing it twice, makes twins; a
  buffer accounted before another stream was emitted is missing from the totals; the sanity check of
  surfaces turns 2D into 1D for itself only; a document whose member grew after it was attached is
  written with wrong sizes; the error path of `bof_load_file` follows entries that were announced and
  never read, so how a file that ends early is refused is undefined.
* *Exynos, libkms.* `g2d_copy` clips width by the wrong operand and may leave the image; refused
  operations leave their register writes to the next one; sizes of pictures wrap; vmwgfx closes with
  a handle it has overwritten.

## 6. Plan

Modelling is as far as section 7 allows. What would be worth proving next: the submission
lists of msm and kgsl (`SubmissionsHold`), `FakeSound` and the contents of the fake manager on
`HeapAlwaysSound` once eviction is written without recursion, and `SkipListImplementsMap`.

## 7. Not modelled

`intel_decode.c` prints command streams and keeps no state that outlives a call. The kernel headers
are declarations. The tests and tools exercise the library. Most of the rest of `xf86drm.c` and
`xf86drmMode.c` fills ioctl arguments and returns what the kernel says. In the drivers: nouveau's
devices, clients and objects (one structure around one ioctl each) and push buffers without a
channel; parameters of pipes and devices; the probing of chips in `drm_intel_bufmgr_gem_init`; user
pointers, the public `set_tiling`, `madvise` and `wait` of the GEM manager; `tiling_index` of radeon
surfaces. All printing, names and statistics.

Memory runs out in the models where the code's handling of it matters to the state: relocation lists,
slices of the heap, structures for handles that are already open (GEM, nouveau, freedreno, omap),
entries of the hash table and of the skip list, arrays of queries. Where a
structure is allocated before anything else happens, its failure changes nothing and is no step.
Elsewhere, as in the fake manager, the tables of the drivers and the lists of their streams,
allocations succeed.
