------------------------------- MODULE GemVma -------------------------------
(***************************************************************************)
(* CPU and GTT mappings of GEM buffer objects and the cache of idle        *)
(* mappings (intel/intel_bufmgr_gem.c: map, map_gtt, unmap, open_vma,      *)
(* close_vma, purge_vma_cache, and the mapping half of free and of the     *)
(* final unreference).                                                     *)
(*                                                                         *)
(* A mapping outlives the last unmap: the object moves to vma_cache and    *)
(* its mappings are counted in vma_count until the object is mapped again, *)
(* freed, or evicted because vma_count exceeds a limit that shrinks with   *)
(* the number of objects currently mapped.  Every operation here runs      *)
(* under bufmgr_gem->lock, so an operation is one step.  They are written  *)
(* as functions of the mapping state so that an operation that calls       *)
(* several of them composes them in the order of the code.                 *)
(***************************************************************************)
EXTENDS DrmLists, FiniteSets

CONSTANTS
  Bos,         \* the drm_intel_bo_gem structures that may exist
  VmaLimits,   \* arguments of drm_intel_bufmgr_gem_set_vma_cache_size
  MaxMapCount, \* bound: how deep the application nests mappings of an object
  CanReject    \* subset of BOOLEAN: may the kernel reject SET_TILING

ASSUME BosAssumption == IsFiniteSet(Bos)
ASSUME VmaLimitsAssumption == VmaLimits \subseteq Int
ASSUME MaxMapCountAssumption == MaxMapCount \in Nat
ASSUME CanRejectAssumption == CanReject \subseteq BOOLEAN

VARIABLE vma   \* the mapping state, a VmaState

(* The fields of drm_intel_bo_gem and drm_intel_bufmgr_gem involved.  fault *)
(* records undefined list surgery or a failed assert.                       *)
VmaState ==
  [ map_count : [Bos -> Nat],
    mem       : SUBSET Bos,                     \* mem_virtual # NULL
    gtt       : SUBSET Bos,                     \* gtt_virtual # NULL
    virtual   : [Bos -> {"null", "mem", "gtt"}],\* where bo->virtual points
    cpu_write : SUBSET Bos,                     \* mapped_cpu_write
    link      : [Bos -> Links],                 \* the node vma_list
    cache     : Seq(Bos),                       \* bufmgr_gem->vma_cache
    count     : Int,
    open      : Int,
    max       : Int,
    fault     : BOOLEAN ]

VmaInit ==
  vma = [ map_count |-> [b \in Bos |-> 0],
          mem       |-> {},
          gtt       |-> {},
          virtual   |-> [b \in Bos |-> "null"],
          cpu_write |-> {},
          link      |-> [b \in Bos |-> "zero"],
          cache     |-> << >>,
          count     |-> 0,
          open      |-> 0,
          max       |-> -1,
          fault     |-> FALSE ]

-----------------------------------------------------------------------------
(* How many of the two mappings b has.                                     *)
Mappings(v, b) == (IF b \in v.mem THEN 1 ELSE 0) + (IF b \in v.gtt THEN 1 ELSE 0)

(* The first n cached objects, and vma_count once they are evicted.        *)
Oldest(v, n) == {v.cache[i] : i \in 1 .. n}
CountWithout(v, evicted) ==
  v.count - Cardinality(v.mem \cap evicted) - Cardinality(v.gtt \cap evicted)

VmaLimit(v) == IF v.max - 2 * v.open < 0 THEN 0 ELSE v.max - 2 * v.open

(* The numbers of evictions that bring vma_count within the limit; the     *)
(* loop evicts from the old end and stops at the smallest.                 *)
EnoughEvicted(v) ==
  {n \in 0 .. Len(v.cache) : CountWithout(v, Oldest(v, n)) <= VmaLimit(v)}

(* Mutation of Evict: DRMLISTDEL in place of DRMLISTDELINIT.               *)
EvictWithoutInit(v, n) ==
  LET evicted == Oldest(v, n)
  IN  [v EXCEPT !.cache = DropFirst(@, n),
                !.mem   = @ \ evicted,
                !.gtt   = @ \ evicted,
                !.count = CountWithout(v, evicted),
                !.link  = [b \in Bos |-> IF b \in evicted THEN "stale" ELSE @[b]]]

Evict(v, n) ==
  LET evicted == Oldest(v, n)
  IN  [v EXCEPT !.cache = DropFirst(@, n),
                !.mem   = @ \ evicted,
                !.gtt   = @ \ evicted,
                !.count = CountWithout(v, evicted),
                !.link  = [b \in Bos |-> IF b \in evicted THEN "self" ELSE @[b]],
                !.fault = @ \/ \E b \in evicted : v.map_count[b] # 0]

(* Were the list to run out first, the loop would go on and take the list  *)
(* head itself for an object.                                              *)
PurgeVmaCache(v) ==
  LET enough == EnoughEvicted(v)
  IN  CASE v.max < 0 -> v
        [] v.max >= 0 /\ enough # {} ->
             Evict(v, CHOOSE n \in enough : \A m \in enough : n <= m)
        [] v.max >= 0 /\ enough = {} -> [v EXCEPT !.fault = TRUE]

(* Mutation of OpenVma: the object stays on vma_cache.                     *)
OpenVmaStillCached(v, b) ==
  PurgeVmaCache([v EXCEPT !.open = @ + 1, !.count = @ - Mappings(v, b)])

OpenVma(v, b) ==
  PurgeVmaCache([v EXCEPT !.open    = @ + 1,
                          !.cache   = RemoveItem(@, b),
                          !.link[b] = AfterDel(@),
                          !.fault   = @ \/ DelFaults(v.link[b]),
                          !.count   = @ - Mappings(v, b)])

(* Mutations of CloseVma: only one of the two mappings is counted; the     *)
(* limit is not enforced.                                                  *)
CloseVmaCountsOnce(v, b) ==
  PurgeVmaCache([v EXCEPT !.open = @ - 1, !.cache = Append(@, b), !.link[b] = "linked",
                          !.count = @ + (IF Mappings(v, b) > 0 THEN 1 ELSE 0)])
CloseVmaUnlimited(v, b) ==
  [v EXCEPT !.open = @ - 1, !.cache = Append(@, b), !.link[b] = "linked",
            !.count = @ + Mappings(v, b)]

CloseVma(v, b) ==
  PurgeVmaCache([v EXCEPT !.open    = @ - 1,
                          !.cache   = Append(@, b),
                          !.link[b] = "linked",
                          !.count   = @ + Mappings(v, b)])

(* map_count++ and --map_count with the calls they trigger.                *)
GetMap(v, b) ==
  LET w == [v EXCEPT !.map_count[b] = @ + 1]
  IN  IF v.map_count[b] = 0 THEN OpenVma(w, b) ELSE w
PutMap(v, b) ==
  LET w == [v EXCEPT !.map_count[b] = @ - 1]
  IN  IF v.map_count[b] = 1 THEN CloseVma(w, b) ELSE w

(* drm_intel_gem_bo_map: the mapping is created unless a cached one        *)
(* exists, which the kernel may refuse (ok = FALSE).                       *)
MapCpu(v, b, write, ok) ==
  LET w == GetMap(v, b)
  IN  IF b \notin w.mem /\ ~ok
      THEN PutMap(w, b)
      ELSE [w EXCEPT !.mem        = @ \cup {b},
                     !.virtual[b] = "mem",
                     !.cpu_write  = IF write THEN @ \cup {b} ELSE @]

(* map_gtt, shared by drm_intel_gem_bo_map_gtt and _map_unsynchronized;    *)
(* the ioctl and the mmap fail alike.                                      *)
MapGtt(v, b, ok) ==
  LET w == GetMap(v, b)
  IN  IF b \notin w.gtt /\ ~ok
      THEN PutMap(w, b)
      ELSE [w EXCEPT !.gtt = @ \cup {b}, !.virtual[b] = "gtt"]

(* drm_intel_gem_bo_unmap of a mapped object; SW_FINISH clears cpu_write.  *)
UnmapBo(v, b) ==
  LET w == PutMap([v EXCEPT !.cpu_write = @ \ {b}], b)
  IN  IF w.map_count[b] = 0 THEN [w EXCEPT !.virtual[b] = "null"] ELSE w

(* The mapping half of drm_intel_gem_bo_free: the structure is gone, and   *)
(* whatever uses its memory next starts from zeroed pointers.              *)
FreeVma(v, b) ==
  [v EXCEPT !.fault        = @ \/ DelFaults(v.link[b]),
            !.cache        = RemoveItem(@, b),
            !.count        = @ - Mappings(v, b),
            !.mem          = @ \ {b},
            !.gtt          = @ \ {b},
            !.link[b]      = "zero",
            !.virtual[b]   = "null",
            !.cpu_write    = @ \ {b}]

(* "Clear any left-over mappings" in unreference_final.                    *)
DropMappings(v, b) ==
  IF v.map_count[b] = 0 THEN v
  ELSE CloseVma([v EXCEPT !.map_count[b] = 0], b)

-----------------------------------------------------------------------------
(* DRMINITLISTHEAD(&bo_gem->vma_list) when an object has been created.     *)
InitVmaList(v, b) == [v EXCEPT !.link[b] = "self"]

Exists(v, b) == v.link[b] # "zero"

(* Creation of an object: drm_intel_gem_bo_alloc_internal frees the        *)
(* structure when the kernel rejects its tiling, before it has initialised *)
(* vma_list.                                                               *)
Create(b) ==
  /\ ~Exists(vma, b)
  /\ \/ vma' = InitVmaList(vma, b)
     \/ TRUE \in CanReject /\ vma' = FreeVma(vma, b)

Map(b) ==
  /\ Exists(vma, b)
  /\ vma.map_count[b] < MaxMapCount
  /\ \E write, ok \in BOOLEAN : vma' = MapCpu(vma, b, write, ok)

MapGttOrUnsynchronized(b) ==
  /\ Exists(vma, b)
  /\ vma.map_count[b] < MaxMapCount
  /\ \E ok \in BOOLEAN : vma' = MapGtt(vma, b, ok)

Unmap(b) ==
  /\ Exists(vma, b)
  /\ vma.map_count[b] > 0
  /\ vma' = UnmapBo(vma, b)

(* The last reference goes: the object is kept for reuse with its cached   *)
(* mappings, or freed.                                                     *)
Retire(b) ==
  /\ Exists(vma, b)
  /\ vma.map_count[b] > 0
  /\ vma' = DropMappings(vma, b)

Free(b) ==
  /\ Exists(vma, b)
  /\ vma' = FreeVma(DropMappings(vma, b), b)

SetVmaCacheSize(limit) == vma' = PurgeVmaCache([vma EXCEPT !.max = limit])

VmaNext ==
  \/ \E b \in Bos : \/ Create(b) \/ Map(b) \/ MapGttOrUnsynchronized(b)
                    \/ Unmap(b) \/ Retire(b) \/ Free(b)
  \/ \E limit \in VmaLimits : SetVmaCacheSize(limit)

VmaSpec == VmaInit /\ [][VmaNext]_vma
-----------------------------------------------------------------------------
(* Type correctness of the mapping state.                                  *)
VmaTypeOK == vma \in VmaState

(* The list surgery of open_vma, close_vma, purge_vma_cache and bo_free is *)
(* always defined: no node that is zeroed or stale is unlinked, the purge  *)
(* loop never runs past the end of vma_cache, and its assertion            *)
(* map_count == 0 never fails.                                             *)
NoVmaFault == ~vma.fault

Closed(v) == {b \in Bos : v.map_count[b] = 0}
Cached(v) == Cardinality(v.mem \cap Closed(v)) + Cardinality(v.gtt \cap Closed(v))

(* vma_count, which five functions adjust by hand, is the number of        *)
(* mappings held by objects nobody has mapped, and vma_open is the number  *)
(* of objects with a mapping in use.                                       *)
CountsExact ==
  /\ vma.count = Cached(vma)
  /\ vma.open = Cardinality(Bos \ Closed(vma))

VirtualMapped(v) ==
  \A b \in Bos : v.map_count[b] > 0 =>
    \/ v.virtual[b] = "mem" /\ b \in v.mem
    \/ v.virtual[b] = "gtt" /\ b \in v.gtt

(* While an object is mapped bo->virtual addresses a mapping that has not  *)
(* been unmapped, whatever was evicted meanwhile (the return value of      *)
(* drm_intel_bo_map stays usable until the matching unmap).                *)
VirtualIsMapped == VirtualMapped(vma)

(* With a limit set, the process keeps no more mappings than the limit, or *)
(* keeps only those of objects in use: the purpose of purge_vma_cache.     *)
MappingsBounded ==
  vma.max >= 0 =>
    \/ Cardinality(vma.mem) + Cardinality(vma.gtt) <= vma.max
    \/ vma.mem \cup vma.gtt \subseteq Bos \ Closed(vma)

-----------------------------------------------------------------------------
(* The strengthening that makes the properties above inductive: which      *)
(* objects are on vma_cache, what their list nodes hold and which of them  *)
(* have mappings.                                                          *)
NodeOK(v, b) ==
  /\ v.link[b] = "linked" => v.map_count[b] = 0
  /\ v.link[b] = "stale"  => v.map_count[b] > 0
  /\ v.link[b] = "zero"   => v.map_count[b] = 0
  /\ v.link[b] # "linked" /\ v.map_count[b] = 0 => b \notin v.mem \cup v.gtt

(* An object is on vma_cache exactly while it has been mapped, is not      *)
(* mapped now and has not been evicted; a mapping not in use belongs to a  *)
(* cached object, which the purge can therefore find.                      *)
Listed(v) ==
  /\ NoDuplicates(v.cache)
  /\ Items(v.cache) = {b \in Bos : v.link[b] = "linked"}
  /\ \A b \in Bos : NodeOK(v, b)

(* The limit holds after every operation, not only after a purge.          *)
Bounded(v) == v.max >= 0 => v.count <= VmaLimit(v)

(* The inductive invariant, for any mapping state.                         *)
Good(v) ==
  /\ v \in VmaState
  /\ ~v.fault
  /\ Listed(v)
  /\ v.count = Cached(v)
  /\ v.open = Cardinality(Bos \ Closed(v))
VmaInv == Good(vma) /\ Bounded(vma) /\ VirtualMapped(vma)
=============================================================================
