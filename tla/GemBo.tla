------------------------------- MODULE GemBo --------------------------------
(***************************************************************************)
(* Buffer objects of the Intel GEM buffer manager: allocation from the     *)
(* reuse cache, reference counts and relocation references, sharing by     *)
(* flink name and by prime fd, and the ageing of the cache                 *)
(* (intel/intel_bufmgr_gem.c), by several threads of one process on top of *)
(* the mapping state of GemVma.                                            *)
(*                                                                         *)
(* bufmgr_gem->lock protects most of the state.  A step is the code        *)
(* between two points where another thread can act: an operation that      *)
(* holds the lock throughout and does not loop is one step, an operation   *)
(* that does part of its work outside the lock is several, and a loop      *)
(* under the lock takes one step per turn, so that the lock-free           *)
(* operations (reference, busy, emit_reloc, the fast path of unreference)  *)
(* fall between its turns.                                                 *)
(*                                                                         *)
(* held[b] counts the references in the application's hands.  A call on b  *)
(* uses one of them until it returns, so that no thread gives back the     *)
(* reference another thread's call depends on.                             *)
(***************************************************************************)
EXTENDS GemVma

CONSTANTS
  Threads, NoThread,
  NoBo,
  Objs, NoObj,      \* kernel objects
  NumHandles,       \* bound: GEM handles of the DRM file
  Foreign,          \* objects other processes share with this one
  Buckets, NoBucket,
  Sizes,            \* what is allocated: buckets, or NoBucket for a size no bucket holds
  Ops,              \* the entry points the application uses
  Fails,            \* the ioctls that may fail
  Events,           \* what the rest of the system does: "purge", "render", "close"
  BoReuse,          \* drm_intel_bufmgr_gem_enable_reuse has been called
  MaxRefs,          \* bound: references to an object
  MaxRelocs,        \* bufmgr_gem->max_relocs
  MaxTime           \* bound: seconds of CLOCK_MONOTONIC

ASSUME GemThreadsAssumption == IsFiniteSet(Threads) /\ NoThread \notin Threads /\ NoBo \notin Bos
ASSUME ObjsAssumption == IsFiniteSet(Objs) /\ NoObj \notin Objs /\ Foreign \subseteq Objs
ASSUME BucketsAssumption ==
  NoBucket \notin Buckets /\ Sizes \subseteq Buckets \cup {NoBucket}
ASSUME GemBoundsAssumption ==
  NumHandles \in Nat /\ MaxRefs \in Nat /\ MaxRelocs \in Nat /\ MaxTime \in Nat
ASSUME BoReuseAssumption == BoReuse \in BOOLEAN

VARIABLES
  bo,        \* the drm_intel_bo_gem structures
  named,     \* bufmgr_gem->named
  cache,     \* cache[k]: bufmgr_gem->cache_bucket[k].head
  time,      \* bufmgr_gem->time
  lock,      \* the holder of bufmgr_gem->lock
  thread,    \* what each thread is doing
  held,      \* references in the application's hands
  kernel,    \* the kernel's side of the DRM file (external)
  clock,     \* CLOCK_MONOTONIC (external)
  fault      \* a DRMLISTDEL of a zeroed or stale name_list node

gemVars == << vma, bo, named, cache, time, lock, thread, held, kernel, clock, fault >>

Handles == 1 .. NumHandles

BoRecord ==
  [ refcount             : Nat,
    gem_handle           : Handles \cup {0},
    global_name          : Objs \cup {NoObj},
    reusable             : BOOLEAN,
    idle                 : BOOLEAN,
    name_list            : Links,
    free_time            : Nat,
    relocs               : Seq(Bos),          \* reloc_target_info[i].bo
    used_as_reloc_target : BOOLEAN,
    bucket               : Buckets \cup {NoBucket} ]

(* calloc.                                                                 *)
Blank ==
  [ refcount |-> 0, gem_handle |-> 0, global_name |-> NoObj, reusable |-> FALSE,
    idle |-> FALSE, name_list |-> "zero", free_time |-> 0, relocs |-> << >>,
    used_as_reloc_target |-> FALSE, bucket |-> NoBucket ]

(* An activation of unreference_final or of clear_relocs: the references   *)
(* relocs[from .. at - 1] of bo have been dropped.                         *)
Frame == [ bo : Bos, from : Nat, at : Nat, final : BOOLEAN ]

ThreadRecord ==
  [ pc     : {"idle", "alloc", "purge", "create", "unref", "clear", "frames", "cleanup",
              "busy", "flink", "export", "prime", "tiling", "deadlock"},
    bo     : Bos \cup {NoBo},
    handle : Handles \cup {0},
    flag   : BOOLEAN,
    bucket : Buckets \cup {NoBucket},
    time   : Nat,
    frames : Seq(Frame) ]

Idle ==
  [ pc |-> "idle", bo |-> NoBo, handle |-> 0, flag |-> FALSE,
    bucket |-> NoBucket, time |-> 0, frames |-> << >> ]

-----------------------------------------------------------------------------
(* The kernel: the handle table of the DRM file, the objects with a global *)
(* name, those with an open dma-buf, those the GPU is using, and those it  *)
(* may discard or has discarded.  An object has at most one handle in a    *)
(* file, and the lowest free number is handed out.  leaked is a history:   *)
(* the handles an import opened and then made no structure for.            *)
KernelRecord ==
  [ file : [Handles -> Objs \cup {NoObj}], flinked : SUBSET Objs, fds : SUBSET Objs,
    busy : SUBSET Objs, dontneed : SUBSET Objs, purged : SUBSET Objs,
    leaked : SUBSET (Handles \cup {0}) ]

HandlesOf(k, o) == {h \in Handles : k.file[h] = o}

Shared(k) == k.flinked \cup k.fds
Dead(k) == {o \in Objs : HandlesOf(k, o) = {} /\ o \notin Shared(k) \cup k.busy}

LowestFree(k) == CHOOSE h \in HandlesOf(k, NoObj) : \A g \in HandlesOf(k, NoObj) : h <= g

CanOpen(k, o) == HandlesOf(k, o) # {} \/ HandlesOf(k, NoObj) # {}
HandleFor(k, o) ==
  IF HandlesOf(k, o) # {} THEN CHOOSE h \in HandlesOf(k, o) : TRUE ELSE LowestFree(k)
OpenHandle(k, o) == [k EXCEPT !.file[HandleFor(k, o)] = o, !.leaked = @ \ {HandleFor(k, o)}]
Leak(k, h) == [k EXCEPT !.leaked = @ \cup {h}]

(* DRM_IOCTL_GEM_CLOSE; of a handle that is not open it changes nothing.   *)
(* The object dies with its last handle unless it is shared.               *)
CloseHandle(k, h) ==
  IF h \in Handles
  THEN LET lost == {k.file[h]} \ Shared(k)
       IN  [k EXCEPT !.file[h] = NoObj, !.dontneed = @ \ lost, !.purged = @ \ lost,
                     !.leaked = @ \ {h}]
  ELSE k

ObjOf(b) == IF bo[b].gem_handle \in Handles THEN kernel.file[bo[b].gem_handle] ELSE NoObj

(* DRM_IOCTL_I915_GEM_MADVISE, and the retained flag it returns.           *)
Madvise(k, o, dontneed) ==
  [k EXCEPT !.dontneed = IF dontneed THEN @ \cup ({o} \ {NoObj}) ELSE @ \ {o}]
Retained(k, o) == o \notin k.purged

GpuRetires(o) ==
  /\ o \in kernel.busy
  /\ kernel' = [kernel EXCEPT !.busy = @ \ {o}]
  /\ UNCHANGED << vma, bo, named, cache, time, lock, thread, held, clock, fault >>

(* Memory pressure: an idle object marked DONTNEED loses its pages.        *)
ShrinkerPurges(o) ==
  /\ "purge" \in Events
  /\ o \in kernel.dontneed \ (kernel.busy \cup kernel.purged)
  /\ kernel' = [kernel EXCEPT !.purged = @ \cup {o}]
  /\ UNCHANGED << vma, bo, named, cache, time, lock, thread, held, clock, fault >>

(* Other processes submit work on an object they share, or let go of it;   *)
(* its name goes with its last handle.                                     *)
SharersRender(o) ==
  /\ "render" \in Events
  /\ o \in Shared(kernel) \ kernel.busy
  /\ kernel' = [kernel EXCEPT !.busy = @ \cup {o}]
  /\ UNCHANGED << vma, bo, named, cache, time, lock, thread, held, clock, fault >>

SharersClose(o) ==
  /\ "close" \in Events
  /\ o \in Shared(kernel)
  /\ kernel' = [kernel EXCEPT !.fds = @ \ {o},
                             !.flinked = IF HandlesOf(kernel, o) = {} THEN @ \ {o} ELSE @]
  /\ UNCHANGED << vma, bo, named, cache, time, lock, thread, held, clock, fault >>

Tick ==
  /\ clock < MaxTime
  /\ clock' = clock + 1
  /\ UNCHANGED << vma, bo, named, cache, time, lock, thread, held, kernel, fault >>

-----------------------------------------------------------------------------
GemInit ==
  /\ VmaInit
  /\ bo = [b \in Bos |-> Blank]
  /\ named = << >>
  /\ cache = [k \in Buckets |-> << >>]
  /\ time = 0
  /\ lock = NoThread
  /\ thread = [t \in Threads |-> Idle]
  /\ held = [b \in Bos |-> 0]
  /\ kernel = [ file |-> [h \in Handles |-> NoObj], flinked |-> Foreign, fds |-> Foreign,
                busy |-> {}, dontneed |-> {}, purged |-> {}, leaked |-> {} ]
  /\ clock = 0
  /\ fault = FALSE

At(t, where) == thread[t].pc = where
Unlocked == lock = NoThread
Calls(t, op) == At(t, "idle") /\ op \in Ops
Uses(b) == held[b] > 0

(* A call begins with the caller's reference to b lent to it, or goes on   *)
(* at another point, or returns.                                           *)
Begin(t, where, b) == thread' = [thread EXCEPT ![t].pc = where, ![t].bo = b]
Goto(t, where) == thread' = [thread EXCEPT ![t].pc = where]
Return(t) == thread' = [thread EXCEPT ![t] = Idle]

Lend(b) == held' = [held EXCEPT ![b] = @ - 1]
GiveBack(b) == held' = [held EXCEPT ![b] = @ + 1]

(* The structures of which none is live.                                   *)
Fresh == {b \in Bos : ~Exists(vma, b)}

-----------------------------------------------------------------------------
(* drm_intel_gem_bo_free.                                                  *)
FreeBo(b) ==
  /\ vma' = FreeVma(vma, b)
  /\ kernel' = CloseHandle(kernel, bo[b].gem_handle)
  /\ bo' = [bo EXCEPT ![b] = Blank]

(* drm_intel_gem_bo_busy: an object known to be idle is not asked about.   *)
KnownIdle(b) == bo[b].reusable /\ bo[b].idle
BusyIoctl(b) == ObjOf(b) \in kernel.busy
SaysBusy(b) == ~KnownIdle(b) /\ BusyIoctl(b)

(* drm_intel_gem_bo_alloc_internal takes the lock and looks into the       *)
(* bucket of the size asked for.                                           *)
Alloc(t) ==
  /\ Unlocked
  /\ \E k \in Sizes, for_render \in BOOLEAN :
       /\ Calls(t, IF for_render THEN "alloc_for_render" ELSE "alloc")
       /\ thread' = [thread EXCEPT ![t].pc = "alloc", ![t].bucket = k, ![t].flag = for_render]
  /\ lock' = t
  /\ UNCHANGED << vma, bo, named, cache, time, held, kernel, clock, fault >>

Bucket(k) == IF k \in Buckets THEN cache[k] ELSE << >>
Candidates(t) ==
  LET list == Bucket(thread[t].bucket)
  IN  IF list = << >> THEN {} ELSE {list[IF thread[t].flag THEN Len(list) ELSE 1]}

(* Nothing cached, or the least recently used object is still busy.        *)
AllocMiss(t) ==
  /\ At(t, "alloc")
  /\ \A b \in Candidates(t) : ~thread[t].flag /\ SaysBusy(b)
  /\ bo' = [b \in Bos |-> IF b \in Candidates(t) THEN [bo[b] EXCEPT !.idle = FALSE] ELSE bo[b]]
  /\ lock' = NoThread
  /\ Goto(t, "create")
  /\ UNCHANGED << vma, named, cache, time, held, kernel, clock, fault >>

(* Mutation of Reuse: the object stays marked DONTNEED.                    *)
ReuseUnadvised(t, b) ==
  /\ bo' = [bo EXCEPT ![b].refcount = 1]
  /\ lock' = NoThread
  /\ GiveBack(b)
  /\ Return(t)
  /\ UNCHANGED << vma, kernel >>

(* The pages are wanted again, and the structure is set up as a new one    *)
(* except for its list nodes.                                              *)
Reuse(t, b) ==
  /\ kernel' = Madvise(kernel, ObjOf(b), FALSE)
  /\ bo' = [bo EXCEPT ![b].refcount = 1,
                      ![b].reusable = TRUE,
                      ![b].idle = @ \/ (~thread[t].flag /\ ObjOf(b) # NoObj),
                      ![b].used_as_reloc_target = FALSE]
  /\ lock' = NoThread
  /\ GiveBack(b)
  /\ Return(t)
  /\ UNCHANGED vma

(* A cached object is taken.  If the kernel has discarded its pages, or    *)
(* rejects the tiling, it is freed and the search starts again.            *)
AllocHit(t) ==
  /\ At(t, "alloc")
  /\ \E b \in Candidates(t) :
       /\ thread[t].flag \/ ~SaysBusy(b)
       /\ cache' = [cache EXCEPT ![thread[t].bucket] = RemoveItem(@, b)]
       /\ \/ /\ ~Retained(kernel, ObjOf(b))
             /\ FreeBo(b)
             /\ Goto(t, "purge")
             /\ UNCHANGED << lock, held >>
          \/ /\ Retained(kernel, ObjOf(b))
             /\ TRUE \in CanReject
             /\ FreeBo(b)
             /\ UNCHANGED << lock, held, thread >>
          \/ /\ Retained(kernel, ObjOf(b))
             /\ Reuse(t, b)
  /\ UNCHANGED << named, time, clock, fault >>

(* A turn of drm_intel_gem_bo_cache_purge_bucket.                          *)
PurgeBucket(t) ==
  LET list == Bucket(thread[t].bucket)
  IN  /\ At(t, "purge")
      /\ IF list = << >> \/ Retained(kernel, ObjOf(list[1]))
         THEN /\ Goto(t, "alloc")
              /\ UNCHANGED << vma, bo, cache, kernel >>
         ELSE /\ FreeBo(list[1])
              /\ cache' = [cache EXCEPT ![thread[t].bucket] = Tail(@)]
              /\ UNCHANGED thread
      /\ UNCHANGED << named, time, lock, held, clock, fault >>

(* Mutation of Created: name_list is not initialised.                      *)
CreatedUnlisted(h, k) ==
  [Blank EXCEPT !.refcount = 1, !.gem_handle = h, !.reusable = TRUE, !.bucket = k]

(* The structure of a new object with handle h.                            *)
Created(h, k) ==
  [Blank EXCEPT !.refcount = 1, !.gem_handle = h, !.reusable = TRUE, !.bucket = k,
                !.name_list = "self"]

(* A new object, unless the kernel has none to give or rejects its tiling: *)
(* then drm_intel_gem_bo_free runs before the list nodes are initialised.  *)
CreateBo(t) ==
  /\ At(t, "create")
  /\ Return(t)
  /\ \/ \E b \in Fresh, o \in Dead(kernel) :
          /\ HandlesOf(kernel, NoObj) # {}
          /\ \/ /\ bo' = [bo EXCEPT ![b] = Created(HandleFor(kernel, o), thread[t].bucket)]
                /\ vma' = InitVmaList(vma, b)
                /\ kernel' = OpenHandle(kernel, o)
                /\ GiveBack(b)
             \/ /\ TRUE \in CanReject
                /\ vma' = FreeVma(vma, b)
                /\ UNCHANGED << bo, kernel, held >>
     \/ UNCHANGED << vma, bo, kernel, held >>
  /\ UNCHANGED << named, cache, time, lock, clock, fault >>

-----------------------------------------------------------------------------
Reference(t, b) ==
  /\ Calls(t, "reference")
  /\ Uses(b)
  /\ bo[b].refcount < MaxRefs
  /\ bo' = [bo EXCEPT ![b].refcount = @ + 1]
  /\ GiveBack(b)
  /\ UNCHANGED << vma, named, cache, time, lock, thread, kernel, clock, fault >>

(* drm_intel_gem_bo_unreference: atomic_add_unless, and for the last       *)
(* reference the clock is read before the lock is taken.                   *)
Unreference(t, b) ==
  /\ Calls(t, "unreference")
  /\ Uses(b)
  /\ Lend(b)
  /\ IF bo[b].refcount = 1
     THEN /\ thread' = [thread EXCEPT ![t].pc = "unref", ![t].bo = b, ![t].time = clock]
          /\ UNCHANGED bo
     ELSE /\ bo' = [bo EXCEPT ![b].refcount = @ - 1]
          /\ UNCHANGED thread
  /\ UNCHANGED << vma, named, cache, time, lock, kernel, clock, fault >>

FinalFrame(b) == [bo |-> b, from |-> 1, at |-> 1, final |-> TRUE]

(* Mutation of UnrefLocked: the count is not tested again.                 *)
UnrefLockedUntested(t) ==
  /\ At(t, "unref")
  /\ Unlocked
  /\ bo' = [bo EXCEPT ![thread[t].bo].refcount = @ - 1]
  /\ lock' = t
  /\ thread' = [thread EXCEPT ![t].pc = "frames", ![t].bo = NoBo,
                              ![t].frames = << FinalFrame(thread[t].bo) >>]
  /\ UNCHANGED << vma, named, cache, time, held, kernel, clock, fault >>

(* atomic_dec_and_test under the lock: another thread may have found the   *)
(* object by name in the meantime.                                         *)
UnrefLocked(t) ==
  LET b == thread[t].bo
  IN  /\ At(t, "unref")
      /\ Unlocked
      /\ bo' = [bo EXCEPT ![b].refcount = @ - 1]
      /\ IF bo[b].refcount = 1
         THEN /\ lock' = t
              /\ thread' = [thread EXCEPT ![t].pc = "frames", ![t].bo = NoBo,
                                          ![t].frames = << FinalFrame(b) >>]
         ELSE /\ Return(t)
              /\ UNCHANGED lock
      /\ UNCHANGED << vma, named, cache, time, held, kernel, clock, fault >>

(* A thread is inside clear_relocs(b): the relocations of a batch are the  *)
(* business of one thread at a time.                                       *)
Clearing(b) == \E u \in Threads : thread[u].bo = b /\ thread[u].pc \in {"clear", "frames"}

(* drm_intel_gem_bo_clear_relocs(b, start): the clock is read first.       *)
ClearRelocs(t, b) ==
  /\ Calls(t, "reloc")
  /\ Uses(b)
  /\ ~Clearing(b)
  /\ \E start \in 0 .. Len(bo[b].relocs) :
       thread' = [thread EXCEPT ![t].pc = "clear", ![t].bo = b, ![t].time = clock,
                                ![t].frames = << [bo |-> b, from |-> start + 1,
                                                  at |-> start + 1, final |-> FALSE] >>]
  /\ Lend(b)
  /\ UNCHANGED << vma, bo, named, cache, time, lock, kernel, clock, fault >>

ClearLocked(t) ==
  /\ At(t, "clear")
  /\ Unlocked
  /\ lock' = t
  /\ Goto(t, "frames")
  /\ UNCHANGED << vma, bo, named, cache, time, held, kernel, clock, fault >>

Top(t) == thread[t].frames[Len(thread[t].frames)]
Pop(t) == SubSeq(thread[t].frames, 1, Len(thread[t].frames) - 1)

(* A turn of the loop over reloc_target_info in unreference_final or       *)
(* clear_relocs: drm_intel_gem_bo_unreference_locked_timed of the target,  *)
(* which recurses when that was its last reference.                        *)
DropTarget(t) ==
  LET b    == Top(t).bo
      c    == bo[b].relocs[Top(t).at]
      next == Append(Pop(t), [Top(t) EXCEPT !.at = @ + 1])
  IN  /\ At(t, "frames")
      /\ Top(t).at <= Len(bo[b].relocs)
      /\ IF c = b
         THEN /\ thread' = [thread EXCEPT ![t].frames = next]
              /\ UNCHANGED bo
         ELSE /\ bo' = [bo EXCEPT ![c].refcount = @ - 1]
              /\ thread' = [thread EXCEPT ![t].frames =
                              IF bo[c].refcount = 1 THEN Append(next, FinalFrame(c)) ELSE next]
      /\ UNCHANGED << vma, named, cache, time, lock, held, kernel, clock, fault >>

Cleared(t) ==
  /\ At(t, "frames")
  /\ ~Top(t).final
  /\ Top(t).at > Len(bo[Top(t).bo].relocs)
  /\ bo' = [bo EXCEPT ![Top(t).bo].relocs = SubSeq(@, 1, Top(t).from - 1)]
  /\ lock' = NoThread
  /\ GiveBack(Top(t).bo)
  /\ Return(t)
  /\ UNCHANGED << vma, named, cache, time, kernel, clock, fault >>

(* The rest of unreference_final: mappings, names, then the cache or free. *)
KeepsAll(b) == BoReuse /\ bo[b].bucket \in Buckets   \* mutation: reusable is not tested

Keeps(b) ==
  /\ BoReuse
  /\ bo[b].reusable
  /\ bo[b].bucket \in Buckets
  /\ Retained(kernel, ObjOf(b))

(* Mutations of Discard: mappings in use are not dropped first; the handle *)
(* stays open.                                                             *)
DiscardMapped(b) == FreeBo(b) /\ UNCHANGED cache
DiscardOpen(b) ==
  /\ vma' = FreeVma(DropMappings(vma, b), b)
  /\ bo' = [bo EXCEPT ![b] = Blank]
  /\ UNCHANGED << kernel, cache >>

Discard(b) ==
  /\ vma' = FreeVma(DropMappings(vma, b), b)
  /\ kernel' = CloseHandle(kernel, bo[b].gem_handle)
  /\ bo' = [bo EXCEPT ![b] = Blank]
  /\ UNCHANGED cache

RetireBo(t) ==
  LET b == Top(t).bo
  IN  /\ At(t, "frames")
      /\ Top(t).final
      /\ Top(t).at > Len(bo[b].relocs)
      /\ named' = RemoveItem(named, b)
      /\ fault' = (fault \/ DelFaults(bo[b].name_list))
      /\ IF Keeps(b)
         THEN /\ vma' = DropMappings(vma, b)
              /\ kernel' = Madvise(kernel, ObjOf(b), TRUE)
              /\ cache' = [cache EXCEPT ![bo[b].bucket] = Append(@, b)]
              /\ bo' = [bo EXCEPT ![b].relocs = << >>,
                                  ![b].used_as_reloc_target = FALSE,
                                  ![b].name_list = AfterDel(@),
                                  ![b].free_time = thread[t].time]
         ELSE Discard(b)
      /\ thread' = [thread EXCEPT ![t].frames = Pop(t),
                                  ![t].pc = IF Pop(t) = << >> THEN "cleanup" ELSE "frames"]
      /\ UNCHANGED << time, lock, held, clock >>

(* Mutation of Expired: one second more.                                   *)
ExpiredLate(t) ==
  {k \in Buckets : cache[k] # << >> /\ thread[t].time - bo[cache[k][1]].free_time > 2}

(* drm_intel_gem_cleanup_bo_cache.  The buckets are independent, so their  *)
(* order is left open.                                                     *)
Expired(t) ==
  {k \in Buckets : cache[k] # << >> /\ thread[t].time - bo[cache[k][1]].free_time > 1}

CleanupFree(t) ==
  /\ At(t, "cleanup")
  /\ time # thread[t].time
  /\ \E k \in Expired(t) :
       /\ FreeBo(cache[k][1])
       /\ cache' = [cache EXCEPT ![k] = Tail(@)]
  /\ UNCHANGED << named, time, lock, thread, held, clock, fault >>

(* Mutation of CleanupDone: an early return that keeps the lock.           *)
CleanupKeepsLock(t) ==
  /\ At(t, "cleanup")
  /\ time = thread[t].time
  /\ Return(t)
  /\ UNCHANGED << vma, bo, named, cache, time, lock, held, kernel, clock, fault >>

CleanupDone(t) ==
  /\ At(t, "cleanup")
  /\ time = thread[t].time \/ Expired(t) = {}
  /\ time' = thread[t].time
  /\ lock' = NoThread
  /\ Return(t)
  /\ UNCHANGED << vma, bo, named, cache, held, kernel, clock, fault >>

-----------------------------------------------------------------------------
(* Mutations of Relocated: the target is not referenced; it is not marked. *)
RelocatedUnreferenced(b, c) ==
  [bo EXCEPT ![b].relocs = Append(@, c), ![c].used_as_reloc_target = TRUE]
RelocatedUnmarked(b, c) == [bo EXCEPT ![b].relocs = Append(@, c), ![c].refcount = @ + 1]

(* The structures once b has a relocation to another object c.             *)
Relocated(b, c) ==
  [bo EXCEPT ![b].relocs = Append(@, c),
             ![c].used_as_reloc_target = TRUE,
             ![c].refcount = @ + 1]

(* do_bo_emit_reloc, whose assertions the caller respects.                 *)
EmitReloc(t, b, c) ==
  /\ Calls(t, "reloc")
  /\ Uses(b) /\ Uses(c)
  /\ ~Clearing(b)
  /\ Len(bo[b].relocs) < MaxRelocs
  /\ ~bo[b].used_as_reloc_target
  /\ \/ c = b /\ bo' = [bo EXCEPT ![b].relocs = Append(@, b)]
     \/ c # b /\ bo[c].refcount < MaxRefs /\ bo' = Relocated(b, c)
  /\ UNCHANGED << vma, named, cache, time, lock, thread, held, kernel, clock, fault >>

Targets(b) == Items(bo[b].relocs) \ {b}

(* The buffers process_reloc and process_reloc2 put on the validation list *)
(* for the batch b.                                                        *)
Reach(b) ==
  {c \in Bos : \A S \in SUBSET Bos :
     (b \in S /\ \A d \in S : Targets(d) \subseteq S) => c \in S}

(* Mutation of Executed: only the batch itself loses its idle flag.        *)
ExecutedBatch(b) == [bo EXCEPT ![b].idle = FALSE]

Executed(b) ==
  [c \in Bos |-> IF c \in Reach(b) THEN [bo[c] EXCEPT !.idle = FALSE] ELSE bo[c]]

(* drm_intel_gem_bo_exec and do_exec2: the buffers lose their idle flag    *)
(* whether or not the kernel takes the batch.                              *)
Exec(t, b) ==
  /\ Calls(t, "exec")
  /\ Unlocked
  /\ Uses(b)
  /\ \/ kernel' = [kernel EXCEPT !.busy = @ \cup ({ObjOf(c) : c \in Reach(b)} \ {NoObj})]
     \/ UNCHANGED kernel
  /\ bo' = Executed(b)
  /\ UNCHANGED << vma, named, cache, time, lock, thread, held, clock, fault >>

(* drm_intel_bo_busy runs without the lock: the answer of the ioctl is     *)
(* stored in a step of its own.                                            *)
Busy(t, b) ==
  /\ Calls(t, "busy")
  /\ Uses(b)
  /\ ~KnownIdle(b) /\ ObjOf(b) # NoObj
  /\ thread' = [thread EXCEPT ![t].pc = "busy", ![t].bo = b, ![t].flag = BusyIoctl(b)]
  /\ Lend(b)
  /\ UNCHANGED << vma, bo, named, cache, time, lock, kernel, clock, fault >>

StoreIdle(t) ==
  /\ At(t, "busy")
  /\ bo' = [bo EXCEPT ![thread[t].bo].idle = ~thread[t].flag]
  /\ GiveBack(thread[t].bo)
  /\ Return(t)
  /\ UNCHANGED << vma, named, cache, time, lock, kernel, clock, fault >>

(* drm_intel_gem_bo_disable_reuse.                                         *)
DisableReuse(t, b) ==
  /\ Calls(t, "disable_reuse")
  /\ Uses(b)
  /\ bo' = [bo EXCEPT ![b].reusable = FALSE]
  /\ UNCHANGED << vma, named, cache, time, lock, thread, held, kernel, clock, fault >>

-----------------------------------------------------------------------------
NeverNamed(b) == named   \* mutation of NameOnce: the object is not listed

(* DRMLISTADDTAIL to bufmgr_gem->named of an object not yet on it.         *)
NameOnce(b) ==
  IF LooksUnlinked(bo[b].name_list) THEN Append(named, b) ELSE named
NamedLink(b) == IF LooksUnlinked(bo[b].name_list) THEN "linked" ELSE bo[b].name_list

(* drm_intel_gem_bo_flink, and the same after the lock is taken.           *)
Flink(t, b) ==
  /\ Calls(t, "flink")
  /\ Uses(b)
  /\ bo[b].global_name = NoObj
  /\ Begin(t, "flink", b)
  /\ Lend(b)
  /\ UNCHANGED << vma, bo, named, cache, time, lock, kernel, clock, fault >>

FlinkLocked(t) ==
  LET b == thread[t].bo
  IN  /\ At(t, "flink")
      /\ Unlocked
      /\ Return(t)
      /\ GiveBack(b)
      /\ \/ /\ ObjOf(b) # NoObj
            /\ kernel' = [kernel EXCEPT !.flinked = @ \cup {ObjOf(b)}]
            /\ named' = NameOnce(b)
            /\ bo' = [bo EXCEPT ![b].global_name = ObjOf(b),
                                ![b].reusable = FALSE,
                                ![b].name_list = NamedLink(b)]
         \/ UNCHANGED << kernel, named, bo >>
      /\ UNCHANGED << vma, cache, time, lock, clock, fault >>

(* drm_intel_bo_gem_export_to_prime: listed under the lock, then exported. *)
ExportToPrime(t, b) ==
  /\ Calls(t, "export")
  /\ Unlocked
  /\ Uses(b)
  /\ named' = NameOnce(b)
  /\ bo' = [bo EXCEPT ![b].name_list = NamedLink(b)]
  /\ Begin(t, "export", b)
  /\ Lend(b)
  /\ UNCHANGED << vma, cache, time, lock, kernel, clock, fault >>

HandleToFD(t) ==
  LET b == thread[t].bo
  IN  /\ At(t, "export")
      /\ \/ /\ ObjOf(b) # NoObj
            /\ kernel' = [kernel EXCEPT !.fds = @ \cup {ObjOf(b)}]
            /\ bo' = [bo EXCEPT ![b].reusable = FALSE]
         \/ /\ "handle_to_fd" \in Fails
            /\ UNCHANGED << kernel, bo >>
      /\ GiveBack(b)
      /\ Return(t)
      /\ UNCHANGED << vma, named, cache, time, lock, clock, fault >>

(* The first object on bufmgr_gem->named among those in S.                 *)
FirstNamed(S) ==
  named[CHOOSE i \in 1 .. Len(named) :
          named[i] \in S /\ \A j \in 1 .. i - 1 : named[j] \notin S]

WithName(o) == {b \in Items(named) : bo[b].global_name = o}
WithHandle(h) == {b \in Items(named) : bo[b].gem_handle = h}

(* An object found on the list is referenced for the caller.               *)
Found(b) ==
  /\ bo' = [bo EXCEPT ![b].refcount = @ + 1]
  /\ GiveBack(b)

(* The bounds leave room for one more reference and one more object.       *)
MayImport == Fresh # {} /\ \A b \in Bos : bo[b].refcount < MaxRefs

(* The structure both imports make for a handle no listed object has.      *)
Imported(h, name) ==
  [Blank EXCEPT !.refcount = 1, !.gem_handle = h, !.global_name = name,
                !.name_list = "linked"]

(* drm_intel_bo_gem_create_from_name, under the lock throughout.  When     *)
(* there is no memory for the structure the handle stays open; when        *)
(* GET_TILING fails it calls drm_intel_gem_bo_unreference, which takes the *)
(* lock again.                                                             *)
CreateFromName(t, o) ==
  LET h == HandleFor(kernel, o)
  IN  /\ Calls(t, "from_name")
      /\ Unlocked
      /\ MayImport
      /\ \/ /\ WithName(o) # {}
            /\ Found(FirstNamed(WithName(o)))
            /\ UNCHANGED << vma, named, lock, thread, kernel >>
         \/ /\ WithName(o) = {}
            /\ o \in kernel.flinked
            /\ CanOpen(kernel, o)
            /\ WithHandle(h) = {}
            /\ "calloc" \in Fails
            /\ kernel' = Leak(OpenHandle(kernel, o), h)
            /\ UNCHANGED << vma, bo, named, held, lock, thread >>
         \/ /\ WithName(o) = {}
            /\ o \in kernel.flinked
            /\ CanOpen(kernel, o)
            /\ kernel' = OpenHandle(kernel, o)
            /\ \/ /\ WithHandle(h) # {}
                  /\ Found(FirstNamed(WithHandle(h)))
                  /\ UNCHANGED << vma, named, lock, thread >>
               \/ /\ WithHandle(h) = {}
                  /\ \E b \in Fresh :
                       /\ bo' = [bo EXCEPT ![b] = Imported(h, o)]
                       /\ vma' = InitVmaList(vma, b)
                       /\ named' = Append(named, b)
                       /\ GiveBack(b)
                  /\ UNCHANGED << lock, thread >>
               \/ /\ WithHandle(h) = {}
                  /\ "get_tiling_by_name" \in Fails
                  /\ lock' = t
                  /\ Goto(t, "deadlock")
                  /\ UNCHANGED << vma, bo, named, held >>
      /\ UNCHANGED << cache, time, clock, fault >>

(* drm_intel_bo_gem_create_from_prime: drmPrimeFDToHandle without the      *)
(* lock; when it fails the handle is not initialised.                      *)
FDToHandle(t, o) ==
  /\ Calls(t, "from_prime")
  /\ MayImport
  /\ o \in kernel.fds
  /\ \/ /\ CanOpen(kernel, o)
        /\ kernel' = OpenHandle(kernel, o)
        /\ thread' = [thread EXCEPT ![t].pc = "prime", ![t].flag = TRUE,
                                    ![t].handle = HandleFor(kernel, o)]
     \/ /\ "fd_to_handle" \in Fails
        /\ \E h \in Handles \cup {0} :
             thread' = [thread EXCEPT ![t].pc = "prime", ![t].handle = h]
        /\ UNCHANGED kernel
  /\ UNCHANGED << vma, bo, named, cache, time, lock, held, clock, fault >>

(* The search and the new structure, under the lock.  Its reference stays  *)
(* with the call until the tiling is known.  Without memory for it the     *)
(* handle stays open.                                                      *)
CreateFromPrime(t) ==
  LET h == thread[t].handle
  IN  /\ At(t, "prime")
      /\ Unlocked
      /\ \/ /\ WithHandle(h) # {}
            /\ Found(FirstNamed(WithHandle(h)))
            /\ Return(t)
            /\ UNCHANGED << vma, named, kernel >>
         \/ /\ WithHandle(h) = {}
            /\ ~thread[t].flag
            /\ Return(t)
            /\ UNCHANGED << vma, bo, named, held, kernel >>
         \/ /\ WithHandle(h) = {}
            /\ thread[t].flag
            /\ "calloc" \in Fails
            /\ kernel' = Leak(kernel, h)
            /\ Return(t)
            /\ UNCHANGED << vma, bo, named, held >>
         \/ /\ WithHandle(h) = {}
            /\ thread[t].flag
            /\ \E b \in Fresh :
                 /\ bo' = [bo EXCEPT ![b] = Imported(h, NoObj)]
                 /\ vma' = InitVmaList(vma, b)
                 /\ named' = Append(named, b)
                 /\ thread' = [thread EXCEPT ![t] = [Idle EXCEPT !.pc = "tiling", !.bo = b]]
            /\ kernel' = [kernel EXCEPT !.leaked = @ \ {h}]
            /\ UNCHANGED held
      /\ UNCHANGED << cache, time, lock, clock, fault >>

(* GET_TILING without the lock; set_in_aperture_size asserts that the      *)
(* object is not a relocation target yet.                                  *)
GetTiling(t) ==
  LET b == thread[t].bo
  IN  /\ At(t, "tiling")
      /\ \/ /\ fault' = (fault \/ bo[b].used_as_reloc_target)
            /\ GiveBack(b)
            /\ Return(t)
            /\ UNCHANGED bo
         \/ /\ "get_tiling" \in Fails
            /\ IF bo[b].refcount = 1
               THEN /\ thread' = [thread EXCEPT ![t].pc = "unref", ![t].time = clock]
                    /\ UNCHANGED bo
               ELSE /\ bo' = [bo EXCEPT ![b].refcount = @ - 1]
                    /\ Return(t)
            /\ UNCHANGED << held, fault >>
      /\ UNCHANGED << vma, named, cache, time, lock, kernel, clock >>

-----------------------------------------------------------------------------
(* The mapping calls take the lock for all they do.                        *)
MapBo(t, b) ==
  /\ Calls(t, "map")
  /\ Unlocked
  /\ Uses(b)
  /\ Map(b) \/ MapGttOrUnsynchronized(b) \/ Unmap(b)
  /\ UNCHANGED << bo, named, cache, time, lock, thread, held, kernel, clock, fault >>

SetVmaLimit(t) ==
  /\ Calls(t, "map")
  /\ Unlocked
  /\ \E limit \in VmaLimits : SetVmaCacheSize(limit)
  /\ UNCHANGED << bo, named, cache, time, lock, thread, held, kernel, clock, fault >>

(* The steps a call in progress takes by itself, without and with waiting  *)
(* for the lock.                                                           *)
Proceed(t) ==
  \/ AllocMiss(t) \/ AllocHit(t) \/ PurgeBucket(t) \/ CreateBo(t)
  \/ DropTarget(t) \/ Cleared(t) \/ RetireBo(t) \/ CleanupFree(t) \/ CleanupDone(t)
  \/ StoreIdle(t) \/ HandleToFD(t) \/ GetTiling(t)
Enter(t) == UnrefLocked(t) \/ ClearLocked(t) \/ FlinkLocked(t) \/ CreateFromPrime(t)

Call(t) ==
  \/ Alloc(t) \/ SetVmaLimit(t)
  \/ \E b \in Bos :
       \/ Reference(t, b) \/ Unreference(t, b) \/ ClearRelocs(t, b) \/ Exec(t, b)
       \/ Busy(t, b) \/ DisableReuse(t, b) \/ Flink(t, b) \/ ExportToPrime(t, b) \/ MapBo(t, b)
       \/ \E c \in Bos : EmitReloc(t, b, c)
  \/ \E o \in Objs : CreateFromName(t, o) \/ FDToHandle(t, o)

Environment ==
  \/ Tick
  \/ \E o \in Objs : GpuRetires(o) \/ ShrinkerPurges(o) \/ SharersRender(o) \/ SharersClose(o)

GemNext == Environment \/ \E t \in Threads : Call(t) \/ Proceed(t) \/ Enter(t)

(* A thread inside a call keeps running, and one that waits for the mutex  *)
(* gets it if it is released again and again.                              *)
GemFairness == \A t \in Threads : WF_gemVars(Proceed(t)) /\ SF_gemVars(Enter(t))

GemSpec == GemInit /\ [][GemNext]_gemVars /\ GemFairness
-----------------------------------------------------------------------------
(* Type correctness.                                                       *)
GemTypeOK ==
  /\ vma \in VmaState
  /\ bo \in [Bos -> BoRecord]
  /\ named \in Seq(Bos)
  /\ cache \in [Buckets -> Seq(Bos)]
  /\ time \in Nat
  /\ lock \in Threads \cup {NoThread}
  /\ thread \in [Threads -> ThreadRecord]
  /\ held \in [Bos -> Nat]
  /\ kernel \in KernelRecord
  /\ clock \in Nat
  /\ fault \in BOOLEAN

Live == {b \in Bos : Exists(vma, b)}
CachedIn(k) == Items(cache[k])
InCache == UNION {CachedIn(k) : k \in Buckets}

(* The calls a reference to b has been lent to.                            *)
Borrowers(b) == {t \in Threads : thread[t].bo = b}

(* The relocations that own a reference to b: those of other objects that  *)
(* no loop of unreference_final or clear_relocs has passed.                *)
Passed(c, i) ==
  \E t \in Threads : \E n \in 1 .. Len(thread[t].frames) :
    LET f == thread[t].frames[n]
    IN  At(t, "frames") /\ f.bo = c /\ f.from <= i /\ i < f.at
Owns(c, i, b) == i <= Len(bo[c].relocs) /\ bo[c].relocs[i] = b /\ ~Passed(c, i)
RelocsTo(b) == {p \in (Bos \ {b}) \X (1 .. MaxRelocs) : Owns(p[1], p[2], b)}

(* The reference count of every object in use is the number of references  *)
(* in the application's hands, in calls under way and in relocations,      *)
(* whatever part of a relocation tree another thread is tearing down; so   *)
(* assert(refcount > 0) in both unreference functions never fails.         *)
RefcountsExact ==
  \A b \in Live \ InCache :
    bo[b].refcount = held[b] + Cardinality(Borrowers(b)) + Cardinality(RelocsTo(b))

(* An object somebody can still reach (the application, a call under way,  *)
(* a relocation of a live object, the list of named objects) has not been  *)
(* freed and is not in the cache, where alloc would hand it out again.     *)
InUseIsLive ==
  \A b \in Bos :
    (held[b] > 0 \/ Borrowers(b) # {} \/ RelocsTo(b) # {} \/ b \in Items(named)) =>
      b \in Live \ InCache

(* What the cache holds may be handed out as new: nobody refers to it, it  *)
(* is on one bucket once, the bucket of its size, without relocations or   *)
(* mappings in use, and no other process knows it.                         *)
CacheIsClean ==
  \A k \in Buckets :
    /\ NoDuplicates(cache[k])
    /\ \A b \in CachedIn(k) :
         /\ bo[b].refcount = 0 /\ bo[b].reusable /\ bo[b].bucket = k
         /\ bo[b].relocs = << >> /\ vma.map_count[b] = 0
         /\ ObjOf(b) \notin Shared(kernel)

(* An object that is not in the cache has its pages: no buffer reaches the *)
(* application that the kernel has discarded or may discard.               *)
InUseIsRetained ==
  \A b \in Live \ InCache :
    bo[b].refcount > 0 => ObjOf(b) \notin kernel.dontneed \cup kernel.purged

(* Two live objects never stand for the same kernel object: the comment in *)
(* create_from_prime, "Just as for named buffers, we must not create two   *)
(* bo's pointing at the same kernel object".                               *)
OneBoPerObject ==
  \A b, c \in Live : ObjOf(b) = ObjOf(c) /\ ObjOf(b) # NoObj => b = c

(* Every live object that another process may know by name or by fd is on  *)
(* the list create_from_name and create_from_prime search: the comment on  *)
(* global_name, "List contains both flink named and prime fd'd objects".   *)
SharedIsNamed ==
  \A b \in Live : ObjOf(b) \in Shared(kernel) => b \in Items(named)

(* No list operation on name_list is undefined and no assertion of         *)
(* set_in_aperture_size fails.                                             *)
NoGemFault == ~fault

(* The comment on idle: "Boolean of whether the GPU is definitely not      *)
(* accessing the buffer.  This is only valid when reusable".               *)
IdleIsIdle == \A b \in Live : KnownIdle(b) => ObjOf(b) \notin kernel.busy

(* Relocations form a forest, so the recursions of process_reloc and of    *)
(* unreference_final end: for every reference of a relocation some set of  *)
(* objects closed under relocations has its target and not its source, and *)
(* the target is marked as one, so that its size no longer changes.  What  *)
(* a teardown has passed no longer counts: the entry outlives the object.  *)
DependsOn(b) == {c \in Bos : \E i \in 1 .. MaxRelocs : << b, i >> \in RelocsTo(c)}
RelocsAreTrees ==
  \A b \in Bos : \A c \in DependsOn(b) :
    /\ bo[c].used_as_reloc_target
    /\ \E S \in SUBSET Bos : c \in S /\ b \notin S /\ \A d \in S : DependsOn(d) \subseteq S

(* After every cleanup no cached object is older than two seconds: "Frees  *)
(* all cached buffers significantly older than @time".                     *)
CacheIsYoung ==
  \A k \in Buckets : \A b \in CachedIn(k) : time - bo[b].free_time <= 1

(* Handles are lost in no other way than by an import that finds no memory *)
(* for its structure: the handle of a live object is open, and an open     *)
(* handle belongs to a live object, to an import that is about to make one *)
(* or to none because calloc failed; and a later import of the same kernel *)
(* object takes the lost handle over.                                      *)
HandlesMatch ==
  /\ \A b \in Live : ObjOf(b) # NoObj /\ bo[b].gem_handle \notin kernel.leaked
  /\ \A h \in Handles : kernel.file[h] # NoObj =>
       \/ \E b \in Live : bo[b].gem_handle = h
       \/ \E t \in Threads : At(t, "prime") /\ thread[t].handle = h
       \/ h \in kernel.leaked

(* Every call returns: the retry loop of alloc ends, the teardown of a     *)
(* relocation tree ends, and no thread waits for the lock for ever.        *)
CallsReturn == \A t \in Threads : ~At(t, "idle") ~> At(t, "idle")

(* Seen from its mappings alone, the buffer manager behaves as GemVma: an  *)
(* object is mapped, retired and freed only when GemVma allows it.         *)
MappingsImplemented == VmaSpec
=============================================================================
