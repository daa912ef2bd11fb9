------------------------------ MODULE GemReloc ------------------------------
(***************************************************************************)
(* Relocation trees of the Intel GEM buffer manager                        *)
(* (intel/intel_bufmgr_gem.c): the estimate of the aperture a tree needs,  *)
(* the count of its fence registers, check_aperture_space, and the         *)
(* validation list that exec hands to the kernel.                          *)
(*                                                                         *)
(* One thread builds the trees.  Sizes are in pages of 4 KB, so the 32-bit *)
(* sums of the code wrap at Word.  References between buffers are counted  *)
(* exactly (GemBo), so a buffer is released when no buffer the application *)
(* holds leads to it.                                                      *)
(***************************************************************************)
EXTENDS Integers, FiniteSets, Sequences, FiniteSetsExt, SequencesExt

CONSTANTS
  Buffers, NoBo,   \* the drm_intel_bo_gem structures that may exist, and NULL
  Sizes,            \* sizes of buffers, in pages
  Devices,          \* the hardware, kernels and memory the library may find
  GttPages,         \* bufmgr_gem->gtt_size, in pages
  MaxRelocs,        \* bufmgr_gem->max_relocs
  MaxTree,          \* bound: the estimate of a tree, in pages
  MaxFences         \* bound: the fences of a tree that is added to

Word == 2^20        \* pages in 2^32 bytes

ASSUME RelocBuffersAssumption == IsFiniteSet(Buffers) /\ NoBo \notin Buffers
ASSUME RelocSizesAssumption == Sizes \subseteq 1 .. Word - 1 /\ GttPages \in Nat
ASSUME DevicesAssumption ==
  Devices \subseteq [ gen : 2 .. 8, has_relaxed_fencing : BOOLEAN, exec2 : BOOLEAN,
                      available_fences : Nat, malloc_fails : BOOLEAN,
                      max_total : Nat ]   \* bound: relocations in all buffers together
ASSUME RelocBoundsAssumption == MaxRelocs \in Nat /\ MaxTree \in Nat /\ MaxFences \in Nat

VARIABLES
  tree,            \* the drm_intel_bo_gem structures
  included,        \* the buffers whose included_in_check_aperture is set
  device,          \* what bufmgr_gem_init found
  fenced_relocs,   \* bufmgr_gem->fenced_relocs
  cleared,         \* history: buffers on which clear_relocs was called with fenced_relocs
  counted          \* history: has a count replaced the estimate of a tiled buffer

relocVars == << tree, included, device, fenced_relocs, cleared, counted >>

(* reloc_target_info[i]: flags is DRM_INTEL_RELOC_FENCE or 0.              *)
Reloc == [ bo : Buffers, fence : BOOLEAN ]

TreeRecord ==
  [ held                 : BOOLEAN,           \* the application holds a reference
    size                 : Sizes \cup {0},    \* 0: not allocated
    tiled                : BOOLEAN,           \* tiling_mode # I915_TILING_NONE
    relocs               : Seq(Reloc),
    listed               : BOOLEAN,           \* relocs # NULL, kept where malloc can fail
    has_error            : BOOLEAN,
    used_as_reloc_target : BOOLEAN,
    reloc_tree_size      : 0 .. Word - 1,
    reloc_tree_fences    : Int ]

NoTree ==
  [ held |-> FALSE, size |-> 0, tiled |-> FALSE, relocs |-> << >>, listed |-> FALSE,
    has_error |-> FALSE, used_as_reloc_target |-> FALSE, reloc_tree_size |-> 0,
    reloc_tree_fences |-> 0 ]

Allocated == {b \in Buffers : tree[b].size # 0}

-----------------------------------------------------------------------------
(* The buffers a tree consists of, by definition: the least set that holds *)
(* the root and the targets of its members.                                *)
TargetsOf(t, B) ==
  UNION {{t[b].relocs[i].bo : i \in DOMAIN t[b].relocs} : b \in B}

Closure(t, B) ==
  LET step[n \in Nat] ==
        IF n = 0 THEN B ELSE LET before == step[n - 1] IN before \cup TargetsOf(t, before)
  IN  step[Cardinality(Buffers)]

TreeOf(b) == Closure(tree, {b})

(* What is left when the buffers that nothing leads to are released.       *)
Collect(t) ==
  LET kept == Closure(t, {b \in Buffers : t[b].held})
  IN  [b \in Buffers |-> IF b \in kept THEN t[b] ELSE NoTree]

(* drm_intel_bo_gem_set_in_aperture_size.                                  *)
PowerOfTwoFrom(min, size) ==
  min * (CHOOSE p \in {2^k : k \in 0 .. 20} : min * p >= size /\ (p = 1 \/ min * (p \div 2) < size))

ApertureSize(size, tiled) ==
  IF device.gen < 4 /\ tiled
  THEN 2 * (IF device.has_relaxed_fencing
            THEN PowerOfTwoFrom(IF device.gen = 3 THEN 256 ELSE 128, size)
            ELSE size) % Word
  ELSE size % Word

(* From generation 4 on, no command needs a fence and tiling is of no      *)
(* consequence to the accounting.                                          *)
Tilings == IF device.gen < 4 THEN BOOLEAN ELSE {FALSE}

-----------------------------------------------------------------------------
RelocInit ==
  /\ tree = [b \in Buffers |-> NoTree]
  /\ included = {}
  /\ device \in Devices
  /\ fenced_relocs = FALSE
  /\ cleared = {}
  /\ counted = FALSE

(* drm_intel_gem_bo_alloc and its variants, and the imports, which leave   *)
(* the same state with the tiling the kernel reports.                      *)
Alloc(b, size, tiled) ==
  /\ b \notin Allocated
  /\ tree' = [tree EXCEPT ![b] = [NoTree EXCEPT !.held = TRUE, !.size = size, !.tiled = tiled,
                                                !.reloc_tree_size = ApertureSize(size, tiled)]]
  /\ UNCHANGED << included, device, fenced_relocs, cleared, counted >>

(* drm_intel_gem_bo_set_tiling: the kernel may choose the linear layout.   *)
(* The function asserts that b is no target, and an application sets the   *)
(* tiling of a buffer before it gives it relocations.                      *)
SetTiling(b, tiled) ==
  /\ tree[b].held
  /\ ~tree[b].used_as_reloc_target
  /\ tree[b].relocs = << >>
  /\ tree' = [tree EXCEPT ![b].tiled = tiled,
                          ![b].reloc_tree_size = ApertureSize(tree[b].size, tiled)]
  /\ UNCHANGED << included, device, fenced_relocs, cleared, counted >>

(* drm_intel_bufmgr_gem_enable_fenced_relocs, called before any buffer     *)
(* exists.                                                                 *)
EnableFencedRelocs ==
  /\ device.exec2
  /\ Allocated = {}
  /\ fenced_relocs' = TRUE
  /\ UNCHANGED << tree, included, device, cleared, counted >>

-----------------------------------------------------------------------------
(* drm_intel_gem_bo_unreference of the application's reference.            *)
Release(b) ==
  /\ tree[b].held
  /\ tree' = Collect([tree EXCEPT ![b].held = FALSE])
  /\ cleared' = cleared \cap Allocated'
  /\ counted' = (counted /\ Allocated' # {})
  /\ UNCHANGED << included, device, fenced_relocs >>

AddedSize(b, c) == IF c = b THEN 0 ELSE tree[c].reloc_tree_size

NewFences(c, need) ==   \* mutation of TargetFences: a register is counted for its first user only
  IF need /\ tree[c].reloc_tree_fences = 0 THEN 1 ELSE 0

TargetFences(c, need) == IF need THEN 1 ELSE tree[c].reloc_tree_fences

(* do_bo_emit_reloc, past the tests for errors.                            *)
AddReloc(b, c, fence) ==
  LET fences == TargetFences(c, fence /\ tree[c].tiled)
  IN  [[tree EXCEPT ![c].used_as_reloc_target = @ \/ c # b, ![c].reloc_tree_fences = fences]
        EXCEPT ![b].listed = device.malloc_fails,
               ![b].relocs = Append(@, [bo |-> c, fence |-> fence]),
               ![b].reloc_tree_size = (@ + AddedSize(b, c)) % Word,
               ![b].reloc_tree_fences = @ + fences]

Broken(c) == tree[c].has_error

(* drm_intel_gem_bo_emit_reloc and drm_intel_gem_bo_emit_reloc_fence.      *)
(* malloc may fail when the list is set up.  The assertions: b is no       *)
(* target yet, and there is room.  A tiled buffer has no relocations.  The *)
(* documentation of clear_relocs leaves the accounting of a cleared buffer *)
(* undefined; it is left alone where that matters, with fenced_relocs.     *)
EmitReloc(b, c, fenced_command) ==
  LET fence == device.gen < 4 /\ (fenced_command \/ ~fenced_relocs)
  IN  /\ tree[b].held /\ tree[c].held
      /\ ~tree[b].tiled
      /\ ~tree[b].used_as_reloc_target
      /\ ~tree[b].has_error
      /\ {b, c} \cap cleared = {}
      /\ \/ /\ Broken(c) \/ (device.malloc_fails /\ ~tree[b].listed)
            /\ tree' = [tree EXCEPT ![b].has_error = TRUE]
         \/ /\ ~Broken(c)
            /\ Len(tree[b].relocs) < MaxRelocs
            /\ MapThenSumSet(LAMBDA a : Len(tree[a].relocs), Buffers) < device.max_total
            /\ tree' = AddReloc(b, c, fence)
            /\ tree'[b].reloc_tree_size <= MaxTree
            /\ tree'[b].reloc_tree_fences \in 0 .. MaxFences
      /\ UNCHANGED << included, device, fenced_relocs, cleared, counted >>

(* drm_intel_gem_bo_clear_relocs.                                          *)
ClearRelocs(b, start) ==
  LET relocs == tree[b].relocs
      gone == {i \in start + 1 .. Len(relocs) : relocs[i].bo # b}
      fences == MapThenSumSet(LAMBDA i : tree[relocs[i].bo].reloc_tree_fences, gone)
  IN  /\ tree[b].held
      /\ start < Len(relocs)
      /\ tree' = Collect([tree EXCEPT ![b].relocs = SubSeq(@, 1, start),
                                      ![b].reloc_tree_fences = @ - fences])
      /\ cleared' = (IF fenced_relocs THEN cleared \cup {b} ELSE {}) \cap Allocated'
      /\ counted' = (counted /\ Allocated' # {})
      /\ UNCHANGED << included, device, fenced_relocs >>

-----------------------------------------------------------------------------
(* drm_intel_gem_bo_get_aperture_space: the pages not counted before, and  *)
(* the flags it leaves set.                                                *)
RECURSIVE GetApertureSpace(_, _)
GetApertureSpace(walk, b) ==
  IF b = NoBo \/ b \in walk.flags THEN walk
  ELSE FoldLeft(LAMBDA w, r : GetApertureSpace(w, r.bo),
                [total |-> (walk.total + tree[b].size) % Word, flags |-> walk.flags \cup {b}],
                tree[b].relocs)

(* drm_intel_gem_bo_clear_aperture_space_flag.                             *)
ClearRootFlag(flags, b) == flags \ {b}   \* mutation of ClearFlags: the targets keep their flags

RECURSIVE ClearFlags(_, _)
ClearFlags(flags, b) ==
  IF b = NoBo \/ b \notin flags THEN flags
  ELSE FoldLeft(LAMBDA f, r : ClearFlags(f, r.bo), flags \ {b}, tree[b].relocs)

(* drm_intel_gem_compute_batch_space: the total, the count of the first    *)
(* buffer, and the flags that remain.                                      *)
ComputeBatchSpace(array) ==
  LET start == [total |-> 0, flags |-> included]
      walk == FoldLeft(GetApertureSpace, start, array)
  IN  [ total |-> walk.total,
        first |-> GetApertureSpace(start, array[1]).total,
        flags |-> FoldLeft(ClearFlags, walk.flags, array) ]

(* drm_intel_gem_estimate_batch_space and drm_intel_gem_total_fences; an   *)
(* entry of the array may be NULL.                                         *)
EstimateBatchSpace(array) ==
  FoldLeft(LAMBDA sum, b : IF b = NoBo THEN sum ELSE (sum + tree[b].reloc_tree_size) % Word, 0, array)
TotalFences(array) ==
  FoldLeft(LAMBDA sum, b : IF b = NoBo THEN sum ELSE sum + tree[b].reloc_tree_fences, 0, array)

(* drm_intel_gem_check_aperture_space.                                     *)
Threshold == (GttPages * 3) \div 4 % Word

FencesFit(array) ==
  device.available_fences = 0 \/ TotalFences(array) <= device.available_fences
SpaceFits(array) ==
  EstimateBatchSpace(array) <= Threshold \/ ComputeBatchSpace(array).total <= Threshold

(* The count of the first buffer replaces its estimate.                    *)
Counted(array) ==
  /\ tree' = [tree EXCEPT ![array[1]].reloc_tree_size = ComputeBatchSpace(array).first]
  /\ included' = ComputeBatchSpace(array).flags
  /\ counted' = (counted \/ \E c \in TreeOf(array[1]) : tree[c].tiled)

CheckApertureSpace(array) ==
  /\ IF FencesFit(array) /\ EstimateBatchSpace(array) > Threshold
     THEN Counted(array)
     ELSE UNCHANGED << tree, included, counted >>
  /\ UNCHANGED << device, fenced_relocs, cleared >>

(* Arrays of held buffers, the batch first.                                *)
Arrays ==
  LET Held == {b \in Buffers : tree[b].held}
  IN  {<<b>> : b \in Held} \cup (Held \X (Held \cup {NoBo}))

-----------------------------------------------------------------------------
(* drm_intel_add_validate_buffer2: a buffer is listed once, with the union *)
(* of its flags.  Without execbuffer2 the flags are not sent.              *)
AddFirst(list, b, fence) ==   \* mutation of AddValidateBuffer: the first user decides on the fence
  IF \E i \in DOMAIN list : list[i].bo = b THEN list ELSE Append(list, [bo |-> b, fence |-> fence])

AddValidateBuffer(list, b, fence) ==
  IF \E i \in DOMAIN list : list[i].bo = b
  THEN [i \in DOMAIN list |-> IF list[i].bo = b THEN [list[i] EXCEPT !.fence = @ \/ fence] ELSE list[i]]
  ELSE Append(list, [bo |-> b, fence |-> fence])

(* drm_intel_gem_bo_process_reloc and drm_intel_gem_bo_process_reloc2.     *)
RECURSIVE ProcessReloc(_, _)
ProcessReloc(list, b) ==
  FoldLeft(LAMBDA l, r : IF r.bo = b THEN l
                         ELSE AddValidateBuffer(ProcessReloc(l, r.bo), r.bo, r.fence),
           list, tree[b].relocs)

ValidationList(b) == AddValidateBuffer(ProcessReloc(<< >>, b), b, FALSE)

(* drm_intel_gem_bo_exec and do_exec2.  With debugging enabled, a batch    *)
(* the kernel has no space for makes them count the validation list, which *)
(* replaces the estimate of its first buffer.                              *)
Exec(b, enospc) ==
  /\ tree[b].held
  /\ device.exec2 \/ ~tree[b].has_error
  /\ IF enospc
     THEN Counted([i \in DOMAIN ValidationList(b) |-> ValidationList(b)[i].bo])
     ELSE UNCHANGED << tree, included, counted >>
  /\ UNCHANGED << device, fenced_relocs, cleared >>

RelocNext ==
  \/ EnableFencedRelocs
  \/ \E b \in Buffers :
       \/ \E size \in Sizes, tiled \in Tilings : Alloc(b, size, tiled)
       \/ \E tiled \in Tilings : SetTiling(b, tiled)
       \/ Release(b)
       \/ \E c \in Buffers, fenced_command \in BOOLEAN : EmitReloc(b, c, fenced_command)
       \/ \E start \in 0 .. MaxRelocs - 1 : ClearRelocs(b, start)
       \/ \E enospc \in BOOLEAN : Exec(b, enospc)
  \/ \E array \in Arrays : CheckApertureSpace(array)

RelocSpec == RelocInit /\ [][RelocNext]_relocVars

-----------------------------------------------------------------------------
Pages(B) == MapThenSumSet(LAMBDA b : tree[b].size, B)
Members(array) == {array[i] : i \in DOMAIN array} \ {NoBo}

(* The buffers of the tree of b that a fenced command reads or writes and  *)
(* that therefore occupy a fence register.                                 *)
FencedIn(b) ==
  {c \in TreeOf(b) : tree[c].tiled /\ \E a \in TreeOf(b) : \E i \in DOMAIN tree[a].relocs :
                                         tree[a].relocs[i] = [bo |-> c, fence |-> TRUE]}

(* reloc_tree_size is "a conservative estimate": whatever was emitted,     *)
(* cleared, counted and released, the estimate of a buffer is at least the *)
(* pages of the distinct buffers of its tree.                              *)
EstimateIsConservative ==
  \A b \in Allocated : tree[b].reloc_tree_size >= Pages(TreeOf(b))

(* Until a count replaces the estimate of a tiled buffer, it also has room *)
(* for the holes: on the older chipsets a tiled buffer may need "a hole    *)
(* twice as large as the object" (drm_intel_bo_gem_set_in_aperture_size).  *)
(* A count leaves the holes out, and from then on the estimate may too.    *)
WithHole(b) == IF device.gen < 4 /\ tree[b].tiled THEN 2 * tree[b].size ELSE tree[b].size

EstimateHasRoomForHoles ==
  ~counted => \A b \in Allocated :
                tree[b].reloc_tree_size >= MapThenSumSet(WithHole, TreeOf(b))

(* check_aperture_space accepts an array of trees exactly when the sizes   *)
(* (bo->size) of the distinct buffers in them add up to no more than three *)
(* quarters of the aperture, although it adds up estimates first and       *)
(* counts by marking buffers.  That is less than the buffers may need: of  *)
(* the holes above, the answer takes no account.                           *)
CheckIsExact ==
  \A array \in Arrays :
    SpaceFits(array) <=> Pages(Closure(tree, Members(array))) <= Threshold

(* What decides whether a batch is sent, on both ways to the answer: the   *)
(* sum of cached estimates never understates the sizes in a tree, nor,     *)
(* before the first count, the holes; and the count, reached only when the *)
(* estimates do not fit, is the sum of the sizes.                          *)
ApertureIsJudged == EstimateIsConservative /\ EstimateHasRoomForHoles /\ CheckIsExact

(* reloc_tree_fences covers the fence registers a batch needs.  Once       *)
(* fenced and unfenced relocations are mixed, clear_relocs may take off    *)
(* more than was added, and its documentation leaves later checks of that  *)
(* buffer undefined; before, it does not.                                  *)
FencesCovered ==
  \A b \in Allocated :
    \/ TreeOf(b) \cap cleared # {}
    \/ tree[b].reloc_tree_fences >= Cardinality(FencedIn(b))

(* The validation list of a batch: every buffer of the tree once, a target *)
(* before the buffers that point to it, the batch last, and a fence wanted *)
(* when any relocation in the tree wants one.                              *)
ValidationListIsOrdered ==
  \A b \in Allocated :
    LET list == ValidationList(b)
        At(c) == CHOOSE i \in DOMAIN list : list[i].bo = c
    IN  /\ {list[i].bo : i \in DOMAIN list} = TreeOf(b)
        /\ Len(list) = Cardinality(TreeOf(b))
        /\ list[Len(list)].bo = b
        /\ \A c \in TreeOf(b) : \A d \in TargetsOf(tree, {c}) \ {c} : At(d) < At(c)
        /\ \A i \in DOMAIN list :
             list[i].fence <=> \E c \in TreeOf(b) : \E j \in DOMAIN tree[c].relocs :
                                 c # list[i].bo /\ tree[c].relocs[j] = [bo |-> list[i].bo, fence |-> TRUE]
=============================================================================
