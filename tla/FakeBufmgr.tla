----------------------------- MODULE FakeBufmgr -----------------------------
(* intel/intel_bufmgr_fake.c: buffer objects for hardware without a kernel *)
(* memory manager.  Every operation runs under one mutex, so it is one     *)
(* step; the card executes submitted batches in between.  The state is one *)
(* record, m, and each function of the code a function of that record.     *)
(*                                                                         *)
(* Contents are a version and, for each relocation entry, the offset that  *)
(* it holds.  History: `truth` is what a program may expect to find in a   *)
(* buffer, `dropped` the buffers whose contents evict_all or kick_all gave *)
(* up without a word to the program, `misread` says that the card found    *)
(* other contents than expected, and `fault` names an assertion that ended *)
(* the program.                                                            *)
EXTENDS Mm

CONSTANTS
  Bos,          \* buffer objects
  StaticBos,    \* those that alloc_static may make, in memory outside the heap
  Batches,      \* those the program puts relocations into
  Rendered,     \* those its batches write
  Unbacked,     \* those it may disable the backing store of
  Shared,       \* those it may take more references to
  BoSize,       \* BoSize[b], in units of the heap
  Alignment,    \* of every buffer
  HeapSize,     \* units managed by the heap
  MAX_RELOCS,   \* relocations of one buffer
  MAXFENCE,     \* fence numbers run from 1 to MAXFENCE
  FenceWindow,  \* 1 << 24 : how far apart two fences may be compared
  FirstFence,   \* fences emitted, and waited for, before the model begins
  MaxFences,    \* bound: fences before the last operation that may emit one
  MaxVersion,   \* bound: versions of each buffer's contents
  MaxRefs,      \* bound: references to one buffer
  MaxMaps,      \* bound: nested mappings of each buffer
  Nothing       \* no buffer, no backing store, no mapping

ASSUME FakeAssumption ==
  /\ {StaticBos, Batches, Rendered, Unbacked, Shared} \subseteq SUBSET Bos
  /\ StaticBos \cap Batches = {}
  /\ {Alignment, HeapSize, MAX_RELOCS, MAXFENCE, FenceWindow} \subseteq Nat \ {0}
  /\ MAXFENCE % 2 = 1

VARIABLE m

(* The contents of fresh memory, of which nothing is expected.             *)
Junk == [bo |-> Nothing, ver |-> 0, rel |-> <<>>]

NoBo ==
  [refs |-> 0, is_static |-> FALSE, dirty |-> FALSE, card_dirty |-> FALSE, no_backing |-> FALSE,
   maps |-> 0, virtual |-> Nothing, block |-> NoBlock, offset |-> NoBlock,
   backing |-> Nothing, validated |-> FALSE, write_domain |-> FALSE,
   relocs |-> <<>>, child_size |-> 0]

(* The n-th fence of the machine has the number Cookie(n).                 *)
Cookie(n) == IF n = 0 THEN 0 ELSE ((n - 1) % MAXFENCE) + 1

(* No buffer exists and the card is idle; the process may have used up     *)
(* fence numbers before, as long as it waited for the last of them.        *)
FakeInit ==
  m = [bo |-> [b \in Bos |-> NoBo], truth |-> [b \in Bos |-> Junk],
       heap |-> mmInit(0, HeapSize), mem |-> [u \in 0..(HeapSize - 1) |-> Junk],
       block |-> [o \in {} |-> Nothing], lru |-> <<>>, fenced |-> <<>>,
       on_hardware |-> <<>>, last_fence |-> Cookie(FirstFence), fail |-> FALSE, thrashing |-> FALSE,
       emitted |-> FirstFence, done |-> FirstFence, ring |-> <<>>,
       fault |-> "none", execFailed |-> FALSE, dropped |-> {}, misread |-> FALSE]

Live(b) == m.bo[b].refs > 0

-----------------------------------------------------------------------------
(* Fences.                                                                 *)
\* mutation of FENCE_LTE: numbers that wrapped are compared as they stand
PlainLTE(a, b) == a <= b

FENCE_LTE(a, b) ==
  \/ a = b
  \/ a < b /\ b - a < FenceWindow
  \/ a > b /\ MAXFENCE - a + b < FenceWindow

FenceTest(s, fence) == fence = 0 \/ FENCE_LTE(fence, s.last_fence)

Emit(s) == [s EXCEPT !.emitted = @ + 1]

Units(b, ofs) == ofs..(ofs + BoSize[b] - 1)

(* Into card memory; a static buffer, which has no block, has memory of    *)
(* its own, kept in `backing`.                                             *)
Store(s, b, ofs, content) ==
  IF ofs = NoBlock THEN [s EXCEPT !.bo[b].backing = content]
  ELSE [s EXCEPT !.mem = [u \in DOMAIN @ |-> IF u \in Units(b, ofs) THEN content ELSE @[u]]]

(* What a batch finds in the memory of buffer b at ofs.                    *)
Holds(s, b, ofs, content) == \A u \in Units(b, ofs) : s.mem[u] = content

(* The card runs the oldest batch of the ring: it reads every buffer of    *)
(* the batch, whose contents should be those expected when the batch was   *)
(* submitted, and stores its results.                                      *)
RunBatch(s) ==
  LET batch == Head(s.ring)
      ran == FoldLeft(LAMBDA t, u : Store(t, u.bo, u.ofs, u.after), s,
                      SelectSeq(batch.uses, LAMBDA u : u.writes))
      bad == \E i \in DOMAIN batch.uses :
               LET u == batch.uses[i]
               IN  /\ u.bo \notin batch.dropped
                   /\ u.before.ver # 0
                   /\ ~Holds(s, u.bo, u.ofs, u.before)
  IN  [ran EXCEPT !.ring = Tail(@), !.done = batch.fence, !.misread = @ \/ bad]

RECURSIVE RunTo(_, _)
RunTo(s, n) ==
  IF s.ring # <<>> /\ Head(s.ring).fence <= n THEN RunTo(RunBatch(s), n)
  ELSE [s EXCEPT !.done = IF @ < n THEN n ELSE @]

-----------------------------------------------------------------------------
(* Blocks.                                                                 *)
Dropped(f, o) == [x \in DOMAIN f \ {o} |-> f[x]]

AlignedSize(b) == ((BoSize[b] + Alignment - 1) \div Alignment) * Alignment

(* alloc_block, when mm has answered r; without room the buffer is left    *)
(* without a block.  Running out of the program's own memory is not        *)
(* modelled.                                                               *)
WithBlock(s, b, r) ==
  IF r.block = NoBlock THEN s
  ELSE [s EXCEPT !.heap = r.heap,
                 !.lru = Append(@, r.block),
                 !.block = [o \in DOMAIN @ \cup {r.block} |->
                              IF o # r.block THEN @[o]
                              ELSE [bo |-> b, on_hardware |-> FALSE,
                                    fenced |-> FALSE, fence |-> 0]],
                 !.bo[b].block = r.block]

alloc_block(s, b) == WithBlock(s, b, mmAllocMem(s.heap, AlignedSize(b), Alignment, 0, 2))

ReleaseMemory(s, o) ==
  [s EXCEPT !.heap = mmFreeMem(@, o), !.block = Dropped(@, o),
            !.lru = Remove(@, o), !.fenced = Remove(@, o),
            !.on_hardware = Remove(@, o)]

(* What the card's memory holds for buffer b, as the code's memcpy takes   *)
(* it: a mixture is nobody's contents.                                     *)
CardContent(s, b, ofs) ==
  IF \E c \in {s.mem[u] : u \in Units(b, ofs)} : Holds(s, b, ofs, c)
  THEN s.mem[ofs] ELSE Junk

(* The part of free_block that saves what the card has written.            *)
CopyOut(s, o, skip) ==
  LET b == s.block[o].bo
  IN  IF skip \/ s.bo[b].no_backing \/ ~s.bo[b].card_dirty THEN s
      ELSE [s EXCEPT !.bo[b].backing = CardContent(s, b, o),
                     !.bo[b].card_dirty = FALSE, !.bo[b].dirty = TRUE]

KeepsMemory(block) == block.on_hardware \/ block.fenced

(* free_block: the memory itself waits for the card.                       *)
free_block(s, o, skip) ==
  LET t == CopyOut(s, o, skip)
  IN  IF s.block[o].bo = Nothing THEN [s EXCEPT !.fault = "freed block of no buffer"]
      ELSE IF KeepsMemory(s.block[o]) THEN [t EXCEPT !.block[o].bo = Nothing]
      ELSE ReleaseMemory(t, o)

(* set_dirty, with the callback that tells the program of lost contents.   *)
set_dirty(s, b) ==
  [s EXCEPT !.bo[b].dirty = TRUE,
            !.truth[b] = IF s.bo[b].no_backing THEN Junk ELSE @,
            !.dropped = @ \ {b}]

(* evict_lru and evict_mru differ in the end of the list they take from.   *)
Evict(s, o) ==
  LET b == s.block[o].bo
      t == [set_dirty(s, b) EXCEPT !.bo[b].block = NoBlock]
  IN  free_block(t, o, FALSE)

(* One block of the fenced list whose fence has passed.                    *)
Unfence(s, o) ==
  IF s.block[o].bo = Nothing THEN ReleaseMemory(s, o)
  ELSE [s EXCEPT !.block[o].fenced = FALSE,
                 !.fenced = Tail(@), !.lru = Append(@, o)]

RECURSIVE ClearPassed(_)
ClearPassed(s) ==
  IF s.fenced # <<>> /\ FenceTest(s, s.block[s.fenced[1]].fence)
  THEN ClearPassed(Unfence(s, s.fenced[1])) ELSE s

clear_fenced(s, cookie) == ClearPassed([s EXCEPT !.last_fence = cookie])

(* The latest fence emitted with that number.                              *)
FenceNumbered(s, cookie) ==
  CHOOSE n \in (s.emitted - MAXFENCE + 1)..s.emitted :
    n > 0 /\ Cookie(n) = cookie

Half == (MAXFENCE + 1) \div 2   \* 0x40000000

(* _fence_wait_internal: until the card has passed the fence, except when  *)
(* it is seen to have wrapped past it (case C), which returns without      *)
(* clearing anything.  FakeFence models the loop.                          *)
WrappedPast(s, cookie) == cookie - Cookie(s.done) > Half

fence_wait(s, cookie) ==
  IF WrappedPast(s, cookie) THEN s
  ELSE clear_fenced(RunTo(s, FenceNumbered(s, cookie)), cookie)

wait_idle(s) == LET t == Emit(s) IN fence_wait(t, Cookie(t.emitted))

FenceBlock(s, o, fence) ==
  [s EXCEPT !.block[o] = [@ EXCEPT !.fence = fence, !.on_hardware = FALSE, !.fenced = TRUE],
            !.on_hardware = Tail(@), !.fenced = Append(@, o)]

fence_blocks(s, fence) ==
  FoldLeft(LAMBDA t, o : FenceBlock(t, o, fence), s, s.on_hardware)

-----------------------------------------------------------------------------
(* evict_and_alloc_block.                                                  *)
Placed(s, b) == s.bo[b].block # NoBlock \/ s.fault # "none"

RECURSIVE EvictLruFor(_, _)
EvictLruFor(s, b) ==
  IF Placed(s, b) \/ s.lru = <<>> THEN s
  ELSE EvictLruFor(alloc_block(Evict(s, s.lru[1]), b), b)

RECURSIVE EvictMruFor(_, _)
EvictMruFor(s, b) ==
  IF Placed(s, b) \/ s.lru = <<>> THEN s
  ELSE EvictMruFor(alloc_block(Evict(s, s.lru[Len(s.lru)]), b), b)

(* A wait that clears nothing leaves the loop where it was, for ever.      *)
RECURSIVE WaitFencesFor(_, _)
WaitFencesFor(s, b) ==
  IF Placed(s, b) \/ s.fenced = <<>> THEN s
  ELSE LET t == fence_wait(s, s.block[s.fenced[1]].fence)
       IN  IF t = s THEN [s EXCEPT !.fault = "endless wait"]
           ELSE WaitFencesFor(alloc_block(t, b), b)

UnlessThrashing(s, b) == IF s.thrashing THEN s ELSE EvictLruFor(s, b)

StartThrashing(s, b) ==
  IF Placed(s, b) \/ s.on_hardware = <<>> THEN s
  ELSE alloc_block([s EXCEPT !.thrashing = TRUE], b)

evict_and_alloc_block(s, b) ==
  EvictMruFor(StartThrashing(WaitFencesFor(UnlessThrashing(alloc_block(s, b), b), b), b), b)

Place(s, b) == IF s.bo[b].block # NoBlock THEN s ELSE evict_and_alloc_block(s, b)

wait_rendering(s, b) ==
  LET o == s.bo[b].block
  IN  IF o = NoBlock \/ ~s.block[o].fenced THEN s
      ELSE fence_wait(s, s.block[o].fence)

WithBackingStore(s, b) ==
  IF s.bo[b].backing # Nothing THEN s ELSE [s EXCEPT !.bo[b].backing = Junk]

-----------------------------------------------------------------------------
(* Mapping.                                                                *)
MapStatic(s, b) ==
  IF s.bo[b].card_dirty
  THEN [wait_idle(s) EXCEPT !.bo[b].card_dirty = FALSE] ELSE s

MapBlock(s, b) ==
  IF s.bo[b].block = NoBlock THEN [s EXCEPT !.fail = TRUE]
  ELSE [wait_rendering([s EXCEPT !.bo[b].dirty = FALSE], b)
          EXCEPT !.bo[b].virtual = "card"]

MapOnCard(s, b) == MapBlock(Place(s, b), b)

\* mutation of CopyBack: the buffer is read while the card still renders
CopyBackUnwaited(s, b) ==
  IF ~s.bo[b].card_dirty \/ s.bo[b].block = NoBlock THEN s
  ELSE [s EXCEPT !.bo[b].backing = CardContent(s, b, s.bo[b].block),
                 !.bo[b].card_dirty = FALSE]

CopyBack(s, b) ==
  LET t == wait_rendering(s, b)
  IN  IF ~s.bo[b].card_dirty \/ s.bo[b].block = NoBlock THEN s
      ELSE [t EXCEPT !.bo[b].backing = CardContent(t, b, t.bo[b].block),
                     !.bo[b].card_dirty = FALSE]

MapBackingStore(s, b, write) ==
  LET t == IF write THEN set_dirty(s, b) ELSE s
  IN  [CopyBack(WithBackingStore(t, b), b) EXCEPT !.bo[b].virtual = "backing"]

map_locked(s, b, write) ==
  IF s.bo[b].is_static THEN MapStatic(s, b)
  ELSE LET t == [s EXCEPT !.bo[b].maps = @ + 1]
       IN  IF s.bo[b].maps # 0 THEN t
           ELSE IF s.bo[b].no_backing THEN MapOnCard(t, b)
           ELSE MapBackingStore(t, b, write)

unmap_locked(s, b) ==
  IF s.bo[b].is_static THEN s
  ELSE [s EXCEPT !.bo[b].maps = @ - 1,
                 !.bo[b].virtual = IF s.bo[b].maps = 1 THEN Nothing ELSE @]

(* A store through bo->virtual.                                            *)
Poke(s, b, content) ==
  LET t == [s EXCEPT !.truth[b] = content, !.dropped = @ \ {b}]
  IN  IF s.bo[b].virtual = "card" THEN Store(t, b, s.bo[b].block, content)
      ELSE [t EXCEPT !.bo[b].backing = content]

Written(s, b) == [s.truth[b] EXCEPT !.bo = b, !.ver = @ + 1]

-----------------------------------------------------------------------------
(* References and the end of a buffer.                                     *)
RECURSIVE unreference_locked(_, _)
unreference_locked(s, b) ==
  LET o == s.bo[b].block
      t == IF o = NoBlock THEN s ELSE free_block(s, o, TRUE)
      gone == [t EXCEPT !.bo[b] = NoBo, !.truth[b] = Junk, !.dropped = @ \ {b}]
      targets == [i \in DOMAIN s.bo[b].relocs |-> s.bo[b].relocs[i].target]
  IN  IF s.bo[b].refs > 1 THEN [s EXCEPT !.bo[b].refs = @ - 1]
      ELSE FoldLeft(LAMBDA x, c : unreference_locked(x, c), gone, targets)

-----------------------------------------------------------------------------
(* Execution.                                                              *)
(* drm_intel_fake_calculate_domains: who is written by the batch.          *)
RECURSIVE calculate_domains(_, _)
calculate_domains(s, b) ==
  FoldLeft(LAMBDA t, r : [calculate_domains(t, r.target)
                            EXCEPT !.bo[r.target].write_domain = @ \/ r.write],
           s, s.bo[b].relocs)

(* The copy into card memory that wait_idle precedes.                      *)
Upload(s, b) ==
  LET t == wait_idle(s)
  IN  IF s.bo[b].no_backing THEN [s EXCEPT !.fault = "upload without backing store"]
      ELSE [Store(t, b, t.bo[b].block,
                  IF t.bo[b].backing = Nothing THEN Junk ELSE t.bo[b].backing)
              EXCEPT !.bo[b].dirty = FALSE]

OnHardware(s, b) ==
  LET o == s.bo[b].block
  IN  [s EXCEPT !.block[o].fenced = FALSE, !.block[o].on_hardware = TRUE,
                !.lru = Remove(@, o), !.fenced = Remove(@, o),
                !.on_hardware = Append(Remove(@, o), o),
                !.bo[b].validated = TRUE]

UploadDirty(s, b) == IF s.bo[b].dirty THEN Upload(s, b) ELSE s

ValidatePlaced(s, b) ==
  IF s.fault # "none" THEN s
  ELSE IF s.bo[b].block = NoBlock THEN [s EXCEPT !.fail = TRUE]
  ELSE OnHardware(UploadDirty([s EXCEPT !.bo[b].offset = s.bo[b].block], b), b)

bo_validate(s, b) ==
  IF s.fault # "none" \/ s.bo[b].is_static THEN s ELSE ValidatePlaced(Place(s, b), b)

\* mutation of Relocated: an entry is never patched once it was written
RelocatedNever(s, b, i) == s

(* Patches entry i of the buffer when its target is not where it was.      *)
Patched(s, b, i, here) ==
  IF s.bo[b].virtual = Nothing THEN [s EXCEPT !.fault = "store through null"]
  ELSE [Poke(s, b, [s.truth[b] EXCEPT !.bo = b, !.rel[i] = here])
          EXCEPT !.bo[b].relocs[i].last_target_offset = here]

Relocated(s, b, i) ==
  LET r == s.bo[b].relocs[i]
      here == s.bo[r.target].offset
  IN  IF here = r.last_target_offset THEN s
      ELSE Patched(IF s.bo[b].virtual = Nothing THEN map_locked(s, b, TRUE) ELSE s, b, i, here)

CardDirty(s, b) ==
  IF ~s.bo[b].write_domain THEN s
  ELSE [(IF s.bo[b].no_backing \/ s.bo[b].is_static THEN s ELSE WithBackingStore(s, b))
          EXCEPT !.bo[b].card_dirty = TRUE]

Unmapped(s, b) == IF s.bo[b].virtual = Nothing THEN s ELSE unmap_locked(s, b)

Stopped(s) == s.fail \/ s.fault # "none"

RelocatedNext(s, b, i) == IF Stopped(s) THEN s ELSE Relocated(s, b, i)

ValidatedNext(s, b) == IF Stopped(s) THEN s ELSE bo_validate(CardDirty(s, b), b)

RECURSIVE reloc_and_validate_buffer(_, _)
reloc_and_validate_buffer(s, b) ==
  LET step(t, i) ==
        LET target == t.bo[b].relocs[i].target
        IN  RelocatedNext(IF Stopped(t) \/ t.bo[target].validated THEN t
                          ELSE reloc_and_validate_buffer(t, target), b, i)
  IN  ValidatedNext(Unmapped(FoldLeft(step, s, [i \in DOMAIN s.bo[b].relocs |-> i]), b), b)

(* drm_intel_fake_kick_all_locked.                                         *)
Kick(s, o) ==
  LET b == s.block[o].bo
      t == free_block([s EXCEPT !.block[o].on_hardware = FALSE], o, FALSE)
  IN  IF b = Nothing THEN [s EXCEPT !.fault = "kicked a block of no buffer"]
      ELSE [t EXCEPT !.bo[b].block = NoBlock, !.bo[b].validated = FALSE,
                     !.bo[b].dirty = @ \/ ~s.bo[b].no_backing,
                     !.dropped = IF s.bo[b].no_backing THEN @ \cup {b} ELSE @]

kick_all_locked(s) == FoldLeft(Kick, s, s.on_hardware)

(* One more attempt after everything on the hardware was kicked off.       *)
TryAgain(s, b) ==
  IF ~s.fail \/ s.fault # "none" THEN s
  ELSE reloc_and_validate_buffer([kick_all_locked(s) EXCEPT !.fail = FALSE], b)

AssertValidated(s) ==
  IF s.fail /\ s.fault = "none" THEN [s EXCEPT !.fault = "validation failed"] ELSE s

Validated(s, b) == AssertValidated(TryAgain(reloc_and_validate_buffer(s, b), b))

RECURSIVE Tree(_, _)
Tree(s, b) == {b} \cup UNION {Tree(s, s.bo[b].relocs[i].target) : i \in DOMAIN s.bo[b].relocs}

RECURSIVE post_submit(_, _)
post_submit(s, b) ==
  LET below == FoldLeft(LAMBDA t, r : IF t.bo[r.target].validated
                                      THEN post_submit(t, r.target) ELSE t,
                        s, s.bo[b].relocs)
  IN  [below EXCEPT !.bo[b].validated = FALSE, !.bo[b].write_domain = FALSE]

(* The batch as the card will find it, and the contents it will leave.     *)
Submit(s, b) ==
  LET tree == {c \in Tree(s, b) : s.bo[c].is_static \/ s.bo[c].block # NoBlock}
      pointers(c) == [i \in DOMAIN s.bo[c].relocs |-> s.bo[s.bo[c].relocs[i].target].block]
      use(c) == [bo |-> c, ofs |-> s.bo[c].block, writes |-> s.bo[c].write_domain,
                 before |-> IF s.bo[c].is_static THEN Junk
                            ELSE [s.truth[c] EXCEPT !.rel = pointers(c)],
                 after |-> Written(s, c)]
      batch == [fence |-> s.emitted + 1, uses |-> SetToSeq({use(c) : c \in tree}),
                dropped |-> s.dropped]
  IN  [s EXCEPT !.ring = Append(@, batch),
                !.truth = [c \in Bos |-> IF c \in tree /\ s.bo[c].write_domain
                                         THEN Written(s, c) ELSE @[c]]]

fence_validated(s) == LET t == Emit(s) IN fence_blocks(t, Cookie(t.emitted))

-----------------------------------------------------------------------------
(* The operations of the buffer manager.                                   *)
Running == m.fault = "none" /\ ~m.execFailed

Becomes(s) == m' = s

(* A name is used again once no batch in flight uses the static buffer it  *)
(* stood for: the program gives every static buffer memory of its own.     *)
Unnamed(b) ==
  /\ ~Live(b)
  /\ \A i \in DOMAIN m.ring :
       ~\E j \in DOMAIN m.ring[i].uses : m.ring[i].uses[j].bo = b /\ m.ring[i].uses[j].ofs = NoBlock

bo_alloc(b) ==
  /\ Running
  /\ Unnamed(b)
  /\ Becomes([m EXCEPT !.bo[b] = [NoBo EXCEPT !.refs = 1]])

(* drm_intel_bo_fake_alloc_static: always mapped, never moved.             *)
bo_alloc_static(b) ==
  /\ Running
  /\ Unnamed(b)
  /\ b \in StaticBos
  /\ Becomes([m EXCEPT !.bo[b] = [NoBo EXCEPT !.refs = 1, !.is_static = TRUE,
                                    !.virtual = "static", !.backing = Junk]])

bo_reference(b) ==
  /\ Running
  /\ Live(b)
  /\ b \in Shared
  /\ m.bo[b].refs < MaxRefs
  /\ Becomes([m EXCEPT !.bo[b].refs = @ + 1])

(* References held by relocations are not the program's to drop.           *)
RelocRefs(b) ==
  Cardinality({<<c, i>> \in Bos \X (1..MAX_RELOCS) :
                 i \in DOMAIN m.bo[c].relocs /\ m.bo[c].relocs[i].target = b})

bo_unreference(b) ==
  /\ Running
  /\ m.bo[b].refs > RelocRefs(b)
  /\ m.bo[b].maps = 0
  /\ Becomes(unreference_locked(m, b))

disable_backing_store(b) ==
  /\ Running
  /\ Live(b)
  /\ b \in Unbacked
  /\ ~m.bo[b].is_static
  /\ m.bo[b].maps = 0
  /\ Becomes([m EXCEPT !.bo[b].backing = Nothing, !.bo[b].no_backing = TRUE,
                       !.bo[b].dirty = TRUE, !.truth[b] = Junk])

(* Evictions do not look at map_count, so a program must not make a call   *)
(* that may evict while it holds a mapping of card memory.                 *)
NoCardMapping == \A c \in Bos : m.bo[c].virtual # "card"

MayEmit == m.emitted - FirstFence < MaxFences

bo_map(b, write) ==
  /\ Running
  /\ Live(b)
  /\ m.bo[b].maps < MaxMaps[b]
  /\ MayEmit
  /\ m.bo[b].maps > 0 \/ NoCardMapping
  /\ Becomes(map_locked(m, b, write))

(* The program stores through a mapping made for writing.                  *)
bo_write(b) ==
  /\ Running
  /\ b \notin Batches
  /\ m.bo[b].virtual # Nothing
  /\ m.bo[b].dirty \/ m.bo[b].no_backing \/ (m.bo[b].is_static /\ ~m.bo[b].card_dirty)
  /\ m.truth[b].ver < MaxVersion[b]
  /\ Becomes(Poke(m, b, Written(m, b)))

bo_unmap(b) ==
  /\ Running
  /\ m.bo[b].maps > 0
  /\ Becomes(unmap_locked(m, b))

Stored(s, b) ==
  IF s.bo[b].virtual = Nothing THEN s ELSE unmap_locked(Poke(s, b, Written(s, b)), b)

bo_subdata(b) ==
  /\ Running
  /\ Live(b)
  /\ b \notin Batches
  /\ m.bo[b].maps = 0
  /\ m.truth[b].ver < MaxVersion[b]
  /\ MayEmit
  /\ NoCardMapping
  /\ Becomes(Stored(map_locked(m, b, TRUE), b))

bo_wait_rendering(b) ==
  /\ Running
  /\ Live(b)
  /\ Becomes(wait_rendering(m, b))

(* drm_intel_fake_emit_reloc, and the entry that the program stores in the *)
(* mapped buffer beside it.                                                *)
emit_reloc(b, target) ==
  /\ Running
  /\ Live(b) /\ Live(target)
  /\ b \in Batches
  /\ m.bo[b].virtual # Nothing
  /\ m.bo[b].dirty \/ m.bo[b].no_backing
  /\ Len(m.bo[b].relocs) < MAX_RELOCS
  /\ m.bo[target].refs < MaxRefs
  /\ b \notin Tree(m, target)
  /\ LET here == m.bo[target].offset
         size == IF m.bo[target].is_static THEN 0
                 ELSE AlignedSize(target) + m.bo[target].child_size
         r == [target |-> target, last_target_offset |-> here,
               write |-> target \in Rendered]
         t == [m EXCEPT !.bo[b].relocs = Append(@, r), !.bo[b].child_size = @ + size,
                        !.bo[target].refs = @ + 1]
     IN  Becomes(Poke(t, b, [bo |-> b, ver |-> 1, rel |-> Append(t.truth[b].rel, here)]))

(* drm_intel_fake_bo_exec: works says whether the driver or the kernel     *)
(* takes the batch.  Nothing is fenced or reset when it does not, and the  *)
(* model follows the program no further.                                   *)
Executed(s, b, works) ==
  IF s.fault # "none" THEN s
  ELSE IF ~works THEN [s EXCEPT !.execFailed = TRUE]
  ELSE post_submit(fence_validated(Submit(s, b)), b)

bo_exec(b, works) ==
  /\ Running
  /\ Live(b)
  /\ m.bo[b].relocs # <<>>
  /\ MayEmit
  /\ NoCardMapping
  /\ \A c \in Tree(m, b) : m.bo[c].maps = 0
  /\ \A c \in Tree(m, b) \cap Rendered : m.truth[c].ver < MaxVersion[c]
  /\ Becomes(Executed(Validated(calculate_domains(m, b), b), b, works))

CheckIdle(s) ==
  IF s.fenced # <<>> \/ s.on_hardware # <<>> THEN [s EXCEPT !.fault = "not idle"] ELSE s

(* Somebody else held the hardware lock and may have used all of the       *)
(* memory: what only the card's memory held is lost.                       *)
Overrun(s) ==
  [s EXCEPT !.mem = [u \in DOMAIN @ |-> Junk],
            !.truth = [b \in Bos |-> IF s.bo[b].card_dirty THEN Junk ELSE @[b]]]

contended_lock_take ==
  /\ Running
  /\ MayEmit
  /\ NoCardMapping
  /\ LET t == CheckIdle(wait_idle([m EXCEPT !.fail = FALSE]))
         old == \E i \in DOMAIN t.lru : ~FenceTest(t, t.block[t.lru[i]].fence)
     IN  Becomes(IF t.fault # "none" THEN t
                 ELSE IF old THEN [t EXCEPT !.fault = "old fence"]
                 ELSE FoldLeft(LAMBDA x, o : set_dirty(x, x.block[o].bo), Overrun(t), t.lru))

(* drm_intel_bufmgr_fake_evict_all frees the blocks without set_dirty.     *)
EvictIdle(s, o) ==
  LET b == s.block[o].bo
      t == [free_block(s, o, FALSE) EXCEPT !.bo[b].block = NoBlock]
  IN  IF t.bo[b].dirty THEN t ELSE [t EXCEPT !.dropped = @ \cup {b}]

evict_all ==
  /\ Running
  /\ MayEmit
  /\ NoCardMapping
  /\ LET t == CheckIdle(wait_idle([m EXCEPT !.fail = FALSE]))
     IN  Becomes(IF t.fault # "none" THEN t ELSE FoldLeft(EvictIdle, t, t.lru))

(* The card executes the oldest batch.                                     *)
Card ==
  /\ Running
  /\ m.ring # <<>>
  /\ Becomes(RunBatch(m))

FakeNext ==
  \/ \E b \in Bos : \/ bo_alloc(b) \/ bo_alloc_static(b) \/ bo_reference(b) \/ bo_unreference(b)
                    \/ disable_backing_store(b) \/ bo_write(b) \/ bo_unmap(b)
                    \/ bo_subdata(b) \/ bo_wait_rendering(b)
  \/ \E b \in Bos, write \in BOOLEAN : bo_map(b, write)
  \/ \E b \in Bos, target \in Bos : emit_reloc(b, target)
  \/ \E b \in Bos, works \in BOOLEAN : bo_exec(b, works)
  \/ contended_lock_take
  \/ evict_all
  \/ Card

-----------------------------------------------------------------------------
(* Blocks and heap agree: every block in use is on exactly the list that   *)
(* its flags say, and memory leaves the heap only with its block.          *)
BlocksMatchHeap ==
  /\ HeapIsTiled(m.heap, 0, HeapSize)
  /\ HeapIsJoined(m.heap)
  /\ DOMAIN m.block = {m.heap.blocks[i].ofs :
                         i \in {j \in DOMAIN m.heap.blocks : ~m.heap.blocks[j].free}}
  /\ \A o \in DOMAIN m.block :
       /\ (o \in ToSet(m.on_hardware)) = m.block[o].on_hardware
       /\ (o \in ToSet(m.fenced)) = m.block[o].fenced
       /\ (o \in ToSet(m.lru)) = ~(m.block[o].on_hardware \/ m.block[o].fenced)
       /\ m.block[o].bo # Nothing => m.bo[m.block[o].bo].block = o

(* Whatever is waited for, an idle card leaves nothing fenced and no old   *)
(* fence behind, fence numbers that wrap around included; no block is      *)
(* freed twice or kicked without a buffer, and no entry is patched through *)
(* a null mapping.  Three things end the program all the same: a batch     *)
(* that does not fit, a batch that uses a buffer without backing store     *)
(* before the program has filled it again, and the wait that case C makes  *)
(* endless.                                                                *)
AssertionsHold ==
  m.fault \in {"none", "validation failed", "upload without backing store", "endless wait"}

(* Both together: the manager's lists, its heap and its assertions.        *)
FakeSound == BlocksMatchHeap /\ AssertionsHold

(* A mapped buffer shows what the program last stored or the card last     *)
(* wrote, wherever the contents have travelled in between; a static buffer *)
(* does once a map has found it clean.                                     *)
MappedIsCurrent ==
  \A b \in Bos \ m.dropped :
    m.truth[b].ver # 0 =>
      /\ m.bo[b].is_static /\ ~m.bo[b].card_dirty => m.bo[b].backing = m.truth[b]
      /\ m.bo[b].virtual = "backing" => m.bo[b].backing = m.truth[b]
      /\ m.bo[b].virtual = "card" => Holds(m, b, m.bo[b].block, m.truth[b])

(* Every batch finds the contents that its buffers had when it was         *)
(* submitted, and in its relocation entries the places its targets are at, *)
(* evictions notwithstanding.                                              *)
CardReadsCurrent == ~m.misread
=============================================================================
