------------------------------- MODULE GemAub -------------------------------
(* intel_bufmgr_gem.c: the trace for the simulator that exec writes before *)
(* it hands a batch to the kernel.  Every buffer of the validation list    *)
(* gets an address in the trace, is written in blocks as its annotations   *)
(* say, and its relocations are resolved while it is written, so the       *)
(* targets must have got their addresses first.  Offsets count words.      *)
EXTENDS Integers, Sequences, FiniteSets, FiniteSetsExt, SequencesExt

CONSTANTS
  AubBos,          \* the buffers
  AubSources,      \* those with commands: they have relocations and are executed
  AubSize(_),      \* their sizes
  AubNotes(_),     \* lists of annotations [type, ending_offset] for a buffer
  AubBlock,        \* the largest block (8 * 4096 bytes)
  AubStart,        \* where addresses begin, behind the GTT (0x10000)
  AubLimit,        \* the end of the aperture (256 MiB)
  AubRing,         \* the size of a ring (4096)
  AubMaxRelocs     \* bound: relocations of all buffers

VARIABLE aub
  (* open: there is a trace; aub_offset: the next address, and the address *)
  (* each buffer got last; notes: the annotations; relocs: [offset, bo];   *)
  (* frame: the last one, until something else changes: its batch, its     *)
  (* blocks, the ring's address and that of the batch in it, and a         *)
  (* picture; asserted: an assertion failed.                               *)

NoFrame == [batch |-> {}, blocks |-> << >>, ring |-> [batch |-> 0, at |-> 0], bmp |-> {}]

AubInit ==
  aub = [open |-> FALSE, next |-> 0, aub_offset |-> [b \in AubBos |-> 0], notes |-> [b \in AubBos |-> << >>],
         relocs |-> [b \in AubBos |-> << >>], frame |-> NoFrame, asserted |-> FALSE]

Works == ~aub.asserted

-----------------------------------------------------------------------------
drm_intel_bufmgr_gem_set_aub_dump(enable) ==
  /\ Works
  /\ aub' = [aub EXCEPT !.open = enable, !.next = IF enable THEN AubStart ELSE @, !.frame = NoFrame]

drm_intel_bufmgr_gem_set_aub_annotations(b, notes) ==
  /\ Works
  /\ aub' = [aub EXCEPT !.notes[b] = notes, !.frame = NoFrame]

AllRelocs == UNION {{b} \X DOMAIN aub.relocs[b] : b \in AubBos}

(* Not into a buffer that is the target of another.  The code's flag stays *)
(* until the target is freed; that a structure is freed and used anew is   *)
(* left to clear_relocs here.                                              *)
do_bo_emit_reloc(b, offset, target) ==
  /\ Works
  /\ Cardinality(AllRelocs) < AubMaxRelocs
  /\ \A r \in AllRelocs : r[1] # b => aub.relocs[r[1]][r[2]].bo # b
  /\ aub' = [aub EXCEPT !.relocs[b] = Append(@, [offset |-> offset, bo |-> target]), !.frame = NoFrame]

drm_intel_gem_bo_clear_relocs(b) ==
  /\ Works
  /\ aub' = [aub EXCEPT !.relocs[b] = << >>, !.frame = NoFrame]

RECURSIVE drm_intel_gem_bo_process_reloc(_, _)
drm_intel_gem_bo_process_reloc(list, b) ==
  LET add(l, x) == IF Contains(l, x) THEN l ELSE Append(l, x)
  IN  FoldLeft(LAMBDA l, r : IF r.bo = b THEN l ELSE add(drm_intel_gem_bo_process_reloc(l, r.bo), r.bo), list, aub.relocs[b])

(* The batch is last; a relocation of the batch to itself does not list it. *)
exec_bos(b) == Append(drm_intel_gem_bo_process_reloc(<< >>, b), b)

-----------------------------------------------------------------------------
(* The words of a block that are relocations: the first one at an offset   *)
(* counts, and its value is the address the target has at this moment.     *)
aub_write_bo_data(a, b, offset, size) ==
  {[offset |-> a.relocs[b][k].offset, bo |-> a.relocs[b][k].bo, val |-> a.aub_offset[a.relocs[b][k].bo]] :
     k \in {j \in DOMAIN a.relocs[b] : /\ a.relocs[b][j].offset \in offset..(offset + size - 1)
                                       /\ \A i \in 1..(j - 1) : a.relocs[b][i].offset # a.relocs[b][j].offset}}

aub_write_trace_block(a, b, type, offset, size) ==
  [a EXCEPT !.frame.blocks = Append(@, [bo |-> b, type |-> type, offset |-> offset, size |-> size,
                                        at |-> a.aub_offset[b] + offset, data |-> aub_write_bo_data(a, b, offset, size)])]

RECURSIVE aub_write_large_trace_block(_, _, _, _, _)
aub_write_large_trace_block(a, b, type, offset, size) ==
  IF size = 0 THEN a
  ELSE LET block_size == Min({size, AubBlock})
       IN  aub_write_large_trace_block(aub_write_trace_block(a, b, type, offset, block_size), b, type,
                                       offset + block_size, size - block_size)

aub_bo_get_address(a, b) ==
  [a EXCEPT !.aub_offset[b] = a.next, !.next = @ + AubSize(b), !.asserted = @ \/ a.next + AubSize(b) >= AubLimit]

(* The annotated sections, then the rest; an annotation that ends before   *)
(* the one in front of it is passed over.                                  *)
aub_write_bo(a, b) ==
  LET section(s, n) ==
        LET end == Min({n.ending_offset, AubSize(b)})
        IN  IF end <= s.offset THEN s
            ELSE [a |-> aub_write_large_trace_block(s.a, b, n.type, s.offset, end - s.offset), offset |-> end]
      s == FoldLeft(section, [a |-> aub_bo_get_address(a, b), offset |-> 0], a.notes[b])
  IN  aub_write_large_trace_block(s.a, b, "none", s.offset, AubSize(b) - s.offset)

aub_build_dump_ringbuffer(a, batch_buffer) ==
  [a EXCEPT !.frame.ring = [batch |-> batch_buffer, at |-> a.next], !.next = @ + AubRing]

(* A batch without annotations gets two for the time of the dump.          *)
aub_exec(b, used) ==
  LET lent == IF aub.notes[b] # << >> THEN aub.notes[b]
              ELSE <<[type |-> "batch", ending_offset |-> used], [type |-> "none", ending_offset |-> AubSize(b)]>>
      before == [aub EXCEPT !.notes[b] = lent, !.frame = [NoFrame EXCEPT !.batch = {b}]]
      written == FoldLeft(aub_write_bo, before, exec_bos(b))
      ended == aub_build_dump_ringbuffer([written EXCEPT !.notes[b] = aub.notes[b]], written.aub_offset[b])
  IN  /\ Works
      /\ aub.open
      /\ aub' = IF written.asserted THEN [aub EXCEPT !.asserted = TRUE] ELSE [ended EXCEPT !.next = AubStart]

(* A picture of a buffer, at the address the buffer got last.              *)
drm_intel_gem_bo_aub_dump_bmp(b) ==
  /\ Works
  /\ aub.open
  /\ aub' = [aub EXCEPT !.frame.bmp = {[bo |-> b, at |-> aub.aub_offset[b]]}]

(* The first relocation of a buffer is at its start, a second at its end.  *)
AubOffset(b) == IF aub.relocs[b] = << >> THEN 0 ELSE AubSize(b) - 1

AubNext ==
  \/ \E enable \in BOOLEAN : drm_intel_bufmgr_gem_set_aub_dump(enable)
  \/ \E b \in AubBos : \/ drm_intel_gem_bo_aub_dump_bmp(b)
                       \/ \E notes \in AubNotes(b) : drm_intel_bufmgr_gem_set_aub_annotations(b, notes)
  \/ \E b \in AubSources : \/ drm_intel_gem_bo_clear_relocs(b)
                           \/ \E target \in AubBos : do_bo_emit_reloc(b, AubOffset(b), target)
                           \/ \E used \in {1, AubSize(b) + 1} : aub_exec(b, used)

-----------------------------------------------------------------------------
Dumped == {aub.frame.blocks[k].bo : k \in DOMAIN aub.frame.blocks}

(* A frame can be replayed: every buffer is there once and whole, in       *)
(* blocks that the header can describe, whatever the annotations; no two   *)
(* buffers overlap, nor the ring; every relocation has the address that    *)
(* its target has in this very frame, however the buffers are shared, and  *)
(* none points outside of it; the ring starts the batch.  A picture of a   *)
(* buffer of the frame is taken from there.                                *)
AubReplays ==
  LET blocks == aub.frame.blocks
      of == [b \in Dumped |-> SelectSeq(blocks, LAMBDA k : k.bo = b)]
      address == [b \in Dumped |-> of[b][1].at]
      span == [b \in Dumped |-> address[b]..(address[b] + AubSize(b) - 1)]
  IN  /\ \A b \in Dumped :
           /\ \A k \in DOMAIN of[b] : of[b][k].offset = IF k = 1 THEN 0 ELSE of[b][k - 1].offset + of[b][k - 1].size
           /\ Last(of[b]).offset + Last(of[b]).size = AubSize(b)
           /\ \A c \in Dumped \ {b} : span[b] \cap span[c] = {}
           /\ span[b] \subseteq AubStart..(AubLimit - 1) /\ aub.frame.ring.at \notin span[b]
      /\ \A k \in DOMAIN blocks :
           /\ blocks[k].size \in 1..AubBlock
           /\ blocks[k].at = address[blocks[k].bo] + blocks[k].offset
           /\ \A r \in blocks[k].data : r.bo \in Dumped /\ r.val = address[r.bo]
      /\ \A b \in aub.frame.batch : b \in Dumped /\ aub.frame.ring.batch = address[b]
      /\ \A p \in aub.frame.bmp : p.bo \in Dumped => p.at = address[p.bo]
=============================================================================
