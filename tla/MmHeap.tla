------------------------------- MODULE MmHeap -------------------------------
(* A heap of intel/mm.c under any sequence of allocations, frees and       *)
(* failing callocs.                                                        *)
EXTENDS Mm

CONSTANTS MmOffset, MmSize,  \* what mmInit is given
          MmUnits,           \* alignments asked for, as 1 << align2
          MmStarts           \* values of startSearch

(* mmInit refuses an empty heap; a heap starts at an offset of the card.   *)
ASSUME MmAssumption ==
  /\ MmOffset \in Nat /\ MmSize \in Nat \ {0}
  /\ MmUnits \subseteq Nat \ {0} /\ MmStarts \subseteq Int

VARIABLES heap,
          broken   \* history: a SliceBlock ran out of memory half way

mmVars == <<heap, broken>>

MmInit ==
  /\ heap = mmInit(MmOffset, MmSize)
  /\ broken = FALSE

MmAlloc(size, unit, startSearch, nodes) ==
  LET r == mmAllocMem(heap, size, unit, startSearch, nodes)
  IN  /\ heap' = r.heap
      /\ broken' = (broken \/ (r.block = NoBlock /\ r.heap # heap))

(* A program frees what it was given, and may do so twice.                 *)
MmFree(ofs) ==
  /\ heap' = mmFreeMem(heap, ofs)
  /\ UNCHANGED broken

MmNext ==
  \/ \E size \in 1..MmSize, unit \in MmUnits,
        startSearch \in MmStarts, nodes \in 0..2 :
       MmAlloc(size, unit, startSearch, nodes)
  \/ \E i \in DOMAIN heap.blocks : MmFree(heap.blocks[i].ofs)

MmSpec == MmInit /\ [][MmNext]_mmVars

(* Whatever is allocated and freed, in whatever order, the blocks tile the *)
(* heap and the free list is exact, and two free neighbours are always     *)
(* joined, so that a heap with nothing allocated is one block again;       *)
(* running out of memory between the two cuts of a slice is all that can   *)
(* leave free neighbours, and it loses no memory either.                   *)
HeapIsSound ==
  /\ HeapIsTiled(heap, MmOffset, MmSize)
  /\ broken \/ HeapIsJoined(heap)
=============================================================================
