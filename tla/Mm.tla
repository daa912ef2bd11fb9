--------------------------------- MODULE Mm ---------------------------------
(* intel/mm.c: the first-fit block allocator of the fake buffer manager.   *)
(* A heap is the doubly linked list of its blocks in address order and a   *)
(* second list through the free ones.  A block's offset never changes, so  *)
(* it stands for the pointer to the block.                                 *)
EXTENDS DrmLists, SequencesExt

Block(ofs, size, free) == [ofs |-> ofs, size |-> size, free |-> free]

NoBlock == -1

(* mmInit: one free block.                                                 *)
mmInit(ofs, size) ==
  [blocks |-> <<Block(ofs, size, TRUE)>>, free |-> <<ofs>>]

(* mmFindBlock: the position of the block that starts at ofs.              *)
mmFindBlock(heap, ofs) ==
  CHOOSE i \in DOMAIN heap.blocks : heap.blocks[i].ofs = ofs

BlockAt(heap, ofs) == heap.blocks[mmFindBlock(heap, ofs)]

(* Splits the free block at ofs after size bytes; the new block follows it *)
(* in both lists.                                                          *)
Split(heap, ofs, size) ==
  LET i == mmFindBlock(heap, ofs)
      j == CHOOSE j \in DOMAIN heap.free : heap.free[j] = ofs
      b == heap.blocks[i]
  IN  [blocks |-> InsertAt([heap.blocks EXCEPT ![i].size = size], i + 1,
                           Block(ofs + size, b.size - size, TRUE)),
       free |-> InsertAt(heap.free, j + 1, ofs + size)]

(* SliceBlock: break off what lies before startofs, then what lies after   *)
(* the size asked for, and take the middle out of the free list.  nodes is *)
(* how many block structures calloc can still provide: without one the     *)
(* slice stops where it is.  The result is the heap and the block taken.   *)
SliceBlock(heap, ofs, startofs, size, nodes) ==
  LET left == startofs > ofs
      h1 == IF left THEN Split(heap, ofs, startofs - ofs) ELSE heap
      spare == IF left THEN nodes - 1 ELSE nodes
      right == size < BlockAt(h1, startofs).size
      h2 == IF right THEN Split(h1, startofs, size) ELSE h1
  IN  IF left /\ nodes = 0 THEN [heap |-> heap, block |-> NoBlock]
      ELSE IF right /\ spare = 0 THEN [heap |-> h1, block |-> NoBlock]
      ELSE [heap |-> [blocks |-> [h2.blocks EXCEPT ![mmFindBlock(h2, startofs)].free = FALSE],
                      free |-> RemoveItem(h2.free, startofs)],
            block |-> startofs]

(* The first offset of a block that is aligned, or startSearch if later.   *)
StartOfs(ofs, unit, startSearch) ==
  LET up == ((ofs + unit - 1) \div unit) * unit
  IN  IF up < startSearch THEN startSearch ELSE up

Fits(b, size, unit, startSearch) ==
  StartOfs(b.ofs, unit, startSearch) + size <= b.ofs + b.size

(* mmAllocMem: the first block of the free list that is large enough.      *)
(* unit is 1 << align2.                                                    *)
mmAllocMem(heap, size, unit, startSearch, nodes) ==
  LET fit == {j \in DOMAIN heap.free :
                Fits(BlockAt(heap, heap.free[j]), size, unit, startSearch)}
      first == CHOOSE j \in fit : \A l \in fit : j <= l
      ofs == heap.free[first]
  IN  IF fit = {} THEN [heap |-> heap, block |-> NoBlock]
      ELSE SliceBlock(heap, ofs, StartOfs(ofs, unit, startSearch), size, nodes)

(* Join2Blocks: a free block swallows a free successor, which leaves both  *)
(* lists.                                                                  *)
Join2Blocks(heap, i) ==
  IF i = Len(heap.blocks) \/ ~heap.blocks[i].free \/ ~heap.blocks[i + 1].free
  THEN heap
  ELSE [blocks |-> RemoveAt([heap.blocks EXCEPT ![i].size = @ + heap.blocks[i + 1].size],
                            i + 1),
        free |-> RemoveItem(heap.free, heap.blocks[i + 1].ofs)]

\* mutation of mmFreeMem: the block is not joined with the one before it
FreeWithoutJoinBefore(heap, ofs) ==
  LET i == mmFindBlock(heap, ofs)
  IN  Join2Blocks([blocks |-> [heap.blocks EXCEPT ![i].free = TRUE],
                   free |-> <<ofs>> \o heap.free], i)

(* mmFreeMem: to the front of the free list, then joined with the blocks   *)
(* on both sides.  A block that is already free is refused.                *)
mmFreeMem(heap, ofs) ==
  LET i == mmFindBlock(heap, ofs)
      loose == [blocks |-> [heap.blocks EXCEPT ![i].free = TRUE],
                free |-> <<ofs>> \o heap.free]
      joined == Join2Blocks(loose, i)
  IN  IF heap.blocks[i].free THEN heap
      ELSE IF i = 1 THEN joined ELSE Join2Blocks(joined, i - 1)

-----------------------------------------------------------------------------
(* The blocks cover the heap without gaps or overlaps, none is empty, and  *)
(* the free list holds exactly the free ones, each once.                   *)
HeapIsTiled(heap, ofs, size) ==
  LET n == Len(heap.blocks)
  IN  /\ heap.blocks[1].ofs = ofs
      /\ heap.blocks[n].ofs + heap.blocks[n].size = ofs + size
      /\ \A i \in 1..n : heap.blocks[i].size > 0
      /\ \A i \in 1..(n - 1) :
           heap.blocks[i].ofs + heap.blocks[i].size = heap.blocks[i + 1].ofs
      /\ NoDuplicates(heap.free)
      /\ Items(heap.free) = {heap.blocks[i].ofs : i \in {j \in 1..n : heap.blocks[j].free}}

(* Two free neighbours are always joined.                                  *)
HeapIsJoined(heap) ==
  \A i \in 1..(Len(heap.blocks) - 1) :
    ~(heap.blocks[i].free /\ heap.blocks[i + 1].free)
=============================================================================
