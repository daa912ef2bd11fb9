----------------------------- MODULE FakeProofs -----------------------------
(***************************************************************************)
(* Two parts of the fake buffer manager for every size and alignment: the  *)
(* heap of intel/mm.c is sound whatever is allocated and freed, and the    *)
(* wait for a fence is honest.                                             *)
(***************************************************************************)
EXTENDS MmHeap, FakeFence, DrmListsProofs, SequenceTheorems

BlockType == [ofs : Int, size : Int, free : BOOLEAN]

(* Blocks that tile the heap.  That they lie one after the other is said   *)
(* of any two of them, and not only of neighbours, because a block is      *)
(* found by its offset wherever it stands.                                 *)
Tiled(bl) ==
  /\ bl \in Seq(BlockType) /\ Len(bl) > 0
  /\ bl[1].ofs = MmOffset
  /\ bl[Len(bl)].ofs + bl[Len(bl)].size = MmOffset + MmSize
  /\ \A i \in 1 .. Len(bl) : bl[i].size > 0
  /\ \A i, j \in 1 .. Len(bl) :
       /\ i < j => bl[i].ofs + bl[i].size <= bl[j].ofs
       /\ j = i + 1 => bl[i].ofs + bl[i].size = bl[j].ofs

(* The free list holds the free blocks, each once.                         *)
FreeAt(bl, x) == \E i \in 1 .. Len(bl) : bl[i].free /\ bl[i].ofs = x

FreeExact(bl, free) ==
  /\ free \in Seq(Int) /\ NoDuplicates(free)
  /\ \A x : x \in Items(free) <=> FreeAt(bl, x)

HeapOK(h) == Tiled(h.blocks) /\ FreeExact(h.blocks, h.free)

(* The only free neighbours are the block at i and one beside it.          *)
JoinedBeside(h, i) ==
  \A k \in 1 .. (Len(h.blocks) - 1) :
    h.blocks[k].free /\ h.blocks[k + 1].free => k = i \/ k + 1 = i

(* The only free neighbours are the block at i and the one before it.      *)
JoinedAfter(h, i) ==
  \A k \in 1 .. (Len(h.blocks) - 1) :
    h.blocks[k].free /\ h.blocks[k + 1].free => k + 1 = i

-----------------------------------------------------------------------------
IsInsertion(S, s, new, i, e) ==
  /\ new \in Seq(S) /\ Len(new) = Len(s) + 1
  /\ \A k \in 1 .. Len(s) : k < i => new[k] = s[k]
  /\ new[i] = e
  /\ \A k \in 1 .. Len(s) : k >= i => new[k + 1] = s[k]

IsRemoval(S, s, new, i) ==
  /\ new \in Seq(S) /\ Len(new) = Len(s) - 1
  /\ \A k \in 1 .. Len(s) : k < i => new[k] = s[k]
  /\ \A k \in 1 .. Len(s) : k > i => new[k - 1] = s[k]

(* What InsertAt returns.                                                  *)
LEMMA InsertAtFacts ==
  ASSUME NEW S, NEW s \in Seq(S), NEW i \in 1 .. Len(s) + 1, NEW e \in S
  PROVE  IsInsertion(S, s, InsertAt(s, i, e), i, e)
<1> DEFINE a == SubSeq(s, 1, i - 1)  b == SubSeq(s, i, Len(s))  c == a \o <<e>>
<1>1. /\ a \in Seq(S) /\ Len(a) = i - 1 /\ \A k \in 1 .. i - 1 : a[k] = s[k]
  OBVIOUS
<1>2. /\ b \in Seq(S) /\ Len(b) = Len(s) - i + 1
      /\ \A k \in 1 .. Len(s) - i + 1 : b[k] = s[i + k - 1]
  OBVIOUS
<1>3. /\ <<e>> \in Seq(S) /\ Len(<<e>>) = 1 /\ <<e>>[1] = e
  OBVIOUS
<1> HIDE DEF a, b
<1>4. /\ c \in Seq(S) /\ Len(c) = i
      /\ \A k \in 1 .. i : c[k] = IF k < i THEN s[k] ELSE e
  BY <1>1, <1>3
<1> HIDE DEF c
<1>5. InsertAt(s, i, e) = c \o b
  BY DEF InsertAt, a, b, c
<1>6. /\ c \o b \in Seq(S) /\ Len(c \o b) = Len(s) + 1
      /\ \A k \in 1 .. Len(s) + 1 : (c \o b)[k] = IF k <= i THEN c[k] ELSE b[k - i]
  <2>1. /\ c \o b \in Seq(S) /\ Len(c \o b) = Len(c) + Len(b)
        /\ \A k \in 1 .. Len(c) + Len(b) : (c \o b)[k] = IF k <= Len(c) THEN c[k] ELSE b[k - Len(c)]
    BY <1>2, <1>4, ConcatProperties
  <2>2. Len(c) + Len(b) = Len(s) + 1
    BY <1>2, <1>4
  <2> QED BY <2>1, <2>2, <1>4, Zenon
<1>7. ASSUME NEW k \in 1 .. Len(s), k < i PROVE (c \o b)[k] = s[k]
  BY <1>4, <1>6, <1>7
<1>8. (c \o b)[i] = e
  BY <1>4, <1>6
<1>9. ASSUME NEW k \in 1 .. Len(s), k >= i PROVE (c \o b)[k + 1] = s[k]
  <2>1. k + 1 \in 1 .. Len(s) + 1 /\ ~(k + 1 <= i) /\ k + 1 - i \in 1 .. Len(s) - i + 1
        /\ i + (k + 1 - i) - 1 = k
    BY <1>9
  <2> QED BY <2>1, <1>2, <1>6
<1> QED BY <1>5, <1>6, <1>7, <1>8, <1>9 DEF IsInsertion

(* What RemoveAt returns.                                                  *)
LEMMA RemoveAtFacts ==
  ASSUME NEW S, NEW s \in Seq(S), NEW i \in 1 .. Len(s)
  PROVE  IsRemoval(S, s, RemoveAt(s, i), i)
<1> DEFINE a == SubSeq(s, 1, i - 1)  b == SubSeq(s, i + 1, Len(s))
<1>1. /\ a \in Seq(S) /\ Len(a) = i - 1 /\ \A k \in 1 .. i - 1 : a[k] = s[k]
  OBVIOUS
<1>2. /\ b \in Seq(S) /\ Len(b) = Len(s) - i
      /\ \A k \in 1 .. Len(s) - i : b[k] = s[i + k]
  OBVIOUS
<1> HIDE DEF a, b
<1>3. RemoveAt(s, i) = a \o b
  BY DEF RemoveAt, a, b
<1>4. /\ a \o b \in Seq(S) /\ Len(a \o b) = Len(s) - 1
      /\ \A k \in 1 .. Len(s) - 1 : (a \o b)[k] = IF k < i THEN a[k] ELSE b[k - i + 1]
  <2>1. /\ a \o b \in Seq(S) /\ Len(a \o b) = Len(a) + Len(b)
        /\ \A k \in 1 .. Len(a) + Len(b) : (a \o b)[k] = IF k <= Len(a) THEN a[k] ELSE b[k - Len(a)]
    BY <1>1, <1>2, ConcatProperties
  <2>2. Len(a) + Len(b) = Len(s) - 1
    BY <1>1, <1>2
  <2>3. \A k \in 1 .. Len(s) - 1 : (a \o b)[k] = IF k <= Len(a) THEN a[k] ELSE b[k - Len(a)]
    BY <2>1, <2>2, Zenon
  <2> HIDE DEF a, b
  <2>4. ASSUME NEW k \in 1 .. Len(s) - 1
        PROVE  (a \o b)[k] = IF k < i THEN a[k] ELSE b[k - i + 1]
    <3>1. Len(a) = i - 1 /\ k - (i - 1) = k - i + 1 /\ (k <= i - 1 <=> k < i)
      BY <1>1
    <3> QED BY <2>3, <3>1, Zenon
  <2> QED BY <2>1, <2>2, <2>4, Zenon
<1>5. ASSUME NEW k \in 1 .. Len(s), k < i PROVE (a \o b)[k] = s[k]
  BY <1>1, <1>4, <1>5
<1>6. ASSUME NEW k \in 1 .. Len(s), k > i PROVE (a \o b)[k - 1] = s[k]
  <2>1. k - 1 \in 1 .. Len(s) - 1 /\ ~(k - 1 < i) /\ k - 1 - i + 1 \in 1 .. Len(s) - i
        /\ i + (k - 1 - i + 1) = k
    BY <1>6
  <2> QED BY <2>1, <1>2, <1>4
<1> QED BY <1>3, <1>4, <1>5, <1>6 DEF IsRemoval

-----------------------------------------------------------------------------
(* Two blocks have different offsets.                                      *)
LEMMA OfsApart ==
  ASSUME NEW bl, Tiled(bl), NEW i \in 1 .. Len(bl), NEW j \in 1 .. Len(bl), bl[i].ofs = bl[j].ofs
  PROVE  i = j
<1>1. /\ bl[i] \in BlockType /\ bl[j] \in BlockType /\ i \in Int /\ j \in Int
      /\ bl[i].size > 0 /\ bl[j].size > 0
      /\ i < j => bl[i].ofs + bl[i].size <= bl[j].ofs
      /\ j < i => bl[j].ofs + bl[j].size <= bl[i].ofs
  BY DEF Tiled
<1> QED BY <1>1 DEF BlockType

(* The fields of a block.                                                  *)
LEMMA BlockFields ==
  ASSUME NEW bl, Tiled(bl), NEW i \in 1 .. Len(bl)
  PROVE  /\ bl[i] \in BlockType /\ bl[i].ofs \in Int /\ bl[i].size \in Int
         /\ bl[i].free \in BOOLEAN /\ bl[i].size > 0
<1>1. bl[i] \in BlockType
  BY DEF Tiled
<1> QED BY <1>1 DEF BlockType, Tiled

(* mmFindBlock finds the block that has the offset.                        *)
LEMMA FindUnique ==
  ASSUME NEW h, Tiled(h.blocks), NEW i \in 1 .. Len(h.blocks)
  PROVE  mmFindBlock(h, h.blocks[i].ofs) = i
<1>1. DOMAIN h.blocks = 1 .. Len(h.blocks)
  BY DEF Tiled
<1>2. \A j \in 1 .. Len(h.blocks) : h.blocks[j].ofs = h.blocks[i].ofs => j = i
  BY OfsApart
<1> QED BY <1>1, <1>2 DEF mmFindBlock

(* The blocks after a cut of the one at i.                                 *)
IsCut(bl, new, i, size) ==
  /\ new \in Seq(BlockType) /\ Len(new) = Len(bl) + 1
  /\ \A k \in 1 .. Len(bl) : k < i => new[k] = bl[k]
  /\ new[i].ofs = bl[i].ofs /\ new[i].size = size /\ new[i].free = bl[i].free
  /\ new[i + 1].ofs = bl[i].ofs + size /\ new[i + 1].size = bl[i].size - size /\ new[i + 1].free
  /\ \A k \in 1 .. Len(bl) : k > i => new[k + 1] = bl[k]

(* A cut leaves the heap tiled.                                            *)
LEMMA CutTiled ==
  ASSUME NEW bl, Tiled(bl), NEW i \in 1 .. Len(bl), NEW size \in Int,
         0 < size, size < bl[i].size, NEW new, IsCut(bl, new, i, size)
  PROVE  Tiled(new)
<1> DEFINE n == Len(bl)
<1>1. /\ n \in Nat /\ n > 0 /\ bl \in Seq(BlockType) /\ \A k \in 1 .. n : bl[k] \in BlockType
      /\ i \in Int /\ 1 <= i /\ i <= n
  BY DEF Tiled
<1>2. /\ new \in Seq(BlockType) /\ Len(new) = n + 1 /\ \A k \in 1 .. n + 1 : new[k] \in BlockType
  BY <1>1 DEF IsCut
<1>3. /\ bl[i].ofs \in Int /\ bl[i].size \in Int
      /\ new[i].ofs = bl[i].ofs /\ new[i].size = size
      /\ new[i + 1].ofs = bl[i].ofs + size /\ new[i + 1].size = bl[i].size - size
  BY <1>1 DEF IsCut, BlockType
<1>4. /\ \A k \in 1 .. n : k < i => new[k] = bl[k]
      /\ \A k \in 1 .. n : k > i => new[k + 1] = bl[k]
  BY DEF IsCut
<1> DEFINE src(k) == IF k <= i THEN k ELSE k - 1
           start(x) == x.ofs
           end(x) == x.ofs + x.size
<1>5. ASSUME NEW k \in 1 .. n + 1
      PROVE  /\ src(k) \in 1 .. n
             /\ new[k].ofs \in Int /\ new[k].size \in Int /\ new[k].size > 0
             /\ start(bl[src(k)]) <= start(new[k]) /\ end(new[k]) <= end(bl[src(k)])
             /\ k # i + 1 => start(new[k]) = start(bl[src(k)])
             /\ k # i => end(new[k]) = end(bl[src(k)])
  <2>1. k \in Int /\ 1 <= k /\ k <= n + 1
    BY <1>1
  <2>2. src(k) \in 1 .. n
    BY <1>1, <2>1
  <2>3. /\ bl[src(k)].ofs \in Int /\ bl[src(k)].size \in Int /\ bl[src(k)].size > 0
    BY <1>1, <2>2 DEF Tiled, BlockType
  <2>4. CASE k < i \/ k > i + 1
    <3>1. new[k] = bl[src(k)]
      <4>1. CASE k < i
        BY <4>1, <1>1, <1>4, <2>1
      <4>2. CASE k > i + 1
        <5>1. k - 1 \in 1 .. n /\ k - 1 > i /\ k - 1 + 1 = k /\ src(k) = k - 1
          BY <4>2, <1>1, <2>1
        <5> QED BY <5>1, <1>4
      <4> QED BY <2>4, <4>1, <4>2
    <3> QED BY <2>2, <2>3, <3>1
  <2>5. CASE k = i
    <3>1. src(k) = i /\ new[k].ofs = bl[i].ofs /\ new[k].size = size
      BY <2>5, <1>1, <1>3
    <3> QED BY <2>2, <2>3, <3>1, <2>5, <1>1
  <2>6. CASE k = i + 1
    <3>1. src(k) = i /\ new[k].ofs = bl[i].ofs + size /\ new[k].size = bl[i].size - size
      BY <2>6, <1>1, <1>3
    <3>2. k # i /\ 0 < size /\ size < bl[i].size /\ bl[i].ofs \in Int /\ bl[i].size \in Int
      BY <2>6, <1>1, <1>3
    <3> HIDE DEF src
    <3>3. start(bl[src(k)]) = bl[i].ofs /\ end(bl[src(k)]) = bl[i].ofs + bl[i].size
      BY <3>1
    <3>4. start(new[k]) = bl[i].ofs + size /\ end(new[k]) = bl[i].ofs + bl[i].size
      BY <3>1, <3>2
    <3>5. new[k].ofs \in Int /\ new[k].size \in Int /\ new[k].size > 0
      BY <3>1, <3>2
    <3> HIDE DEF start, end
    <3> QED BY <2>2, <2>6, <3>2, <3>3, <3>4, <3>5
  <2> QED BY <2>1, <2>4, <2>5, <2>6, <1>1
<1>6. ASSUME NEW j \in 1 .. n, NEW k \in 1 .. n
      PROVE  /\ end(bl[j]) \in Int /\ start(bl[j]) \in Int /\ start(bl[j]) < end(bl[j])
             /\ j < k => end(bl[j]) <= start(bl[k])
             /\ k = j + 1 => end(bl[j]) = start(bl[k])
  <2>1. bl[j].ofs \in Int /\ bl[j].size \in Int /\ bl[j].size > 0
    BY <1>1 DEF Tiled, BlockType
  <2>2. /\ j < k => end(bl[j]) <= start(bl[k])
        /\ k = j + 1 => end(bl[j]) = start(bl[k])
    BY DEF Tiled
  <2> QED BY <2>1, <2>2
<1>7. start(bl[1]) = MmOffset /\ end(bl[n]) = MmOffset + MmSize
  BY DEF Tiled
<1>8. /\ 1 \in 1 .. n + 1 /\ src(1) = 1 /\ 1 # i + 1
      /\ n + 1 \in 1 .. n + 1 /\ src(n + 1) = n /\ n + 1 # i
  BY <1>1
<1>9. start(new[1]) = MmOffset /\ end(new[n + 1]) = MmOffset + MmSize
  BY <1>5, <1>7, <1>8
<1>10. ASSUME NEW j \in 1 .. n + 1, NEW k \in 1 .. n + 1
       PROVE  /\ j < k => end(new[j]) <= start(new[k])
              /\ k = j + 1 => end(new[j]) = start(new[k])
  <2>1. /\ src(j) \in 1 .. n /\ src(k) \in 1 .. n
        /\ end(new[j]) <= end(bl[src(j)]) /\ start(bl[src(k)]) <= start(new[k])
        /\ k # i + 1 => start(new[k]) = start(bl[src(k)])
        /\ j # i => end(new[j]) = end(bl[src(j)])
        /\ end(new[j]) \in Int /\ start(new[k]) \in Int
    <3>1. /\ new[j].ofs \in Int /\ new[j].size \in Int /\ new[k].ofs \in Int
      BY <1>5
    <3>2. end(new[j]) \in Int /\ start(new[k]) \in Int
      BY <3>1
    <3> HIDE DEF src, start, end
    <3> QED BY <1>5, <3>2
  <2>2. /\ end(bl[src(j)]) \in Int /\ start(bl[src(k)]) \in Int
        /\ src(j) < src(k) => end(bl[src(j)]) <= start(bl[src(k)])
        /\ src(k) = src(j) + 1 => end(bl[src(j)]) = start(bl[src(k)])
    BY <2>1, <1>6
  <2>3. CASE j = i /\ k = i + 1
    BY <2>3, <1>1, <1>3
  <2>4. CASE ~(j = i /\ k = i + 1)
    <3>1. j < k => src(j) < src(k)
      BY <2>4, <1>1
    <3>2. k = j + 1 => src(k) = src(j) + 1 /\ k # i + 1 /\ j # i
      BY <2>4, <1>1
    <3>3. j < k => end(new[j]) <= start(new[k])
      <4> HIDE DEF src, start, end
      <4> QED BY <2>1, <2>2, <3>1
    <3> QED BY <2>1, <2>2, <3>2, <3>3
  <2> QED BY <2>3, <2>4
<1> QED BY <1>1, <1>2, <1>5, <1>9, <1>10 DEF Tiled

(* A list after the insertion of an item it does not have.                 *)
LEMMA InsertAtItems ==
  ASSUME NEW S, NEW s \in Seq(S), NEW i \in 1 .. Len(s) + 1, NEW e \in S,
         NoDuplicates(s), e \notin Items(s)
  PROVE  /\ InsertAt(s, i, e) \in Seq(S)
         /\ Items(InsertAt(s, i, e)) = Items(s) \cup {e}
         /\ NoDuplicates(InsertAt(s, i, e))
<1> DEFINE new == InsertAt(s, i, e)
<1>1. /\ new \in Seq(S) /\ Len(new) = Len(s) + 1
      /\ \A k \in 1 .. Len(s) : k < i => new[k] = s[k]
      /\ new[i] = e
      /\ \A k \in 1 .. Len(s) : k >= i => new[k + 1] = s[k]
  BY InsertAtFacts DEF IsInsertion
<1> HIDE DEF new
<1>2. /\ Len(s) \in Nat /\ i \in Int /\ 1 <= i /\ i <= Len(s) + 1
      /\ \A k \in 1 .. Len(s) + 1 : k \in Int
  OBVIOUS
<1>3. \A k \in 1 .. Len(s) + 1 :
        \/ k = i /\ new[k] = e
        \/ k < i /\ k \in 1 .. Len(s) /\ new[k] = s[k]
        \/ k > i /\ k - 1 \in 1 .. Len(s) /\ new[k] = s[k - 1]
  <2> TAKE k \in 1 .. Len(s) + 1
  <2>2. CASE k = i
    BY <2>2, <1>1
  <2>3. CASE k < i
    BY <2>3, <1>1, <1>2
  <2>4. CASE k > i
    <3>1. k - 1 \in 1 .. Len(s) /\ k - 1 >= i /\ k - 1 + 1 = k
      BY <2>4, <1>2
    <3> QED BY <2>4, <3>1, <1>1
  <2> QED BY <2>2, <2>3, <2>4, <1>2
<1>4. ASSUME NEW x \in Items(new) PROVE x \in Items(s) \cup {e}
  <2>1. PICK k \in 1 .. Len(s) + 1 : x = new[k]
    BY <1>1 DEF Items
  <2> QED BY <2>1, <1>3 DEF Items
<1>5. e \in Items(new)
  BY <1>1, <1>2 DEF Items
<1>6. ASSUME NEW x \in Items(s) PROVE x \in Items(new)
  <2>1. PICK k \in 1 .. Len(s) : x = s[k]
    BY DEF Items
  <2>2. CASE k < i
    <3>1. k \in 1 .. Len(s) + 1 /\ new[k] = s[k]
      BY <2>2, <1>1, <1>2
    <3> QED BY <2>1, <3>1, <1>1 DEF Items
  <2>3. CASE k >= i
    <3>1. k + 1 \in 1 .. Len(s) + 1 /\ new[k + 1] = s[k]
      BY <2>3, <1>1, <1>2
    <3> QED BY <2>1, <3>1, <1>1 DEF Items
  <2> QED BY <2>2, <2>3, <1>2
<1>7. ASSUME NEW j \in 1 .. Len(s) + 1, NEW k \in 1 .. Len(s) + 1, new[j] = new[k]
      PROVE  j = k
  <2>1. \A l \in 1 .. Len(s) : s[l] # e
    BY DEF Items
  <2>2. \A l, m \in 1 .. Len(s) : s[l] = s[m] => l = m
    BY DEF NoDuplicates
  <2>3. j \in Int /\ k \in Int
    BY <1>2
  <2>4. \/ j = i /\ new[j] = e
        \/ j < i /\ j \in 1 .. Len(s) /\ new[j] = s[j]
        \/ j > i /\ j - 1 \in 1 .. Len(s) /\ new[j] = s[j - 1]
    BY <1>3
  <2>5. \/ k = i /\ new[k] = e
        \/ k < i /\ k \in 1 .. Len(s) /\ new[k] = s[k]
        \/ k > i /\ k - 1 \in 1 .. Len(s) /\ new[k] = s[k - 1]
    BY <1>3
  <2>6. CASE j = i
    BY <2>6, <2>1, <2>4, <2>5, <1>7
  <2>7. CASE j < i
    BY <2>7, <2>1, <2>2, <2>3, <2>4, <2>5, <1>2, <1>7
  <2>8. CASE j > i
    BY <2>8, <2>1, <2>2, <2>3, <2>4, <2>5, <1>2, <1>7
  <2> QED BY <2>3, <2>6, <2>7, <2>8, <1>2
<1> QED BY <1>1, <1>4, <1>5, <1>6, <1>7 DEF NoDuplicates, new

(* A cut puts one block more among the free ones.                          *)
LEMMA CutFree ==
  ASSUME NEW bl, Tiled(bl), NEW i \in 1 .. Len(bl), NEW size \in Int,
         0 < size, size < bl[i].size, NEW new, IsCut(bl, new, i, size)
  PROVE  /\ \A k \in 1 .. Len(bl) : bl[k].ofs # bl[i].ofs + size
         /\ \A x : FreeAt(new, x) <=> x = bl[i].ofs + size \/ FreeAt(bl, x)
<1>1. /\ Len(bl) \in Nat /\ i \in Int /\ 1 <= i /\ i <= Len(bl) /\ Len(new) = Len(bl) + 1
  BY DEF Tiled, IsCut
<1>2. ASSUME NEW k \in 1 .. Len(bl) PROVE bl[k].ofs # bl[i].ofs + size
  <2>1. /\ k < i => bl[k].ofs + bl[k].size <= bl[i].ofs
        /\ i < k => bl[i].ofs + bl[i].size <= bl[k].ofs
        /\ bl[k].size > 0 /\ bl \in Seq(BlockType)
    BY DEF Tiled
  <2>2. bl[k] \in BlockType /\ bl[i] \in BlockType
    BY <2>1
  <2>3. /\ bl[k].ofs \in Int /\ bl[k].size \in Int
        /\ bl[i].ofs \in Int /\ bl[i].size \in Int
    BY <2>2 DEF BlockType
  <2>4. k < i \/ k = i \/ i < k
    BY <1>1
  <2>5. CASE k < i
    BY <2>1, <2>3, <2>5
  <2>6. CASE k = i
    BY <2>3, <2>6
  <2>7. CASE i < k
    BY <2>1, <2>3, <2>7
  <2> QED BY <2>4, <2>5, <2>6, <2>7
<1>3. /\ \A k \in 1 .. Len(bl) : k < i => new[k] = bl[k]
      /\ \A k \in 1 .. Len(bl) : k > i => new[k + 1] = bl[k]
      /\ new[i].ofs = bl[i].ofs /\ new[i].free = bl[i].free
      /\ new[i + 1].ofs = bl[i].ofs + size /\ new[i + 1].free
  BY DEF IsCut
<1>4. ASSUME NEW x, NEW k \in 1 .. Len(new), new[k].free, new[k].ofs = x
      PROVE  \/ x = bl[i].ofs + size
             \/ \E l \in 1 .. Len(bl) : bl[l].free /\ bl[l].ofs = x
  <2>1. CASE k <= i
    <3>1. k \in 1 .. Len(bl) /\ bl[k].free /\ bl[k].ofs = x
      BY <2>1, <1>1, <1>3, <1>4
    <3> QED BY <3>1
  <2>2. CASE k = i + 1
    BY <2>2, <1>3, <1>4
  <2>3. CASE k > i + 1
    <3>1. k - 1 \in 1 .. Len(bl) /\ k - 1 > i /\ k - 1 + 1 = k
      BY <2>3, <1>1
    <3>2. new[k] = bl[k - 1]
      BY <3>1, <1>3
    <3> QED BY <3>1, <3>2, <1>4
  <2> QED BY <2>1, <2>2, <2>3, <1>1
<1>5. \E k \in 1 .. Len(new) : new[k].free /\ new[k].ofs = bl[i].ofs + size
  BY <1>1, <1>3
<1>6. ASSUME NEW l \in 1 .. Len(bl), bl[l].free
      PROVE  \E k \in 1 .. Len(new) : new[k].free /\ new[k].ofs = bl[l].ofs
  <2>1. CASE l <= i
    <3>1. l \in 1 .. Len(new) /\ new[l].free /\ new[l].ofs = bl[l].ofs
      BY <2>1, <1>1, <1>3, <1>6
    <3> QED BY <3>1
  <2>2. CASE l > i
    <3>1. l + 1 \in 1 .. Len(new) /\ new[l + 1].free /\ new[l + 1].ofs = bl[l].ofs
      BY <2>2, <1>1, <1>3, <1>6
    <3> QED BY <3>1
  <2> QED BY <2>1, <2>2, <1>1
<1>7. ASSUME NEW x, FreeAt(new, x) PROVE x = bl[i].ofs + size \/ FreeAt(bl, x)
  BY <1>4, <1>7 DEF FreeAt
<1>8. ASSUME NEW x, x = bl[i].ofs + size \/ FreeAt(bl, x) PROVE FreeAt(new, x)
  BY <1>5, <1>6, <1>8 DEF FreeAt
<1> QED BY <1>2, <1>7, <1>8, Zenon

(* A cut of a free block leaves at most it and its neighbours unjoined.    *)
LEMMA CutJoined ==
  ASSUME NEW h, NEW g, NEW i \in 1 .. Len(h.blocks), Tiled(h.blocks), NEW size \in Int,
         IsCut(h.blocks, g.blocks, i, size), h.blocks[i].free
  PROVE  /\ HeapIsJoined(h) => JoinedAfter(g, i + 1)
         /\ JoinedAfter(h, i) => JoinedBeside(g, i)
<1> DEFINE bl == h.blocks  new == g.blocks  n == Len(bl)
<1>1. /\ n \in Nat /\ i \in Int /\ 1 <= i /\ i <= n /\ Len(new) = n + 1
  BY DEF Tiled, IsCut
<1>2. /\ \A k \in 1 .. n : k < i => new[k] = bl[k]
      /\ \A k \in 1 .. n : k > i => new[k + 1] = bl[k]
      /\ new[i].free = bl[i].free
  BY DEF IsCut
<1>3. ASSUME NEW k \in 1 .. n, new[k].free, new[k + 1].free, k # i
      PROVE  \E l \in 1 .. (n - 1) : /\ bl[l].free /\ bl[l + 1].free
                                     /\ k < i => l = k
                                     /\ k > i => l = k - 1
  <2>1. CASE k < i
    <3>1. k \in 1 .. (n - 1) /\ k \in 1 .. n /\ k + 1 \in 1 .. n /\ ~(k > i)
      BY <2>1, <1>1
    <3>2. bl[k].free
      BY <2>1, <3>1, <1>2, <1>3
    <3>3. bl[k + 1].free
      <4>1. k + 1 < i \/ k + 1 = i
        BY <2>1, <1>1
      <4> QED BY <4>1, <3>1, <1>2, <1>3
    <3> QED BY <2>1, <3>1, <3>2, <3>3
  <2>2. CASE k > i
    <3>1. k - 1 \in 1 .. (n - 1) /\ k - 1 >= i /\ k - 1 + 1 = k
      BY <2>2, <1>1
    <3>2. bl[k].free
      BY <2>2, <1>2, <1>3
    <3>3. bl[k - 1].free
      <4>1. CASE k - 1 = i
        BY <4>1
      <4>2. CASE k - 1 > i
        BY <4>2, <3>1, <1>2, <1>3
      <4> QED BY <3>1, <4>1, <4>2, <1>1
    <3>4. ~(k < i)
      BY <2>2, <1>1
    <3> QED BY <3>1, <3>2, <3>3, <3>4
  <2>3. k < i \/ k > i
    BY <1>1, <1>3
  <2> QED BY <2>1, <2>2, <2>3, Zenon
<1>4. ASSUME HeapIsJoined(h), NEW k \in 1 .. n, new[k].free, new[k + 1].free
      PROVE  k + 1 = i + 1
  <2> SUFFICES ASSUME k # i PROVE FALSE
    BY <1>1
  <2>1. PICK l \in 1 .. (n - 1) : bl[l].free /\ bl[l + 1].free
    BY <1>3, <1>4
  <2> QED BY <2>1, <1>4 DEF HeapIsJoined
<1>5. ASSUME JoinedAfter(h, i), NEW k \in 1 .. n, new[k].free, new[k + 1].free
      PROVE  k = i \/ k + 1 = i
  <2> SUFFICES ASSUME k # i PROVE k + 1 = i
    OBVIOUS
  <2>1. PICK l \in 1 .. (n - 1) : /\ bl[l].free /\ bl[l + 1].free
                                  /\ k < i => l = k
                                  /\ k > i => l = k - 1
    BY <1>3, <1>5
  <2>2. l + 1 = i
    BY <2>1, <1>5 DEF JoinedAfter
  <2>3. k \in Int /\ l \in Int
    BY <1>1
  <2> QED BY <2>1, <2>2, <2>3, <1>1
<1>6. Len(new) - 1 = n
  BY <1>1
<1> QED BY <1>4, <1>5, <1>6 DEF JoinedAfter, JoinedBeside

(* Split keeps the heap sound.                                             *)
LEMMA SplitSound ==
  ASSUME NEW h, HeapOK(h), NEW i \in 1 .. Len(h.blocks), h.blocks[i].free,
         NEW size \in Int, 0 < size, size < h.blocks[i].size
  PROVE  LET g == Split(h, h.blocks[i].ofs, size)
         IN  /\ HeapOK(g)
             /\ IsCut(h.blocks, g.blocks, i, size)
<1> DEFINE bl == h.blocks  b == bl[i]  o == b.ofs + size
           e == Block(o, b.size - size, TRUE)
           cut == [bl EXCEPT ![i].size = size]
           new == InsertAt(cut, i + 1, e)
           j == CHOOSE j \in DOMAIN h.free : h.free[j] = b.ofs
           nfree == InsertAt(h.free, j + 1, o)
<1>1. /\ Tiled(bl) /\ FreeExact(bl, h.free) /\ bl \in Seq(BlockType) /\ Len(bl) \in Nat
      /\ i \in Int /\ 1 <= i /\ i <= Len(bl)
  BY DEF HeapOK, Tiled
<1>2. /\ b \in BlockType /\ b.ofs \in Int /\ b.size \in Int /\ b.free \in BOOLEAN
      /\ b.free /\ size < b.size /\ b = bl[i]
  BY <1>1, BlockFields
<1>3. Split(h, b.ofs, size) = [blocks |-> new, free |-> nfree]
  BY <1>1, FindUnique DEF Split
<1>4. /\ cut \in Seq(BlockType) /\ Len(cut) = Len(bl)
      /\ \A k \in 1 .. Len(bl) : k # i => cut[k] = bl[k]
      /\ cut[i].ofs = b.ofs /\ cut[i].size = size /\ cut[i].free = b.free
  <2> DEFINE c == [b EXCEPT !.size = size]
  <2>1. c \in BlockType /\ c.ofs = b.ofs /\ c.size = size /\ c.free = b.free
    BY <1>2 DEF BlockType
  <2>2. cut = [bl EXCEPT ![i] = c]
    OBVIOUS
  <2> HIDE DEF c, cut, bl, b
  <2> QED BY <1>1, <2>1, <2>2
<1>5. e \in BlockType /\ e.ofs = o /\ e.size = b.size - size /\ e.free
  BY <1>2 DEF Block, BlockType
<1> HIDE DEF cut, e, bl, b, o
<1>6. /\ new \in Seq(BlockType) /\ Len(new) = Len(cut) + 1
      /\ \A k \in 1 .. Len(cut) : k < i + 1 => new[k] = cut[k]
      /\ new[i + 1] = e
      /\ \A k \in 1 .. Len(cut) : k >= i + 1 => new[k + 1] = cut[k]
  <2>1. i + 1 \in 1 .. Len(cut) + 1
    BY <1>1, <1>4
  <2>2. IsInsertion(BlockType, cut, new, i + 1, e)
    BY <2>1, <1>4, <1>5, InsertAtFacts
  <2> QED BY <2>2 DEF IsInsertion
<1> HIDE DEF new
<1>7. IsCut(bl, new, i, size)
  <2>1. ASSUME NEW k \in 1 .. Len(bl), k < i PROVE new[k] = bl[k]
    <3>1. k \in 1 .. Len(cut) /\ k < i + 1 /\ k # i
      BY <2>1, <1>1, <1>4
    <3> QED BY <3>1, <1>4, <1>6
  <2>2. new[i] = cut[i]
    BY <1>1, <1>4, <1>6
  <2>3. ASSUME NEW k \in 1 .. Len(bl), k > i PROVE new[k + 1] = bl[k]
    <3>1. k \in 1 .. Len(cut) /\ k >= i + 1 /\ k # i
      BY <2>3, <1>1, <1>4
    <3> QED BY <3>1, <1>4, <1>6
  <2> QED BY <2>1, <2>2, <2>3, <1>2, <1>4, <1>5, <1>6 DEF IsCut, o
<1>8. Tiled(new)
  BY <1>1, <1>2, <1>7, CutTiled
<1>9. /\ \A k \in 1 .. Len(bl) : bl[k].ofs # o
      /\ \A x : FreeAt(new, x) <=> x = o \/ FreeAt(bl, x)
  BY <1>1, <1>2, <1>7, CutFree DEF o
<1>10. /\ h.free \in Seq(Int) /\ NoDuplicates(h.free)
       /\ \A x : x \in Items(h.free) <=> FreeAt(bl, x)
  BY <1>1 DEF FreeExact
<1>11. o \notin Items(h.free) /\ o \in Int
  <2>1. ~FreeAt(bl, o)
    BY <1>9 DEF FreeAt
  <2>2. o \in Int
    BY <1>2 DEF o
  <2> QED BY <2>1, <2>2, <1>10
<1>12. j + 1 \in 1 .. Len(h.free) + 1
  <2>1. b.ofs \in Items(h.free)
    <3>1. i \in 1 .. Len(bl)
      BY <1>1
    <3>2. FreeAt(bl, b.ofs)
      BY <3>1, <1>2 DEF FreeAt
    <3> QED BY <3>2, <1>10
  <2>2. \E l \in DOMAIN h.free : h.free[l] = b.ofs
    BY <2>1, <1>10 DEF Items
  <2>3. j \in DOMAIN h.free
    BY <2>2
  <2> HIDE DEF j
  <2> QED BY <2>3, <1>10
<1>13. /\ nfree \in Seq(Int) /\ NoDuplicates(nfree) /\ Items(nfree) = Items(h.free) \cup {o}
  <2> DEFINE place == j + 1
  <2>1. place \in 1 .. Len(h.free) + 1
    BY <1>12
  <2> HIDE DEF place
  <2>2. LET new1 == InsertAt(h.free, place, o)
        IN  new1 \in Seq(Int) /\ NoDuplicates(new1) /\ Items(new1) = Items(h.free) \cup {o}
    BY <2>1, <1>10, <1>11, InsertAtItems
  <2> QED BY <2>2 DEF place
<1> HIDE DEF nfree
<1>14. FreeExact(new, nfree)
  BY <1>9, <1>10, <1>13 DEF FreeExact
<1>15. /\ HeapOK([blocks |-> new, free |-> nfree])
       /\ [blocks |-> new, free |-> nfree].blocks = new
  BY <1>8, <1>14 DEF HeapOK
<1> QED BY <1>3, <1>7, <1>15 DEF bl, b

(* Blocks that differ in the flag of the one at i only.                    *)
IsFlip(bl, new, i, free) ==
  /\ new \in Seq(BlockType) /\ Len(new) = Len(bl)
  /\ \A k \in 1 .. Len(bl) : k # i => new[k] = bl[k]
  /\ new[i].ofs = bl[i].ofs /\ new[i].size = bl[i].size /\ new[i].free = free

(* A flag says nothing of where the blocks lie.                            *)
LEMMA FlipTiled ==
  ASSUME NEW bl, Tiled(bl), NEW i \in 1 .. Len(bl), NEW free \in BOOLEAN
  PROVE  LET new == [bl EXCEPT ![i].free = free]
         IN  IsFlip(bl, new, i, free) /\ Tiled(new)
<1> DEFINE new == [bl EXCEPT ![i].free = free]
<1>1. bl \in Seq(BlockType) /\ bl[i] \in BlockType /\ Len(bl) \in Nat
  BY DEF Tiled
<1>2. IsFlip(bl, new, i, free)
  BY <1>1 DEF IsFlip, BlockType
<1> HIDE DEF new
<1>3. /\ new \in Seq(BlockType) /\ Len(new) = Len(bl)
      /\ \A k \in 1 .. Len(bl) : new[k].ofs = bl[k].ofs /\ new[k].size = bl[k].size
  BY <1>2 DEF IsFlip
<1>4. 1 \in 1 .. Len(bl) /\ Len(bl) \in 1 .. Len(bl)
  BY <1>1 DEF Tiled
<1>5. Tiled(new)
  BY <1>3, <1>4 DEF Tiled
<1> QED BY <1>2, <1>5 DEF new

(* The free blocks after a flag has changed.                               *)
LEMMA FlipFree ==
  ASSUME NEW bl, Tiled(bl), NEW i \in 1 .. Len(bl), NEW new, NEW free \in BOOLEAN,
         IsFlip(bl, new, i, free)
  PROVE  \A x : FreeAt(new, x) <=> (x = bl[i].ofs /\ free) \/ (x # bl[i].ofs /\ FreeAt(bl, x))
<1>1. \A k \in 1 .. Len(bl) : bl[k].ofs = bl[i].ofs => k = i
  BY OfsApart
<1>2. /\ Len(new) = Len(bl) /\ \A k \in 1 .. Len(bl) : k # i => new[k] = bl[k]
      /\ new[i].ofs = bl[i].ofs /\ new[i].free = free
  BY DEF IsFlip
<1>3. ASSUME NEW x, x = bl[i].ofs PROVE FreeAt(new, x) <=> free
  BY <1>1, <1>2, <1>3 DEF FreeAt
<1>4. ASSUME NEW x, x # bl[i].ofs PROVE FreeAt(new, x) <=> FreeAt(bl, x)
  BY <1>1, <1>2, <1>4 DEF FreeAt
<1> QED BY <1>3, <1>4, Zenon

(* The block taken by SliceBlock leaves the free list.                     *)
LEMMA TakeSound ==
  ASSUME NEW h, HeapOK(h), NEW i \in 1 .. Len(h.blocks), h.blocks[i].free
  PROVE  LET g == [blocks |-> [h.blocks EXCEPT ![i].free = FALSE],
                   free |-> RemoveItem(h.free, h.blocks[i].ofs)]
         IN  HeapOK(g) /\ IsFlip(h.blocks, g.blocks, i, FALSE)
<1> DEFINE bl == h.blocks  new == [bl EXCEPT ![i].free = FALSE]  o == bl[i].ofs
           nfree == RemoveItem(h.free, o)
<1>1. Tiled(bl) /\ FreeExact(bl, h.free) /\ i \in 1 .. Len(bl)
  BY DEF HeapOK
<1>2. IsFlip(bl, new, i, FALSE) /\ Tiled(new)
  BY <1>1, FlipTiled
<1> HIDE DEF new, bl
<1>3. \A x : FreeAt(new, x) <=> x # o /\ FreeAt(bl, x)
  BY <1>1, <1>2, FlipFree
<1> HIDE DEF o
<1>4. /\ h.free \in Seq(Int) /\ NoDuplicates(h.free)
      /\ \A x : x \in Items(h.free) <=> FreeAt(bl, x)
  BY <1>1 DEF FreeExact
<1>5. /\ nfree \in Seq(Int) /\ NoDuplicates(nfree) /\ Items(nfree) = Items(h.free) \ {o}
  BY <1>4, RemoveItemItems
<1> HIDE DEF nfree
<1>6. FreeExact(new, nfree)
  BY <1>3, <1>4, <1>5 DEF FreeExact
<1>7. /\ HeapOK([blocks |-> new, free |-> nfree])
      /\ [blocks |-> new, free |-> nfree].blocks = new
  BY <1>2, <1>6 DEF HeapOK
<1> QED BY <1>2, <1>7 DEF new, nfree, o, bl

(* The block given to mmFreeMem enters the free list at its head.          *)
LEMMA LooseSound ==
  ASSUME NEW h, HeapOK(h), NEW i \in 1 .. Len(h.blocks), ~h.blocks[i].free
  PROVE  LET g == [blocks |-> [h.blocks EXCEPT ![i].free = TRUE],
                   free |-> <<h.blocks[i].ofs>> \o h.free]
         IN  HeapOK(g) /\ IsFlip(h.blocks, g.blocks, i, TRUE)
<1> DEFINE bl == h.blocks  new == [bl EXCEPT ![i].free = TRUE]  o == bl[i].ofs
           nfree == <<o>> \o h.free
<1>1. Tiled(bl) /\ FreeExact(bl, h.free) /\ i \in 1 .. Len(bl) /\ ~bl[i].free
  BY DEF HeapOK
<1>2. IsFlip(bl, new, i, TRUE) /\ Tiled(new)
  BY <1>1, FlipTiled
<1> HIDE DEF new, bl
<1>3. \A x : FreeAt(new, x) <=> x = o \/ FreeAt(bl, x)
  <2>1. \A x : FreeAt(new, x) <=> (x = o /\ TRUE) \/ (x # o /\ FreeAt(bl, x))
    BY <1>1, <1>2, FlipFree
  <2> QED BY <2>1, Zenon
<1>4. o \in Int
  BY <1>1, BlockFields
<1>5. ~FreeAt(bl, o)
  BY <1>1, OfsApart DEF FreeAt
<1> HIDE DEF o
<1>6. /\ h.free \in Seq(Int) /\ NoDuplicates(h.free) /\ o \notin Items(h.free)
      /\ \A x : x \in Items(h.free) <=> FreeAt(bl, x)
  BY <1>1, <1>5 DEF FreeExact
<1>7. nfree = InsertAt(h.free, 1, o)
  <2>1. SubSeq(h.free, 1, 0) = << >> /\ SubSeq(h.free, 1, Len(h.free)) = h.free
    BY <1>6
  <2>2. << >> \o <<o>> = <<o>>
    BY <1>4
  <2> QED BY <2>1, <2>2 DEF InsertAt
<1> HIDE DEF nfree
<1>8. /\ nfree \in Seq(Int) /\ NoDuplicates(nfree) /\ Items(nfree) = Items(h.free) \cup {o}
  <2> DEFINE head == 1
  <2>1. head \in 1 .. Len(h.free) + 1 /\ nfree = InsertAt(h.free, head, o)
    BY <1>6, <1>7
  <2> HIDE DEF head
  <2> QED BY <2>1, <1>4, <1>6, InsertAtItems
<1>9. FreeExact(new, nfree)
  BY <1>3, <1>6, <1>8 DEF FreeExact
<1>10. /\ HeapOK([blocks |-> new, free |-> nfree])
       /\ [blocks |-> new, free |-> nfree].blocks = new
  BY <1>2, <1>9 DEF HeapOK
<1> QED BY <1>2, <1>10 DEF new, nfree, o, bl

(* The blocks after the one at i has swallowed its successor.              *)
IsMerge(bl, new, i) ==
  /\ new \in Seq(BlockType) /\ Len(new) = Len(bl) - 1
  /\ \A k \in 1 .. Len(bl) : k < i => new[k] = bl[k]
  /\ new[i].ofs = bl[i].ofs /\ new[i].size = bl[i].size + bl[i + 1].size /\ new[i].free = bl[i].free
  /\ \A k \in 1 .. Len(bl) : k > i + 1 => new[k - 1] = bl[k]

(* A merge leaves the heap tiled.                                          *)
LEMMA MergeTiled ==
  ASSUME NEW bl, Tiled(bl), NEW i \in 1 .. Len(bl) - 1, NEW new, IsMerge(bl, new, i)
  PROVE  Tiled(new)
<1> DEFINE n == Len(bl)
           first(k) == IF k <= i THEN k ELSE k + 1
           last(k) == IF k < i THEN k ELSE k + 1
           start(x) == x.ofs
           end(x) == x.ofs + x.size
<1>1. /\ n \in Nat /\ i \in Int /\ 1 <= i /\ i <= n - 1 /\ i \in 1 .. n /\ i + 1 \in 1 .. n
      /\ new \in Seq(BlockType) /\ Len(new) = n - 1
  BY DEF Tiled, IsMerge
<1>2. ASSUME NEW k \in 1 .. n
      PROVE  /\ start(bl[k]) \in Int /\ end(bl[k]) \in Int /\ bl[k].size \in Int /\ bl[k].size > 0
  <2>1. bl[k].ofs \in Int /\ bl[k].size \in Int /\ bl[k].size > 0
    BY BlockFields
  <2> QED BY <2>1
<1>3. ASSUME NEW j \in 1 .. n, NEW k \in 1 .. n
      PROVE  /\ j < k => end(bl[j]) <= start(bl[k])
             /\ k = j + 1 => end(bl[j]) = start(bl[k])
  BY DEF Tiled
<1>4. /\ \A k \in 1 .. n : k < i => new[k] = bl[k]
      /\ new[i].ofs = bl[i].ofs /\ new[i].size = bl[i].size + bl[i + 1].size
      /\ \A k \in 1 .. n : k > i + 1 => new[k - 1] = bl[k]
  BY DEF IsMerge
<1>5. ASSUME NEW k \in 1 .. n - 1
      PROVE  /\ first(k) \in 1 .. n /\ last(k) \in 1 .. n
             /\ new[k].size > 0
             /\ start(new[k]) = start(bl[first(k)]) /\ end(new[k]) = end(bl[last(k)])
  <2>1. CASE k < i
    <3>1. k \in 1 .. n /\ first(k) = k /\ last(k) = k
      BY <2>1, <1>1
    <3>2. new[k] = bl[k]
      BY <2>1, <3>1, <1>4
    <3> HIDE DEF first, last
    <3> QED BY <3>1, <3>2, <1>2
  <2>2. CASE k = i
    <3>1. first(k) = i /\ last(k) = i + 1
      BY <2>2, <1>1
    <3>2. end(bl[i]) = start(bl[i + 1])
      BY <1>1, <1>3
    <3>3. /\ bl[i].ofs \in Int /\ bl[i].size \in Int /\ bl[i].size > 0
          /\ bl[i + 1].ofs \in Int /\ bl[i + 1].size \in Int /\ bl[i + 1].size > 0
      BY <1>1, BlockFields
    <3>4. new[k].ofs = bl[i].ofs /\ new[k].size = bl[i].size + bl[i + 1].size
      BY <2>2, <1>4
    <3>5. end(new[k]) = end(bl[i + 1]) /\ start(new[k]) = start(bl[i]) /\ new[k].size > 0
      BY <3>2, <3>3, <3>4
    <3> HIDE DEF first, last, start, end
    <3> QED BY <3>1, <3>5, <1>1
  <2>3. CASE k > i
    <3>1. k + 1 \in 1 .. n /\ k + 1 > i + 1 /\ k + 1 - 1 = k /\ first(k) = k + 1 /\ last(k) = k + 1
      BY <2>3, <1>1
    <3>2. new[k] = bl[k + 1]
      BY <3>1, <1>4
    <3> HIDE DEF first, last
    <3> QED BY <3>1, <3>2, <1>2
  <2> QED BY <2>1, <2>2, <2>3, <1>1
<1>6. start(bl[1]) = MmOffset /\ end(bl[n]) = MmOffset + MmSize
  BY DEF Tiled
<1>7. 1 \in 1 .. n - 1 /\ first(1) = 1 /\ n - 1 \in 1 .. n - 1 /\ last(n - 1) = n
  BY <1>1
<1>8. start(new[1]) = MmOffset /\ end(new[n - 1]) = MmOffset + MmSize
  BY <1>5, <1>6, <1>7
<1>9. ASSUME NEW j \in 1 .. n - 1, NEW k \in 1 .. n - 1
      PROVE  /\ j < k => end(new[j]) <= start(new[k])
             /\ k = j + 1 => end(new[j]) = start(new[k])
  <2>1. /\ last(j) \in 1 .. n /\ first(k) \in 1 .. n
        /\ end(new[j]) = end(bl[last(j)]) /\ start(new[k]) = start(bl[first(k)])
    BY <1>5
  <2>2. /\ last(j) < first(k) => end(bl[last(j)]) <= start(bl[first(k)])
        /\ first(k) = last(j) + 1 => end(bl[last(j)]) = start(bl[first(k)])
    BY <2>1, <1>3
  <2>3. (j < k => last(j) < first(k)) /\ (k = j + 1 => first(k) = last(j) + 1)
    BY <1>1
  <2> HIDE DEF first, last, start, end
  <2> QED BY <2>1, <2>2, <2>3
<1> QED BY <1>1, <1>5, <1>7, <1>8, <1>9 DEF Tiled

(* A merge of free blocks takes the second from the free ones.             *)
LEMMA MergeFree ==
  ASSUME NEW bl, Tiled(bl), NEW i \in 1 .. Len(bl) - 1, NEW new, IsMerge(bl, new, i),
         bl[i].free, bl[i + 1].free
  PROVE  \A x : FreeAt(new, x) <=> x # bl[i + 1].ofs /\ FreeAt(bl, x)
<1>1. /\ Len(bl) \in Nat /\ i \in Int /\ 1 <= i /\ i <= Len(bl) - 1 /\ Len(new) = Len(bl) - 1
      /\ i + 1 \in 1 .. Len(bl) /\ i \in 1 .. Len(bl)
  BY DEF Tiled, IsMerge
<1>2. \A k \in 1 .. Len(bl) : bl[k].ofs = bl[i + 1].ofs => k = i + 1
  BY <1>1, OfsApart
<1>3. /\ \A k \in 1 .. Len(bl) : k < i => new[k] = bl[k]
      /\ new[i].ofs = bl[i].ofs /\ new[i].free = bl[i].free
      /\ \A k \in 1 .. Len(bl) : k > i + 1 => new[k - 1] = bl[k]
  BY DEF IsMerge
<1>4. ASSUME NEW k \in 1 .. Len(new), new[k].free
      PROVE  new[k].ofs # bl[i + 1].ofs /\ FreeAt(bl, new[k].ofs)
  <2>1. CASE k <= i
    <3>1. k \in 1 .. Len(bl) /\ k # i + 1 /\ bl[k].free /\ bl[k].ofs = new[k].ofs
      BY <2>1, <1>1, <1>3, <1>4
    <3> QED BY <3>1, <1>2 DEF FreeAt
  <2>2. CASE k > i
    <3>1. k + 1 \in 1 .. Len(bl) /\ k + 1 > i + 1 /\ k + 1 - 1 = k /\ k + 1 # i + 1
      BY <2>2, <1>1
    <3>2. new[k] = bl[k + 1]
      BY <3>1, <1>3
    <3> QED BY <3>1, <3>2, <1>2, <1>4 DEF FreeAt
  <2> QED BY <2>1, <2>2, <1>1
<1>5. ASSUME NEW k \in 1 .. Len(bl), bl[k].free, bl[k].ofs # bl[i + 1].ofs
      PROVE  FreeAt(new, bl[k].ofs)
  <2>1. CASE k <= i
    <3>1. k \in 1 .. Len(new)
      BY <2>1, <1>1
    <3>2. k < i \/ k = i
      BY <2>1, <1>1
    <3>3. new[k].free /\ bl[k].ofs = new[k].ofs
      BY <3>2, <1>3, <1>5
    <3> QED BY <3>1, <3>3 DEF FreeAt
  <2>2. CASE k > i + 1
    <3>1. k - 1 \in 1 .. Len(new) /\ new[k - 1] = bl[k]
      BY <2>2, <1>1, <1>3
    <3> QED BY <3>1, <1>5 DEF FreeAt
  <2>3. k # i + 1
    BY <1>5
  <2> QED BY <2>1, <2>2, <2>3, <1>1
<1>6. ASSUME NEW x, FreeAt(new, x) PROVE x # bl[i + 1].ofs /\ FreeAt(bl, x)
  <2>1. PICK k \in 1 .. Len(new) : new[k].free /\ new[k].ofs = x
    BY <1>6 DEF FreeAt
  <2> QED BY <2>1, <1>4
<1>7. ASSUME NEW x, x # bl[i + 1].ofs, FreeAt(bl, x) PROVE FreeAt(new, x)
  <2>1. PICK k \in 1 .. Len(bl) : bl[k].free /\ bl[k].ofs = x
    BY <1>7 DEF FreeAt
  <2> QED BY <2>1, <1>5, <1>7
<1> QED BY <1>6, <1>7, Zenon

(* After a merge the block at i has no free successor, and if it had the   *)
(* only free neighbours none are left.                                     *)
LEMMA MergeJoined ==
  ASSUME NEW h, NEW g, Tiled(h.blocks), NEW i \in 1 .. Len(h.blocks) - 1,
         IsMerge(h.blocks, g.blocks, i), h.blocks[i].free, h.blocks[i + 1].free
  PROVE  /\ JoinedBeside(h, i) => JoinedAfter(g, i)
         /\ JoinedAfter(h, i + 1) => HeapIsJoined(g)
<1> DEFINE bl == h.blocks  new == g.blocks  n == Len(bl)
<1>1. /\ n \in Nat /\ i \in Int /\ 1 <= i /\ i <= n - 1 /\ Len(new) = n - 1
      /\ bl[i].free /\ bl[i + 1].free
  BY DEF Tiled, IsMerge
<1>2. /\ \A k \in 1 .. n : k < i => new[k] = bl[k]
      /\ new[i].free = bl[i].free
      /\ \A k \in 1 .. n : k > i + 1 => new[k - 1] = bl[k]
  BY DEF IsMerge
<1>3. /\ JoinedBeside(h, i) <=> \A k \in 1 .. (n - 1) : bl[k].free /\ bl[k + 1].free => k = i \/ k + 1 = i
      /\ JoinedAfter(h, i + 1) <=> \A k \in 1 .. (n - 1) : bl[k].free /\ bl[k + 1].free => k + 1 = i + 1
  BY DEF JoinedBeside, JoinedAfter
<1>4. /\ JoinedAfter(g, i) <=> \A k \in 1 .. (n - 2) : new[k].free /\ new[k + 1].free => k + 1 = i
      /\ HeapIsJoined(g) <=> \A k \in 1 .. (n - 2) : ~(new[k].free /\ new[k + 1].free)
  <2>1. Len(new) - 1 = n - 2
    BY <1>1
  <2> QED BY <2>1 DEF JoinedAfter, HeapIsJoined
<1> HIDE DEF bl, new, n
<1>5. ASSUME NEW k \in 1 .. (n - 2), new[k].free, new[k + 1].free
      PROVE  \/ k < i /\ k \in 1 .. (n - 1) /\ bl[k].free /\ bl[k + 1].free
             \/ k >= i /\ k + 1 \in 1 .. (n - 1) /\ bl[k + 1].free /\ bl[(k + 1) + 1].free
  <2>1. CASE k < i
    <3>1. k \in 1 .. (n - 1) /\ k + 1 \in 1 .. n /\ k \in 1 .. n /\ k + 1 <= i
      BY <2>1, <1>1
    <3>2. bl[k].free
      BY <2>1, <3>1, <1>2, <1>5
    <3>3. bl[k + 1].free
      BY <3>1, <1>1, <1>2, <1>5
    <3> QED BY <2>1, <3>1, <3>2, <3>3
  <2>2. CASE k >= i
    <3>1. /\ k + 1 \in 1 .. (n - 1) /\ (k + 1) + 1 \in 1 .. n /\ (k + 1) + 1 > i + 1
          /\ (k + 1) + 1 - 1 = k + 1 /\ k + 1 \in 1 .. n
      BY <2>2, <1>1
    <3>2. bl[(k + 1) + 1].free
      BY <3>1, <1>2, <1>5
    <3>3. bl[k + 1].free
      <4>1. CASE k = i
        BY <4>1, <1>1
      <4>2. CASE k > i
        <5>1. k + 1 > i + 1 /\ k + 1 - 1 = k
          BY <4>2, <1>1
        <5> QED BY <5>1, <3>1, <1>2, <1>5
      <4> QED BY <2>2, <4>1, <4>2, <1>1
    <3> QED BY <2>2, <3>1, <3>2, <3>3
  <2> QED BY <2>1, <2>2, <1>1
<1>6. ASSUME JoinedBeside(h, i), NEW k \in 1 .. (n - 2), new[k].free, new[k + 1].free PROVE k + 1 = i
  <2>1. k \in Int
    OBVIOUS
  <2> QED BY <2>1, <1>1, <1>3, <1>5, <1>6
<1>7. ASSUME JoinedAfter(h, i + 1), NEW k \in 1 .. (n - 2), new[k].free, new[k + 1].free PROVE FALSE
  <2>1. k \in Int
    OBVIOUS
  <2> QED BY <2>1, <1>1, <1>3, <1>5, <1>7
<1> QED BY <1>4, <1>6, <1>7

(* Join2Blocks keeps the heap sound.                                       *)
LEMMA JoinSound ==
  ASSUME NEW h, HeapOK(h), NEW i \in 1 .. Len(h.blocks)
  PROVE  LET g == Join2Blocks(h, i)
         IN  /\ HeapOK(g) /\ i \in 1 .. Len(g.blocks)
             /\ JoinedBeside(h, i) => JoinedAfter(g, i)
             /\ JoinedAfter(h, i + 1) => HeapIsJoined(g)
<1> DEFINE bl == h.blocks  n == Len(bl)
<1>1. Tiled(bl) /\ FreeExact(bl, h.free) /\ bl \in Seq(BlockType) /\ n \in Nat /\ i \in 1 .. n
  BY DEF HeapOK, Tiled
<1>2. CASE i = n \/ ~bl[i].free \/ ~bl[i + 1].free
  <2>1. Join2Blocks(h, i) = h
    BY <1>2 DEF Join2Blocks
  <2>2. JoinedBeside(h, i) => JoinedAfter(h, i)
    BY <1>1, <1>2 DEF JoinedBeside, JoinedAfter
  <2>3. JoinedAfter(h, i + 1) => HeapIsJoined(h)
    BY <1>1, <1>2 DEF JoinedAfter, HeapIsJoined
  <2> QED BY <2>1, <2>2, <2>3
<1>3. CASE ~(i = n \/ ~bl[i].free \/ ~bl[i + 1].free)
  <2> DEFINE o == bl[i + 1].ofs
             b == [bl[i] EXCEPT !.size = @ + bl[i + 1].size]
             grown == [bl EXCEPT ![i] = b]
             new == RemoveAt(grown, i + 1)
             nfree == RemoveItem(h.free, o)
             g == [blocks |-> new, free |-> nfree]
  <2>1. Join2Blocks(h, i) = g
    BY <1>3 DEF Join2Blocks
  <2>2. /\ i \in 1 .. n - 1 /\ i + 1 \in 1 .. n /\ i \in Int /\ 1 <= i /\ i <= n - 1
        /\ bl[i].free /\ bl[i + 1].free
    BY <1>1, <1>3
  <2> HIDE DEF bl
  <2>3. /\ bl[i] \in BlockType /\ bl[i].size \in Int /\ bl[i + 1].size \in Int
    BY <1>1, <2>2, BlockFields
  <2>4. b \in BlockType /\ b.ofs = bl[i].ofs /\ b.size = bl[i].size + bl[i + 1].size /\ b.free = bl[i].free
    BY <2>3 DEF BlockType
  <2> HIDE DEF b
  <2>5. /\ grown \in Seq(BlockType) /\ Len(grown) = n /\ grown[i] = b
        /\ \A k \in 1 .. n : k # i => grown[k] = bl[k]
    BY <1>1, <2>2, <2>4
  <2> HIDE DEF grown
  <2>6. IsRemoval(BlockType, grown, new, i + 1)
    BY <2>2, <2>5, RemoveAtFacts
  <2> HIDE DEF new
  <2>7. /\ new \in Seq(BlockType) /\ Len(new) = n - 1
        /\ \A k \in 1 .. n : k < i + 1 => new[k] = grown[k]
        /\ \A k \in 1 .. n : k > i + 1 => new[k - 1] = grown[k]
    BY <2>5, <2>6 DEF IsRemoval
  <2>8. IsMerge(bl, new, i)
    <3>1. ASSUME NEW k \in 1 .. n, k < i PROVE new[k] = bl[k]
      <4>1. k < i + 1 /\ k # i
        BY <3>1, <2>2
      <4> QED BY <4>1, <2>5, <2>7
    <3>2. new[i] = b
      <4>1. i < i + 1 /\ i \in 1 .. n
        BY <1>1, <2>2
      <4> QED BY <4>1, <2>5, <2>7
    <3>3. ASSUME NEW k \in 1 .. n, k > i + 1 PROVE new[k - 1] = bl[k]
      <4>1. k # i
        BY <3>3, <2>2
      <4> QED BY <3>3, <4>1, <2>5, <2>7
    <3> QED BY <3>1, <3>2, <3>3, <2>4, <2>7 DEF IsMerge
  <2>9. Tiled(new)
    BY <1>1, <2>2, <2>8, MergeTiled
  <2>10. \A x : FreeAt(new, x) <=> x # o /\ FreeAt(bl, x)
    BY <1>1, <2>2, <2>8, MergeFree
  <2> HIDE DEF o
  <2>11. /\ h.free \in Seq(Int) /\ NoDuplicates(h.free)
         /\ \A x : x \in Items(h.free) <=> FreeAt(bl, x)
    BY <1>1 DEF FreeExact
  <2>12. nfree \in Seq(Int) /\ NoDuplicates(nfree) /\ Items(nfree) = Items(h.free) \ {o}
    BY <2>11, RemoveItemItems
  <2> HIDE DEF nfree
  <2>13. FreeExact(new, nfree)
    BY <2>10, <2>11, <2>12 DEF FreeExact
  <2>14. g.blocks = new /\ g.free = nfree
    OBVIOUS
  <2>15. HeapOK(g)
    BY <2>9, <2>13, <2>14 DEF HeapOK
  <2> HIDE DEF g
  <2>16. /\ JoinedBeside(h, i) => JoinedAfter(g, i)
         /\ JoinedAfter(h, i + 1) => HeapIsJoined(g)
    BY <1>1, <2>2, <2>8, <2>14, MergeJoined DEF bl
  <2>17. i \in 1 .. Len(g.blocks)
    BY <2>2, <2>7, <2>14
  <2> QED BY <2>1, <2>15, <2>16, <2>17
<1> QED BY <1>2, <1>3

(* mmFreeMem keeps the heap sound, and joined if it was.                   *)
LEMMA FreeSound ==
  ASSUME NEW h, HeapOK(h), NEW i \in 1 .. Len(h.blocks)
  PROVE  LET g == mmFreeMem(h, h.blocks[i].ofs)
         IN  HeapOK(g) /\ (HeapIsJoined(h) => HeapIsJoined(g))
<1> DEFINE loose == [blocks |-> [h.blocks EXCEPT ![i].free = TRUE],
                     free |-> <<h.blocks[i].ofs>> \o h.free]
           joined == Join2Blocks(loose, i)
           last == Join2Blocks(joined, i - 1)
<1>1. mmFreeMem(h, h.blocks[i].ofs) = IF h.blocks[i].free THEN h ELSE IF i = 1 THEN joined ELSE last
  <2>1. mmFindBlock(h, h.blocks[i].ofs) = i
    BY FindUnique DEF HeapOK
  <2> QED BY <2>1 DEF mmFreeMem
<1>2. CASE h.blocks[i].free
  BY <1>1, <1>2
<1>3. CASE ~h.blocks[i].free
  <2>1. HeapOK(loose) /\ IsFlip(h.blocks, loose.blocks, i, TRUE)
    BY <1>3, LooseSound
  <2> HIDE DEF loose
  <2>2. i \in 1 .. Len(loose.blocks) /\ Len(loose.blocks) = Len(h.blocks) /\ Len(h.blocks) \in Nat
    BY <2>1 DEF IsFlip, HeapOK, Tiled
  <2>3. HeapIsJoined(h) => JoinedBeside(loose, i)
    <3> SUFFICES ASSUME HeapIsJoined(h), NEW k \in 1 .. (Len(h.blocks) - 1), k # i, k + 1 # i,
                        loose.blocks[k].free, loose.blocks[k + 1].free
                 PROVE  FALSE
      BY <2>2 DEF JoinedBeside
    <3>1. k \in 1 .. Len(h.blocks) /\ k + 1 \in 1 .. Len(h.blocks)
      BY <2>2
    <3>2. loose.blocks[k] = h.blocks[k] /\ loose.blocks[k + 1] = h.blocks[k + 1]
      BY <3>1, <2>1 DEF IsFlip
    <3> QED BY <3>2 DEF HeapIsJoined
  <2>4. /\ HeapOK(joined) /\ i \in 1 .. Len(joined.blocks)
        /\ JoinedBeside(loose, i) => JoinedAfter(joined, i)
    BY <2>1, <2>2, JoinSound
  <2> HIDE DEF joined
  <2>5. CASE i = 1
    <3>1. JoinedAfter(joined, i) => HeapIsJoined(joined)
      BY <2>5 DEF JoinedAfter, HeapIsJoined
    <3> QED BY <1>1, <1>3, <2>3, <2>4, <2>5, <3>1
  <2>6. CASE i # 1
    <3>1. i - 1 \in 1 .. Len(joined.blocks) /\ i - 1 + 1 = i
      BY <2>2, <2>4, <2>6
    <3>2. HeapOK(last) /\ (JoinedAfter(joined, i - 1 + 1) => HeapIsJoined(last))
      BY <2>4, <3>1, JoinSound
    <3> HIDE DEF last
    <3> QED BY <1>1, <1>3, <2>3, <2>4, <2>6, <3>1, <3>2
  <2> QED BY <2>5, <2>6
<1> QED BY <1>2, <1>3

(* SliceBlock keeps the heap sound; free neighbours stay only when the     *)
(* second structure could not be had.                                      *)
LEMMA SliceSound ==
  ASSUME NEW h, HeapOK(h), NEW i \in 1 .. Len(h.blocks), h.blocks[i].free,
         NEW startofs \in Int, NEW size \in Int, NEW nodes \in 0 .. 2,
         h.blocks[i].ofs <= startofs, 0 < size,
         startofs + size <= h.blocks[i].ofs + h.blocks[i].size
  PROVE  LET r == SliceBlock(h, h.blocks[i].ofs, startofs, size, nodes)
         IN  /\ HeapOK(r.heap)
             /\ HeapIsJoined(h) => HeapIsJoined(r.heap) \/ (r.block = NoBlock /\ r.heap # h)
<1> DEFINE ofs == h.blocks[i].ofs
           left == startofs > ofs
           h1 == IF left THEN Split(h, ofs, startofs - ofs) ELSE h
           p == IF left THEN i + 1 ELSE i
           spare == IF left THEN nodes - 1 ELSE nodes
           right == size < BlockAt(h1, startofs).size
           h2 == IF right THEN Split(h1, startofs, size) ELSE h1
           h3 == [blocks |-> [h2.blocks EXCEPT ![mmFindBlock(h2, startofs)].free = FALSE],
                  free |-> RemoveItem(h2.free, startofs)]
           r == SliceBlock(h, ofs, startofs, size, nodes)
<1>1. r = IF left /\ nodes = 0 THEN [heap |-> h, block |-> NoBlock]
          ELSE IF right /\ spare = 0 THEN [heap |-> h1, block |-> NoBlock]
          ELSE [heap |-> h3, block |-> startofs]
  BY DEF SliceBlock
<1>2. /\ ofs \in Int /\ h.blocks[i].size \in Int /\ Tiled(h.blocks)
      /\ Len(h.blocks) \in Nat /\ i \in Int /\ 1 <= i /\ i <= Len(h.blocks)
  <2>1. Tiled(h.blocks)
    BY DEF HeapOK
  <2>2. Len(h.blocks) \in Nat
    BY <2>1 DEF Tiled
  <2> QED BY <2>1, <2>2, BlockFields
<1>3. /\ HeapOK(h1) /\ p \in 1 .. Len(h1.blocks) /\ h1.blocks[p].free
      /\ h1.blocks[p].ofs = startofs /\ size <= h1.blocks[p].size
      /\ HeapIsJoined(h) => JoinedAfter(h1, p)
      /\ left => h1 # h
      /\ ~left => h1 = h
  <2>1. CASE left
    <3> DEFINE d == startofs - ofs
    <3>1. d \in Int /\ 0 < d /\ d < h.blocks[i].size
      BY <2>1, <1>2
    <3>2. HeapOK(h1) /\ IsCut(h.blocks, h1.blocks, i, d)
      BY <2>1, <3>1, SplitSound
    <3>3. p = i + 1
      BY <2>1
    <3> HIDE DEF h1
    <3>4. /\ Len(h1.blocks) = Len(h.blocks) + 1 /\ h1.blocks[i + 1].free
          /\ h1.blocks[i + 1].ofs = ofs + d /\ h1.blocks[i + 1].size = h.blocks[i].size - d
      BY <3>2 DEF IsCut
    <3>5. HeapIsJoined(h) => JoinedAfter(h1, i + 1)
      BY <3>1, <3>2, <1>2, CutJoined
    <3>6. p \in 1 .. Len(h1.blocks) /\ ofs + d = startofs /\ size <= h.blocks[i].size - d
      <4>1. p \in 1 .. Len(h1.blocks)
        BY <3>3, <3>4, <1>2
      <4>2. \A x, y \in Int : startofs + size <= x + y => /\ x + (startofs - x) = startofs
                                                         /\ size <= y - (startofs - x)
        OBVIOUS
      <4> QED BY <4>1, <4>2, <1>2
    <3>7. h1 # h
      BY <3>4, <1>2
    <3> QED BY <2>1, <3>2, <3>3, <3>4, <3>5, <3>6, <3>7
  <2>2. CASE ~left
    <3>1. h1 = h /\ p = i /\ ofs = startofs
      BY <2>2, <1>2
    <3>2. HeapIsJoined(h) => JoinedAfter(h, i)
      BY DEF HeapIsJoined, JoinedAfter
    <3>3. size <= h.blocks[i].size
      BY <3>1, <1>2
    <3> HIDE DEF h1, p
    <3> QED BY <2>2, <3>1, <3>2, <3>3
  <2> QED BY <2>1, <2>2
<1> HIDE DEF h1, p
<1>4. /\ h1.blocks[p].ofs \in Int /\ h1.blocks[p].size \in Int /\ Tiled(h1.blocks)
  BY <1>3, BlockFields DEF HeapOK
<1>5. BlockAt(h1, startofs) = h1.blocks[p]
  <2>1. mmFindBlock(h1, h1.blocks[p].ofs) = p
    BY <1>3, <1>4, FindUnique
  <2> QED BY <2>1, <1>3 DEF BlockAt
<1>6. /\ HeapOK(h2) /\ p \in 1 .. Len(h2.blocks) /\ h2.blocks[p].free /\ h2.blocks[p].ofs = startofs
      /\ JoinedAfter(h1, p) => JoinedBeside(h2, p)
  <2>1. CASE right
    <3>1. size < h1.blocks[p].size
      BY <2>1, <1>5
    <3>2. HeapOK(h2) /\ IsCut(h1.blocks, h2.blocks, p, size)
      <4>1. h2 = Split(h1, h1.blocks[p].ofs, size)
        BY <2>1, <1>3
      <4> HIDE DEF h2
      <4> QED BY <4>1, <3>1, <1>3, SplitSound
    <3> HIDE DEF h2
    <3>3. /\ Len(h2.blocks) = Len(h1.blocks) + 1 /\ h2.blocks[p].free = h1.blocks[p].free
          /\ h2.blocks[p].ofs = h1.blocks[p].ofs
      BY <3>2 DEF IsCut
    <3>4. JoinedAfter(h1, p) => JoinedBeside(h2, p)
      BY <3>2, <1>3, <1>4, CutJoined
    <3>5. p \in 1 .. Len(h2.blocks)
      <4>1. Len(h1.blocks) \in Nat
        BY <1>4 DEF Tiled
      <4> QED BY <4>1, <3>3, <1>3
    <3> QED BY <3>2, <3>3, <3>4, <3>5, <1>3
  <2>2. CASE ~right
    <3>1. h2 = h1
      BY <2>2
    <3>2. JoinedAfter(h1, p) => JoinedBeside(h1, p)
      BY DEF JoinedAfter, JoinedBeside
    <3> HIDE DEF h2
    <3> QED BY <3>1, <3>2, <1>3
  <2> QED BY <2>1, <2>2
<1> HIDE DEF h2
<1>7. /\ HeapOK(h3) /\ (JoinedBeside(h2, p) => HeapIsJoined(h3))
  <2>1. mmFindBlock(h2, startofs) = p
    <3>1. mmFindBlock(h2, h2.blocks[p].ofs) = p
      BY <1>6, FindUnique DEF HeapOK
    <3> QED BY <3>1, <1>6
  <2>2. h3 = [blocks |-> [h2.blocks EXCEPT ![p].free = FALSE],
              free |-> RemoveItem(h2.free, h2.blocks[p].ofs)]
    BY <2>1, <1>6
  <2> HIDE DEF h3
  <2>3. HeapOK(h3) /\ IsFlip(h2.blocks, h3.blocks, p, FALSE)
    BY <2>2, <1>6, TakeSound
  <2>4. ASSUME JoinedBeside(h2, p), NEW k \in 1 .. (Len(h3.blocks) - 1),
               h3.blocks[k].free, h3.blocks[k + 1].free
        PROVE  FALSE
    <3>1. Len(h3.blocks) = Len(h2.blocks) /\ Len(h3.blocks) \in Nat
      BY <2>3 DEF IsFlip, HeapOK, Tiled
    <3>2. k \in 1 .. Len(h2.blocks) /\ k + 1 \in 1 .. Len(h2.blocks)
      BY <3>1
    <3>3. k # p /\ k + 1 # p
      BY <2>3, <2>4 DEF IsFlip
    <3>4. h3.blocks[k] = h2.blocks[k] /\ h3.blocks[k + 1] = h2.blocks[k + 1]
      BY <2>3, <3>2, <3>3 DEF IsFlip
    <3> QED BY <2>4, <3>1, <3>3, <3>4 DEF JoinedBeside
  <2> QED BY <2>3, <2>4 DEF HeapIsJoined
<1> HIDE DEF h3
<1>8. CASE left /\ nodes = 0
  <2>1. r.heap = h
    BY <1>1, <1>8
  <2> HIDE DEF r
  <2>2. HeapOK(r.heap) /\ (HeapIsJoined(h) => HeapIsJoined(r.heap))
    BY <2>1
  <2> QED BY <2>2 DEF r
<1>9. CASE ~(left /\ nodes = 0) /\ (right /\ spare = 0)
  <2>1. r.heap = h1 /\ r.block = NoBlock
    BY <1>1, <1>9
  <2> HIDE DEF r, right, spare
  <2>2. h1 = h \/ h1 # h
    OBVIOUS
  <2>3. HeapOK(r.heap) /\ (HeapIsJoined(h) => HeapIsJoined(r.heap) \/ (r.block = NoBlock /\ r.heap # h))
    BY <2>1, <2>2, <1>3
  <2> QED BY <2>3 DEF r
<1>10. CASE ~(left /\ nodes = 0) /\ ~(right /\ spare = 0)
  <2>1. r.heap = h3
    BY <1>1, <1>10
  <2> HIDE DEF r, right, spare
  <2>2. HeapOK(r.heap) /\ (HeapIsJoined(h) => HeapIsJoined(r.heap))
    BY <2>1, <1>3, <1>6, <1>7
  <2> QED BY <2>2 DEF r
<1> QED BY <1>8, <1>9, <1>10

(* The place that mmAllocMem computes lies in the block or beyond it.      *)
LEMMA StartOfsBounds ==
  ASSUME NEW ofs \in Int, NEW unit \in Nat \ {0}, NEW startSearch \in Int
  PROVE  StartOfs(ofs, unit, startSearch) \in Int /\ ofs <= StartOfs(ofs, unit, startSearch)
<1> DEFINE q == (ofs + unit - 1) \div unit  m == (ofs + unit - 1) % unit
<1>1. q \in Int /\ m \in Int /\ 0 <= m /\ m < unit /\ ofs + unit - 1 = unit * q + m
  OBVIOUS
<1>2. unit * q = q * unit
  BY <1>1
<1> HIDE DEF q, m
<1>3. q * unit \in Int
  BY <1>1
<1>4. ofs <= q * unit
  <2> DEFINE z == q * unit
  <2>1. z \in Int /\ ofs + unit - 1 = z + m
    BY <1>1, <1>2, <1>3
  <2> HIDE DEF z
  <2> QED BY <2>1, <1>1 DEF z
<1>5. StartOfs(ofs, unit, startSearch) = IF q * unit < startSearch THEN startSearch ELSE q * unit
  BY DEF StartOfs, q
<1> HIDE DEF q
<1> QED BY <1>3, <1>4, <1>5

(* What an allocation from heap h may result in.                           *)
SoundResult(h, r) ==
  /\ HeapOK(r.heap)
  /\ HeapIsJoined(h) => HeapIsJoined(r.heap) \/ (r.block = NoBlock /\ r.heap # h)

(* mmAllocMem keeps the heap sound.                                        *)
LEMMA AllocSound ==
  ASSUME NEW h, HeapOK(h), NEW size \in Nat \ {0}, NEW unit \in Nat \ {0},
         NEW startSearch \in Int, NEW nodes \in 0 .. 2
  PROVE  SoundResult(h, mmAllocMem(h, size, unit, startSearch, nodes))
<1> DEFINE fit == {j \in DOMAIN h.free : Fits(BlockAt(h, h.free[j]), size, unit, startSearch)}
           first == CHOOSE j \in fit : \A l \in fit : j <= l
           ofs == h.free[first]
           startofs == StartOfs(ofs, unit, startSearch)
           r == mmAllocMem(h, size, unit, startSearch, nodes)
<1>1. /\ fit = {} => r = [heap |-> h, block |-> NoBlock]
      /\ fit # {} => r = SliceBlock(h, ofs, startofs, size, nodes)
  BY DEF mmAllocMem
<1>2. /\ h.free \in Seq(Int) /\ Tiled(h.blocks)
      /\ \A x : x \in Items(h.free) <=> FreeAt(h.blocks, x)
  BY DEF HeapOK, FreeExact
<1>3. CASE fit = {}
  <2>1. r.heap = h
    BY <1>1, <1>3
  <2> HIDE DEF r, fit
  <2>2. SoundResult(h, r)
    BY <2>1 DEF SoundResult
  <2> QED BY <2>2 DEF r
<1>4. CASE fit # {}
  <2>1. first \in fit
    <3>1. fit \in SUBSET Nat
      BY <1>2
    <3> HIDE DEF fit
    <3>2. \E j \in fit : \A l \in fit : j <= l
      BY <1>4, <3>1, LeastNatural
    <3> QED BY <3>2
  <2>2. first \in DOMAIN h.free /\ Fits(BlockAt(h, ofs), size, unit, startSearch)
    BY <2>1
  <2> HIDE DEF first, fit
  <2>3. ofs \in Items(h.free)
    <3>1. first \in 1 .. Len(h.free)
      BY <2>2, <1>2
    <3> QED BY <3>1 DEF Items
  <2> HIDE DEF ofs
  <2>4. PICK i \in 1 .. Len(h.blocks) : h.blocks[i].free /\ h.blocks[i].ofs = ofs
    BY <2>3, <1>2 DEF FreeAt
  <2>5. BlockAt(h, ofs) = h.blocks[i]
    <3>1. mmFindBlock(h, h.blocks[i].ofs) = i
      BY <1>2, FindUnique
    <3> QED BY <3>1, <2>4 DEF BlockAt
  <2>6. ofs \in Int
    BY <2>4, <1>2, BlockFields
  <2>7. startofs \in Int /\ ofs <= startofs
    BY <2>6, StartOfsBounds
  <2>8. startofs + size <= ofs + h.blocks[i].size
    BY <2>2, <2>4, <2>5 DEF Fits
  <2>9. r = SliceBlock(h, h.blocks[i].ofs, startofs, size, nodes)
    BY <1>1, <1>4, <2>4
  <2> HIDE DEF startofs, r
  <2>10. size \in Int /\ 0 < size
    OBVIOUS
  <2>11. /\ HeapOK(r.heap)
         /\ HeapIsJoined(h) => HeapIsJoined(r.heap) \/ (r.block = NoBlock /\ r.heap # h)
    BY <2>4, <2>7, <2>8, <2>9, <2>10, SliceSound
  <2> QED BY <2>11 DEF r, SoundResult
<1> QED BY <1>3, <1>4

-----------------------------------------------------------------------------
(* The invariant: besides what HeapIsSound says, any two blocks lie one    *)
(* after the other.                                                        *)
MmInv == HeapOK(heap) /\ broken \in BOOLEAN /\ (broken \/ HeapIsJoined(heap))

(* mmInit makes one free block.                                            *)
LEMMA MmInitInv == MmInit => MmInv
<1> SUFFICES ASSUME MmInit PROVE MmInv
  OBVIOUS
<1> DEFINE b == Block(MmOffset, MmSize, TRUE)
<1>1. b \in BlockType /\ b.ofs = MmOffset /\ b.size = MmSize /\ b.free /\ b.size > 0
  BY MmAssumption DEF Block, BlockType
<1>2. heap.blocks = <<b>> /\ heap.free = <<MmOffset>> /\ broken = FALSE
  BY DEF MmInit, mmInit
<1> HIDE DEF b
<1>3. /\ heap.blocks \in Seq(BlockType) /\ Len(heap.blocks) = 1 /\ heap.blocks[1] = b
  BY <1>1, <1>2
<1>4. /\ heap.free \in Seq(Int) /\ Len(heap.free) = 1 /\ heap.free[1] = MmOffset
  BY <1>2, MmAssumption
<1>5. Tiled(heap.blocks)
  BY <1>1, <1>3, MmAssumption DEF Tiled
<1>6. FreeExact(heap.blocks, heap.free)
  <2>1. \A x : x \in Items(heap.free) <=> x = MmOffset
    BY <1>4 DEF Items
  <2>2. \A x : FreeAt(heap.blocks, x) <=> x = MmOffset
    BY <1>1, <1>3 DEF FreeAt
  <2>3. NoDuplicates(heap.free)
    BY <1>4 DEF NoDuplicates
  <2> QED BY <1>4, <2>1, <2>2, <2>3 DEF FreeExact
<1>7. HeapIsJoined(heap)
  BY <1>3 DEF HeapIsJoined
<1> QED BY <1>2, <1>5, <1>6, <1>7 DEF MmInv, HeapOK

(* Allocations and frees preserve the invariant.                           *)
LEMMA MmNextInv == MmInv /\ [MmNext]_mmVars => MmInv'
<1> SUFFICES ASSUME MmInv, [MmNext]_mmVars PROVE MmInv'
  OBVIOUS
<1>1. CASE UNCHANGED mmVars
  BY <1>1 DEF mmVars, MmInv
<1>2. ASSUME NEW size \in 1 .. MmSize, NEW unit \in MmUnits, NEW startSearch \in MmStarts,
             NEW nodes \in 0 .. 2, MmAlloc(size, unit, startSearch, nodes)
      PROVE  MmInv'
  <2> DEFINE r == mmAllocMem(heap, size, unit, startSearch, nodes)
  <2>1. /\ heap' = r.heap
        /\ broken' = (broken \/ (r.block = NoBlock /\ r.heap # heap))
    BY <1>2 DEF MmAlloc
  <2>2. size \in Nat \ {0} /\ unit \in Nat \ {0} /\ startSearch \in Int
    BY MmAssumption
  <2>3. /\ HeapOK(r.heap)
        /\ HeapIsJoined(heap) => HeapIsJoined(r.heap) \/ (r.block = NoBlock /\ r.heap # heap)
    <3>1. HeapOK(heap)
      BY DEF MmInv
    <3>2. SoundResult(heap, r)
      BY <3>1, <2>2, AllocSound
    <3> QED BY <3>2 DEF SoundResult
  <2> HIDE DEF r
  <2>4. HeapOK(heap') /\ broken' \in BOOLEAN
    BY <2>1, <2>3
  <2>5. broken' \/ HeapIsJoined(heap')
    BY <2>1, <2>3 DEF MmInv
  <2>6. HeapOK(heap)' /\ (broken \/ HeapIsJoined(heap))'
    BY <2>4, <2>5
  <2> QED BY <2>4, <2>6 DEF MmInv
<1>3. ASSUME NEW i \in DOMAIN heap.blocks, MmFree(heap.blocks[i].ofs)
      PROVE  MmInv'
  <2> DEFINE g == mmFreeMem(heap, heap.blocks[i].ofs)
  <2>1. heap' = g /\ broken' = broken
    BY <1>3 DEF MmFree
  <2>2. i \in 1 .. Len(heap.blocks)
    BY DEF MmInv, HeapOK, Tiled
  <2>3. HeapOK(g) /\ (HeapIsJoined(heap) => HeapIsJoined(g))
    BY <2>2, FreeSound DEF MmInv
  <2> HIDE DEF g
  <2>4. HeapOK(heap') /\ broken' \in BOOLEAN /\ (broken' \/ HeapIsJoined(heap'))
    BY <2>1, <2>3 DEF MmInv
  <2> QED BY <2>4 DEF MmInv
<1> QED BY <1>1, <1>2, <1>3 DEF MmNext

(* Whatever mmAllocMem, SliceBlock, mmFreeMem and Join2Blocks are asked    *)
(* for, and wherever calloc fails, the blocks tile the heap, the free list *)
(* is exact, and free neighbours are joined unless a slice ran out of      *)
(* memory half way.                                                        *)
THEOREM HeapAlwaysSound == MmSpec => []HeapIsSound
<1>1. MmInv => HeapIsSound
  <2> SUFFICES ASSUME MmInv PROVE HeapIsTiled(heap, MmOffset, MmSize)
    BY DEF MmInv, HeapIsSound
  <2> DEFINE bl == heap.blocks  n == Len(bl)
             ofs == {bl[i].ofs : i \in {j \in 1 .. n : bl[j].free}}
  <2>1. /\ Tiled(bl) /\ FreeExact(bl, heap.free) /\ n \in Nat
    BY DEF MmInv, HeapOK, Tiled
  <2>2. ASSUME NEW i \in 1 .. (n - 1) PROVE bl[i].ofs + bl[i].size = bl[i + 1].ofs
    <3>1. i \in 1 .. n /\ i + 1 \in 1 .. n
      BY <2>1
    <3> QED BY <2>1, <3>1 DEF Tiled
  <2>3. \A x : x \in ofs <=> FreeAt(bl, x)
    BY DEF FreeAt
  <2>4. Items(heap.free) = ofs /\ NoDuplicates(heap.free)
    <3> HIDE DEF ofs, bl
    <3> QED BY <2>1, <2>3 DEF FreeExact
  <2> QED BY <2>1, <2>2, <2>4 DEF HeapIsTiled, Tiled
<1> QED BY <1>1, MmInitInv, MmNextInv, PTL DEF MmSpec

-----------------------------------------------------------------------------
(* Fence numbers are positive and fit an int.                              *)
LEMMA NumberRange ==
  ASSUME NEW n \in Nat \ {0}
  PROVE  Number(n) \in Int /\ 1 <= Number(n) /\ Number(n) <= WaitMax
<1>1. n - 1 \in Int /\ WaitMax \in Nat \ {0}
  BY FenceAssumption
<1>2. (n - 1) % WaitMax \in 0 .. WaitMax - 1
  BY <1>1
<1> QED BY <1>1, <1>2 DEF Number

(* A multiple of WaitMax less than two times it away is at most one.       *)
LEMMA SmallMultiple ==
  ASSUME NEW k \in Int, NEW x \in Int, x = WaitMax * k, -WaitMax < x, x < 2 * WaitMax
  PROVE  x = 0 \/ x = WaitMax
<1>1. WaitMax \in Nat /\ WaitMax > 0
  BY FenceAssumption
<1>2. CASE k <= -1
  <2>1. PICK m \in Nat : k = -1 - m
    <3>1. -1 - k \in Nat /\ k = -1 - (-1 - k)
      BY <1>2
    <3> QED BY <3>1
  <2>2. x = -WaitMax - WaitMax * m /\ WaitMax * m \in Nat
    BY <1>1, <2>1
  <2> QED BY <1>1, <2>2
<1>3. CASE k = 0
  BY <1>1, <1>3
<1>4. CASE k = 1
  BY <1>1, <1>4
<1>5. CASE k >= 2
  <2>1. PICK m \in Nat : k = 2 + m
    <3>1. k - 2 \in Nat /\ k = 2 + (k - 2)
      BY <1>5
    <3> QED BY <3>1
  <2>2. x = 2 * WaitMax + WaitMax * m /\ WaitMax * m \in Nat
    BY <1>1, <2>1
  <2> QED BY <1>1, <2>2
<1> QED BY <1>2, <1>3, <1>4, <1>5

(* Fences less than a cycle apart have numbers as far apart, or the later  *)
(* has wrapped around once.                                                *)
LEMMA NumberShift ==
  ASSUME NEW a \in Nat \ {0}, NEW b \in Nat \ {0}, a <= b, b - a < WaitMax
  PROVE  \/ Number(b) = Number(a) + (b - a)
         \/ Number(b) = Number(a) + (b - a) - WaitMax
<1> DEFINE qa == (a - 1) \div WaitMax  ra == (a - 1) % WaitMax
           qb == (b - 1) \div WaitMax  rb == (b - 1) % WaitMax
<1>1. WaitMax \in Nat /\ WaitMax > 0 /\ a - 1 \in Int /\ b - 1 \in Int
  BY FenceAssumption
<1>2. qa \in Int /\ ra \in Int /\ 0 <= ra /\ ra < WaitMax /\ a - 1 = WaitMax * qa + ra
  BY <1>1
<1>3. qb \in Int /\ rb \in Int /\ 0 <= rb /\ rb < WaitMax /\ b - 1 = WaitMax * qb + rb
  BY <1>1
<1>4. Number(a) = ra + 1 /\ Number(b) = rb + 1
  BY DEF Number
<1> HIDE DEF qa, qb, ra, rb
<1> DEFINE x == WaitMax * (qb - qa)
<1>5. x \in Int /\ x = WaitMax * qb - WaitMax * qa /\ WaitMax * qa \in Int /\ WaitMax * qb \in Int
  BY <1>1, <1>2, <1>3
<1>6. qb - qa \in Int
  BY <1>2, <1>3
<1> HIDE DEF x
<1>7. x = (b - a) - rb + ra
  BY <1>2, <1>3, <1>5
<1>8. -WaitMax < x /\ x < 2 * WaitMax
  BY <1>1, <1>2, <1>3, <1>7
<1>9. x = 0 \/ x = WaitMax
  BY <1>5, <1>6, <1>8, SmallMultiple DEF x
<1> QED BY <1>1, <1>2, <1>3, <1>4, <1>7, <1>9

(* What the loop of _fence_wait_internal knows.  The answer of the kernel  *)
(* is about an earlier moment: until the card wraps it stays true that the *)
(* card's number is not below the fence's, although the fence may be ahead *)
(* by a cycle.                                                             *)
WaitInv ==
  /\ passed \in Nat \ {0} /\ awaited \in Nat \ {0} /\ late \in BOOLEAN
  /\ awaited - passed <= InFlight /\ passed - awaited <= InFlight
  /\ at = "back" /\ ret = "ok" /\ ~late => passed >= awaited \/ last_dispatch >= seq
  /\ WaitIsHonestButLate

(* Case C and case E are right: a card that is behind by a legal distance  *)
(* never looks as if it had wrapped.                                       *)
LEMMA CaseCHonest ==
  ASSUME NEW p \in Nat \ {0}, NEW n \in Nat \ {0}, n - p <= InFlight, Number(n) - Number(p) > Far
  PROVE  p >= n
<1>1. SUFFICES ASSUME p < n PROVE FALSE
  OBVIOUS
<1>2. WaitMax \in Nat /\ InFlight \in Nat /\ 2 * InFlight + 1 < WaitMax
  BY FenceAssumption
<1>3. Far \in Int /\ 2 * Far = WaitMax + 1
  BY FenceAssumption DEF Far
<1>4. \/ Number(n) = Number(p) + (n - p)
      \/ Number(n) = Number(p) + (n - p) - WaitMax
  BY <1>1, <1>2, NumberShift
<1>5. Number(n) \in Int /\ Number(p) \in Int
  BY NumberRange
<1> QED BY <1>1, <1>2, <1>3, <1>4, <1>5

(* Case D is right: a fence that is ahead by a cycle is found out.         *)
LEMMA CaseDHonest ==
  ASSUME NEW p \in Nat \ {0}, NEW n \in Nat \ {0}, n - p <= InFlight,
         Number(p) >= Number(n), ~(Number(n) - Number(p) < -Far)
  PROVE  p >= n
<1>1. SUFFICES ASSUME p < n PROVE FALSE
  OBVIOUS
<1>2. WaitMax \in Nat /\ InFlight \in Nat /\ 2 * InFlight + 1 < WaitMax
  BY FenceAssumption
<1>3. Far \in Int /\ 2 * Far = WaitMax + 1
  BY FenceAssumption DEF Far
<1>4. \/ Number(n) = Number(p) + (n - p)
      \/ Number(n) = Number(p) + (n - p) - WaitMax
  BY <1>1, <1>2, NumberShift
<1>5. Number(n) \in Int /\ Number(p) \in Int
  BY NumberRange
<1> QED BY <1>1, <1>2, <1>3, <1>4, <1>5

(* Until it wraps the card's number grows.                                 *)
LEMMA NumberGrows ==
  ASSUME NEW p \in Nat \ {0}, Number(p + 1) # 1
  PROVE  Number(p + 1) = Number(p) + 1
<1>1. WaitMax \in Nat /\ 1 < WaitMax
  BY FenceAssumption
<1>2. p + 1 \in Nat \ {0} /\ p + 1 - p = 1
  OBVIOUS
<1>3. \/ Number(p + 1) = Number(p) + 1
      \/ Number(p + 1) = Number(p) + 1 - WaitMax
  BY <1>1, <1>2, NumberShift
<1>4. /\ Number(p) \in Int /\ Number(p) <= WaitMax
      /\ Number(p + 1) \in Int /\ 1 <= Number(p + 1)
  BY <1>2, NumberRange
<1> QED BY <1>1, <1>3, <1>4

(* A wait begins anywhere in the cycle.                                    *)
LEMMA WaitInitInv == WaitInit => WaitInv
<1> SUFFICES ASSUME NEW p \in 1 .. (2 * WaitMax), NEW n \in 1 .. (2 * WaitMax),
                    n - p \in (-InFlight) .. InFlight, WaitStart(p, n)
             PROVE  WaitInv
  BY DEF WaitInit
<1>1. WaitMax \in Nat /\ InFlight \in Nat
  BY FenceAssumption
<1>2. p \in Nat \ {0} /\ n \in Nat \ {0} /\ n - p <= InFlight /\ p - n <= InFlight
  BY <1>1
<1> QED BY <1>2 DEF WaitStart, WaitInv, WaitIsHonestButLate

(* The card and the loop preserve what the loop knows.                     *)
LEMMA WaitNextInv == WaitInv /\ [WaitNext]_waitVars => WaitInv'
<1> SUFFICES ASSUME WaitInv, [WaitNext]_waitVars PROVE WaitInv'
  OBVIOUS
<1> USE DEF seq, last_dispatch
<1>1. CASE UNCHANGED waitVars
  BY <1>1 DEF waitVars, WaitInv, WaitIsHonestButLate, Number
<1>2. CASE CardPasses
  <2>1. /\ at \in {"top", "kernel", "back"} /\ passed < awaited + InFlight
        /\ passed' = passed + 1 /\ awaited' = awaited /\ ret' = ret /\ at' = at
        /\ late' = (late \/ (at = "back" /\ Number(passed') = 1))
    BY <1>2 DEF CardPasses
  <2>2. InFlight \in Nat /\ passed \in Nat \ {0} /\ awaited \in Nat \ {0}
    BY FenceAssumption DEF WaitInv
  <2>3. /\ passed' \in Nat \ {0} /\ late' \in BOOLEAN
        /\ awaited' - passed' <= InFlight /\ passed' - awaited' <= InFlight
    BY <2>1, <2>2 DEF WaitInv
  <2>4. ASSUME at = "back", ret = "ok", ~late'
        PROVE  passed' >= awaited \/ Number(passed') >= Number(awaited)
    <3>1. Number(passed + 1) = Number(passed) + 1
      BY <2>1, <2>2, <2>4, NumberGrows
    <3>2. passed >= awaited \/ Number(passed) >= Number(awaited)
      BY <2>1, <2>4 DEF WaitInv
    <3>3. Number(passed) \in Int /\ Number(awaited) \in Int
      BY <2>2, NumberRange
    <3> QED BY <2>1, <2>2, <3>1, <3>2, <3>3
  <2> QED BY <2>1, <2>2, <2>3, <2>4 DEF WaitInv, WaitIsHonestButLate
<1>3. CASE Top
  <2>1. /\ at' = IF CaseC(last_dispatch) THEN "returned" ELSE "kernel"
        /\ UNCHANGED <<passed, awaited, ret, late>>
    BY <1>3 DEF Top
  <2>2. CaseC(last_dispatch) => passed >= awaited
    BY CaseCHonest DEF WaitInv, CaseC
  <2> QED BY <2>1, <2>2 DEF WaitInv, WaitIsHonestButLate
<1>4. CASE KernelWait
  <2>1. /\ ret' = "ok" => Number(passed) >= Number(awaited) \/ ret' # "ok"
        /\ at' = "back" /\ late' = FALSE /\ UNCHANGED <<passed, awaited>>
    BY <1>4 DEF KernelWait
  <2> QED BY <2>1 DEF WaitInv, WaitIsHonestButLate
<1>5. CASE Back
  <2>1. /\ at = "back" /\ UNCHANGED <<passed, awaited, ret, late>>
        /\ at' = IF Again THEN "top" ELSE IF ret = "ok" \/ CaseE THEN "cleared" ELSE "aborted"
    BY <1>5 DEF Back
  <2>2. ASSUME CaseE PROVE passed >= awaited
    BY <2>2, CaseCHonest DEF WaitInv, CaseC, CaseE
  <2>3. ASSUME ret = "ok", ~Again PROVE passed >= awaited \/ late
    <3>1. ~(Number(awaited) - Number(passed) < -Far)
      BY <2>3 DEF Again, KernelLied
    <3>2. late \/ passed >= awaited \/ Number(passed) >= Number(awaited)
      BY <2>1, <2>3 DEF WaitInv
    <3> QED BY <3>1, <3>2, CaseDHonest DEF WaitInv
  <2>4. at' = "cleared" => passed >= awaited \/ late
    BY <2>1, <2>2, <2>3
  <2>5. at' \in {"top", "cleared", "aborted"}
    BY <2>1
  <2> QED BY <2>1, <2>4, <2>5 DEF WaitInv, WaitIsHonestButLate
<1> QED BY <1>1, <1>2, <1>3, <1>4, <1>5 DEF WaitNext

(* For fence numbers of any width, _fence_wait_internal returns only when  *)
(* the card has passed the fence, or has wrapped after the kernel's last   *)
(* answer, as long as no fence is half a cycle ahead.                      *)
THEOREM WaitAlwaysHonest == WaitSpec => []WaitIsHonestButLate
<1>1. WaitInv => WaitIsHonestButLate
  BY DEF WaitInv
<1> QED BY <1>1, WaitInitInv, WaitNextInv, PTL DEF WaitSpec
=============================================================================
