--------------------------- MODULE DrmListsProofs ---------------------------
(***************************************************************************)
(* What the list operations of DrmLists do to the members of a list and to *)
(* their order, and two facts about numbers and finite sets that the       *)
(* proofs about the components share.                                      *)
(***************************************************************************)
EXTENDS DrmLists, FiniteSets, FiniteSetTheorems, WellFoundedInduction, TLAPS

(* The least-number principle, which every loop of the form "until the     *)
(* first n such that" rests on.                                            *)
LEMMA LeastNatural ==
  ASSUME NEW S \in SUBSET Nat, S # {}
  PROVE  \E n \in S : \A m \in S : n <= m
<1> DEFINE R == OpToRel(<, Nat)
<1>1. IsWellFoundedOn(R, Nat)
  BY NatLessThanWellFounded
<1>2. \A x, y \in Nat : y < x => <<y, x>> \in R
  BY DEF OpToRel
<1> HIDE DEF R
<1>3. PICK n \in S : \A m \in S : ~ (<<m, n>> \in R)
  BY <1>1, WFMin
<1>4. \A m \in S : ~ (m < n)
  BY <1>2, <1>3
<1>5. \A m \in S : n <= m
  BY <1>4
<1> QED BY <1>5

(* A finite set counted in two parts.                                      *)
LEMMA CardinalitySplit ==
  ASSUME NEW A, NEW B, IsFiniteSet(A)
  PROVE  /\ IsFiniteSet(A \ B) /\ IsFiniteSet(A \cap B)
         /\ Cardinality(A) \in Nat
         /\ Cardinality(A \ B) \in Nat
         /\ Cardinality(A \cap B) \in Nat
         /\ Cardinality(A) = Cardinality(A \cap B) + Cardinality(A \ B)
<1>1. /\ IsFiniteSet(A \ B)
      /\ Cardinality(A \ B) = Cardinality(A) - Cardinality(A \cap B)
  BY FS_Difference
<1>2. IsFiniteSet(A \cap B)
  BY FS_Intersection
<1>3. /\ Cardinality(A) \in Nat
      /\ Cardinality(A \ B) \in Nat
      /\ Cardinality(A \cap B) \in Nat
  BY <1>1, <1>2, FS_CardinalityType
<1> QED BY <1>1, <1>2, <1>3

(* DRMLISTADDTAIL of an object that is not a member adds just that member. *)
LEMMA AppendItems ==
  ASSUME NEW S, NEW list \in Seq(S), NEW x \in S
  PROVE  /\ Append(list, x) \in Seq(S)
         /\ Items(Append(list, x)) = Items(list) \cup {x}
         /\ NoDuplicates(list) /\ x \notin Items(list) => NoDuplicates(Append(list, x))
<1> DEFINE new == Append(list, x)
<1>1. /\ new \in Seq(S)
      /\ Len(list) \in Nat
      /\ Len(new) = Len(list) + 1
      /\ \A i \in 1 .. Len(list) : new[i] = list[i]
      /\ new[Len(list) + 1] = x
  OBVIOUS
<1> HIDE DEF new
<1>2. ASSUME NEW y PROVE y \in Items(new) <=> y \in Items(list) \cup {x}
  <2>1. ASSUME y \in Items(new) PROVE y \in Items(list) \cup {x}
    BY <1>1, <2>1 DEF Items
  <2>2. ASSUME y \in Items(list) PROVE y \in Items(new)
    <3>1. PICK i \in 1 .. Len(list) : y = list[i]
      BY <2>2 DEF Items
    <3>2. i \in 1 .. Len(new) /\ new[i] = y
      BY <1>1, <3>1
    <3> QED BY <3>2 DEF Items
  <2>3. x \in Items(new)
    <3>1. Len(list) + 1 \in 1 .. Len(new)
      BY <1>1
    <3> QED BY <1>1, <3>1 DEF Items
  <2> QED BY <2>1, <2>2, <2>3
<1>3. ASSUME NoDuplicates(list), x \notin Items(list) PROVE NoDuplicates(new)
  BY <1>1, <1>3 DEF NoDuplicates, Items
<1> QED BY <1>1, <1>2, <1>3 DEF new

(* DRMLISTDEL takes out that member and no other.                          *)
LEMMA RemoveItemItems ==
  ASSUME NEW S, NEW list \in Seq(S), NEW x, NoDuplicates(list)
  PROVE  /\ RemoveItem(list, x) \in Seq(S)
         /\ Items(RemoveItem(list, x)) = Items(list) \ {x}
         /\ NoDuplicates(RemoveItem(list, x))
<1>1. CASE x \notin Items(list)
  BY <1>1 DEF RemoveItem, NoDuplicates
<1>2. CASE x \in Items(list)
  <2> DEFINE at == CHOOSE i \in 1 .. Len(list) : list[i] = x
             new == [j \in 1 .. Len(list) - 1 |-> IF j < at THEN list[j] ELSE list[j + 1]]
  <2>1. at \in 1 .. Len(list) /\ list[at] = x
    BY <1>2 DEF Items
  <2>2. RemoveItem(list, x) = new
    BY <1>2 DEF RemoveItem
  <2> HIDE DEF at
  <2>3. /\ Len(list) \in Nat /\ Len(list) - 1 \in Nat
        /\ \A i \in 1 .. Len(list) : list[i] \in S
    BY <2>1
  <2>4. /\ new \in Seq(S)
        /\ Len(new) = Len(list) - 1
        /\ \A j \in 1 .. Len(list) - 1 : new[j] = IF j < at THEN list[j] ELSE list[j + 1]
    BY <2>1, <2>3
  <2> HIDE DEF new
  <2>5. ASSUME NEW y \in Items(new) PROVE y \in Items(list) \ {x}
    BY <2>1, <2>3, <2>4 DEF Items, NoDuplicates
  <2>6. ASSUME NEW y \in Items(list), y # x PROVE y \in Items(new)
    <3>1. PICK i \in 1 .. Len(list) : y = list[i]
      BY DEF Items
    <3>2. CASE i < at
      <4>1. i \in 1 .. Len(new) /\ new[i] = y
        BY <2>1, <2>3, <2>4, <3>1, <3>2
      <4> QED BY <4>1 DEF Items
    <3>3. CASE i > at
      <4>1. i - 1 \in 1 .. Len(new) /\ new[i - 1] = y
        BY <2>1, <2>3, <2>4, <3>1, <3>3
      <4> QED BY <4>1 DEF Items
    <3> QED BY <2>1, <2>6, <3>1, <3>2, <3>3
  <2>7. NoDuplicates(new)
    BY SMTT(30), <2>1, <2>3, <2>4 DEF NoDuplicates
  <2> QED BY <2>2, <2>4, <2>5, <2>6, <2>7
<1> QED BY <1>1, <1>2

(* Taking off the first n members splits the list in two.                  *)
LEMMA DropFirstItems ==
  ASSUME NEW S, NEW list \in Seq(S), NEW n \in 0 .. Len(list), NoDuplicates(list)
  PROVE  /\ DropFirst(list, n) \in Seq(S)
         /\ Items(DropFirst(list, n)) = Items(list) \ {list[i] : i \in 1 .. n}
         /\ {list[i] : i \in 1 .. n} \subseteq Items(list)
         /\ NoDuplicates(DropFirst(list, n))
<1> DEFINE new == DropFirst(list, n)
           gone == {list[i] : i \in 1 .. n}
<1>1. /\ Len(list) \in Nat /\ n \in Nat /\ Len(list) - n \in Nat
      /\ \A i \in 1 .. Len(list) : list[i] \in S
  OBVIOUS
<1>2. /\ new \in Seq(S)
      /\ Len(new) = Len(list) - n
      /\ \A j \in 1 .. Len(list) - n : new[j] = list[j + n]
  BY <1>1 DEF DropFirst
<1> HIDE DEF new
<1>3. gone \subseteq Items(list)
  BY <1>1 DEF Items
<1>4. ASSUME NEW y \in Items(new) PROVE y \in Items(list) \ gone
  BY <1>1, <1>2 DEF Items, NoDuplicates
<1>5. ASSUME NEW y \in Items(list), y \notin gone PROVE y \in Items(new)
  <2>1. PICK i \in 1 .. Len(list) : y = list[i]
    BY DEF Items
  <2>2. i > n
    BY <1>1, <1>5, <2>1
  <2>3. i - n \in 1 .. Len(new) /\ new[i - n] = y
    BY <1>1, <1>2, <2>1, <2>2
  <2> QED BY <2>3 DEF Items
<1>6. NoDuplicates(new)
  <2>1. ASSUME NEW i \in 1 .. Len(new), NEW j \in 1 .. Len(new), new[i] = new[j]
        PROVE  i = j
    <3>1. /\ i \in Int /\ j \in Int
          /\ i + n \in 1 .. Len(list) /\ j + n \in 1 .. Len(list)
          /\ list[i + n] = list[j + n]
      BY <1>1, <1>2, <2>1
    <3>2. i + n = j + n
      BY <3>1 DEF NoDuplicates
    <3> QED BY <1>1, <3>1, <3>2
  <2> QED BY <2>1 DEF NoDuplicates
<1> QED BY <1>2, <1>3, <1>4, <1>5, <1>6 DEF new
=============================================================================
