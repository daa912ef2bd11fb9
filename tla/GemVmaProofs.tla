---------------------------- MODULE GemVmaProofs ----------------------------
(***************************************************************************)
(* The mapping accounting of GemVma holds for any number of objects, any   *)
(* limits and any nesting of mappings.                                     *)
(*                                                                         *)
(* Good(v) says that the state v is well formed.  Each list operation of   *)
(* GemVma first leaves a state that is Good but may exceed the limit and   *)
(* then purges; PurgeGood shows that the purge stops inside the list,      *)
(* restores the limit and touches nothing that is mapped.                  *)
(***************************************************************************)
EXTENDS GemVma, DrmListsProofs

(* Sets of objects are finite and can be counted in parts.                 *)
LEMMA BosFinite ==
  ASSUME NEW A \in SUBSET Bos
  PROVE  IsFiniteSet(A) /\ Cardinality(A) \in Nat
BY BosAssumption, FS_Subset, FS_CardinalityType

(* Taking G, a part of D, away from A.                                     *)
LEMMA CountWithoutPart ==
  ASSUME NEW A \in SUBSET Bos, NEW D \in SUBSET Bos, NEW G \in SUBSET D
  PROVE  /\ Cardinality(A \cap D) \in Nat /\ Cardinality(A \cap G) \in Nat
         /\ Cardinality((A \ G) \cap D) \in Nat
         /\ Cardinality((A \ G) \cap D) = Cardinality(A \cap D) - Cardinality(A \cap G)
<1> DEFINE C == A \cap D
<1>1. IsFiniteSet(C)
  BY BosFinite
<1>2. C \cap G = A \cap G /\ C \ G = (A \ G) \cap D
  OBVIOUS
<1> HIDE DEF C
<1>3. /\ Cardinality(C) \in Nat
      /\ Cardinality(C \ G) \in Nat
      /\ Cardinality(C \cap G) \in Nat
      /\ Cardinality(C) = Cardinality(C \cap G) + Cardinality(C \ G)
  BY <1>1, CardinalitySplit
<1>4. Cardinality(C \ G) = Cardinality(C) - Cardinality(C \cap G)
  BY <1>3
<1> QED BY <1>2, <1>3, <1>4 DEF C

(* The types of the fields.                                                *)
LEMMA GoodSets ==
  ASSUME NEW v, v \in VmaState
  PROVE  /\ v.mem \in SUBSET Bos /\ v.gtt \in SUBSET Bos /\ v.cpu_write \in SUBSET Bos
         /\ v.map_count \in [Bos -> Nat] /\ v.link \in [Bos -> Links]
         /\ v.virtual \in [Bos -> {"null", "mem", "gtt"}]
         /\ v.cache \in Seq(Bos)
         /\ v.count \in Int /\ v.open \in Int /\ v.max \in Int
         /\ v.fault \in BOOLEAN
         /\ VmaLimit(v) \in Nat
BY DEF VmaState, VmaLimit

(* Evicting the n oldest objects keeps the state well formed and does not  *)
(* touch an object that is mapped.                                         *)
LEMMA EvictGood ==
  ASSUME NEW v, Good(v), NEW n \in 0 .. Len(v.cache)
  PROVE  LET w == Evict(v, n) IN
         /\ Good(w)
         /\ w.count = CountWithout(v, Oldest(v, n))
         /\ w.map_count = v.map_count /\ w.max = v.max /\ w.open = v.open
         /\ w.virtual = v.virtual /\ w.cpu_write = v.cpu_write
         /\ \A b \in Bos : v.map_count[b] > 0 =>
              (b \in w.mem <=> b \in v.mem) /\ (b \in w.gtt <=> b \in v.gtt)
         /\ \A b \in Bos : w.link[b] = "zero" <=> v.link[b] = "zero"
<1> DEFINE gone == Oldest(v, n)
           w == Evict(v, n)
<1>1. v \in VmaState /\ ~v.fault /\ Listed(v)
      /\ v.count = Cached(v) /\ v.open = Cardinality(Bos \ Closed(v))
  BY DEF Good
<1>2. gone = {v.cache[i] : i \in 1 .. n}
  BY DEF Oldest
<1>3. /\ DropFirst(v.cache, n) \in Seq(Bos)
      /\ Items(DropFirst(v.cache, n)) = Items(v.cache) \ gone
      /\ gone \subseteq Items(v.cache)
      /\ NoDuplicates(DropFirst(v.cache, n))
  <2>1. v.cache \in Seq(Bos) /\ NoDuplicates(v.cache)
    BY <1>1, GoodSets DEF Listed
  <2> QED BY <1>2, <2>1, DropFirstItems
<1>4. /\ gone \subseteq Bos
      /\ \A b \in gone : v.link[b] = "linked" /\ v.map_count[b] = 0
  BY <1>1, <1>3 DEF Listed, NodeOK
<1>5. CountWithout(v, gone) \in Int
  <2>1. Cardinality(v.mem \cap gone) \in Nat /\ Cardinality(v.gtt \cap gone) \in Nat
    BY <1>1, GoodSets, BosFinite
  <2> QED BY <1>1, <2>1, GoodSets DEF CountWithout
<1> HIDE DEF gone
<1>6. /\ w.cache = DropFirst(v.cache, n)
      /\ w.mem = v.mem \ gone /\ w.gtt = v.gtt \ gone
      /\ w.count = CountWithout(v, gone)
      /\ w.link = [b \in Bos |-> IF b \in gone THEN "self" ELSE v.link[b]]
      /\ w.fault = (v.fault \/ \E b \in gone : v.map_count[b] # 0)
      /\ w.map_count = v.map_count /\ w.max = v.max /\ w.open = v.open
      /\ w.virtual = v.virtual /\ w.cpu_write = v.cpu_write
  BY <1>1 DEF Evict, VmaState, gone
<1>7. w \in VmaState
  BY <1>1, <1>3, <1>5 DEF Evict, VmaState, gone, Links
<1> HIDE DEF w
<1>8. ~w.fault
  BY <1>1, <1>4, <1>6
<1>9. Listed(w)
  <2>1. NoDuplicates(w.cache)
    BY <1>3, <1>6
  <2>2. Items(w.cache) = {b \in Bos : w.link[b] = "linked"}
    BY <1>1, <1>3, <1>6 DEF Listed
  <2>3. ASSUME NEW b \in Bos PROVE NodeOK(w, b)
    BY <1>1, <1>4, <1>6 DEF Listed, NodeOK
  <2> QED BY <2>1, <2>2, <2>3 DEF Listed
<1>10. Closed(w) = Closed(v)
  BY <1>6 DEF Closed
<1>11. w.count = Cached(w)
  <2> DEFINE part(A) == Cardinality(A \cap Closed(v))
  <2>1. gone \in SUBSET Closed(v) /\ Closed(v) \in SUBSET Bos
    BY <1>4 DEF Closed
  <2>2. /\ part(v.mem) \in Nat /\ part(v.mem \ gone) = part(v.mem) - Cardinality(v.mem \cap gone)
        /\ part(v.gtt) \in Nat /\ part(v.gtt \ gone) = part(v.gtt) - Cardinality(v.gtt \cap gone)
        /\ Cardinality(v.mem \cap gone) \in Nat /\ Cardinality(v.gtt \cap gone) \in Nat
    BY ZenonT(40), <1>1, <2>1, GoodSets, CountWithoutPart
  <2>3. v.count = part(v.mem) + part(v.gtt)
    BY <1>1 DEF Cached
  <2>4. Cached(w) = part(v.mem \ gone) + part(v.gtt \ gone)
    BY <1>6, <1>10 DEF Cached
  <2> HIDE DEF part
  <2>5. w.count = v.count - Cardinality(v.mem \cap gone) - Cardinality(v.gtt \cap gone)
    BY <1>6 DEF CountWithout
  <2> QED BY <2>2, <2>3, <2>4, <2>5
<1>12. w.open = Cardinality(Bos \ Closed(w))
  BY <1>1, <1>6, <1>10
<1>13. Good(w)
  BY <1>7, <1>8, <1>9, <1>11, <1>12 DEF Good
<1>14. \A b \in Bos : v.map_count[b] > 0 =>
         (b \in w.mem <=> b \in v.mem) /\ (b \in w.gtt <=> b \in v.gtt)
  <2>1. ASSUME NEW b \in Bos, v.map_count[b] > 0 PROVE b \notin gone
    BY <1>4, <2>1
  <2> QED BY <1>6, <2>1
<1>15. \A b \in Bos : w.link[b] = "zero" <=> v.link[b] = "zero"
  BY <1>4, <1>6
<1> QED BY <1>6, <1>13, <1>14, <1>15 DEF w, gone

(* What the rest of an operation may rely on after open_vma, close_vma or  *)
(* purge_vma_cache: w is v with some objects that nobody has mapped        *)
(* evicted.                                                                *)
Purged(v, w) ==
  /\ Good(w) /\ Bounded(w)
  /\ w.map_count = v.map_count /\ w.max = v.max /\ w.open = v.open
  /\ w.virtual = v.virtual /\ w.cpu_write = v.cpu_write
  /\ \A b \in Bos : v.map_count[b] > 0 =>
       (b \in w.mem <=> b \in v.mem) /\ (b \in w.gtt <=> b \in v.gtt)
  /\ \A b \in Bos : w.link[b] = "zero" <=> v.link[b] = "zero"

(* Evicting every cached object brings vma_count to 0, so the loop of      *)
(* purge_vma_cache stops before the list runs out.                         *)
LEMMA PurgeEnds ==
  ASSUME NEW v, Good(v)
  PROVE  Len(v.cache) \in EnoughEvicted(v)
<1> DEFINE all == Oldest(v, Len(v.cache))
<1>1. /\ v \in VmaState /\ Listed(v) /\ v.count = Cached(v)
      /\ v.mem \in SUBSET Bos /\ v.gtt \in SUBSET Bos
      /\ v.link \in [Bos -> Links] /\ v.map_count \in [Bos -> Nat]
      /\ v.cache \in Seq(Bos) /\ VmaLimit(v) \in Nat
  BY GoodSets DEF Good
<1>2. all = {b \in Bos : v.link[b] = "linked"}
  BY <1>1 DEF Oldest, Listed, Items
<1>3. v.mem \cap Closed(v) = v.mem \cap all /\ v.gtt \cap Closed(v) = v.gtt \cap all
  BY <1>1, <1>2 DEF Closed, Listed, NodeOK
<1>4. Cardinality(v.mem \cap all) \in Nat /\ Cardinality(v.gtt \cap all) \in Nat
  BY <1>1, BosFinite
<1> HIDE DEF all
<1>5. v.count = Cardinality(v.mem \cap all) + Cardinality(v.gtt \cap all)
  BY <1>1, <1>3 DEF Cached
<1>6. CountWithout(v, all) = 0
  BY <1>4, <1>5 DEF CountWithout
<1>7. Len(v.cache) \in 0 .. Len(v.cache)
  BY <1>1
<1> QED BY <1>1, <1>6, <1>7 DEF EnoughEvicted, all

(* purge_vma_cache restores the limit and touches nothing that is mapped.  *)
LEMMA PurgeGood ==
  ASSUME NEW v, Good(v)
  PROVE  Purged(v, PurgeVmaCache(v))
<1> DEFINE enough == EnoughEvicted(v)
           n == CHOOSE k \in enough : \A m \in enough : k <= m
<1>1. v \in VmaState /\ v.max \in Int
  BY GoodSets DEF Good
<1>2. CASE v.max < 0
  <2>1. PurgeVmaCache(v) = v
    BY <1>1, <1>2 DEF PurgeVmaCache
  <2>2. Bounded(v)
    BY <1>1, <1>2 DEF Bounded
  <2> QED BY <2>1, <2>2 DEF Purged
<1>3. CASE v.max >= 0
  <2>1. enough # {}
    BY PurgeEnds
  <2>2. enough \in SUBSET Nat
    BY DEF EnoughEvicted
  <2>3. n \in enough
    <3>1. \E k \in enough : \A m \in enough : k <= m
      BY <2>1, <2>2, LeastNatural
    <3> QED BY <3>1
  <2>4. PurgeVmaCache(v) = Evict(v, n)
    BY <1>1, <1>3, <2>1 DEF PurgeVmaCache
  <2> HIDE DEF n
  <2>5. n \in 0 .. Len(v.cache) /\ CountWithout(v, Oldest(v, n)) <= VmaLimit(v)
    BY <2>3 DEF EnoughEvicted
  <2> DEFINE w == Evict(v, n)
  <2>6. /\ Good(w)
        /\ w.count = CountWithout(v, Oldest(v, n))
        /\ w.map_count = v.map_count /\ w.max = v.max /\ w.open = v.open
        /\ w.virtual = v.virtual /\ w.cpu_write = v.cpu_write
        /\ \A b \in Bos : v.map_count[b] > 0 =>
             (b \in w.mem <=> b \in v.mem) /\ (b \in w.gtt <=> b \in v.gtt)
        /\ \A b \in Bos : w.link[b] = "zero" <=> v.link[b] = "zero"
    BY <2>5, EvictGood
  <2> HIDE DEF w
  <2>7. Bounded(w)
    BY <2>5, <2>6 DEF Bounded, VmaLimit
  <2>8. Purged(v, w)
    BY <2>6, <2>7 DEF Purged
  <2> QED BY <2>4, <2>8 DEF w
<1> QED BY <1>1, <1>2, <1>3

Has(A, b) == IF b \in A THEN 1 ELSE 0

(* Counting the mappings of A in use by nobody, before and after b joins   *)
(* or leaves the closed objects D.                                         *)
LEMMA CountOne ==
  ASSUME NEW A \in SUBSET Bos, NEW D \in SUBSET Bos, NEW b \in Bos
  PROVE  /\ Cardinality(A \cap D) \in Nat
         /\ b \in D => Cardinality(A \cap (D \ {b})) = Cardinality(A \cap D) - Has(A, b)
         /\ b \notin D => Cardinality(A \cap (D \cup {b})) = Cardinality(A \cap D) + Has(A, b)
<1> DEFINE C == A \cap D
<1>1. IsFiniteSet(C) /\ Cardinality(C) \in Nat
  BY BosFinite
<1>2. A \cap (D \ {b}) = C \ {b}
  OBVIOUS
<1>3. A \cap (D \cup {b}) = IF b \in A THEN C \cup {b} ELSE C
  OBVIOUS
<1>4. b \in D => (b \in C <=> b \in A)
  OBVIOUS
<1>5. b \notin D => b \notin C
  OBVIOUS
<1> HIDE DEF C
<1>6. Cardinality(C \ {b}) = IF b \in C THEN Cardinality(C) - 1 ELSE Cardinality(C)
  BY <1>1, FS_RemoveElement
<1>7. Cardinality(C \cup {b}) = IF b \in C THEN Cardinality(C) ELSE Cardinality(C) + 1
  BY <1>1, FS_AddElement
<1>8. b \in D => Cardinality(C \ {b}) = Cardinality(C) - Has(A, b)
  BY <1>1, <1>4, <1>6 DEF Has
<1>9. b \notin D => Cardinality(IF b \in A THEN C \cup {b} ELSE C) = Cardinality(C) + Has(A, b)
  BY <1>1, <1>5, <1>7 DEF Has
<1> QED BY <1>1, <1>2, <1>3, <1>8, <1>9 DEF C

(* The same for the objects in use.                                        *)
LEMMA OpenOne ==
  ASSUME NEW D \in SUBSET Bos, NEW b \in Bos
  PROVE  /\ Cardinality(Bos \ D) \in Nat
         /\ b \in D => Cardinality(Bos \ (D \ {b})) = Cardinality(Bos \ D) + 1
         /\ b \notin D => Cardinality(Bos \ (D \cup {b})) = Cardinality(Bos \ D) - 1
<1> DEFINE C == Bos \ D
<1>1. IsFiniteSet(C) /\ Cardinality(C) \in Nat
  BY BosFinite
<1>2. b \in D => Bos \ (D \ {b}) = C \cup {b} /\ b \notin C
  OBVIOUS
<1>3. b \notin D => Bos \ (D \cup {b}) = C \ {b} /\ b \in C
  OBVIOUS
<1> HIDE DEF C
<1>4. b \notin C => Cardinality(C \cup {b}) = Cardinality(C) + 1
  BY <1>1, FS_AddElement
<1>5. b \in C => Cardinality(C \ {b}) = Cardinality(C) - 1
  BY <1>1, FS_RemoveElement
<1> QED BY <1>1, <1>2, <1>3, <1>4, <1>5 DEF C

(* Giving map_count[b] another value changes no other field.               *)
LEMMA SetMapCount ==
  ASSUME NEW v, v \in VmaState, NEW b \in Bos, NEW k \in Nat
  PROVE  LET u == [v EXCEPT !.map_count[b] = k] IN
         /\ u \in VmaState
         /\ u.map_count = [v.map_count EXCEPT ![b] = k]
         /\ u.mem = v.mem /\ u.gtt = v.gtt /\ u.virtual = v.virtual /\ u.cpu_write = v.cpu_write
         /\ u.link = v.link /\ u.cache = v.cache /\ u.count = v.count /\ u.open = v.open
         /\ u.max = v.max /\ u.fault = v.fault
<1> DEFINE f == [v.map_count EXCEPT ![b] = k]
           u == [v EXCEPT !.map_count[b] = k]
<1>1. f \in [Bos -> Nat]
  BY GoodSets
<1>2. u = [v EXCEPT !.map_count = f]
  BY DEF VmaState
<1> HIDE DEF f, u
<1>3. u \in VmaState
  BY <1>1, <1>2 DEF VmaState
<1>4. /\ u.map_count = f
      /\ u.mem = v.mem /\ u.gtt = v.gtt /\ u.virtual = v.virtual /\ u.cpu_write = v.cpu_write
      /\ u.link = v.link /\ u.cache = v.cache /\ u.count = v.count /\ u.open = v.open
      /\ u.max = v.max /\ u.fault = v.fault
  BY <1>2 DEF VmaState
<1> QED BY <1>3, <1>4 DEF f, u

(* What an operation on b leaves of the others: the virtual addresses, and *)
(* the mappings of every object in keep.                                   *)
Spares(v, w, keep) ==
  /\ w.virtual = v.virtual /\ w.max = v.max
  /\ \A c \in keep : (c \in w.mem <=> c \in v.mem) /\ (c \in w.gtt <=> c \in v.gtt)
  /\ \A c \in Bos : w.link[c] = "zero" <=> v.link[c] = "zero"

(* No object appears or goes, and only b is mapped or unmapped.            *)
OnlyMaps(v, w, b) ==
  /\ \A c \in Bos : w.link[c] = "zero" <=> v.link[c] = "zero"
  /\ \A c \in Bos \ {b} : w.map_count[c] = v.map_count[c]

(* map_count++ with open_vma.                                              *)
LEMMA GetMapGood ==
  ASSUME NEW v, Good(v), Bounded(v), NEW b \in Bos, v.link[b] # "zero"
  PROVE  LET w == GetMap(v, b) IN
         /\ Good(w) /\ Bounded(w)
         /\ w.map_count = [v.map_count EXCEPT ![b] = @ + 1]
         /\ Spares(v, w, Bos \ Closed(v))
<1> DEFINE u == [v EXCEPT !.map_count[b] = @ + 1]
<1>1. /\ v \in VmaState /\ ~v.fault /\ Listed(v) /\ v.count = Cached(v)
      /\ v.open = Cardinality(Bos \ Closed(v))
      /\ v.mem \in SUBSET Bos /\ v.gtt \in SUBSET Bos
      /\ v.map_count \in [Bos -> Nat] /\ v.link \in [Bos -> Links]
      /\ v.cache \in Seq(Bos) /\ v.count \in Int /\ v.open \in Int
  BY GoodSets DEF Good
<1>2. /\ u \in VmaState
      /\ u.map_count \in [Bos -> Nat]
      /\ u.map_count = [v.map_count EXCEPT ![b] = @ + 1]
      /\ u.mem = v.mem /\ u.gtt = v.gtt /\ u.virtual = v.virtual /\ u.cpu_write = v.cpu_write
      /\ u.link = v.link /\ u.cache = v.cache /\ u.count = v.count /\ u.open = v.open
      /\ u.max = v.max /\ u.fault = v.fault
  <2> DEFINE k == v.map_count[b] + 1
  <2>1. k \in Nat
    BY <1>1
  <2> HIDE DEF k
  <2>2. LET y == [v EXCEPT !.map_count[b] = k] IN
        /\ y \in VmaState
        /\ y.map_count = [v.map_count EXCEPT ![b] = k]
        /\ y.mem = v.mem /\ y.gtt = v.gtt /\ y.virtual = v.virtual /\ y.cpu_write = v.cpu_write
        /\ y.link = v.link /\ y.cache = v.cache /\ y.count = v.count /\ y.open = v.open
        /\ y.max = v.max /\ y.fault = v.fault
    BY <1>1, <2>1, SetMapCount
  <2>3. u = [v EXCEPT !.map_count[b] = k] /\ k = v.map_count[b] + 1
    BY DEF k
  <2> HIDE DEF u
  <2> QED BY <1>1, <2>1, <2>2, <2>3
<1>3. CASE v.map_count[b] # 0
  <2>1. GetMap(v, b) = u
    BY <1>3 DEF GetMap
  <2> HIDE DEF u
  <2>2. Closed(u) = Closed(v)
    BY <1>1, <1>2, <1>3 DEF Closed
  <2>3. Listed(u)
    BY <1>1, <1>2, <1>3 DEF Listed, NodeOK
  <2>4. Good(u)
    BY <1>1, <1>2, <2>2, <2>3 DEF Good, Cached
  <2>5. Bounded(u)
    BY <1>2 DEF Bounded, VmaLimit
  <2>6. Spares(v, u, Bos \ Closed(v))
    BY <1>2 DEF Spares
  <2> QED BY <1>2, <2>1, <2>4, <2>5, <2>6
<1>4. CASE v.map_count[b] = 0
  <2> DEFINE x == [u EXCEPT !.open    = @ + 1,
                            !.cache   = RemoveItem(@, b),
                            !.link[b] = AfterDel(@),
                            !.fault   = @ \/ DelFaults(u.link[b]),
                            !.count   = @ - Mappings(u, b)]
  <2>1. GetMap(v, b) = PurgeVmaCache(x)
    BY <1>4 DEF GetMap, OpenVma
  <2>2. /\ RemoveItem(v.cache, b) \in Seq(Bos)
        /\ Items(RemoveItem(v.cache, b)) = Items(v.cache) \ {b}
        /\ NoDuplicates(RemoveItem(v.cache, b))
    BY <1>1, RemoveItemItems DEF Listed
  <2>3. v.link[b] \in {"self", "linked"}
    BY <1>1, <1>4 DEF Listed, NodeOK, Links
  <2>4. Mappings(u, b) = Mappings(v, b) /\ Mappings(v, b) \in Int
    BY <1>2 DEF Mappings
  <2> HIDE DEF u
  <2>5. /\ x.map_count = [v.map_count EXCEPT ![b] = @ + 1]
        /\ x.mem = v.mem /\ x.gtt = v.gtt /\ x.virtual = v.virtual /\ x.cpu_write = v.cpu_write
        /\ x.link = [v.link EXCEPT ![b] = AfterDel(v.link[b])]
        /\ x.cache = RemoveItem(v.cache, b)
        /\ x.count = v.count - Mappings(v, b)
        /\ x.open = v.open + 1 /\ x.max = v.max
        /\ x.fault = (v.fault \/ DelFaults(v.link[b]))
    BY <1>1, <1>2, <2>4 DEF VmaState
  <2>6. x \in VmaState
    <3> DEFINE lk == [v.link EXCEPT ![b] = AfterDel(v.link[b])]
               rc == RemoveItem(v.cache, b)
               ft == v.fault \/ DelFaults(v.link[b])
               ct == v.count - Mappings(v, b)
               op == v.open + 1
    <3>1. lk \in [Bos -> Links] /\ rc \in Seq(Bos) /\ ft \in BOOLEAN /\ ct \in Int /\ op \in Int
      BY <1>1, <2>2, <2>3, <2>4 DEF AfterDel, Links
    <3>2. x = [u EXCEPT !.open = op, !.cache = rc, !.link = lk, !.fault = ft, !.count = ct]
      BY <1>1, <1>2, <2>4 DEF VmaState
    <3> HIDE DEF lk, rc, ft, ct, op, x
    <3> QED BY <1>2, <3>1, <3>2 DEF VmaState
  <2> HIDE DEF x
  <2>7. ~x.fault
    BY <1>1, <2>3, <2>5 DEF DelFaults
  <2>8. /\ Closed(x) = Closed(v) \ {b}
        /\ b \in Closed(v) /\ Closed(v) \in SUBSET Bos
    BY <1>1, <1>4, <2>5 DEF Closed
  <2>9. Listed(x)
    <3>1. x.link[b] \in {"self", "stale"}
      BY <1>1, <2>3, <2>5 DEF AfterDel
    <3>2. Items(x.cache) = {c \in Bos : x.link[c] = "linked"}
      BY <1>1, <2>2, <2>5, <3>1 DEF Listed
    <3>3. ASSUME NEW c \in Bos PROVE NodeOK(x, c)
      BY <1>1, <1>4, <2>5, <3>1 DEF Listed, NodeOK
    <3> QED BY <2>2, <2>5, <3>2, <3>3 DEF Listed
  <2>10. x.count = Cached(x)
    <3> DEFINE D == Closed(v)
    <3>1. /\ Cardinality(v.mem \cap (D \ {b})) = Cardinality(v.mem \cap D) - Has(v.mem, b)
          /\ Cardinality(v.gtt \cap (D \ {b})) = Cardinality(v.gtt \cap D) - Has(v.gtt, b)
          /\ Cardinality(v.mem \cap D) \in Nat /\ Cardinality(v.gtt \cap D) \in Nat
      BY ZenonT(40), <1>1, <2>8, CountOne
    <3>2. Cached(x) = Cardinality(v.mem \cap (D \ {b})) + Cardinality(v.gtt \cap (D \ {b}))
      BY <2>5, <2>8 DEF Cached
    <3>3. v.count = Cardinality(v.mem \cap D) + Cardinality(v.gtt \cap D)
      BY <1>1 DEF Cached
    <3>4. /\ Mappings(v, b) = Has(v.mem, b) + Has(v.gtt, b)
          /\ Has(v.mem, b) \in Int /\ Has(v.gtt, b) \in Int
      BY DEF Mappings, Has
    <3> HIDE DEF D
    <3> QED BY <2>5, <3>1, <3>2, <3>3, <3>4
  <2>11. x.open = Cardinality(Bos \ Closed(x))
    <3>1. Cardinality(Bos \ (Closed(v) \ {b})) = Cardinality(Bos \ Closed(v)) + 1
      BY <2>8, OpenOne
    <3> QED BY <1>1, <2>5, <2>8, <3>1
  <2>12. Good(x)
    BY <2>6, <2>7, <2>9, <2>10, <2>11 DEF Good
  <2> DEFINE w == PurgeVmaCache(x)
  <2>13. Purged(x, w)
    BY <2>12, PurgeGood
  <2> HIDE DEF w
  <2>14. Spares(v, w, Bos \ Closed(v))
    <3>1. \A c \in Bos : x.link[c] = "zero" <=> v.link[c] = "zero"
      BY <1>1, <2>3, <2>5 DEF AfterDel
    <3>2. \A c \in Bos \ Closed(v) : x.map_count[c] > 0
      BY <1>1, <1>4, <2>5 DEF Closed
    <3> QED BY <2>5, <2>13, <3>1, <3>2 DEF Purged, Spares
  <2> QED BY <2>1, <2>5, <2>13, <2>14 DEF Purged, w
<1> QED BY <1>1, <1>3, <1>4

(* map_count falling to 0 with close_vma.                                  *)
LEMMA CloseGood ==
  ASSUME NEW v, Good(v), NEW b \in Bos, v.map_count[b] > 0
  PROVE  LET w == CloseVma([v EXCEPT !.map_count[b] = 0], b) IN
         /\ Good(w) /\ Bounded(w)
         /\ w.map_count = [v.map_count EXCEPT ![b] = 0]
         /\ Spares(v, w, (Bos \ Closed(v)) \ {b})
<1> DEFINE u == [v EXCEPT !.map_count[b] = 0]
           x == [u EXCEPT !.open    = @ - 1,
                          !.cache   = Append(@, b),
                          !.link[b] = "linked",
                          !.count   = @ + Mappings(u, b)]
<1>1. /\ v \in VmaState /\ ~v.fault /\ Listed(v) /\ v.count = Cached(v)
      /\ v.open = Cardinality(Bos \ Closed(v))
      /\ v.mem \in SUBSET Bos /\ v.gtt \in SUBSET Bos
      /\ v.map_count \in [Bos -> Nat] /\ v.link \in [Bos -> Links]
      /\ v.cache \in Seq(Bos) /\ v.count \in Int /\ v.open \in Int
  BY GoodSets DEF Good
<1>2. /\ u \in VmaState
      /\ u.map_count = [v.map_count EXCEPT ![b] = 0]
      /\ u.mem = v.mem /\ u.gtt = v.gtt /\ u.virtual = v.virtual /\ u.cpu_write = v.cpu_write
      /\ u.link = v.link /\ u.cache = v.cache /\ u.count = v.count /\ u.open = v.open
      /\ u.max = v.max /\ u.fault = v.fault
  <2> DEFINE k == 0
  <2>1. k \in Nat
    OBVIOUS
  <2>2. u = [v EXCEPT !.map_count[b] = k] /\ k = 0
    OBVIOUS
  <2> HIDE DEF k
  <2>3. LET y == [v EXCEPT !.map_count[b] = k] IN
        /\ y \in VmaState
        /\ y.map_count = [v.map_count EXCEPT ![b] = k]
        /\ y.mem = v.mem /\ y.gtt = v.gtt /\ y.virtual = v.virtual /\ y.cpu_write = v.cpu_write
        /\ y.link = v.link /\ y.cache = v.cache /\ y.count = v.count /\ y.open = v.open
        /\ y.max = v.max /\ y.fault = v.fault
    BY <1>1, <2>1, SetMapCount
  <2> HIDE DEF u
  <2> QED BY <2>2, <2>3
<1>3. v.link[b] \in {"self", "stale"} /\ b \notin Items(v.cache)
  BY <1>1 DEF Listed, NodeOK, Links
<1>4. /\ Append(v.cache, b) \in Seq(Bos)
      /\ Items(Append(v.cache, b)) = Items(v.cache) \cup {b}
      /\ NoDuplicates(Append(v.cache, b))
  <2>1. NoDuplicates(v.cache) /\ v.cache \in Seq(Bos)
    BY <1>1 DEF Listed
  <2> QED BY <1>3, <2>1, AppendItems
<1>5. Mappings(u, b) = Mappings(v, b) /\ Mappings(v, b) \in Int
  BY <1>2 DEF Mappings
<1>6. CloseVma(u, b) = PurgeVmaCache(x)
  BY DEF CloseVma
<1> HIDE DEF u
<1>7. /\ x.map_count = [v.map_count EXCEPT ![b] = 0]
      /\ x.mem = v.mem /\ x.gtt = v.gtt /\ x.virtual = v.virtual /\ x.cpu_write = v.cpu_write
      /\ x.link = [v.link EXCEPT ![b] = "linked"]
      /\ x.cache = Append(v.cache, b)
      /\ x.count = v.count + Mappings(v, b)
      /\ x.open = v.open - 1 /\ x.max = v.max
      /\ x.fault = v.fault
  BY <1>1, <1>2, <1>5 DEF VmaState
<1>8. x \in VmaState
  <2> DEFINE lk == [v.link EXCEPT ![b] = "linked"]
             ap == Append(v.cache, b)
             ct == v.count + Mappings(v, b)
             op == v.open - 1
  <2>1. lk \in [Bos -> Links] /\ ap \in Seq(Bos) /\ ct \in Int /\ op \in Int
    BY <1>1, <1>4, <1>5 DEF Links
  <2>2. x = [u EXCEPT !.open = op, !.cache = ap, !.link = lk, !.count = ct]
    BY <1>1, <1>2, <1>5 DEF VmaState
  <2> HIDE DEF lk, ap, ct, op, x
  <2> QED BY <1>2, <2>1, <2>2 DEF VmaState
<1> HIDE DEF x
<1>9. /\ Closed(x) = Closed(v) \cup {b}
      /\ b \notin Closed(v) /\ Closed(v) \in SUBSET Bos
  BY <1>1, <1>7 DEF Closed
<1>10. Listed(x)
  <2>1. x.link[b] = "linked" /\ x.map_count[b] = 0
    BY <1>1, <1>7
  <2>2. Items(x.cache) = {c \in Bos : x.link[c] = "linked"}
    BY <1>1, <1>4, <1>7, <2>1 DEF Listed
  <2>3. ASSUME NEW c \in Bos PROVE NodeOK(x, c)
    BY <1>1, <1>7, <2>1 DEF Listed, NodeOK
  <2> QED BY <1>4, <1>7, <2>2, <2>3 DEF Listed
<1>11. x.count = Cached(x)
  <2> DEFINE D == Closed(v)
  <2>1. /\ Cardinality(v.mem \cap (D \cup {b})) = Cardinality(v.mem \cap D) + Has(v.mem, b)
        /\ Cardinality(v.gtt \cap (D \cup {b})) = Cardinality(v.gtt \cap D) + Has(v.gtt, b)
        /\ Cardinality(v.mem \cap D) \in Nat /\ Cardinality(v.gtt \cap D) \in Nat
    BY ZenonT(40), <1>1, <1>9, CountOne
  <2>2. Cached(x) = Cardinality(v.mem \cap (D \cup {b})) + Cardinality(v.gtt \cap (D \cup {b}))
    BY <1>7, <1>9 DEF Cached
  <2>3. v.count = Cardinality(v.mem \cap D) + Cardinality(v.gtt \cap D)
    BY <1>1 DEF Cached
  <2>4. /\ Mappings(v, b) = Has(v.mem, b) + Has(v.gtt, b)
        /\ Has(v.mem, b) \in Int /\ Has(v.gtt, b) \in Int
    BY DEF Mappings, Has
  <2> HIDE DEF D
  <2> QED BY <1>7, <2>1, <2>2, <2>3, <2>4
<1>12. x.open = Cardinality(Bos \ Closed(x))
  <2>1. Cardinality(Bos \ (Closed(v) \cup {b})) = Cardinality(Bos \ Closed(v)) - 1
    BY <1>9, OpenOne
  <2> QED BY <1>1, <1>7, <1>9, <2>1
<1>13. Good(x)
  BY <1>1, <1>7, <1>8, <1>10, <1>11, <1>12 DEF Good
<1> DEFINE w == PurgeVmaCache(x)
<1>14. Purged(x, w)
  BY <1>13, PurgeGood
<1> HIDE DEF w
<1>15. Spares(v, w, (Bos \ Closed(v)) \ {b})
  <2>1. \A c \in Bos : x.link[c] = "zero" <=> v.link[c] = "zero"
    BY <1>1, <1>3, <1>7
  <2>2. \A c \in (Bos \ Closed(v)) \ {b} : x.map_count[c] > 0
    BY <1>1, <1>7 DEF Closed
  <2> QED BY <1>7, <1>14, <2>1, <2>2 DEF Purged, Spares
<1> QED BY <1>6, <1>7, <1>14, <1>15 DEF Purged, w, u

(* --map_count with close_vma.                                             *)
LEMMA PutMapGood ==
  ASSUME NEW v, Good(v), Bounded(v), NEW b \in Bos, v.map_count[b] > 0
  PROVE  LET w == PutMap(v, b) IN
         /\ Good(w) /\ Bounded(w)
         /\ w.map_count = [v.map_count EXCEPT ![b] = @ - 1]
         /\ Spares(v, w, {c \in Bos : w.map_count[c] > 0})
<1>1. /\ v \in VmaState /\ Listed(v) /\ v.count = Cached(v)
      /\ v.open = Cardinality(Bos \ Closed(v)) /\ ~v.fault
      /\ v.map_count \in [Bos -> Nat]
  BY GoodSets DEF Good
<1>2. CASE v.map_count[b] = 1
  <2> DEFINE w == CloseVma([v EXCEPT !.map_count[b] = 0], b)
  <2>1. PutMap(v, b) = w
    BY <1>2 DEF PutMap
  <2>2. /\ Good(w) /\ Bounded(w)
        /\ w.map_count = [v.map_count EXCEPT ![b] = 0]
        /\ Spares(v, w, (Bos \ Closed(v)) \ {b})
    BY CloseGood
  <2> HIDE DEF w
  <2>3. {c \in Bos : w.map_count[c] > 0} = (Bos \ Closed(v)) \ {b}
    BY <1>1, <2>2 DEF Closed
  <2> QED BY <1>1, <1>2, <2>1, <2>2, <2>3
<1>3. CASE v.map_count[b] # 1
  <2> DEFINE k == v.map_count[b] - 1
             w == [v EXCEPT !.map_count[b] = k]
  <2>1. PutMap(v, b) = w
    BY <1>3 DEF PutMap
  <2>2. k \in Nat /\ k > 0
    BY <1>1, <1>3
  <2>3. /\ w \in VmaState
        /\ w.map_count = [v.map_count EXCEPT ![b] = k]
        /\ w.mem = v.mem /\ w.gtt = v.gtt /\ w.virtual = v.virtual /\ w.cpu_write = v.cpu_write
        /\ w.link = v.link /\ w.cache = v.cache /\ w.count = v.count /\ w.open = v.open
        /\ w.max = v.max /\ w.fault = v.fault
    <3> HIDE DEF k
    <3> QED BY <1>1, <2>2, SetMapCount
  <2> HIDE DEF w
  <2>4. Closed(w) = Closed(v)
    BY <1>1, <2>2, <2>3 DEF Closed
  <2>5. Listed(w)
    BY <1>1, <2>2, <2>3 DEF Listed, NodeOK
  <2>6. Good(w)
    BY <1>1, <2>3, <2>4, <2>5 DEF Good, Cached
  <2>7. Bounded(w)
    BY <2>3 DEF Bounded, VmaLimit
  <2>8. Spares(v, w, {c \in Bos : w.map_count[c] > 0})
    BY <2>3 DEF Spares
  <2> QED BY <2>1, <2>3, <2>6, <2>7, <2>8
<1> QED BY <1>2, <1>3

(* Fields that the accounting does not depend on, and mappings added to an *)
(* object that is mapped.                                                  *)
LEMMA AddMappingGood ==
  ASSUME NEW v, Good(v), Bounded(v), NEW b \in Bos, v.map_count[b] > 0,
         NEW w, w \in VmaState,
         w.map_count = v.map_count, w.link = v.link, w.cache = v.cache,
         w.count = v.count, w.open = v.open, w.max = v.max, w.fault = v.fault,
         w.mem \in {v.mem, v.mem \cup {b}}, w.gtt \in {v.gtt, v.gtt \cup {b}}
  PROVE  Good(w) /\ Bounded(w)
<1>1. /\ v \in VmaState /\ Listed(v) /\ v.count = Cached(v)
      /\ v.open = Cardinality(Bos \ Closed(v)) /\ ~v.fault
  BY DEF Good
<1>2. Closed(w) = Closed(v) /\ b \notin Closed(v)
  BY DEF Closed
<1>3. w.mem \cap Closed(w) = v.mem \cap Closed(v) /\ w.gtt \cap Closed(w) = v.gtt \cap Closed(v)
  BY <1>2
<1>4. Listed(w)
  <2>1. ASSUME NEW c \in Bos PROVE NodeOK(w, c)
    BY <1>1 DEF Listed, NodeOK
  <2> QED BY <1>1, <2>1 DEF Listed
<1>5. w.count = Cached(w) /\ w.open = Cardinality(Bos \ Closed(w))
  BY <1>1, <1>2, <1>3 DEF Cached
<1>6. Bounded(w)
  BY DEF Bounded, VmaLimit
<1> QED BY <1>1, <1>4, <1>5, <1>6 DEF Good

(* A failed mapping undoes its map_count++ and leaves what was mapped.     *)
LEMMA MapFails ==
  ASSUME NEW v, Good(v), Bounded(v), VirtualMapped(v), NEW b \in Bos, v.link[b] # "zero"
  PROVE  LET w == PutMap(GetMap(v, b), b) IN
         Good(w) /\ Bounded(w) /\ VirtualMapped(w) /\ OnlyMaps(v, w, b)
<1> DEFINE u == GetMap(v, b)
           w == PutMap(u, b)
<1>1. v.map_count \in [Bos -> Nat]
  BY GoodSets DEF Good
<1>2. /\ Good(u) /\ Bounded(u)
      /\ u.map_count = [v.map_count EXCEPT ![b] = @ + 1]
      /\ Spares(v, u, Bos \ Closed(v))
  BY GetMapGood
<1> HIDE DEF u
<1>3. u.map_count[b] > 0
  BY <1>1, <1>2
<1>4. /\ Good(w) /\ Bounded(w)
      /\ w.map_count = [u.map_count EXCEPT ![b] = @ - 1]
      /\ Spares(u, w, {c \in Bos : w.map_count[c] > 0})
  BY <1>2, <1>3, PutMapGood
<1> HIDE DEF w
<1>5. w.map_count = v.map_count
  BY <1>1, <1>2, <1>4
<1>6. VirtualMapped(w)
  BY <1>1, <1>2, <1>4, <1>5 DEF Spares, Closed, VirtualMapped
<1>7. OnlyMaps(v, w, b)
  BY <1>2, <1>4, <1>5 DEF Spares, OnlyMaps
<1> QED BY <1>4, <1>6, <1>7 DEF w, u

(* Mapping for the CPU, whether or not the kernel agrees.                  *)
LEMMA MapCpuGood ==
  ASSUME NEW v, Good(v), Bounded(v), VirtualMapped(v), NEW b \in Bos, v.link[b] # "zero",
         NEW write \in BOOLEAN, NEW ok \in BOOLEAN
  PROVE  LET w == MapCpu(v, b, write, ok) IN
         Good(w) /\ Bounded(w) /\ VirtualMapped(w) /\ OnlyMaps(v, w, b)
<1> DEFINE u == GetMap(v, b)
           vt == [u.virtual EXCEPT ![b] = "mem"]
           cw == IF write THEN u.cpu_write \cup {b} ELSE u.cpu_write
           mm == u.mem \cup {b}
           w == [u EXCEPT !.mem = mm, !.virtual[b] = "mem", !.cpu_write = cw]
<1>1. v.map_count \in [Bos -> Nat]
  BY GoodSets DEF Good
<1>2. /\ Good(u) /\ Bounded(u)
      /\ u.map_count = [v.map_count EXCEPT ![b] = @ + 1]
      /\ Spares(v, u, Bos \ Closed(v))
  BY GetMapGood
<1>3. CASE b \notin u.mem /\ ~ok
  <2>1. MapCpu(v, b, write, ok) = PutMap(u, b)
    BY <1>3 DEF MapCpu
  <2> QED BY <2>1, MapFails
<1>4. CASE ~(b \notin u.mem /\ ~ok)
  <2>1. MapCpu(v, b, write, ok) = w
    BY <1>4 DEF MapCpu
  <2> HIDE DEF u
  <2>2. /\ u \in VmaState /\ u.map_count \in [Bos -> Nat] /\ u.mem \in SUBSET Bos
        /\ u.virtual \in [Bos -> {"null", "mem", "gtt"}] /\ u.cpu_write \in SUBSET Bos
    BY <1>2, GoodSets DEF Good
  <2>3. /\ vt \in [Bos -> {"null", "mem", "gtt"}] /\ cw \in SUBSET Bos
        /\ mm \in SUBSET Bos
    BY <2>2
  <2>4. w = [u EXCEPT !.mem = mm, !.virtual = vt, !.cpu_write = cw]
    BY <2>2 DEF VmaState
  <2>5. vt = [u.virtual EXCEPT ![b] = "mem"] /\ mm = u.mem \cup {b}
    OBVIOUS
  <2> HIDE DEF w, vt, cw, mm
  <2>6. w \in VmaState
    BY <2>2, <2>3, <2>4 DEF VmaState
  <2>7. /\ w.map_count = u.map_count /\ w.link = u.link /\ w.cache = u.cache
        /\ w.count = u.count /\ w.open = u.open /\ w.max = u.max /\ w.fault = u.fault
        /\ w.mem = u.mem \cup {b} /\ w.gtt = u.gtt
        /\ w.virtual = [u.virtual EXCEPT ![b] = "mem"]
    BY <2>2, <2>4, <2>5 DEF VmaState
  <2>8. u.map_count[b] > 0
    BY <1>1, <1>2
  <2>9. Good(w) /\ Bounded(w)
    BY <1>2, <2>6, <2>7, <2>8, AddMappingGood
  <2>10. VirtualMapped(w)
    <3>1. ASSUME NEW c \in Bos, c # b, w.map_count[c] > 0
          PROVE  \/ w.virtual[c] = "mem" /\ c \in w.mem
                 \/ w.virtual[c] = "gtt" /\ c \in w.gtt
      <4>1. v.map_count[c] > 0
        BY <1>1, <1>2, <2>7, <3>1
      <4>2. /\ w.virtual[c] = v.virtual[c]
            /\ (c \in w.mem <=> c \in v.mem) /\ (c \in w.gtt <=> c \in v.gtt)
        BY <1>1, <1>2, <2>2, <2>7, <3>1, <4>1 DEF Spares, Closed
      <4> QED BY <4>1, <4>2 DEF VirtualMapped
    <3>2. w.virtual[b] = "mem" /\ b \in w.mem
      BY <2>2, <2>7
    <3> QED BY <3>1, <3>2 DEF VirtualMapped
  <2>11. OnlyMaps(v, w, b)
    BY <1>1, <1>2, <2>7 DEF Spares, OnlyMaps
  <2> QED BY <2>1, <2>9, <2>10, <2>11
<1> QED BY <1>3, <1>4

(* The same through the GTT.                                               *)
LEMMA MapGttGood ==
  ASSUME NEW v, Good(v), Bounded(v), VirtualMapped(v), NEW b \in Bos, v.link[b] # "zero",
         NEW ok \in BOOLEAN
  PROVE  LET w == MapGtt(v, b, ok) IN
         Good(w) /\ Bounded(w) /\ VirtualMapped(w) /\ OnlyMaps(v, w, b)
<1> DEFINE u == GetMap(v, b)
           vt == [u.virtual EXCEPT ![b] = "gtt"]
           gg == u.gtt \cup {b}
           w == [u EXCEPT !.gtt = gg, !.virtual[b] = "gtt"]
<1>1. v.map_count \in [Bos -> Nat]
  BY GoodSets DEF Good
<1>2. /\ Good(u) /\ Bounded(u)
      /\ u.map_count = [v.map_count EXCEPT ![b] = @ + 1]
      /\ Spares(v, u, Bos \ Closed(v))
  BY GetMapGood
<1>3. CASE b \notin u.gtt /\ ~ok
  <2>1. MapGtt(v, b, ok) = PutMap(u, b)
    BY <1>3 DEF MapGtt
  <2> QED BY <2>1, MapFails
<1>4. CASE ~(b \notin u.gtt /\ ~ok)
  <2>1. MapGtt(v, b, ok) = w
    BY <1>4 DEF MapGtt
  <2> HIDE DEF u
  <2>2. /\ u \in VmaState /\ u.map_count \in [Bos -> Nat] /\ u.gtt \in SUBSET Bos
        /\ u.virtual \in [Bos -> {"null", "mem", "gtt"}]
    BY <1>2, GoodSets DEF Good
  <2>3. vt \in [Bos -> {"null", "mem", "gtt"}] /\ gg \in SUBSET Bos
    BY <2>2
  <2>4. w = [u EXCEPT !.gtt = gg, !.virtual = vt]
    BY <2>2 DEF VmaState
  <2>5. vt = [u.virtual EXCEPT ![b] = "gtt"] /\ gg = u.gtt \cup {b}
    OBVIOUS
  <2> HIDE DEF w, vt, gg
  <2>6. w \in VmaState
    BY <2>2, <2>3, <2>4 DEF VmaState
  <2>7. /\ w.map_count = u.map_count /\ w.link = u.link /\ w.cache = u.cache
        /\ w.count = u.count /\ w.open = u.open /\ w.max = u.max /\ w.fault = u.fault
        /\ w.mem = u.mem /\ w.gtt = u.gtt \cup {b}
        /\ w.virtual = [u.virtual EXCEPT ![b] = "gtt"]
    BY <2>2, <2>4, <2>5 DEF VmaState
  <2>8. u.map_count[b] > 0
    BY <1>1, <1>2
  <2>9. Good(w) /\ Bounded(w)
    BY <1>2, <2>6, <2>7, <2>8, AddMappingGood
  <2>10. VirtualMapped(w)
    <3>1. ASSUME NEW c \in Bos, c # b, w.map_count[c] > 0
          PROVE  \/ w.virtual[c] = "mem" /\ c \in w.mem
                 \/ w.virtual[c] = "gtt" /\ c \in w.gtt
      <4>1. v.map_count[c] > 0
        BY <1>1, <1>2, <2>7, <3>1
      <4>2. /\ w.virtual[c] = v.virtual[c]
            /\ (c \in w.mem <=> c \in v.mem) /\ (c \in w.gtt <=> c \in v.gtt)
        BY <1>1, <1>2, <2>2, <2>7, <3>1, <4>1 DEF Spares, Closed
      <4> QED BY <4>1, <4>2 DEF VirtualMapped
    <3>2. w.virtual[b] = "gtt" /\ b \in w.gtt
      BY <2>2, <2>7
    <3> QED BY <3>1, <3>2 DEF VirtualMapped
  <2>11. OnlyMaps(v, w, b)
    BY <1>1, <1>2, <2>7 DEF Spares, OnlyMaps
  <2> QED BY <2>1, <2>9, <2>10, <2>11
<1> QED BY <1>3, <1>4

(* unmap: the address is cleared with the last mapping.                    *)
LEMMA UnmapGood ==
  ASSUME NEW v, Good(v), Bounded(v), VirtualMapped(v), NEW b \in Bos, v.map_count[b] > 0
  PROVE  LET w == UnmapBo(v, b) IN
         Good(w) /\ Bounded(w) /\ VirtualMapped(w) /\ OnlyMaps(v, w, b)
<1> DEFINE cw == v.cpu_write \ {b}
           u == [v EXCEPT !.cpu_write = cw]
           x == PutMap(u, b)
           w == [x EXCEPT !.virtual[b] = "null"]
<1>1. /\ v \in VmaState /\ v.cpu_write \in SUBSET Bos /\ v.map_count \in [Bos -> Nat]
  BY GoodSets DEF Good
<1>2. cw \in SUBSET Bos
  BY <1>1
<1> HIDE DEF cw
<1>3. /\ u \in VmaState
      /\ u.map_count = v.map_count /\ u.link = v.link /\ u.cache = v.cache
      /\ u.count = v.count /\ u.open = v.open /\ u.max = v.max /\ u.fault = v.fault
      /\ u.mem = v.mem /\ u.gtt = v.gtt /\ u.virtual = v.virtual
  BY <1>1, <1>2 DEF VmaState
<1>4. UnmapBo(v, b) = IF x.map_count[b] = 0 THEN w ELSE x
  BY DEF UnmapBo, cw
<1> HIDE DEF u
<1>5. Good(u) /\ Bounded(u) /\ u.map_count[b] > 0
  <2>1. u.mem \in {v.mem, v.mem \cup {b}} /\ u.gtt \in {v.gtt, v.gtt \cup {b}}
    BY <1>3
  <2> QED BY <1>3, <2>1, AddMappingGood
<1>6. /\ Good(x) /\ Bounded(x)
      /\ x.map_count = [u.map_count EXCEPT ![b] = @ - 1]
      /\ Spares(u, x, {c \in Bos : x.map_count[c] > 0})
  BY <1>5, PutMapGood
<1> HIDE DEF x
<1>7. VirtualMapped(x)
  BY <1>1, <1>3, <1>6 DEF Spares, VirtualMapped
<1>8. OnlyMaps(v, x, b)
  BY <1>1, <1>3, <1>6 DEF Spares, OnlyMaps
<1>9. CASE x.map_count[b] = 0
  <2> DEFINE vt == [x.virtual EXCEPT ![b] = "null"]
  <2>1. /\ x \in VmaState /\ x.virtual \in [Bos -> {"null", "mem", "gtt"}]
        /\ ~x.fault /\ Listed(x) /\ x.count = Cached(x) /\ x.open = Cardinality(Bos \ Closed(x))
    BY <1>6, GoodSets DEF Good
  <2>2. vt \in [Bos -> {"null", "mem", "gtt"}] /\ w = [x EXCEPT !.virtual = vt]
    BY <2>1 DEF VmaState
  <2>3. \A c \in Bos \ {b} : vt[c] = x.virtual[c]
    BY <2>1
  <2> HIDE DEF vt, w
  <2>4. /\ w \in VmaState
        /\ w.map_count = x.map_count /\ w.link = x.link /\ w.cache = x.cache
        /\ w.count = x.count /\ w.open = x.open /\ w.max = x.max /\ w.fault = x.fault
        /\ w.mem = x.mem /\ w.gtt = x.gtt /\ w.virtual = vt
    BY <2>1, <2>2 DEF VmaState
  <2>5. Good(w) /\ Bounded(w)
    BY <1>6, <2>1, <2>4 DEF Good, Listed, NodeOK, Cached, Closed, Bounded, VmaLimit
  <2>6. VirtualMapped(w)
    BY <1>7, <1>9, <2>3, <2>4 DEF VirtualMapped
  <2>7. OnlyMaps(v, w, b)
    BY <1>8, <2>4 DEF OnlyMaps
  <2> QED BY <1>4, <1>9, <2>5, <2>6, <2>7
<1> QED BY <1>4, <1>6, <1>7, <1>9, <1>8

(* Clearing left-over mappings at the final unreference.                   *)
LEMMA DropGood ==
  ASSUME NEW v, Good(v), Bounded(v), VirtualMapped(v), NEW b \in Bos
  PROVE  LET w == DropMappings(v, b) IN
         /\ Good(w) /\ Bounded(w) /\ VirtualMapped(w)
         /\ w.map_count[b] = 0
         /\ OnlyMaps(v, w, b)
<1>1. v.map_count \in [Bos -> Nat]
  BY GoodSets DEF Good
<1>2. CASE v.map_count[b] = 0
  BY <1>2 DEF DropMappings, OnlyMaps
<1>3. CASE v.map_count[b] # 0
  <2> DEFINE w == CloseVma([v EXCEPT !.map_count[b] = 0], b)
  <2>1. DropMappings(v, b) = w
    BY <1>3 DEF DropMappings
  <2>2. v.map_count[b] > 0
    BY <1>1, <1>3
  <2>3. /\ Good(w) /\ Bounded(w)
        /\ w.map_count = [v.map_count EXCEPT ![b] = 0]
        /\ Spares(v, w, (Bos \ Closed(v)) \ {b})
    BY <2>2, CloseGood
  <2> HIDE DEF w
  <2>4. VirtualMapped(w)
    <3>1. ASSUME NEW c \in Bos, w.map_count[c] > 0
          PROVE  c \in (Bos \ Closed(v)) \ {b} /\ v.map_count[c] > 0
      BY <1>1, <2>3, <3>1 DEF Closed
    <3> QED BY <2>3, <3>1 DEF Spares, VirtualMapped
  <2>5. OnlyMaps(v, w, b)
    BY <1>1, <2>3 DEF Spares, OnlyMaps
  <2> QED BY <1>1, <2>1, <2>3, <2>4, <2>5
<1> QED BY <1>2, <1>3

(* Freeing an object nobody has mapped.                                    *)
LEMMA FreeGood ==
  ASSUME NEW v, Good(v), Bounded(v), VirtualMapped(v), NEW b \in Bos,
         v.link[b] # "zero", v.map_count[b] = 0
  PROVE  LET w == FreeVma(v, b) IN
         /\ Good(w) /\ Bounded(w) /\ VirtualMapped(w)
         /\ w.map_count = v.map_count /\ w.link = [v.link EXCEPT ![b] = "zero"]
<1> DEFINE w == FreeVma(v, b)
           ft == v.fault \/ DelFaults(v.link[b])
           rc == RemoveItem(v.cache, b)
           ct == v.count - Mappings(v, b)
           lk == [v.link EXCEPT ![b] = "zero"]
           vt == [v.virtual EXCEPT ![b] = "null"]
           mm == v.mem \ {b}
           gg == v.gtt \ {b}
           cw == v.cpu_write \ {b}
<1>1. /\ v \in VmaState /\ ~v.fault /\ Listed(v) /\ v.count = Cached(v)
      /\ v.open = Cardinality(Bos \ Closed(v))
      /\ v.mem \in SUBSET Bos /\ v.gtt \in SUBSET Bos /\ v.cpu_write \in SUBSET Bos
      /\ v.map_count \in [Bos -> Nat] /\ v.link \in [Bos -> Links]
      /\ v.virtual \in [Bos -> {"null", "mem", "gtt"}]
      /\ v.cache \in Seq(Bos) /\ v.count \in Int /\ v.open \in Int /\ v.max \in Int
  BY GoodSets DEF Good
<1>2. v.link[b] \in {"self", "linked"}
  BY <1>1 DEF Listed, NodeOK, Links
<1>3. rc \in Seq(Bos) /\ Items(rc) = Items(v.cache) \ {b} /\ NoDuplicates(rc)
  BY <1>1, RemoveItemItems DEF Listed
<1>4. /\ ~ft
      /\ ct \in Int /\ Mappings(v, b) \in Nat
      /\ lk \in [Bos -> Links]
      /\ vt \in [Bos -> {"null", "mem", "gtt"}]
      /\ mm \in SUBSET Bos /\ gg \in SUBSET Bos /\ cw \in SUBSET Bos
  BY <1>1, <1>2 DEF DelFaults, Mappings, Links
<1>5. w = [v EXCEPT !.fault = ft, !.cache = rc, !.count = ct, !.mem = mm, !.gtt = gg,
                    !.link = lk, !.virtual = vt, !.cpu_write = cw]
  BY <1>1 DEF FreeVma, VmaState
<1>6. ft \in BOOLEAN
  OBVIOUS
<1>7. lk[b] = "zero" /\ (\A c \in Bos \ {b} : lk[c] = v.link[c] /\ vt[c] = v.virtual[c])
  BY <1>1
<1>8. ct = v.count - Mappings(v, b) /\ mm = v.mem \ {b} /\ gg = v.gtt \ {b}
  OBVIOUS
<1> HIDE DEF w, ft, rc, ct, lk, vt, mm, gg, cw
<1>9. /\ w \in VmaState
      /\ w.fault = ft /\ w.cache = rc /\ w.count = ct /\ w.mem = mm /\ w.gtt = gg
      /\ w.link = lk /\ w.virtual = vt /\ w.cpu_write = cw
      /\ w.map_count = v.map_count /\ w.open = v.open /\ w.max = v.max
  BY <1>1, <1>3, <1>4, <1>5, <1>6 DEF VmaState
<1>10. Listed(w)
  <2>1. Items(w.cache) = {c \in Bos : w.link[c] = "linked"}
    BY <1>1, <1>3, <1>7, <1>9 DEF Listed
  <2>2. ASSUME NEW c \in Bos PROVE NodeOK(w, c)
    BY <1>1, <1>7, <1>8, <1>9 DEF Listed, NodeOK
  <2> QED BY <1>3, <1>9, <2>1, <2>2 DEF Listed
<1>11. Closed(w) = Closed(v) /\ b \in Closed(v) /\ Closed(v) \in SUBSET Bos
  BY <1>9 DEF Closed
<1>12. w.count = Cached(w)
  <2> DEFINE D == Closed(v)
  <2>1. /\ Cardinality(v.mem \cap (D \ {b})) = Cardinality(v.mem \cap D) - Has(v.mem, b)
        /\ Cardinality(v.gtt \cap (D \ {b})) = Cardinality(v.gtt \cap D) - Has(v.gtt, b)
        /\ Cardinality(v.mem \cap D) \in Nat /\ Cardinality(v.gtt \cap D) \in Nat
    BY <1>1, <1>11, CountOne
  <2>2. w.mem \cap D = v.mem \cap (D \ {b}) /\ w.gtt \cap D = v.gtt \cap (D \ {b})
    BY <1>8, <1>9
  <2>3. Cached(w) = Cardinality(v.mem \cap (D \ {b})) + Cardinality(v.gtt \cap (D \ {b}))
    BY <1>11, <2>2 DEF Cached
  <2>4. v.count = Cardinality(v.mem \cap D) + Cardinality(v.gtt \cap D)
    BY <1>1 DEF Cached
  <2>5. /\ Mappings(v, b) = Has(v.mem, b) + Has(v.gtt, b)
        /\ Has(v.mem, b) \in Int /\ Has(v.gtt, b) \in Int
    BY DEF Mappings, Has
  <2> HIDE DEF D
  <2> QED BY <1>8, <1>9, <2>1, <2>3, <2>4, <2>5
<1>13. Good(w)
  BY <1>1, <1>4, <1>9, <1>10, <1>11, <1>12 DEF Good
<1>14. Bounded(w)
  BY <1>1, <1>4, <1>8, <1>9 DEF Bounded, VmaLimit
<1>15. VirtualMapped(w)
  BY <1>7, <1>8, <1>9 DEF VirtualMapped
<1> QED BY <1>9, <1>13, <1>14, <1>15 DEF w, lk

(* Initialising the node of a new object.                                  *)
LEMMA InitListGood ==
  ASSUME NEW v, Good(v), Bounded(v), VirtualMapped(v), NEW b \in Bos, v.link[b] = "zero"
  PROVE  LET w == InitVmaList(v, b) IN
         /\ Good(w) /\ Bounded(w) /\ VirtualMapped(w)
         /\ w.map_count = v.map_count /\ w.link = [v.link EXCEPT ![b] = "self"]
<1> DEFINE w == InitVmaList(v, b)
           lk == [v.link EXCEPT ![b] = "self"]
<1>1. /\ v \in VmaState /\ ~v.fault /\ Listed(v) /\ v.count = Cached(v)
      /\ v.open = Cardinality(Bos \ Closed(v)) /\ v.link \in [Bos -> Links]
      /\ v.map_count \in [Bos -> Nat]
  BY GoodSets DEF Good
<1>2. /\ w = [v EXCEPT !.link = lk] /\ lk \in [Bos -> Links]
      /\ lk[b] = "self" /\ \A c \in Bos \ {b} : lk[c] = v.link[c]
  BY <1>1 DEF InitVmaList, VmaState, Links
<1> HIDE DEF w, lk
<1>3. /\ w \in VmaState
      /\ w.map_count = v.map_count /\ w.link = lk /\ w.cache = v.cache
      /\ w.count = v.count /\ w.open = v.open /\ w.max = v.max /\ w.fault = v.fault
      /\ w.mem = v.mem /\ w.gtt = v.gtt /\ w.virtual = v.virtual
  BY <1>1, <1>2 DEF VmaState
<1>4. Listed(w)
  <2>1. Items(w.cache) = {c \in Bos : w.link[c] = "linked"}
    BY <1>1, <1>2, <1>3 DEF Listed
  <2>2. ASSUME NEW c \in Bos PROVE NodeOK(w, c)
    BY <1>1, <1>2, <1>3 DEF Listed, NodeOK
  <2> QED BY <1>1, <1>3, <2>1, <2>2 DEF Listed
<1>5. Good(w)
  BY <1>1, <1>3, <1>4 DEF Good, Cached, Closed
<1>6. Bounded(w) /\ VirtualMapped(w)
  BY <1>3 DEF Bounded, VmaLimit, VirtualMapped
<1> QED BY <1>3, <1>5, <1>6 DEF w, lk

(* drm_intel_bufmgr_gem_set_vma_cache_size: the new limit holds at once.   *)
LEMMA SetSizeGood ==
  ASSUME NEW v, Good(v), VirtualMapped(v), NEW limit \in Int
  PROVE  LET w == PurgeVmaCache([v EXCEPT !.max = limit])
         IN  /\ Good(w) /\ Bounded(w) /\ VirtualMapped(w)
             /\ w.map_count = v.map_count
             /\ \A c \in Bos : w.link[c] = "zero" <=> v.link[c] = "zero"
<1> DEFINE u == [v EXCEPT !.max = limit]
           w == PurgeVmaCache(u)
<1>1. /\ v \in VmaState /\ ~v.fault /\ Listed(v) /\ v.count = Cached(v)
      /\ v.open = Cardinality(Bos \ Closed(v))
  BY DEF Good
<1>2. /\ u \in VmaState
      /\ u.map_count = v.map_count /\ u.link = v.link /\ u.cache = v.cache
      /\ u.count = v.count /\ u.open = v.open /\ u.fault = v.fault
      /\ u.mem = v.mem /\ u.gtt = v.gtt /\ u.virtual = v.virtual
  BY <1>1 DEF VmaState
<1> HIDE DEF u
<1>3. Good(u)
  BY <1>1, <1>2 DEF Good, Listed, NodeOK, Cached, Closed
<1>4. Purged(u, w)
  BY <1>3, PurgeGood
<1> HIDE DEF w
<1>5. VirtualMapped(w)
  BY <1>2, <1>4 DEF Purged, VirtualMapped
<1>6. w.map_count = v.map_count /\ \A c \in Bos : w.link[c] = "zero" <=> v.link[c] = "zero"
  BY <1>2, <1>4 DEF Purged
<1> QED BY <1>4, <1>5, <1>6 DEF Purged, w, u

-----------------------------------------------------------------------------
(* The state of drm_intel_bufmgr_gem_init satisfies the invariant.         *)
LEMMA VmaInitInv == VmaInit => VmaInv
<1> SUFFICES ASSUME VmaInit PROVE VmaInv
  OBVIOUS
<1>1. vma \in VmaState /\ ~vma.fault /\ vma.max = -1
  BY DEF VmaInit, VmaState, Links
<1>2. /\ vma.cache = << >> /\ vma.mem = {} /\ vma.gtt = {} /\ vma.count = 0 /\ vma.open = 0
      /\ \A b \in Bos : vma.map_count[b] = 0 /\ vma.link[b] = "zero"
  BY DEF VmaInit
<1>3. Listed(vma)
  BY <1>2 DEF Listed, NodeOK, NoDuplicates, Items
<1>4. Closed(vma) = Bos
  BY <1>2 DEF Closed
<1>5. Cardinality({}) = 0
  BY FS_EmptySet
<1>6. vma.count = Cached(vma) /\ vma.open = Cardinality(Bos \ Closed(vma))
  <2>1. vma.mem \cap Closed(vma) = {} /\ vma.gtt \cap Closed(vma) = {} /\ Bos \ Closed(vma) = {}
    BY <1>2, <1>4
  <2>2. Cached(vma) = Cardinality({}) + Cardinality({})
    BY <2>1 DEF Cached
  <2>3. Cardinality(Bos \ Closed(vma)) = Cardinality({})
    BY <2>1
  <2> QED BY <1>2, <1>5, <2>2, <2>3
<1>7. Bounded(vma) /\ VirtualMapped(vma)
  BY <1>1, <1>2 DEF Bounded, VirtualMapped
<1> QED BY <1>1, <1>3, <1>6, <1>7 DEF VmaInv, Good

(* Every operation preserves the invariant, as long as the kernel does not *)
(* reject a tiling request on a new object.                                *)
LEMMA VmaNextInv ==
  ASSUME TRUE \notin CanReject, VmaInv, [VmaNext]_vma
  PROVE  VmaInv'
<1>1. Good(vma) /\ Bounded(vma) /\ VirtualMapped(vma)
  BY DEF VmaInv
<1>2. SUFFICES Good(vma') /\ Bounded(vma') /\ VirtualMapped(vma')
  BY <1>2 DEF VmaInv, Good, Listed, NodeOK, Cached, Closed, Bounded, VmaLimit, VirtualMapped
<1>3. CASE UNCHANGED vma
  BY <1>1, <1>3
<1>4. ASSUME NEW b \in Bos, Create(b) PROVE Good(vma') /\ Bounded(vma') /\ VirtualMapped(vma')
  <2>1. vma.link[b] = "zero" /\ vma' = InitVmaList(vma, b)
    BY <1>4 DEF Create, Exists
  <2> QED BY <1>1, <2>1, InitListGood
<1>5. ASSUME NEW b \in Bos, Map(b) PROVE Good(vma') /\ Bounded(vma') /\ VirtualMapped(vma')
  <2>1. PICK write \in BOOLEAN, ok \in BOOLEAN : vma' = MapCpu(vma, b, write, ok)
    BY <1>5 DEF Map
  <2>2. vma.link[b] # "zero"
    BY <1>5 DEF Map, Exists
  <2> QED BY <1>1, <2>1, <2>2, MapCpuGood
<1>6. ASSUME NEW b \in Bos, MapGttOrUnsynchronized(b)
      PROVE  Good(vma') /\ Bounded(vma') /\ VirtualMapped(vma')
  <2>1. PICK ok \in BOOLEAN : vma' = MapGtt(vma, b, ok)
    BY <1>6 DEF MapGttOrUnsynchronized
  <2>2. vma.link[b] # "zero"
    BY <1>6 DEF MapGttOrUnsynchronized, Exists
  <2> QED BY <1>1, <2>1, <2>2, MapGttGood
<1>7. ASSUME NEW b \in Bos, Unmap(b) PROVE Good(vma') /\ Bounded(vma') /\ VirtualMapped(vma')
  BY <1>1, <1>7, UnmapGood DEF Unmap
<1>8. ASSUME NEW b \in Bos, Retire(b) PROVE Good(vma') /\ Bounded(vma') /\ VirtualMapped(vma')
  BY <1>1, <1>8, DropGood DEF Retire
<1>9. ASSUME NEW b \in Bos, Free(b) PROVE Good(vma') /\ Bounded(vma') /\ VirtualMapped(vma')
  <2> DEFINE u == DropMappings(vma, b)
  <2>1. vma.link[b] # "zero" /\ vma' = FreeVma(u, b)
    BY <1>9 DEF Free, Exists
  <2>2. /\ Good(u) /\ Bounded(u) /\ VirtualMapped(u)
        /\ u.map_count[b] = 0 /\ u.link[b] # "zero"
    BY <1>1, <2>1, DropGood DEF OnlyMaps
  <2> HIDE DEF u
  <2> QED BY <2>1, <2>2, FreeGood
<1>10. ASSUME NEW limit \in VmaLimits, SetVmaCacheSize(limit)
       PROVE  Good(vma') /\ Bounded(vma') /\ VirtualMapped(vma')
  <2>1. limit \in Int
    BY VmaLimitsAssumption
  <2> QED BY <1>1, <1>10, <2>1, SetSizeGood DEF SetVmaCacheSize
<1> QED BY <1>3, <1>4, <1>5, <1>6, <1>7, <1>8, <1>9, <1>10 DEF VmaNext

(* With a limit, the mappings kept are within it or all in use: what       *)
(* Bounded says of vma_count, said of the mappings themselves.             *)
LEMMA BoundedMappings == VmaInv => MappingsBounded
<1> SUFFICES ASSUME VmaInv, vma.max >= 0,
                    ~(vma.mem \cup vma.gtt \subseteq Bos \ Closed(vma))
             PROVE  Cardinality(vma.mem) + Cardinality(vma.gtt) <= vma.max
  BY DEF MappingsBounded
<1> DEFINE D == Closed(vma)
           O == Bos \ D
           cm == Cardinality(vma.mem \cap D)
           cg == Cardinality(vma.gtt \cap D)
<1>1. /\ vma \in VmaState /\ vma.count = Cached(vma) /\ vma.open = Cardinality(O)
      /\ Bounded(vma) /\ vma.mem \in SUBSET Bos /\ vma.gtt \in SUBSET Bos
      /\ vma.max \in Int /\ D \in SUBSET Bos
  BY GoodSets DEF VmaInv, Good, Closed
<1> HIDE DEF D
<1>2. ASSUME NEW A \in SUBSET Bos
      PROVE  /\ Cardinality(A \cap D) \in Nat
             /\ Cardinality(A) \in Nat /\ Cardinality(O) \in Nat
             /\ Cardinality(A) <= Cardinality(A \cap D) + Cardinality(O)
             /\ Cardinality(A \cap D) = 0 => A \cap D = {}
  <2>1. IsFiniteSet(A) /\ IsFiniteSet(O) /\ IsFiniteSet(A \cap D)
    BY <1>1, BosFinite
  <2>2. /\ Cardinality(A) \in Nat /\ Cardinality(A \ D) \in Nat /\ Cardinality(A \cap D) \in Nat
        /\ Cardinality(A) = Cardinality(A \cap D) + Cardinality(A \ D)
    BY <2>1, CardinalitySplit
  <2>3. A \ D \in SUBSET O
    OBVIOUS
  <2>4. Cardinality(A \ D) <= Cardinality(O)
    BY <2>1, <2>3, FS_Subset
  <2>5. Cardinality(O) \in Nat
    BY <2>1, FS_CardinalityType
  <2>6. Cardinality(A \cap D) = 0 => A \cap D = {}
    BY <2>1, FS_EmptySet
  <2> HIDE DEF O
  <2> QED BY <2>2, <2>4, <2>5, <2>6
<1>3. vma.count = cm + cg
  BY <1>1 DEF Cached, D
<1>4. /\ cm \in Nat /\ cg \in Nat
      /\ Cardinality(vma.mem) \in Nat /\ Cardinality(vma.gtt) \in Nat /\ Cardinality(O) \in Nat
      /\ Cardinality(vma.mem) <= cm + Cardinality(O)
      /\ Cardinality(vma.gtt) <= cg + Cardinality(O)
      /\ cm = 0 => vma.mem \cap D = {}
      /\ cg = 0 => vma.gtt \cap D = {}
  BY <1>1, <1>2
<1>5. ~(cm = 0 /\ cg = 0)
  BY <1>1, <1>4 DEF D
<1> HIDE DEF O, cm, cg
<1>6. vma.count > 0
  BY <1>3, <1>4, <1>5
<1>7. vma.count <= vma.max - 2 * vma.open
  <2>1. vma.count \in Int /\ vma.open \in Int /\ vma.max \in Int
    BY <1>1, GoodSets
  <2>2. vma.count <= VmaLimit(vma)
    BY <1>1 DEF Bounded
  <2> QED BY <1>6, <2>1, <2>2 DEF VmaLimit
<1> QED BY <1>1, <1>3, <1>4, <1>7

(* The mapping cache is sound for every number of objects, every sequence  *)
(* of limits and every nesting of mappings: vma_count and vma_open are     *)
(* exact, no list operation is undefined, and purge_vma_cache never takes  *)
(* a mapping that an application still uses.  It needs that no SET_TILING  *)
(* is rejected while an object is created.                                 *)
THEOREM VmaInvariant ==
  ASSUME TRUE \notin CanReject
  PROVE  VmaSpec => []VmaInv
<1>1. VmaInv /\ [VmaNext]_vma => VmaInv'
  BY VmaNextInv
<1> QED BY <1>1, VmaInitInv, PTL DEF VmaSpec

(* The type invariant, for every instance.                                 *)
THEOREM VmaTypeCorrect ==
  ASSUME TRUE \notin CanReject
  PROVE  VmaSpec => []VmaTypeOK
<1>1. VmaInv => VmaTypeOK
  BY DEF VmaInv, Good, VmaTypeOK
<1> QED BY <1>1, VmaInvariant, PTL

(* The list surgery is always defined.                                     *)
THEOREM VmaNeverFaults ==
  ASSUME TRUE \notin CanReject
  PROVE  VmaSpec => []NoVmaFault
<1>1. VmaInv => NoVmaFault
  BY DEF VmaInv, Good, NoVmaFault
<1> QED BY <1>1, VmaInvariant, PTL

(* The hand-kept counters vma_count and vma_open are exact.                *)
THEOREM VmaCountsExact ==
  ASSUME TRUE \notin CanReject
  PROVE  VmaSpec => []CountsExact
<1>1. VmaInv => CountsExact
  BY DEF VmaInv, Good, CountsExact
<1> QED BY <1>1, VmaInvariant, PTL

(* A mapped object's virtual address stays valid.                          *)
THEOREM VmaVirtualValid ==
  ASSUME TRUE \notin CanReject
  PROVE  VmaSpec => []VirtualIsMapped
<1>1. VmaInv => VirtualIsMapped
  BY DEF VmaInv, VirtualIsMapped
<1> QED BY <1>1, VmaInvariant, PTL

(* The limit set with drm_intel_bufmgr_gem_set_vma_cache_size is kept.     *)
THEOREM VmaLimitKept ==
  ASSUME TRUE \notin CanReject
  PROVE  VmaSpec => []MappingsBounded
BY VmaInvariant, BoundedMappings, PTL
=============================================================================
