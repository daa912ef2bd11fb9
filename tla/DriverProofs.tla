---------------------------- MODULE DriverProofs ----------------------------
(***************************************************************************)
(* HandlesAlwaysSound: in each of the libraries for freedreno, omap,       *)
(* nouveau, radeon, exynos and in libkms, the handles of the kernel and    *)
(* the structures of the library correspond in every state, for any set    *)
(* of structures, objects and threads; and the buffer managers that the    *)
(* Intel libraries of a process share are freed exactly when the last      *)
(* reference is given up.  Each library has an inductive invariant of its  *)
(* own, over the lemmas about the handles of a file that come first.       *)
(***************************************************************************)
EXTENDS DriverHandles, SequenceTheorems, FiniteSetTheorems, TLAPS

-----------------------------------------------------------------------------
(* The handles of a file.                                                  *)

(* The handles of a file: finitely many, and those that the kernel finds   *)
(* again are open.                                                         *)
KernelOK(k) ==
  /\ k = [open |-> k.open, prime |-> k.prime, shared |-> k.shared, born |-> k.born]
  /\ IsFiniteSet(DOMAIN k.open)
  /\ k.prime \subseteq DOMAIN k.open

(* A new entry of a table.                                                 *)
LEMMA BindIs ==
  ASSUME NEW f, NEW x, NEW y
  PROVE  /\ DOMAIN Bind(f, x, y) = DOMAIN f \cup {x}
         /\ Bind(f, x, y)[x] = y
         /\ \A z \in DOMAIN f : z # x => Bind(f, x, y)[z] = f[z]
BY DEF Bind

(* An entry less.                                                          *)
LEMMA UnbindIs ==
  ASSUME NEW f, NEW x
  PROVE  /\ DOMAIN Unbind(f, x) = DOMAIN f \ {x}
         /\ \A z \in DOMAIN f : z # x => Unbind(f, x)[z] = f[z]
BY DEF Unbind

(* A set of the first numbers that begins at one ends at its cardinality.  *)
LEMMA InitialSegment ==
  ASSUME NEW n \in Nat, NEW S \in SUBSET (1 .. n),
         \A i \in S : \A j \in 1 .. i : j \in S
  PROVE  Cardinality(S) \in 0 .. n /\ S = 1 .. Cardinality(S)
<1>1. IsFiniteSet(1 .. n) /\ Cardinality(1 .. n) = n
  BY FS_Interval
<1>2. IsFiniteSet(S) /\ Cardinality(S) <= n
  BY <1>1, FS_Subset
<1>3. Cardinality(S) \in Nat
  BY <1>2, FS_CardinalityType
<1> DEFINE c == Cardinality(S)
<1>4. IsFiniteSet(1 .. c) /\ Cardinality(1 .. c) = c
  BY <1>3, FS_Interval
<1>5. ASSUME NEW i \in S PROVE i \in 1 .. c
  <2>1. i \in Nat /\ i >= 1
    OBVIOUS
  <2>2. IsFiniteSet(1 .. i) /\ Cardinality(1 .. i) = i
    BY <2>1, FS_Interval
  <2>3. 1 .. i \subseteq S
    OBVIOUS
  <2>4. Cardinality(1 .. i) <= c
    BY <1>2, <2>3, FS_Subset
  <2> QED BY <1>3, <2>1, <2>2, <2>4
<1>6. S \subseteq 1 .. c
  BY <1>5
<1>7. S = 1 .. c
  BY <1>4, <1>6, FS_Subset
<1> QED BY <1>2, <1>3, <1>7

(* The lowest free handle exists, and is free.                             *)
LEMMA FreeHandleIs ==
  ASSUME NEW k, IsFiniteSet(DOMAIN k.open)
  PROVE  FreeHandle(k) \in Nat \ {0} /\ FreeHandle(k) \notin DOMAIN k.open
<1> DEFINE D == DOMAIN k.open
           n == Cardinality(D)
           S == {i \in 1 .. n : \A j \in 1 .. i : j \in D}
           c == Cardinality(S)
<1>1. n \in Nat
  BY FS_CardinalityType
<1>2. S \in SUBSET (1 .. n) /\ \A i \in S : \A j \in 1 .. i : j \in S
  BY <1>1
<1>3. c \in 0 .. n /\ S = 1 .. c
  <2> HIDE DEF S, D, n
  <2> QED BY <1>1, <1>2, InitialSegment
<1>4. c + 1 \in 1 .. n + 1 /\ \A g \in 1 .. c : g \in D
  BY <1>1, <1>3
<1>5. c + 1 \notin D
  <2> SUFFICES ASSUME c + 1 \in D PROVE FALSE
    OBVIOUS
  <2>1. \A j \in 1 .. c + 1 : j \in D
    BY <1>3, <1>4
  <2>2. c + 1 <= n
    <3>1. c + 1 \in Nat
      BY <1>3
    <3>2. IsFiniteSet(1 .. c + 1) /\ Cardinality(1 .. c + 1) = c + 1
      BY <3>1, FS_Interval
    <3>3. 1 .. c + 1 \subseteq D
      BY <2>1
    <3>4. Cardinality(1 .. c + 1) <= n
      BY <3>3, FS_Subset
    <3> QED BY <3>2, <3>4
  <2>3. c + 1 \in S
    BY <1>3, <2>1, <2>2
  <2> HIDE DEF S
  <2> QED BY <1>3, <2>3
<1>6. \E h \in 1 .. n + 1 : h \notin D /\ \A g \in 1 .. h - 1 : g \in D
  <2>1. (c + 1) - 1 = c
    BY <1>3
  <2> QED BY <1>4, <1>5, <2>1
<1>7. /\ FreeHandle(k) \in 1 .. n + 1
      /\ FreeHandle(k) \notin D
  BY <1>6 DEF FreeHandle
<1> QED BY <1>1, <1>7

(* A new handle, and nothing else, is open after GEM_OPEN.                 *)
LEMMA GemOpenIs ==
  ASSUME NEW k, NEW o, KernelOK(k)
  PROVE  LET r == GemOpen(k, o)
             h == r.handle
         IN  /\ h \in Nat \ {0} /\ h \notin DOMAIN k.open
             /\ KernelOK(r.k)
             /\ r.k.open = Bind(k.open, h, o) /\ r.k.prime = k.prime
             /\ r.k.shared = k.shared /\ r.k.born = k.born
             /\ r = [k |-> r.k, handle |-> h]
<1> DEFINE h == FreeHandle(k)
           f == Bind(k.open, h, o)
           q == [open |-> f, prime |-> k.prime, shared |-> k.shared, born |-> k.born]
<1>1. h \in Nat \ {0} /\ h \notin DOMAIN k.open
  BY FreeHandleIs DEF KernelOK
<1>2. DOMAIN f = DOMAIN k.open \cup {h}
  BY BindIs
<1>3. IsFiniteSet(DOMAIN f)
  BY <1>2, FS_AddElement DEF KernelOK
<1> HIDE DEF h, f
<1>4. [k EXCEPT !.open = f] = q
  BY DEF KernelOK
<1>5. KernelOK(q)
  BY <1>2, <1>3 DEF KernelOK
<1>6. GemOpen(k, o) = [k |-> q, handle |-> h]
  BY <1>4 DEF GemOpen, h, f
<1> QED BY <1>1, <1>5, <1>6 DEF f

(* The same of the ioctls that create an object.                           *)
LEMMA GemCreateIs ==
  ASSUME NEW k, NEW o, KernelOK(k)
  PROVE  LET r == GemCreate(k, o)
             h == r.handle
         IN  /\ h \in Nat \ {0} /\ h \notin DOMAIN k.open
             /\ KernelOK(r.k)
             /\ r.k.open = Bind(k.open, h, o) /\ r.k.prime = k.prime
             /\ r.k.shared = k.shared /\ r.k.born = k.born \cup {o}
<1> DEFINE r == GemOpen(k, o)
           q == [open |-> r.k.open, prime |-> r.k.prime, shared |-> r.k.shared, born |-> r.k.born \cup {o}]
<1>1. /\ r.handle \in Nat \ {0} /\ r.handle \notin DOMAIN k.open
      /\ KernelOK(r.k)
      /\ r.k.open = Bind(k.open, r.handle, o) /\ r.k.prime = k.prime
      /\ r.k.shared = k.shared /\ r.k.born = k.born
      /\ r = [k |-> r.k, handle |-> r.handle]
  BY GemOpenIs
<1> HIDE DEF r
<1>2. [r.k EXCEPT !.born = @ \cup {o}] = q
  BY <1>1 DEF KernelOK
<1>3. GemCreate(k, o) = [k |-> q, handle |-> r.handle]
  BY <1>1, <1>2 DEF GemCreate, r
<1>4. KernelOK(q)
  BY <1>1 DEF KernelOK
<1> QED BY <1>1, <1>3, <1>4

(* PRIME_FD_TO_HANDLE gives a handle of the object that is open, or a new  *)
(* one.                                                                    *)
LEMMA PrimeOpenIs ==
  ASSUME NEW k, NEW o, KernelOK(k)
  PROVE  LET r == PrimeOpen(k, o)
             h == r.handle
         IN  /\ KernelOK(r.k) /\ r.k.shared = k.shared /\ r.k.born = k.born
             /\ \/ h \in k.prime /\ h \in DOMAIN k.open /\ k.open[h] = o /\ r.k = k
                \/ /\ h \in Nat \ {0} /\ h \notin DOMAIN k.open
                   /\ r.k.open = Bind(k.open, h, o) /\ r.k.prime = k.prime \cup {h}
<1> DEFINE known == HandlesOf(k, o) \cap k.prime
<1>1. CASE known # {}
  <2> DEFINE h == CHOOSE h \in known : TRUE
  <2>1. h \in known
    BY <1>1
  <2>2. PrimeOpen(k, o) = [k |-> k, handle |-> h]
    BY <1>1 DEF PrimeOpen
  <2>3. h \in k.prime /\ h \in DOMAIN k.open /\ k.open[h] = o
    BY <2>1 DEF HandlesOf
  <2> HIDE DEF h
  <2> QED BY <2>2, <2>3
<1>2. CASE known = {}
  <2> DEFINE r == GemOpen(k, o)
             q == [open |-> r.k.open, prime |-> r.k.prime \cup {r.handle}, shared |-> r.k.shared, born |-> r.k.born]
  <2>1. /\ r.handle \in Nat \ {0} /\ r.handle \notin DOMAIN k.open
        /\ KernelOK(r.k)
        /\ r.k.open = Bind(k.open, r.handle, o) /\ r.k.prime = k.prime
        /\ r.k.shared = k.shared /\ r.k.born = k.born
        /\ r = [k |-> r.k, handle |-> r.handle]
    BY GemOpenIs
  <2>2. PrimeOpen(k, o) = [r EXCEPT !.k.prime = @ \cup {r.handle}]
    BY <1>2, Zenon DEF PrimeOpen
  <2> HIDE DEF r
  <2>3. DOMAIN r.k.open = DOMAIN k.open \cup {r.handle}
    <3>1. DOMAIN Bind(k.open, r.handle, o) = DOMAIN k.open \cup {r.handle}
      BY DEF Bind
    <3> QED BY <2>1, <3>1
  <2> DEFINE p == r.k.prime \cup {r.handle}
  <2> HIDE DEF p
  <2>4. [r.k EXCEPT !.prime = p] = q
    <3>1. q = [open |-> r.k.open, prime |-> p, shared |-> r.k.shared, born |-> r.k.born]
      BY DEF p
    <3> QED BY <2>1, <3>1 DEF KernelOK
  <2>5. PrimeOpen(k, o) = [k |-> q, handle |-> r.handle]
    <3>1. PrimeOpen(k, o) = [r EXCEPT !.k = [r.k EXCEPT !.prime = p]]
      BY <2>2 DEF p
    <3> HIDE DEF q
    <3> QED BY <2>1, <3>1, <2>4
  <2>6. KernelOK(q)
    BY <2>1, <2>3 DEF KernelOK
  <2> QED BY <2>1, <2>5, <2>6
<1> QED BY <1>1, <1>2

(* Naming and exporting a handle leave the handles as they are.            *)
LEMMA GemFlinkIs ==
  ASSUME NEW k, NEW h, KernelOK(k)
  PROVE  LET q == GemFlink(k, h)
         IN  KernelOK(q) /\ q.open = k.open /\ q.prime = k.prime /\ q.born = k.born
BY DEF KernelOK, GemFlink

(* The kernel finds an exported handle again.                              *)
LEMMA PrimeExportIs ==
  ASSUME NEW k, NEW h, KernelOK(k), h \in DOMAIN k.open
  PROVE  LET q == PrimeExport(k, h)
         IN  KernelOK(q) /\ q.open = k.open /\ q.prime = k.prime \cup {h} /\ q.born = k.born
<1> DEFINE p == k.prime \cup {h}
           s == k.shared \cup {k.open[h]}
           q == [open |-> k.open, prime |-> p, shared |-> s, born |-> k.born]
<1>1. PrimeExport(k, h) = [k EXCEPT !.shared = s, !.prime = p]
  BY DEF PrimeExport, KernelOK
<1>2. p \subseteq DOMAIN k.open
  BY DEF KernelOK
<1> HIDE DEF p, s
<1>3. PrimeExport(k, h) = q
  BY <1>1 DEF KernelOK
<1>4. KernelOK(q)
  BY <1>2 DEF KernelOK
<1> QED BY <1>3, <1>4 DEF p

(* GEM_CLOSE closes one handle.                                            *)
LEMMA GemCloseIs ==
  ASSUME NEW k, NEW h, KernelOK(k)
  PROVE  LET q == GemClose(k, h)
         IN  /\ KernelOK(q)
             /\ q.open = Unbind(k.open, h) /\ q.prime = k.prime \ {h}
             /\ q.shared = k.shared /\ q.born = k.born
<1> DEFINE f == Unbind(k.open, h)
           p == k.prime \ {h}
           q == [open |-> f, prime |-> p, shared |-> k.shared, born |-> k.born]
<1>1. DOMAIN f = DOMAIN k.open \ {h} /\ p \subseteq DOMAIN f
  <2>1. DOMAIN f = DOMAIN k.open \ {h}
    BY UnbindIs
  <2> QED BY <2>1 DEF KernelOK
<1>2. IsFiniteSet(DOMAIN f)
  BY <1>1, FS_RemoveElement DEF KernelOK
<1>3. GemClose(k, h) = [k EXCEPT !.open = f, !.prime = p]
  BY Zenon DEF GemClose, KernelOK
<1> HIDE DEF f, p
<1>4. GemClose(k, h) = q
  BY <1>3 DEF KernelOK
<1>5. KernelOK(q)
  BY <1>1, <1>2 DEF KernelOK
<1> QED BY <1>4, <1>5 DEF f, p

(* A file has no handles at first.                                         *)
LEMMA KernelInit ==
  ASSUME NEW foreign
  PROVE  LET k == Kernel(foreign)
         IN  KernelOK(k) /\ DOMAIN k.open = {} /\ k.prime = {} /\ k.shared = foreign /\ k.born = foreign
BY FS_EmptySet DEF Kernel, KernelOK

-----------------------------------------------------------------------------
(* Exynos.                                                                 *)

(* What the structures of the Exynos driver look like.                     *)
ExBuffer(w) == w = [handle |-> w.handle, obj |-> w.obj, size |-> w.size, name |-> w.name, vaddr |-> w.vaddr]

ExShape(x) ==
  /\ x = [k |-> x.k, bo |-> x.bo, raw |-> x.raw, maps |-> x.maps]
  /\ \A b \in DOMAIN x.bo : ExBuffer(x.bo[b])

(* A handle of its own for every structure.                                *)
ExOwned(k, f) ==
  \A b \in DOMAIN f :
    /\ f[b].handle \in DOMAIN k.open
    /\ k.open[f[b].handle] = f[b].obj
    /\ \A c \in DOMAIN f \ {b} : f[c].handle # f[b].handle

ExOK(x) ==
  /\ ExShape(x) /\ KernelOK(x.k) /\ ExOwned(x.k, x.bo)
  /\ x.maps \subseteq DOMAIN x.bo

(* The record of a library, put together from its parts.                   *)
LEMMA ExParts ==
  ASSUME NEW q, KernelOK(q), NEW f, \A b \in DOMAIN f : ExBuffer(f[b]), ExOwned(q, f),
         NEW R, NEW M, M \subseteq DOMAIN f
  PROVE  ExOK([k |-> q, bo |-> f, raw |-> R, maps |-> M])
BY DEF ExOK, ExShape

(* Fields of a structure that are set.                                     *)
LEMMA ExSet ==
  ASSUME NEW v, ExBuffer(v), NEW z, NEW w, w = [v EXCEPT !.name = z] \/ w = [v EXCEPT !.vaddr = z]
  PROVE  ExBuffer(w) /\ w.handle = v.handle /\ w.obj = v.obj
BY DEF ExBuffer

(* A structure for a handle that was not open.                             *)
LEMMA ExOpened ==
  ASSUME NEW x, ExOK(x), NEW q, KernelOK(q), NEW h, h \notin DOMAIN x.k.open, NEW o,
         q.open = Bind(x.k.open, h, o), NEW b, b \notin DOMAIN x.bo, NEW w, ExBuffer(w),
         w.handle = h, w.obj = o, NEW y, y = [x EXCEPT !.k = q, !.bo = Bind(@, b, w)]
  PROVE  ExOK(y)
<1> DEFINE f == Bind(x.bo, b, w)
<1>1. /\ DOMAIN f = DOMAIN x.bo \cup {b} /\ f[b] = w
      /\ \A c \in DOMAIN x.bo : c # b => f[c] = x.bo[c]
  BY DEF Bind
<1>2. /\ DOMAIN q.open = DOMAIN x.k.open \cup {h} /\ q.open[h] = o
      /\ \A g \in DOMAIN x.k.open : g # h => q.open[g] = x.k.open[g]
  BY DEF Bind
<1>3. \A c \in DOMAIN f : \/ c = b /\ f[c] = w
                          \/ c \in DOMAIN x.bo /\ c # b /\ f[c] = x.bo[c]
  BY <1>1
<1>4. y = [x EXCEPT !.k = q, !.bo = f]
  OBVIOUS
<1> HIDE DEF f
<1>9. y = [k |-> q, bo |-> f, raw |-> x.raw, maps |-> x.maps]
  BY <1>4 DEF ExOK, ExShape
<1>5. ExOwned(q, f)
  BY <1>2, <1>3 DEF ExOK, ExOwned
<1>6. \A c \in DOMAIN f : ExBuffer(f[c])
  BY <1>3 DEF ExOK, ExShape
<1>7. x.maps \subseteq DOMAIN f
  BY <1>1 DEF ExOK
<1>8. ExOK([k |-> q, bo |-> f, raw |-> x.raw, maps |-> x.maps])
  BY <1>5, <1>6, <1>7, ExParts
<1> QED BY <1>9, <1>8

(* A change of a structure that leaves its handle.                         *)
LEMMA ExChanged ==
  ASSUME NEW x, ExOK(x), NEW q, KernelOK(q), q.open = x.k.open,
         NEW b \in DOMAIN x.bo, NEW w, ExBuffer(w), w.handle = x.bo[b].handle, w.obj = x.bo[b].obj,
         NEW M, M \subseteq DOMAIN x.bo, NEW f, f = [x.bo EXCEPT ![b] = w],
         NEW y, y = [k |-> q, bo |-> f, raw |-> x.raw, maps |-> M]
  PROVE  ExOK(y)
<1>1. DOMAIN f = DOMAIN x.bo /\ \A c \in DOMAIN f : f[c] = IF c = b THEN w ELSE x.bo[c]
  OBVIOUS
<1>2. ExOwned(q, f)
  BY <1>1 DEF ExOK, ExOwned
<1>3. \A c \in DOMAIN f : ExBuffer(f[c])
  BY <1>1 DEF ExOK, ExShape
<1> QED BY <1>1, <1>2, <1>3, ExParts

(* Every operation of the Exynos driver preserves the invariant.           *)
LEMMA ExNextOK ==
  ASSUME ExOK(ex), ExNext
  PROVE  ExOK(ex')
<1>0. KernelOK(ex.k) /\ ExShape(ex)
  BY DEF ExOK
<1>1. ASSUME NEW b \in ExBos, NEW o \in ExObjs, exynos_bo_create(b, o) PROVE ExOK(ex')
  <2> DEFINE r == GemCreate(ex.k, o)
             w == [handle |-> r.handle, obj |-> o, size |-> ExSize, name |-> FALSE, vaddr |-> FALSE]
  <2>1. /\ r.handle \notin DOMAIN ex.k.open /\ KernelOK(r.k)
        /\ r.k.open = Bind(ex.k.open, r.handle, o)
    BY <1>0, GemCreateIs
  <2>2. /\ b \notin DOMAIN ex.bo
        /\ ex' = [ex EXCEPT !.k = r.k, !.bo = Bind(@, b, w)]
    BY <1>1 DEF exynos_bo_create, Live
  <2> HIDE DEF r
  <2>3. ExBuffer(w) /\ w.handle = r.handle /\ w.obj = o
    BY DEF ExBuffer
  <2> HIDE DEF w
  <2> QED BY <2>1, <2>2, <2>3, ExOpened
<1>2. ASSUME NEW b \in ExBos, NEW o \in ExObjs, exynos_bo_from_name(b, o) PROVE ExOK(ex')
  <2> DEFINE r == GemOpen(ex.k, o)
             w == [handle |-> r.handle, obj |-> o, size |-> 0, name |-> TRUE, vaddr |-> FALSE]
  <2>1. /\ r.handle \notin DOMAIN ex.k.open /\ KernelOK(r.k)
        /\ r.k.open = Bind(ex.k.open, r.handle, o)
    BY <1>0, GemOpenIs
  <2>2. /\ b \notin DOMAIN ex.bo
        /\ ex' = [ex EXCEPT !.k = r.k, !.bo = Bind(@, b, w)]
    BY <1>2 DEF exynos_bo_from_name, Live
  <2> HIDE DEF r
  <2>3. ExBuffer(w) /\ w.handle = r.handle /\ w.obj = o
    BY DEF ExBuffer
  <2> HIDE DEF w
  <2> QED BY <2>1, <2>2, <2>3, ExOpened
<1>3. ASSUME NEW b \in ExBos, exynos_bo_get_name(b) PROVE ExOK(ex')
  <2> DEFINE q == GemFlink(ex.k, ex.bo[b].handle)
  <2>1. KernelOK(q) /\ q.open = ex.k.open
    BY <1>0, GemFlinkIs
  <2>2. b \in DOMAIN ex.bo /\ ex' = [ex EXCEPT !.k = q, !.bo[b].name = TRUE]
    BY <1>3 DEF exynos_bo_get_name, Live
  <2> HIDE DEF q
  <2> DEFINE w == [ex.bo[b] EXCEPT !.name = TRUE]
             f == [ex.bo EXCEPT ![b] = w]
  <2>3. ExBuffer(ex.bo[b]) /\ ex.maps \subseteq DOMAIN ex.bo
    BY <2>2 DEF ExOK, ExShape
  <2>4. ExBuffer(w) /\ w.handle = ex.bo[b].handle /\ w.obj = ex.bo[b].obj
    BY <2>3, ExSet
  <2>5. ex' = [ex EXCEPT !.k = q, !.bo = f]
    BY <1>0, <2>2 DEF ExShape
  <2> HIDE DEF w, f
  <2>6. ex' = [k |-> q, bo |-> f, raw |-> ex.raw, maps |-> ex.maps]
    BY <1>0, <2>5 DEF ExShape
  <2>7. f = [ex.bo EXCEPT ![b] = w]
    BY DEF f
  <2>8. b \in DOMAIN ex.bo
    BY <2>2
  <2> QED BY <2>1, <2>3, <2>4, <2>6, <2>7, <2>8, ExChanged
<1>4. ASSUME NEW b \in ExBos, exynos_bo_map(b) PROVE ExOK(ex')
  <2>1. b \in DOMAIN ex.bo /\ ex' = [ex EXCEPT !.bo[b].vaddr = TRUE, !.maps = @ \cup {b}]
    BY <1>4 DEF exynos_bo_map, Live
  <2> DEFINE w == [ex.bo[b] EXCEPT !.vaddr = TRUE]
             f == [ex.bo EXCEPT ![b] = w]
             M == ex.maps \cup {b}
  <2>2. ExBuffer(ex.bo[b]) /\ M \subseteq DOMAIN ex.bo
    BY <2>1 DEF ExOK, ExShape
  <2>3. ExBuffer(w) /\ w.handle = ex.bo[b].handle /\ w.obj = ex.bo[b].obj
    BY <2>2, ExSet
  <2>4. ex' = [ex EXCEPT !.bo = f, !.maps = M]
    BY <1>0, <2>1 DEF ExShape
  <2> HIDE DEF w, f, M
  <2>5. ex' = [k |-> ex.k, bo |-> f, raw |-> ex.raw, maps |-> M]
    BY <1>0, <2>4 DEF ExShape
  <2>6. f = [ex.bo EXCEPT ![b] = w]
    BY DEF f
  <2>7. b \in DOMAIN ex.bo
    BY <2>1
  <2> QED BY <1>0, <2>2, <2>3, <2>5, <2>6, <2>7, ExChanged
<1>5. ASSUME NEW b \in ExBos, exynos_bo_destroy(b) PROVE ExOK(ex')
  <2> DEFINE h == ex.bo[b].handle
             q == GemClose(ex.k, h)
             f == Unbind(ex.bo, b)
             M == ex.maps \ {b}
  <2>1. b \in DOMAIN ex.bo /\ ex' = [ex EXCEPT !.k = q, !.bo = f, !.maps = M]
    BY <1>5 DEF exynos_bo_destroy, Dropped, Live
  <2>2. KernelOK(q) /\ q.open = Unbind(ex.k.open, h)
    BY <1>0, GemCloseIs
  <2>3. /\ DOMAIN q.open = DOMAIN ex.k.open \ {h}
        /\ \A g \in DOMAIN ex.k.open : g # h => q.open[g] = ex.k.open[g]
    <3> HIDE DEF q
    <3> QED BY <2>2 DEF Unbind
  <2>4. DOMAIN f = DOMAIN ex.bo \ {b} /\ \A c \in DOMAIN f : f[c] = ex.bo[c]
    BY DEF Unbind
  <2>5. M \subseteq DOMAIN f
    BY <2>4 DEF ExOK
  <2> HIDE DEF q, f, M
  <2>6. ex' = [k |-> q, bo |-> f, raw |-> ex.raw, maps |-> M]
    BY <1>0, <2>1 DEF ExShape
  <2>7. ExOwned(q, f)
    BY <2>1, <2>3, <2>4 DEF ExOK, ExOwned
  <2>8. ExShape(ex')
    BY <2>4, <2>6 DEF ExOK, ExShape
  <2> QED BY <2>2, <2>5, <2>6, <2>7, <2>8 DEF ExOK
<1>6. ASSUME NEW b \in ExBos, exynos_prime_handle_to_fd(b) PROVE ExOK(ex')
  <2> DEFINE q == PrimeExport(ex.k, ex.bo[b].handle)
  <2>1. b \in DOMAIN ex.bo /\ ex' = [ex EXCEPT !.k = q]
    BY <1>6 DEF exynos_prime_handle_to_fd, Live
  <2>2. ex.bo[b].handle \in DOMAIN ex.k.open
    BY <2>1 DEF ExOK, ExOwned
  <2>3. KernelOK(q) /\ q.open = ex.k.open
    BY <1>0, <2>2, PrimeExportIs
  <2> HIDE DEF q
  <2>4. ex' = [k |-> q, bo |-> ex.bo, raw |-> ex.raw, maps |-> ex.maps]
    BY <1>0, <2>1 DEF ExShape
  <2> QED BY <2>3, <2>4 DEF ExOK, ExShape, ExOwned
<1>7. ASSUME NEW o \in ExObjs, exynos_prime_fd_to_handle(o) PROVE ExOK(ex')
  <2> DEFINE r == PrimeOpen(ex.k, o)
             h == r.handle
             R == ex.raw \cup {h}
  <2>1. ex' = [ex EXCEPT !.k = r.k, !.raw = R]
    BY <1>7 DEF exynos_prime_fd_to_handle
  <2>2. /\ KernelOK(r.k)
        /\ \/ r.k = ex.k
           \/ h \notin DOMAIN ex.k.open /\ r.k.open = Bind(ex.k.open, h, o)
    BY <1>0, PrimeOpenIs
  <2> HIDE DEF r, R
  <2>3. ex' = [k |-> r.k, bo |-> ex.bo, raw |-> R, maps |-> ex.maps]
    BY <1>0, <2>1 DEF ExShape
  <2>4. \A g \in DOMAIN ex.k.open : g \in DOMAIN r.k.open /\ r.k.open[g] = ex.k.open[g]
    <3>1. CASE r.k = ex.k
      BY <3>1
    <3>2. CASE h \notin DOMAIN ex.k.open /\ r.k.open = Bind(ex.k.open, h, o)
      BY <3>2 DEF Bind
    <3> QED BY <2>2, <3>1, <3>2
  <2>5. ExOwned(r.k, ex.bo)
    BY <2>4 DEF ExOK, ExOwned
  <2> QED BY <2>2, <2>3, <2>5 DEF ExOK, ExShape
<1>8. ASSUME NEW h \in ex.raw, Forget(h) PROVE ExOK(ex')
  <2> DEFINE R == ex.raw \ {h}
  <2>1. ex' = [ex EXCEPT !.raw = R]
    BY <1>8 DEF Forget
  <2> HIDE DEF R
  <2>2. ex' = [k |-> ex.k, bo |-> ex.bo, raw |-> R, maps |-> ex.maps]
    BY <1>0, <2>1 DEF ExShape
  <2> QED BY <2>2 DEF ExOK, ExShape
<1> QED BY <1>1, <1>2, <1>3, <1>4, <1>5, <1>6, <1>7, <1>8 DEF ExNext

(* The Exynos driver starts without a structure.                           *)
LEMMA ExInitOK ==
  ASSUME ExInit
  PROVE  ExOK(ex)
<1> DEFINE q == Kernel(ExForeign)
<1>1. KernelOK(q)
  BY KernelInit
<1> HIDE DEF q
<1>2. ex = [k |-> q, bo |-> << >>, raw |-> {}, maps |-> {}]
  BY DEF ExInit, q
<1> QED BY <1>1, <1>2 DEF ExOK, ExShape, ExOwned

(* The invariant gives the property of the Exynos driver.                  *)
LEMMA ExOKSound ==
  ASSUME ExOK(ex)
  PROVE  ExynosBoSound
BY DEF ExOK, ExOwned, ExynosBoSound

-----------------------------------------------------------------------------
(* Radeon.                                                                 *)

(* The fields of a structure of the Radeon library.                        *)
RadFields(w) ==
  w = [cref |-> w.cref, handle |-> w.handle, obj |-> w.obj, name |-> w.name,
       map_count |-> w.map_count, good |-> w.good, priv |-> w.priv, ptr |-> w.ptr]

(* The calls that mapped were all successful, or none was.                 *)
RadMapped(w) ==
  /\ w.cref \in Nat /\ w.map_count \in Nat /\ w.good \in Nat
  /\ w.good = w.map_count \/ w.good = 0
  /\ w.good > 0 => w.ptr = TRUE /\ w.priv = TRUE

RadBuffer(w) == RadFields(w) /\ RadMapped(w)

(* Handles and structures in use correspond one to one.                    *)
RadMatched(k, f) ==
  /\ \A b \in RadStructs : f[b].cref > 0 =>
       /\ f[b].handle \in DOMAIN k.open
       /\ f[b].obj = {k.open[f[b].handle]}
       /\ \A c \in RadStructs \ {b} : f[c].cref > 0 => f[c].handle # f[b].handle
  /\ \A h \in DOMAIN k.open : \E b \in RadStructs : f[b].cref > 0 /\ f[b].handle = h

(* The invariant of the Radeon buffers, until something odd happens.       *)
RadGood(x) ==
  /\ x = [k |-> x.k, bo |-> x.bo, odd |-> x.odd]
  /\ KernelOK(x.k)
  /\ DOMAIN x.bo = RadStructs
  /\ \A b \in RadStructs : RadBuffer(x.bo[b])
  /\ RadMatched(x.k, x.bo)

RadOK(x) == x.odd = "no" => RadGood(x)

(* A structure that is not in use.                                         *)
LEMMA RadUnused ==
  RadBuffer(NoRadBo) /\ ~ (NoRadBo.cref > 0)
BY DEF NoRadBo, RadBuffer, RadFields, RadMapped

(* The record of the library, put together from its parts.                 *)
LEMMA RadParts ==
  ASSUME NEW q, KernelOK(q), NEW f, DOMAIN f = RadStructs,
         \A b \in RadStructs : RadBuffer(f[b]), RadMatched(q, f),
         NEW y, NEW z, y = [k |-> q, bo |-> f, odd |-> z]
  PROVE  RadOK(y)
BY DEF RadOK, RadGood

(* A structure for a handle that was not open.                             *)
LEMMA RadOpened ==
  ASSUME NEW x, RadGood(x), NEW q, KernelOK(q), NEW h, h \notin DOMAIN x.k.open, NEW o,
         q.open = Bind(x.k.open, h, o), NEW b \in RadStructs, ~ (x.bo[b].cref > 0),
         NEW w, RadBuffer(w), w.cref > 0, w.handle = h, w.obj = {q.open[h]},
         NEW f, f = [x.bo EXCEPT ![b] = w], NEW y, NEW z, y = [k |-> q, bo |-> f, odd |-> z]
  PROVE  RadOK(y)
<1>1. /\ DOMAIN q.open = DOMAIN x.k.open \cup {h} /\ q.open[h] = o
      /\ \A g \in DOMAIN x.k.open : g # h => q.open[g] = x.k.open[g]
  BY DEF Bind
<1>2. /\ DOMAIN f = RadStructs
      /\ \A c \in RadStructs : f[c] = IF c = b THEN w ELSE x.bo[c]
  BY DEF RadGood
<1>5. \A c \in RadStructs : RadBuffer(f[c])
  BY <1>2 DEF RadGood
<1>6. RadMatched(q, f)
  <2>1. ASSUME NEW c \in RadStructs, f[c].cref > 0
        PROVE  /\ f[c].handle \in DOMAIN q.open
               /\ f[c].obj = {q.open[f[c].handle]}
               /\ \A d \in RadStructs \ {c} : f[d].cref > 0 => f[d].handle # f[c].handle
    <3>1. CASE c = b
      BY <1>1, <1>2, <2>1, <3>1 DEF RadGood, RadMatched
    <3>2. CASE c # b
      <4>1. f[c] = x.bo[c] /\ x.bo[c].cref > 0
        BY <1>2, <2>1, <3>2
      <4>2. /\ x.bo[c].handle \in DOMAIN x.k.open
            /\ x.bo[c].obj = {x.k.open[x.bo[c].handle]}
            /\ \A d \in RadStructs \ {c} : x.bo[d].cref > 0 => x.bo[d].handle # x.bo[c].handle
        BY <4>1 DEF RadGood, RadMatched
      <4> QED BY <1>1, <1>2, <4>1, <4>2
    <3> QED BY <3>1, <3>2
  <2>2. ASSUME NEW g \in DOMAIN q.open PROVE \E c \in RadStructs : f[c].cref > 0 /\ f[c].handle = g
    <3>1. CASE g = h
      BY <1>2, <3>1
    <3>2. CASE g # h
      <4>1. PICK c \in RadStructs : x.bo[c].cref > 0 /\ x.bo[c].handle = g
        BY <1>1, <3>2 DEF RadGood, RadMatched
      <4>2. f[c] = x.bo[c]
        BY <1>2, <4>1
      <4> QED BY <4>1, <4>2
    <3> QED BY <3>1, <3>2
  <2> QED BY <2>1, <2>2 DEF RadMatched
<1> QED BY <1>2, <1>5, <1>6, RadParts

(* A change of a structure that leaves its handle.                         *)
LEMMA RadChanged ==
  ASSUME NEW x, RadGood(x), NEW q, KernelOK(q), q.open = x.k.open, NEW b \in RadStructs,
         x.bo[b].cref > 0, NEW w, RadBuffer(w), w.cref > 0, w.handle = x.bo[b].handle, w.obj = x.bo[b].obj,
         NEW f, f = [x.bo EXCEPT ![b] = w], NEW y, NEW z, y = [k |-> q, bo |-> f, odd |-> z]
  PROVE  RadOK(y)
<1>1. /\ DOMAIN f = RadStructs
      /\ \A c \in RadStructs : f[c] = IF c = b THEN w ELSE x.bo[c]
  BY DEF RadGood
<1>2. \A c \in RadStructs : RadBuffer(f[c])
  BY <1>1 DEF RadGood
<1>3. \A c \in RadStructs : /\ f[c].cref > 0 <=> x.bo[c].cref > 0
                            /\ f[c].handle = x.bo[c].handle
                            /\ f[c].obj = x.bo[c].obj
  BY <1>1
<1>4. RadMatched(x.k, x.bo)
  BY DEF RadGood
<1>5. RadMatched(q, f)
  BY <1>3, <1>4 DEF RadMatched
<1> QED BY <1>1, <1>2, <1>5, RadParts

(* The last reference is given up.                                         *)
LEMMA RadClosed ==
  ASSUME NEW x, RadGood(x), NEW b \in RadStructs, x.bo[b].cref > 0,
         NEW q, KernelOK(q), q.open = Unbind(x.k.open, x.bo[b].handle),
         NEW f, f = [x.bo EXCEPT ![b] = NoRadBo], NEW y, NEW z, y = [k |-> q, bo |-> f, odd |-> z]
  PROVE  RadOK(y)
<1> DEFINE h == x.bo[b].handle
<1>1. /\ DOMAIN q.open = DOMAIN x.k.open \ {h}
      /\ \A g \in DOMAIN x.k.open : g # h => q.open[g] = x.k.open[g]
  BY DEF Unbind
<1>2. /\ DOMAIN f = RadStructs
      /\ \A c \in RadStructs : f[c] = IF c = b THEN NoRadBo ELSE x.bo[c]
  BY DEF RadGood
<1>5. \A c \in RadStructs : RadBuffer(f[c])
  BY <1>2, RadUnused DEF RadGood
<1>6. RadMatched(q, f)
  <2>1. ASSUME NEW c \in RadStructs, f[c].cref > 0
        PROVE  /\ f[c].handle \in DOMAIN q.open
               /\ f[c].obj = {q.open[f[c].handle]}
               /\ \A d \in RadStructs \ {c} : f[d].cref > 0 => f[d].handle # f[c].handle
    <3>1. c # b /\ f[c] = x.bo[c] /\ x.bo[c].cref > 0
      BY <1>2, <2>1, RadUnused
    <3>2. /\ x.bo[c].handle \in DOMAIN x.k.open
          /\ x.bo[c].obj = {x.k.open[x.bo[c].handle]}
          /\ \A d \in RadStructs \ {c} : x.bo[d].cref > 0 => x.bo[d].handle # x.bo[c].handle
      BY <3>1 DEF RadGood, RadMatched
    <3>3. \A d \in RadStructs : f[d].cref > 0 => f[d] = x.bo[d]
      BY <1>2, RadUnused
    <3> QED BY <1>1, <3>1, <3>2, <3>3
  <2>2. ASSUME NEW g \in DOMAIN q.open PROVE \E c \in RadStructs : f[c].cref > 0 /\ f[c].handle = g
    <3>1. PICK c \in RadStructs : x.bo[c].cref > 0 /\ x.bo[c].handle = g
      BY <1>1 DEF RadGood, RadMatched
    <3>2. f[c] = x.bo[c]
      BY <1>1, <1>2, <3>1
    <3> QED BY <3>1, <3>2
  <2> QED BY <2>1, <2>2 DEF RadMatched
<1> QED BY <1>2, <1>5, <1>6, RadParts

(* The structure that a call takes is not in use.                          *)
LEMMA FreshRadIs ==
  ASSUME NEW b \in FreshRad
  PROVE  b \in RadStructs /\ ~ (rad.bo[b].cref > 0)
<1> DEFINE U == {c \in RadStructs : rad.bo[c].cref = 0}
<1>1. CASE U = {}
  BY <1>1 DEF FreshRad
<1>2. CASE U # {}
  <2>1. (CHOOSE c \in U : TRUE) \in U
    BY <1>2
  <2>2. b = CHOOSE c \in U : TRUE
    BY <1>2 DEF FreshRad
  <2> QED BY <2>1, <2>2
<1> QED BY <1>1, <1>2

(* The structure that OpenedRad makes.                                     *)
LEMMA OpenedRadIs ==
  ASSUME RadGood(rad), NEW q, KernelOK(q), NEW h, h \notin DOMAIN rad.k.open, NEW o,
         q.open = Bind(rad.k.open, h, o), NEW b \in FreshRad, NEW n,
         rad' = OpenedRad(q, b, h, n)
  PROVE  RadOK(rad')
<1> DEFINE w == [NoRadBo EXCEPT !.cref = 1, !.handle = h, !.obj = {q.open[h]}, !.name = n]
           f == [rad.bo EXCEPT ![b] = w]
<1>1. rad' = [rad EXCEPT !.k = q, !.bo = f]
  BY DEF OpenedRad, RadGood
<1>2. RadBuffer(w) /\ w.cref > 0 /\ w.handle = h /\ w.obj = {q.open[h]}
  <2> DEFINE P == {q.open[h]}
  <2> HIDE DEF P
  <2>1. w = [NoRadBo EXCEPT !.cref = 1, !.handle = h, !.obj = P, !.name = n]
    BY DEF P
  <2> HIDE DEF w
  <2>2. w = [cref |-> 1, handle |-> h, obj |-> P, name |-> n,
             map_count |-> 0, good |-> 0, priv |-> FALSE, ptr |-> FALSE]
    BY <2>1 DEF NoRadBo
  <2>3. RadBuffer(w) /\ w.cref > 0 /\ w.handle = h /\ w.obj = P
    BY <2>2 DEF RadBuffer, RadFields, RadMapped
  <2> QED BY <2>3 DEF P
<1>3. b \in RadStructs /\ ~ (rad.bo[b].cref > 0)
  BY FreshRadIs
<1> HIDE DEF w
<1>4. f = [rad.bo EXCEPT ![b] = w]
  OBVIOUS
<1> HIDE DEF f
<1>5. rad' = [k |-> q, bo |-> f, odd |-> rad.odd]
  BY <1>1 DEF RadGood
<1> QED BY <1>2, <1>3, <1>4, <1>5, RadOpened

(* Every step of the Radeon buffers keeps the invariant.                   *)
LEMMA RadNextOK ==
  ASSUME RadOK(rad), RadBoNext
  PROVE  RadOK(rad')
<1>0. RadCalm
  BY DEF RadBoNext, bo_open_new, bo_open_name, radeon_gem_bo_open_prime, radeon_bo_ref, radeon_bo_unref,
         bo_map, radeon_bo_unmap, radeon_gem_get_kernel_name, radeon_gem_prime_share_bo
<1>1. RadGood(rad) /\ KernelOK(rad.k) /\ rad.odd = "no"
  BY <1>0 DEF RadCalm, RadOK, RadGood
<1>2. /\ rad = [k |-> rad.k, bo |-> rad.bo, odd |-> rad.odd]
      /\ DOMAIN rad.bo = RadStructs
      /\ \A b \in RadStructs : RadBuffer(rad.bo[b])
  BY <1>1 DEF RadGood
<1>3. ASSUME NEW o, bo_open_new(o) PROVE RadOK(rad')
  <2> DEFINE r == GemCreate(rad.k, o)
  <2>1. /\ r.handle \notin DOMAIN rad.k.open /\ KernelOK(r.k)
        /\ r.k.open = Bind(rad.k.open, r.handle, o)
    BY <1>1, GemCreateIs
  <2>2. PICK b \in FreshRad : rad' = OpenedRad(r.k, b, r.handle, "none")
    BY <1>3 DEF bo_open_new
  <2> HIDE DEF r
  <2> QED BY <1>1, <2>1, <2>2, OpenedRadIs
<1>4. ASSUME NEW o, bo_open_name(o) PROVE RadOK(rad')
  <2> DEFINE r == GemOpen(rad.k, o)
  <2>1. /\ r.handle \notin DOMAIN rad.k.open /\ KernelOK(r.k)
        /\ r.k.open = Bind(rad.k.open, r.handle, o)
    BY <1>1, GemOpenIs
  <2>2. PICK b \in FreshRad : rad' = OpenedRad(r.k, b, r.handle, "flink")
    BY <1>4 DEF bo_open_name
  <2> HIDE DEF r
  <2> QED BY <1>1, <2>1, <2>2, OpenedRadIs
<1>5. ASSUME NEW o, radeon_gem_bo_open_prime(o) PROVE RadOK(rad')
  <2> DEFINE r == PrimeOpen(rad.k, o)
             h == r.handle
             twin == \E c \in RadStructs : rad.bo[c].cref > 0 /\ rad.bo[c].handle = h
  <2>1. /\ KernelOK(r.k)
        /\ \/ h \in DOMAIN rad.k.open
           \/ h \notin DOMAIN rad.k.open /\ r.k.open = Bind(rad.k.open, h, o)
    BY <1>1, PrimeOpenIs
  <2>2. PICK b \in FreshRad : rad' = IF twin THEN [OpenedRad(r.k, b, h, "handle") EXCEPT !.odd = "twin"]
                                     ELSE OpenedRad(r.k, b, h, "handle")
    BY <1>5 DEF radeon_gem_bo_open_prime
  <2> HIDE DEF r
  <2>3. CASE twin
    <3> DEFINE s == OpenedRad(r.k, b, h, "handle")
    <3>1. s = [rad EXCEPT !.k = r.k, !.bo[b] = [NoRadBo EXCEPT !.cref = 1, !.handle = h,
                                                !.obj = {r.k.open[h]}, !.name = "handle"]]
      BY DEF OpenedRad
    <3>2. "odd" \in DOMAIN s
      BY <1>2, <3>1
    <3> HIDE DEF s
    <3>3. rad' = [s EXCEPT !.odd = "twin"]
      BY <2>2, <2>3 DEF s
    <3>4. rad'.odd = "twin"
      BY <3>2, <3>3
    <3> QED BY <3>4 DEF RadOK
  <2>4. CASE ~ twin
    <3>1. h \notin DOMAIN rad.k.open
      BY <1>1, <2>4 DEF RadGood, RadMatched
    <3>2. rad' = OpenedRad(r.k, b, h, "handle")
      BY <2>2, <2>4
    <3> HIDE DEF twin, h
    <3> QED BY <1>1, <2>1, <3>1, <3>2, OpenedRadIs
  <2> QED BY <2>3, <2>4
<1>6. ASSUME NEW b \in RadStructs, radeon_bo_ref(b) PROVE RadOK(rad')
  <2> DEFINE n == rad.bo[b].cref + 1
             w == [rad.bo[b] EXCEPT !.cref = n]
             f == [rad.bo EXCEPT ![b] = w]
  <2>1. rad.bo[b].cref > 0 /\ rad' = [rad EXCEPT !.bo = f]
    BY <1>2, <1>6, RadeonBoAssumption DEF radeon_bo_ref
  <2>2. RadBuffer(rad.bo[b]) /\ n \in Nat /\ n > 0
    BY <1>2, <2>1 DEF RadBuffer, RadMapped
  <2> HIDE DEF n, f
  <2>3. RadBuffer(w) /\ w.cref > 0 /\ w.handle = rad.bo[b].handle /\ w.obj = rad.bo[b].obj
    BY <2>2 DEF RadBuffer, RadFields, RadMapped
  <2> HIDE DEF w
  <2>4. rad' = [k |-> rad.k, bo |-> f, odd |-> rad.odd]
    BY <1>2, <2>1
  <2>5. f = [rad.bo EXCEPT ![b] = w]
    BY DEF f
  <2>6. rad.bo[b].cref > 0
    BY <2>1
  <2> QED BY <1>1, <2>3, <2>4, <2>5, <2>6, RadChanged
<1>7. ASSUME NEW b \in RadStructs, radeon_bo_unref(b) PROVE RadOK(rad')
  <2>1. rad.bo[b].cref > 0 /\ RadBuffer(rad.bo[b])
    BY <1>2, <1>7 DEF radeon_bo_unref
  <2>2. CASE rad.bo[b].cref > 1
    <3> DEFINE n == rad.bo[b].cref - 1
               w == [rad.bo[b] EXCEPT !.cref = n]
               f == [rad.bo EXCEPT ![b] = w]
    <3>1. rad' = [rad EXCEPT !.bo = f]
      BY <1>2, <1>7, <2>2 DEF radeon_bo_unref, bo_unref
    <3>2. n \in Nat /\ n > 0
      BY <2>1, <2>2 DEF RadBuffer, RadMapped
    <3> HIDE DEF n, f
    <3>3. RadBuffer(w) /\ w.cref > 0 /\ w.handle = rad.bo[b].handle /\ w.obj = rad.bo[b].obj
      BY <2>1, <3>2 DEF RadBuffer, RadFields, RadMapped
    <3> HIDE DEF w
    <3>4. rad' = [k |-> rad.k, bo |-> f, odd |-> rad.odd]
      BY <1>2, <3>1
    <3>5. f = [rad.bo EXCEPT ![b] = w]
      BY DEF f
    <3> QED BY <1>1, <2>1, <3>3, <3>4, <3>5, RadChanged
  <2>3. CASE ~ (rad.bo[b].cref > 1)
    <3> DEFINE q == GemClose(rad.k, rad.bo[b].handle)
               f == [rad.bo EXCEPT ![b] = NoRadBo]
    <3>1. rad' = [rad EXCEPT !.k = q, !.bo = f]
      BY <1>2, <1>7, <2>3 DEF radeon_bo_unref, bo_unref
    <3>2. KernelOK(q) /\ q.open = Unbind(rad.k.open, rad.bo[b].handle)
      BY <1>1, GemCloseIs
    <3>3. f = [rad.bo EXCEPT ![b] = NoRadBo]
      OBVIOUS
    <3> HIDE DEF q, f
    <3>4. rad' = [k |-> q, bo |-> f, odd |-> rad.odd]
      BY <1>2, <3>1
    <3> QED BY <1>1, <2>1, <3>2, <3>3, <3>4, RadClosed
  <2> QED BY <2>2, <2>3
<1>8. ASSUME NEW b \in RadStructs, NEW err, bo_map(b, err) PROVE RadOK(rad')
  <2> DEFINE bo == rad.bo[b]
             m == bo.map_count + 1
             g == bo.good + 1
             counted == [bo EXCEPT !.map_count = m]
             w == IF bo.map_count > 0 THEN [counted EXCEPT !.good = g]
                  ELSE IF err = "mmap" THEN [counted EXCEPT !.ptr = FALSE]
                  ELSE [counted EXCEPT !.priv = TRUE, !.ptr = TRUE, !.good = IF err = "none" THEN g ELSE bo.good]
             f == [rad.bo EXCEPT ![b] = w]
             z == IF bo.map_count > bo.good THEN "mapped after a failure" ELSE rad.odd
  <2>1. bo.cref > 0 /\ RadBuffer(bo)
    BY <1>2, <1>8 DEF bo_map
  <2>2. /\ counted = [cref |-> bo.cref, handle |-> bo.handle, obj |-> bo.obj, name |-> bo.name,
                      map_count |-> m, good |-> bo.good, priv |-> bo.priv, ptr |-> bo.ptr]
    <3> HIDE DEF m
    <3>1. RadFields(bo)
      BY <2>1 DEF RadBuffer
    <3> QED BY <3>1 DEF RadFields
  <2>3. rad' = [rad EXCEPT !.bo = f, !.odd = z]
    <3>1. rad' = [rad EXCEPT
           !.bo[b] = IF bo.map_count > 0 THEN [counted EXCEPT !.good = @ + 1]
                     ELSE IF err = "mmap" THEN [counted EXCEPT !.ptr = FALSE]
                     ELSE [counted EXCEPT !.priv = TRUE, !.ptr = TRUE,
                                          !.good = IF err = "none" THEN @ + 1 ELSE @],
           !.odd = IF bo.map_count > bo.good THEN "mapped after a failure" ELSE @]
      BY <1>8 DEF bo_map
    <3>2. counted.good = bo.good
      BY <2>2
    <3> HIDE DEF counted, z
    <3>3. rad' = [rad EXCEPT !.bo[b] = w, !.odd = z]
      BY <3>1, <3>2 DEF z
    <3> HIDE DEF w
    <3> QED BY <1>2, <3>3
  <2>4. rad' = [k |-> rad.k, bo |-> f, odd |-> z]
    <3> HIDE DEF f, z
    <3> QED BY <1>2, <2>3
  <2>5. CASE bo.map_count > bo.good
    <3>1. rad'.odd = "mapped after a failure"
      <4>1. z = "mapped after a failure"
        BY <2>5
      <4> HIDE DEF z, f
      <4> QED BY <2>4, <4>1
    <3> QED BY <3>1 DEF RadOK
  <2>6. CASE ~ (bo.map_count > bo.good)
    <3>1. /\ bo.good = bo.map_count /\ m \in Nat /\ g = m /\ m > 0
          /\ bo.map_count > 0 => bo.ptr = TRUE /\ bo.priv = TRUE
          /\ bo.cref \in Nat /\ bo.good \in Nat
      BY <2>1, <2>6 DEF RadBuffer, RadMapped
    <3>2. RadBuffer(w) /\ w.cref > 0 /\ w.handle = bo.handle /\ w.obj = bo.obj
      <4> HIDE DEF m, g, counted
      <4>1. CASE bo.map_count > 0
        <5>1. w = [cref |-> bo.cref, handle |-> bo.handle, obj |-> bo.obj, name |-> bo.name,
                   map_count |-> m, good |-> g, priv |-> bo.priv, ptr |-> bo.ptr]
          BY <2>2, <4>1
        <5> HIDE DEF w
        <5> QED BY <2>1, <3>1, <4>1, <5>1 DEF RadBuffer, RadFields, RadMapped
      <4>2. CASE ~ (bo.map_count > 0) /\ err = "mmap"
        <5>1. w = [cref |-> bo.cref, handle |-> bo.handle, obj |-> bo.obj, name |-> bo.name,
                   map_count |-> m, good |-> bo.good, priv |-> bo.priv, ptr |-> FALSE]
          BY <2>2, <4>2
        <5>2. bo.good = 0
          BY <3>1, <4>2
        <5> HIDE DEF w
        <5> QED BY <2>1, <3>1, <5>1, <5>2 DEF RadBuffer, RadFields, RadMapped
      <4>3. CASE ~ (bo.map_count > 0) /\ err # "mmap"
        <5> DEFINE e == IF err = "none" THEN g ELSE bo.good
        <5>1. w = [counted EXCEPT !.priv = TRUE, !.ptr = TRUE, !.good = e]
          BY <4>3
        <5>2. e = m \/ e = 0
          BY <3>1, <4>3
        <5> HIDE DEF e, w
        <5>3. w = [cref |-> bo.cref, handle |-> bo.handle, obj |-> bo.obj, name |-> bo.name,
                   map_count |-> m, good |-> e, priv |-> TRUE, ptr |-> TRUE]
          BY <2>2, <5>1
        <5> QED BY <2>1, <3>1, <5>2, <5>3 DEF RadBuffer, RadFields, RadMapped
      <4> QED BY <4>1, <4>2, <4>3
    <3> HIDE DEF w, z
    <3>3. f = [rad.bo EXCEPT ![b] = w]
      OBVIOUS
    <3> HIDE DEF f
    <3> QED BY <1>1, <2>1, <2>4, <3>2, <3>3, RadChanged
  <2> QED BY <2>5, <2>6
<1>9. ASSUME NEW b \in RadStructs, radeon_bo_unmap(b) PROVE RadOK(rad')
  <2> DEFINE bo == rad.bo[b]
             m == bo.map_count - 1
             g == bo.good - 1
             p == IF bo.map_count > 1 THEN bo.ptr ELSE FALSE
             w == [bo EXCEPT !.map_count = m, !.good = g, !.ptr = p]
             f == [rad.bo EXCEPT ![b] = w]
  <2>1. bo.cref > 0 /\ bo.good > 0 /\ RadBuffer(bo)
    BY <1>2, <1>9 DEF radeon_bo_unmap
  <2>2. rad' = [rad EXCEPT !.bo = f]
    BY <1>2, <1>9 DEF radeon_bo_unmap, bo_unmap
  <2>3. /\ m \in Nat /\ g = m /\ bo.cref \in Nat
        /\ m > 0 => p = TRUE /\ bo.priv = TRUE
    BY <2>1 DEF RadBuffer, RadMapped
  <2> HIDE DEF m, g, p
  <2>4. RadFields(bo)
    BY <2>1 DEF RadBuffer
  <2>5. w = [cref |-> bo.cref, handle |-> bo.handle, obj |-> bo.obj, name |-> bo.name,
             map_count |-> m, good |-> g, priv |-> bo.priv, ptr |-> p]
    <3>1. ASSUME NEW v, v = w PROVE v = [cref |-> bo.cref, handle |-> bo.handle, obj |-> bo.obj, name |-> bo.name,
             map_count |-> m, good |-> g, priv |-> bo.priv, ptr |-> p]
      BY <2>4, <3>1 DEF RadFields
    <3> QED BY <3>1
  <2>6. f = [rad.bo EXCEPT ![b] = w]
    OBVIOUS
  <2> HIDE DEF f, w
  <2>7. RadBuffer(w) /\ w.cref > 0 /\ w.handle = bo.handle /\ w.obj = bo.obj
    BY <2>1, <2>3, <2>5 DEF RadBuffer, RadFields, RadMapped
  <2>8. rad' = [k |-> rad.k, bo |-> f, odd |-> rad.odd]
    BY <1>2, <2>2
  <2> QED BY <1>1, <2>1, <2>6, <2>7, <2>8, RadChanged
<1>10. ASSUME NEW b \in RadStructs, radeon_gem_get_kernel_name(b) PROVE RadOK(rad')
  <2>1. rad.bo[b].cref > 0 /\ RadBuffer(rad.bo[b])
    BY <1>2, <1>10 DEF radeon_gem_get_kernel_name
  <2>2. CASE rad.bo[b].name = "handle"
    <3>1. rad' = [rad EXCEPT !.odd = "handle for a name"]
      BY <1>10, <2>2 DEF radeon_gem_get_kernel_name
    <3>2. rad'.odd = "handle for a name"
      BY <1>2, <3>1
    <3> QED BY <3>2 DEF RadOK
  <2>3. CASE rad.bo[b].name # "handle"
    <3> DEFINE q == GemFlink(rad.k, rad.bo[b].handle)
               w == [rad.bo[b] EXCEPT !.name = "flink"]
               f == [rad.bo EXCEPT ![b] = w]
    <3>1. rad' = [rad EXCEPT !.k = q, !.bo = f]
      BY <1>2, <1>10, <2>3 DEF radeon_gem_get_kernel_name
    <3>2. KernelOK(q) /\ q.open = rad.k.open
      BY <1>1, GemFlinkIs
    <3> HIDE DEF q, f
    <3>3. RadBuffer(w) /\ w.cref > 0 /\ w.handle = rad.bo[b].handle /\ w.obj = rad.bo[b].obj
      BY <2>1 DEF RadBuffer, RadFields, RadMapped
    <3> HIDE DEF w
    <3>4. rad' = [k |-> q, bo |-> f, odd |-> rad.odd]
      BY <1>2, <3>1
    <3>5. f = [rad.bo EXCEPT ![b] = w]
      BY DEF f
    <3> QED BY <1>1, <2>1, <3>2, <3>3, <3>4, <3>5, RadChanged
  <2> QED BY <2>2, <2>3
<1>11. ASSUME NEW b \in RadStructs, radeon_gem_prime_share_bo(b) PROVE RadOK(rad')
  <2> DEFINE q == PrimeExport(rad.k, rad.bo[b].handle)
  <2>1. rad.bo[b].cref > 0 /\ rad' = [rad EXCEPT !.k = q]
    BY <1>11 DEF radeon_gem_prime_share_bo
  <2>2. rad.bo[b].handle \in DOMAIN rad.k.open
    BY <1>1, <2>1 DEF RadGood, RadMatched
  <2>3. KernelOK(q) /\ q.open = rad.k.open
    BY <1>1, <2>2, PrimeExportIs
  <2> HIDE DEF q
  <2>4. rad' = [k |-> q, bo |-> rad.bo, odd |-> rad.odd]
    BY <1>2, <2>1
  <2>5. RadMatched(q, rad.bo)
    BY <1>1, <2>3 DEF RadGood, RadMatched
  <2> QED BY <1>2, <2>3, <2>4, <2>5, RadParts
<1> QED BY <1>3, <1>4, <1>5, <1>6, <1>7, <1>8, <1>9, <1>10, <1>11 DEF RadBoNext

(* No structure at first.                                                  *)
LEMMA RadInitOK ==
  ASSUME RadBoInit
  PROVE  RadOK(rad)
<1> DEFINE q == Kernel(RadForeign)
           f == [b \in RadStructs |-> NoRadBo]
<1>1. KernelOK(q) /\ DOMAIN q.open = {}
  BY KernelInit
<1>2. rad = [k |-> q, bo |-> f, odd |-> "no"]
  BY DEF RadBoInit
<1> HIDE DEF q
<1>3. \A b \in RadStructs : RadBuffer(f[b]) /\ ~ (f[b].cref > 0)
  BY RadUnused
<1>4. DOMAIN f = RadStructs
  OBVIOUS
<1> HIDE DEF f
<1>5. RadMatched(q, f)
  BY <1>1, <1>3 DEF RadMatched
<1> QED BY <1>1, <1>2, <1>3, <1>4, <1>5, RadParts

(* What the run checks follows.                                            *)
LEMMA RadOKSound ==
  ASSUME RadOK(rad)
  PROVE  RadeonBoSound
<1> SUFFICES ASSUME RadCalm PROVE RadeonBoSound
  BY DEF RadeonBoSound
<1> DEFINE held == {b \in RadStructs : rad.bo[b].cref > 0}
<1>1. RadGood(rad)
  BY DEF RadCalm, RadOK
<1>2. DOMAIN rad.k.open = {rad.bo[b].handle : b \in held}
  BY <1>1 DEF RadGood, RadMatched
<1>3. \A b \in held : rad.bo[b].obj = {rad.k.open[rad.bo[b].handle]}
  BY <1>1 DEF RadGood, RadMatched
<1>4. \A b \in held : rad.bo[b].good > 0 => rad.bo[b].ptr /\ rad.bo[b].priv
  <2> SUFFICES ASSUME NEW b \in held, rad.bo[b].good > 0 PROVE rad.bo[b].ptr /\ rad.bo[b].priv
    OBVIOUS
  <2>1. RadBuffer(rad.bo[b])
    BY <1>1 DEF RadGood
  <2>2. rad.bo[b].ptr = TRUE /\ rad.bo[b].priv = TRUE
    BY <2>1 DEF RadBuffer, RadMapped
  <2> QED BY <2>2
<1> QED BY <1>2, <1>3, <1>4 DEF RadeonBoSound

-----------------------------------------------------------------------------
(* Nouveau.                                                                *)

(* The fields of a structure of the nouveau library.                       *)
NvFields(w) ==
  w = [state |-> w.state, refcnt |-> w.refcnt, handle |-> w.handle, obj |-> w.obj, name |-> w.name, dels |-> w.dels]

(* References are to buffers on the list; a buffer without a name that a   *)
(* thread is about to delete has none, and only such a one is taken from   *)
(* the list before its handle is closed.                                   *)
NvBuffer(w) ==
  /\ NvFields(w)
  /\ w.state \in {"free", "listed", "unlisted"} /\ w.refcnt \in Nat /\ w.dels \in Nat
  /\ w.refcnt > 0 => w.state = "listed"
  /\ w.name = "none" /\ w.dels > 0 => w.refcnt = 0
  /\ w.state = "unlisted" => w.name = "none"

(* The handles that are not lost and the structures correspond one to one, *)
(* and a handle that the kernel finds again belongs to a buffer with a     *)
(* name, or is lost.                                                       *)
NvMatched(k, f, l) ==
  /\ \A b \in NvBos : f[b].state # "free" =>
       /\ f[b].handle \in DOMAIN k.open \ l
       /\ f[b].obj = {k.open[f[b].handle]}
       /\ f[b].handle \in k.prime => f[b].name # "none"
       /\ \A c \in NvBos \ {b} : f[c].state # "free" => f[c].handle # f[b].handle
  /\ \A h \in DOMAIN k.open \ l : \E b \in NvBos : f[b].state # "free" /\ f[b].handle = h
  /\ l \subseteq DOMAIN k.open

(* The invariant of the nouveau buffers.                                   *)
NvOK(x) ==
  /\ x = [k |-> x.k, bo |-> x.bo, lost |-> x.lost, odd |-> x.odd]
  /\ KernelOK(x.k)
  /\ DOMAIN x.bo = NvBos
  /\ \A b \in NvBos : NvBuffer(x.bo[b])
  /\ NvMatched(x.k, x.bo, x.lost)

(* The record of the library, put together from its parts.                 *)
LEMMA NvParts ==
  ASSUME NEW q, KernelOK(q), NEW f, DOMAIN f = NvBos,
         \A b \in NvBos : NvBuffer(f[b]), NEW l, NvMatched(q, f, l),
         NEW y, NEW z, y = [k |-> q, bo |-> f, lost |-> l, odd |-> z]
  PROVE  NvOK(y)
BY DEF NvOK

(* A structure for a handle that was not open, or was lost.                *)
LEMMA NvOpened ==
  ASSUME NEW x, NvOK(x), NEW q, KernelOK(q), NEW h, h \in DOMAIN x.k.open => h \in x.lost,
         DOMAIN q.open = DOMAIN x.k.open \cup {h}, \A g \in DOMAIN x.k.open : g # h => q.open[g] = x.k.open[g],
         q.prime \subseteq x.k.prime \cup {h},
         NEW b \in NvBos, x.bo[b].state = "free",
         NEW w, NvBuffer(w), w.state = "listed", w.handle = h, w.obj = {q.open[h]},
         h \in q.prime => w.name # "none",
         NEW f, f = [x.bo EXCEPT ![b] = w], NEW l, l = x.lost \ {h}, NEW y, NEW z, y = [k |-> q, bo |-> f, lost |-> l, odd |-> z]
  PROVE  NvOK(y)
<1>2. /\ DOMAIN f = NvBos
      /\ \A c \in NvBos : f[c] = IF c = b THEN w ELSE x.bo[c]
  BY DEF NvOK
<1>3. \A c \in NvBos : NvBuffer(f[c])
  BY <1>2 DEF NvOK
<1>4. NvMatched(q, f, l)
  <2>1. ASSUME NEW c \in NvBos, f[c].state # "free"
        PROVE  /\ f[c].handle \in DOMAIN q.open \ l
               /\ f[c].obj = {q.open[f[c].handle]}
               /\ f[c].handle \in q.prime => f[c].name # "none"
               /\ \A d \in NvBos \ {c} : f[d].state # "free" => f[d].handle # f[c].handle
    <3>1. CASE c = b
      <4>1. f[c] = w /\ \A d \in NvBos \ {c} : f[d] = x.bo[d]
        BY <1>2, <3>1
      <4>2. \A d \in NvBos : x.bo[d].state # "free" => x.bo[d].handle \in DOMAIN x.k.open \ x.lost
        BY DEF NvOK, NvMatched
      <4> QED BY <4>1, <4>2
    <3>2. CASE c # b
      <4>1. f[c] = x.bo[c] /\ x.bo[c].state # "free"
        BY <1>2, <2>1, <3>2
      <4>2. /\ x.bo[c].handle \in DOMAIN x.k.open \ x.lost
            /\ x.bo[c].obj = {x.k.open[x.bo[c].handle]}
            /\ x.bo[c].handle \in x.k.prime => x.bo[c].name # "none"
            /\ \A d \in NvBos \ {c} : x.bo[d].state # "free" => x.bo[d].handle # x.bo[c].handle
        BY <4>1 DEF NvOK, NvMatched
      <4> QED BY <1>2, <4>1, <4>2
    <3> QED BY <3>1, <3>2
  <2>2. ASSUME NEW g \in DOMAIN q.open \ l PROVE \E c \in NvBos : f[c].state # "free" /\ f[c].handle = g
    <3>1. CASE g = h
      BY <1>2, <3>1
    <3>2. CASE g # h
      <4>1. PICK c \in NvBos : x.bo[c].state # "free" /\ x.bo[c].handle = g
        BY <3>2 DEF NvOK, NvMatched
      <4>2. f[c] = x.bo[c]
        BY <1>2, <4>1
      <4> QED BY <4>1, <4>2
    <3> QED BY <3>1, <3>2
  <2>3. l \subseteq DOMAIN q.open
    BY DEF NvOK, NvMatched
  <2> QED BY <2>1, <2>2, <2>3 DEF NvMatched
<1> QED BY <1>2, <1>3, <1>4, NvParts

(* A change of a structure that leaves its handle.                         *)
LEMMA NvChanged ==
  ASSUME NEW x, NvOK(x), NEW q, KernelOK(q), q.open = x.k.open, NEW b \in NvBos,
         q.prime \subseteq x.k.prime \cup {x.bo[b].handle},
         NEW w, NvBuffer(w), w.state = "free" <=> x.bo[b].state = "free",
         w.handle = x.bo[b].handle, w.obj = x.bo[b].obj,
         w.state # "free" /\ w.handle \in q.prime => w.name # "none",
         x.bo[b].state = "free" => q.prime \subseteq x.k.prime,
         NEW f, f = [x.bo EXCEPT ![b] = w], NEW y, NEW z, y = [k |-> q, bo |-> f, lost |-> x.lost, odd |-> z]
  PROVE  NvOK(y)
<1>1. /\ DOMAIN f = NvBos
      /\ \A c \in NvBos : f[c] = IF c = b THEN w ELSE x.bo[c]
  BY DEF NvOK
<1>2. \A c \in NvBos : NvBuffer(f[c])
  BY <1>1 DEF NvOK
<1>3. \A c \in NvBos : /\ f[c].state = "free" <=> x.bo[c].state = "free"
                       /\ f[c].handle = x.bo[c].handle
                       /\ f[c].obj = x.bo[c].obj
  BY <1>1
<1>4. NvMatched(x.k, x.bo, x.lost)
  BY DEF NvOK
<1>5. ASSUME NEW c \in NvBos, f[c].state # "free", f[c].handle \in q.prime PROVE f[c].name # "none"
  <2>1. CASE c = b
    BY <1>1, <1>5, <2>1
  <2>2. CASE c # b
    <3>1. f[c] = x.bo[c] /\ x.bo[c].state # "free"
      BY <1>1, <1>5, <2>2
    <3>2. x.bo[b].state # "free" => x.bo[c].handle # x.bo[b].handle
      BY <1>4, <2>2, <3>1 DEF NvMatched
    <3>3. x.bo[c].handle \in x.k.prime
      BY <1>5, <3>1, <3>2
    <3> QED BY <1>4, <3>1, <3>3 DEF NvMatched
  <2> QED BY <2>1, <2>2
<1>6. NvMatched(q, f, x.lost)
  BY <1>3, <1>4, <1>5 DEF NvMatched
<1> QED BY <1>1, <1>2, <1>6, NvParts

(* The handle of a structure is closed and the structure freed.            *)
LEMMA NvClosed ==
  ASSUME NEW x, NvOK(x), NEW b \in NvBos, x.bo[b].state # "free",
         NEW q, KernelOK(q), q.open = Unbind(x.k.open, x.bo[b].handle), q.prime \subseteq x.k.prime,
         NEW w, NvBuffer(w), w.state = "free",
         NEW f, f = [x.bo EXCEPT ![b] = w], NEW y, NEW z, y = [k |-> q, bo |-> f, lost |-> x.lost, odd |-> z]
  PROVE  NvOK(y)
<1> DEFINE h == x.bo[b].handle
<1>1. /\ DOMAIN q.open = DOMAIN x.k.open \ {h}
      /\ \A g \in DOMAIN x.k.open : g # h => q.open[g] = x.k.open[g]
  BY DEF Unbind
<1>2. /\ DOMAIN f = NvBos
      /\ \A c \in NvBos : f[c] = IF c = b THEN w ELSE x.bo[c]
  BY DEF NvOK
<1>3. \A c \in NvBos : NvBuffer(f[c])
  BY <1>2 DEF NvOK
<1>4. NvMatched(q, f, x.lost)
  <2>1. ASSUME NEW c \in NvBos, f[c].state # "free"
        PROVE  /\ f[c].handle \in DOMAIN q.open \ x.lost
               /\ f[c].obj = {q.open[f[c].handle]}
               /\ f[c].handle \in q.prime => f[c].name # "none"
               /\ \A d \in NvBos \ {c} : f[d].state # "free" => f[d].handle # f[c].handle
    <3>1. c # b /\ f[c] = x.bo[c] /\ x.bo[c].state # "free"
      BY <1>2, <2>1
    <3>2. /\ x.bo[c].handle \in DOMAIN x.k.open \ x.lost
          /\ x.bo[c].obj = {x.k.open[x.bo[c].handle]}
          /\ x.bo[c].handle \in x.k.prime => x.bo[c].name # "none"
          /\ \A d \in NvBos \ {c} : x.bo[d].state # "free" => x.bo[d].handle # x.bo[c].handle
      BY <3>1 DEF NvOK, NvMatched
    <3>3. \A d \in NvBos : f[d].state # "free" => f[d] = x.bo[d]
      BY <1>2
    <3> QED BY <1>1, <3>1, <3>2, <3>3
  <2>2. ASSUME NEW g \in DOMAIN q.open \ x.lost PROVE \E c \in NvBos : f[c].state # "free" /\ f[c].handle = g
    <3>1. PICK c \in NvBos : x.bo[c].state # "free" /\ x.bo[c].handle = g
      BY <1>1 DEF NvOK, NvMatched
    <3>2. f[c] = x.bo[c]
      BY <1>1, <1>2, <3>1
    <3> QED BY <3>1, <3>2
  <2>3. x.lost \subseteq DOMAIN q.open
    BY <1>1 DEF NvOK, NvMatched
  <2> QED BY <2>1, <2>2, <2>3 DEF NvMatched
<1> QED BY <1>2, <1>3, <1>4, NvParts

(* The structure that a call takes is not in use.                          *)
LEMMA FreshNvIs ==
  ASSUME NEW b \in FreshNv
  PROVE  b \in NvBos /\ nv.bo[b].state = "free"
<1> DEFINE U == {c \in NvBos : nv.bo[c].state = "free" /\ nv.bo[c].dels = 0}
<1>1. CASE U = {}
  BY <1>1 DEF FreshNv
<1>2. CASE U # {}
  <2>1. (CHOOSE c \in U : TRUE) \in U
    BY <1>2
  <2>2. b = CHOOSE c \in U : TRUE
    BY <1>2 DEF FreshNv
  <2> QED BY <2>1, <2>2
<1> QED BY <1>1, <1>2

(* What NewNvBo and the reference of nouveau_bo_wrap_locked make.          *)
LEMMA NewNvBoIs ==
  ASSUME NEW q, NEW g, NEW l, NEW z, NEW s, s = [k |-> q, bo |-> g, lost |-> l, odd |-> z],
         NEW b \in DOMAIN g, NEW h, NEW n,
         NEW v, v = [state |-> "listed", refcnt |-> 1, handle |-> h, obj |-> {q.open[h]}, name |-> n, dels |-> 0],
         NEW f, f = [g EXCEPT ![b] = v]
  PROVE  NewNvBo(s, b, h, n) = [k |-> q, bo |-> f, lost |-> l, odd |-> z]
<1> DEFINE P == {s.k.open[h]}
           w == [NoNvBo EXCEPT !.state = "listed", !.refcnt = 1, !.handle = h, !.obj = P, !.name = n]
           y == NewNvBo(s, b, h, n)
<1>1. w = v
  <2>1. v = [state |-> "listed", refcnt |-> 1, handle |-> h, obj |-> P, name |-> n, dels |-> 0]
    OBVIOUS
  <2> HIDE DEF P
  <2>2. ASSUME NEW u, u = w PROVE u = [state |-> "listed", refcnt |-> 1, handle |-> h, obj |-> P, name |-> n, dels |-> 0]
    BY <2>2 DEF NoNvBo
  <2> QED BY <2>1, <2>2
<1>2. y = [s EXCEPT !.bo[b] = w]
  BY DEF NewNvBo
<1> HIDE DEF w, y
<1>3. y = [s EXCEPT !.bo = f]
  BY <1>1, <1>2
<1>4. y = [k |-> q, bo |-> f, lost |-> l, odd |-> z]
  BY <1>3
<1> QED BY <1>4 DEF y

(* A reference more.                                                       *)
LEMMA NvRefIs ==
  ASSUME NEW v, NvBuffer(v), v.state = "listed", v.name = "none" => v.refcnt > 0,
         NEW w, w = [v EXCEPT !.refcnt = @ + 1]
  PROVE  /\ NvBuffer(w) /\ w.state = v.state /\ w.handle = v.handle /\ w.obj = v.obj
         /\ w.name = v.name /\ w.dels = v.dels
<1> DEFINE n == v.refcnt + 1
<1>1. n \in Nat /\ n > 0
  BY DEF NvBuffer
<1>2. v.name = "none" => ~ (v.dels > 0)
  BY DEF NvBuffer
<1> HIDE DEF n
<1>3. w = [v EXCEPT !.refcnt = n]
  BY DEF n
<1>4. w = [state |-> v.state, refcnt |-> n, handle |-> v.handle, obj |-> v.obj, name |-> v.name, dels |-> v.dels]
  BY <1>3 DEF NvBuffer, NvFields
<1> QED BY <1>1, <1>2, <1>4 DEF NvBuffer, NvFields

(* nouveau_bo_wrap_locked: a buffer on the list has a reference more, or a *)
(* new one is made.                                                        *)
LEMMA NvWrapIs ==
  ASSUME NEW q, NEW g, NEW l, NEW z, NEW s, s = [k |-> q, bo |-> g, lost |-> l, odd |-> z], DOMAIN g = NvBos,
         NEW h, NEW fresh \in NvBos
  PROVE  LET r == nouveau_bo_wrap_locked(s, h, fresh)
             b == r.bo
             w == g[b]
         IN  \/ /\ b \in NvBos /\ w.state = "listed" /\ w.handle = h
                /\ r.s = [k |-> q, bo |-> [g EXCEPT ![b] = [w EXCEPT !.refcnt = @ + 1]], lost |-> l, odd |-> z]
             \/ /\ \A c \in NvBos : g[c].state = "listed" => g[c].handle # h
                /\ b = fresh
                /\ r.s = [k |-> q, lost |-> l \ {h}, odd |-> z,
                          bo |-> [g EXCEPT ![b] = [state |-> "listed", refcnt |-> 1, handle |-> h, obj |-> {q.open[h]},
                                                   name |-> "none", dels |-> 0]]]
<1> DEFINE known == {b \in Listed(s) : s.bo[b].handle = h}
           r == nouveau_bo_wrap_locked(s, h, fresh)
<1>0. known = {b \in NvBos : g[b].state = "listed" /\ g[b].handle = h}
  BY DEF Listed
<1>1. CASE known # {}
  <2> DEFINE b == CHOOSE b \in known : TRUE
             w == [g[b] EXCEPT !.refcnt = @ + 1]
             f == [g EXCEPT ![b] = w]
             y == [s EXCEPT !.bo[b].refcnt = @ + 1]
  <2>1. r = [s |-> y, bo |-> b]
    BY <1>1 DEF nouveau_bo_wrap_locked
  <2>2. b \in known
    BY <1>1
  <2>3. b \in NvBos /\ g[b].state = "listed" /\ g[b].handle = h
    BY <1>0, <2>2
  <2> HIDE DEF b
  <2>4. y = [s EXCEPT !.bo = f]
    BY <2>3
  <2>5. f = [g EXCEPT ![b] = w]
    OBVIOUS
  <2> HIDE DEF f, y
  <2>6. y = [k |-> q, bo |-> f, lost |-> l, odd |-> z]
    BY <2>4
  <2>7. r.s = y /\ r.bo = b
    BY <2>1
  <2> HIDE DEF r
  <2> QED BY <2>3, <2>5, <2>6, <2>7 DEF r
<1>2. CASE known = {}
  <2>1. r = [s |-> NewNvBo([s EXCEPT !.lost = @ \ {h}], fresh, h, "none"), bo |-> fresh]
    BY <1>2 DEF nouveau_bo_wrap_locked
  <2>2. \A c \in NvBos : g[c].state = "listed" => g[c].handle # h
    BY <1>0, <1>2
  <2>3. r.bo = fresh /\ r.s = NewNvBo([s EXCEPT !.lost = @ \ {h}], fresh, h, "none")
    BY <2>1
  <2> DEFINE v == [state |-> "listed", refcnt |-> 1, handle |-> h, obj |-> {q.open[h]}, name |-> "none", dels |-> 0]
             f == [g EXCEPT ![fresh] = v]
  <2> HIDE DEF r
  <2>4. /\ v = [state |-> "listed", refcnt |-> 1, handle |-> h, obj |-> {q.open[h]}, name |-> "none", dels |-> 0]
        /\ f = [g EXCEPT ![fresh] = v]
    OBVIOUS
  <2> HIDE DEF v, f
  <2> DEFINE m == l \ {h}
             u == [s EXCEPT !.lost = @ \ {h}]
  <2>5. u = [k |-> q, bo |-> g, lost |-> m, odd |-> z]
    OBVIOUS
  <2> HIDE DEF m, u
  <2>6. NewNvBo(u, fresh, h, "none") = [k |-> q, bo |-> f, lost |-> m, odd |-> z]
    BY <2>4, <2>5, NewNvBoIs
  <2> QED BY <2>2, <2>3, <2>6 DEF r, v, f, m, u
<1> QED BY <1>1, <1>2

(* A new structure.                                                        *)
LEMMA NvNewOK ==
  ASSUME NvOK(nv), NEW q, KernelOK(q), NEW h, h \in DOMAIN nv.k.open => h \in nv.lost,
         DOMAIN q.open = DOMAIN nv.k.open \cup {h}, \A g \in DOMAIN nv.k.open : g # h => q.open[g] = nv.k.open[g],
         q.prime \subseteq nv.k.prime \cup {h},
         NEW b \in FreshNv, NEW n, h \in q.prime => n # "none",
         NEW w, w = [state |-> "listed", refcnt |-> 1, handle |-> h, obj |-> {q.open[h]}, name |-> n, dels |-> 0],
         NEW f, f = [nv.bo EXCEPT ![b] = w], NEW l, l = nv.lost \ {h},
         NEW y, NEW z, y = [k |-> q, bo |-> f, lost |-> l, odd |-> z]
  PROVE  NvOK(y)
<1>1. b \in NvBos /\ nv.bo[b].state = "free"
  BY FreshNvIs
<1>2. /\ NvBuffer(w) /\ w.state = "listed" /\ w.handle = h /\ w.obj = {q.open[h]} /\ w.name = n
  <2> DEFINE P == {q.open[h]}
  <2>1. w = [state |-> "listed", refcnt |-> 1, handle |-> h, obj |-> P, name |-> n, dels |-> 0]
    OBVIOUS
  <2> HIDE DEF P
  <2>2. NvBuffer(w) /\ w.state = "listed" /\ w.handle = h /\ w.obj = P /\ w.name = n
    BY <2>1 DEF NvBuffer, NvFields
  <2> QED BY <2>2 DEF P
<1> QED BY <1>1, <1>2, NvOpened

(* A reference more to a structure on the list, which has a name or is     *)
(* referred to.                                                            *)
LEMMA NvRefOK ==
  ASSUME NvOK(nv), NEW q, KernelOK(q), q.open = nv.k.open, q.prime \subseteq nv.k.prime,
         NEW b \in NvBos, nv.bo[b].state = "listed", nv.bo[b].name = "none" => nv.bo[b].refcnt > 0,
         NEW w, w = [nv.bo[b] EXCEPT !.refcnt = @ + 1], NEW f, f = [nv.bo EXCEPT ![b] = w],
         NEW y, NEW z, y = [k |-> q, bo |-> f, lost |-> nv.lost, odd |-> z]
  PROVE  NvOK(y)
<1>1. NvBuffer(nv.bo[b])
  BY DEF NvOK
<1>2. NvBuffer(w) /\ w.state = nv.bo[b].state /\ w.handle = nv.bo[b].handle /\ w.obj = nv.bo[b].obj /\ w.name = nv.bo[b].name
  BY <1>1, NvRefIs
<1>3. nv.bo[b].handle \in nv.k.prime => nv.bo[b].name # "none"
  BY DEF NvOK, NvMatched
<1>4. w.state # "free" /\ w.handle \in q.prime => w.name # "none"
  BY <1>2, <1>3
<1>5. w.state = "free" <=> nv.bo[b].state = "free"
  BY <1>2
<1> QED BY <1>2, <1>4, <1>5, NvChanged

(* A buffer that is referred to, or has a name, gets another name.         *)
LEMMA NvNameOK ==
  ASSUME NEW x, NvOK(x), NEW q, KernelOK(q), q.open = x.k.open, NEW b \in NvBos, x.bo[b].state = "listed",
         q.prime \subseteq x.k.prime \cup {x.bo[b].handle},
         NEW n, n # "none", NEW w, w = [x.bo[b] EXCEPT !.name = n], NEW f, f = [x.bo EXCEPT ![b] = w],
         NEW y, NEW z, y = [k |-> q, bo |-> f, lost |-> x.lost, odd |-> z]
  PROVE  NvOK(y)
<1>1. NvBuffer(x.bo[b])
  BY DEF NvOK
<1>2. /\ NvBuffer(w) /\ w.state = x.bo[b].state /\ w.handle = x.bo[b].handle /\ w.obj = x.bo[b].obj
      /\ w.name # "none"
  BY <1>1 DEF NvBuffer, NvFields
<1>5. w.state = "free" <=> x.bo[b].state = "free"
  BY <1>2
<1> QED BY <1>2, <1>5, NvChanged

(* nouveau_bo_del leaves the buffer on the list, or takes it from there.   *)
LEMMA NvDelOK ==
  ASSUME NvOK(nv), NEW b \in NvBos, NEW w, NvBuffer(w), w.state = "free" <=> nv.bo[b].state = "free",
         w.handle = nv.bo[b].handle, w.obj = nv.bo[b].obj, w.name = nv.bo[b].name,
         NEW f, f = [nv.bo EXCEPT ![b] = w], NEW y, NEW z, y = [k |-> nv.k, bo |-> f, lost |-> nv.lost, odd |-> z]
  PROVE  NvOK(y)
<1>1. KernelOK(nv.k)
  BY DEF NvOK
<1>2. w.state # "free" /\ w.handle \in nv.k.prime => w.name # "none"
  BY DEF NvOK, NvMatched
<1> QED BY <1>1, <1>2, NvChanged

(* A field of a structure.                                                 *)
LEMMA NvSetName ==
  ASSUME NEW q, NEW g, NEW l, NEW z, NEW s, s = [k |-> q, bo |-> g, lost |-> l, odd |-> z], NEW b \in DOMAIN g, NEW n,
         NEW w, w = [g[b] EXCEPT !.name = n], NEW f, f = [g EXCEPT ![b] = w],
         NEW y, y = [s EXCEPT !.bo[b].name = n]
  PROVE  y = [k |-> q, bo |-> f, lost |-> l, odd |-> z]
<1>1. y = [s EXCEPT !.bo = f]
  OBVIOUS
<1> QED BY <1>1

(* Marked gives a buffer without a name one.                               *)
LEMMA MarkedIs ==
  ASSUME NEW q, NEW g, NEW l, NEW z, NEW s, s = [k |-> q, bo |-> g, lost |-> l, odd |-> z], NEW b \in DOMAIN g, NEW n,
         n = IF g[b].name = "none" THEN "prime" ELSE g[b].name,
         NEW w, w = [g[b] EXCEPT !.name = n], NEW f, f = [g EXCEPT ![b] = w]
  PROVE  n # "none" /\ Marked(s, b) = [k |-> q, bo |-> f, lost |-> l, odd |-> z]
<1> DEFINE y == Marked(s, b)
<1>1. y = [s EXCEPT !.bo[b].name = n]
  BY DEF Marked
<1> HIDE DEF y
<1>2. y = [k |-> q, bo |-> f, lost |-> l, odd |-> z]
  BY <1>1, NvSetName
<1> QED BY <1>2 DEF y

(* An import opened a handle, or found one, that no structure has, and     *)
(* failed.                                                                 *)
LEMMA NvLostOK ==
  ASSUME NvOK(nv), NEW q, KernelOK(q), NEW h, DOMAIN q.open = DOMAIN nv.k.open \cup {h},
         \A g \in DOMAIN nv.k.open : q.open[g] = nv.k.open[g], q.prime \subseteq nv.k.prime \cup {h},
         \A b \in NvBos : nv.bo[b].state # "free" => nv.bo[b].handle # h,
         NEW l, l = nv.lost \cup {h}, NEW y, NEW z, y = [k |-> q, bo |-> nv.bo, lost |-> l, odd |-> z]
  PROVE  NvOK(y)
<1>1. DOMAIN nv.bo = NvBos /\ (\A b \in NvBos : NvBuffer(nv.bo[b])) /\ NvMatched(nv.k, nv.bo, nv.lost)
  BY DEF NvOK
<1>2. NvMatched(q, nv.bo, l)
  <2>1. ASSUME NEW b \in NvBos, nv.bo[b].state # "free"
        PROVE  /\ nv.bo[b].handle \in DOMAIN q.open \ l
               /\ nv.bo[b].obj = {q.open[nv.bo[b].handle]}
               /\ nv.bo[b].handle \in q.prime => nv.bo[b].name # "none"
               /\ \A c \in NvBos \ {b} : nv.bo[c].state # "free" => nv.bo[c].handle # nv.bo[b].handle
    <3>1. /\ nv.bo[b].handle \in DOMAIN nv.k.open \ nv.lost
          /\ nv.bo[b].obj = {nv.k.open[nv.bo[b].handle]}
          /\ nv.bo[b].handle \in nv.k.prime => nv.bo[b].name # "none"
          /\ \A c \in NvBos \ {b} : nv.bo[c].state # "free" => nv.bo[c].handle # nv.bo[b].handle
      BY <1>1, <2>1 DEF NvMatched
    <3>2. nv.bo[b].handle # h
      BY <2>1
    <3> QED BY <3>1, <3>2
  <2>2. ASSUME NEW g \in DOMAIN q.open \ l PROVE \E b \in NvBos : nv.bo[b].state # "free" /\ nv.bo[b].handle = g
    <3>1. g \in DOMAIN nv.k.open \ nv.lost
      OBVIOUS
    <3> QED BY <1>1, <3>1 DEF NvMatched
  <2>3. l \subseteq DOMAIN q.open
    BY <1>1 DEF NvMatched
  <2> QED BY <2>1, <2>2, <2>3 DEF NvMatched
<1> QED BY <1>1, <1>2, NvParts

(* nouveau_bo_prime_handle_ref.                                            *)
LEMMA NvPrimeRefOK ==
  ASSUME NvOK(nv), NEW o, nouveau_bo_prime_handle_ref(o)
  PROVE  NvOK(nv')
<1> DEFINE r == PrimeOpen(nv.k, o)
           q == r.k
           h == r.handle
           s == [nv EXCEPT !.k = q]
<1>1. PICK fresh \in FreshNv : LET w == nouveau_bo_wrap_locked(s, h, fresh) IN nv' = Marked(w.s, w.bo)
  BY DEF nouveau_bo_prime_handle_ref
<1> DEFINE v == nouveau_bo_wrap_locked(s, h, fresh)
           b == v.bo
           t == v.s
<1>2. /\ KernelOK(nv.k) /\ DOMAIN nv.bo = NvBos
      /\ \A c \in NvBos : NvBuffer(nv.bo[c])
      /\ NvMatched(nv.k, nv.bo, nv.lost)
  BY DEF NvOK
<1>3. /\ KernelOK(q)
      /\ \/ h \in nv.k.prime /\ h \in DOMAIN nv.k.open /\ q = nv.k
         \/ h \notin DOMAIN nv.k.open /\ q.open = Bind(nv.k.open, h, o) /\ q.prime = nv.k.prime \cup {h}
  BY <1>2, PrimeOpenIs
<1> HIDE DEF r
<1>4. s = [k |-> q, bo |-> nv.bo, lost |-> nv.lost, odd |-> nv.odd]
  <2> HIDE DEF q
  <2> QED BY DEF NvOK
<1>5. fresh \in NvBos /\ nv.bo[fresh].state = "free"
  BY FreshNvIs
<1>6. nv' = Marked(t, b)
  BY <1>1
<1> HIDE DEF s, q, h
<1>7. \/ /\ b \in NvBos /\ nv.bo[b].state = "listed" /\ nv.bo[b].handle = h
         /\ t = [k |-> q, bo |-> [nv.bo EXCEPT ![b] = [nv.bo[b] EXCEPT !.refcnt = @ + 1]], lost |-> nv.lost, odd |-> nv.odd]
      \/ /\ \A c \in NvBos : nv.bo[c].state = "listed" => nv.bo[c].handle # h
         /\ b = fresh
         /\ t = [k |-> q, lost |-> nv.lost \ {h}, odd |-> nv.odd,
                 bo |-> [nv.bo EXCEPT ![b] = [state |-> "listed", refcnt |-> 1, handle |-> h, obj |-> {q.open[h]},
                                             name |-> "none", dels |-> 0]]]
  <2> DEFINE g == nv.bo
             l == nv.lost
             z == nv.odd
             m == l \ {h}
             P == {q.open[h]}
             new == [state |-> "listed", refcnt |-> 1, handle |-> h, obj |-> P, name |-> "none", dels |-> 0]
  <2>1. s = [k |-> q, bo |-> g, lost |-> l, odd |-> z] /\ DOMAIN g = NvBos
    BY <1>2, <1>4
  <2> HIDE DEF g, l, z
  <2>2. \/ /\ b \in NvBos /\ g[b].state = "listed" /\ g[b].handle = h
           /\ t = [k |-> q, bo |-> [g EXCEPT ![b] = [g[b] EXCEPT !.refcnt = @ + 1]], lost |-> l, odd |-> z]
        \/ /\ \A c \in NvBos : g[c].state = "listed" => g[c].handle # h
           /\ b = fresh
           /\ t = [k |-> q, bo |-> [g EXCEPT ![b] = new], lost |-> m, odd |-> z]
    BY <1>5, <2>1, NvWrapIs
  <2> HIDE DEF v, b, t, m, P
  <2> QED BY <2>2 DEF g, l, z, m, P
<1> HIDE DEF v, b, t
<1>8. CASE /\ b \in NvBos /\ nv.bo[b].state = "listed" /\ nv.bo[b].handle = h
           /\ t = [k |-> q, bo |-> [nv.bo EXCEPT ![b] = [nv.bo[b] EXCEPT !.refcnt = @ + 1]], lost |-> nv.lost, odd |-> nv.odd]
  <2>1. h \in DOMAIN nv.k.open
    BY <1>2, <1>8 DEF NvMatched
  <2>2. h \in nv.k.prime /\ q = nv.k
    BY <1>3, <2>1
  <2>3. nv.bo[b].name # "none"
    BY <1>2, <1>8, <2>2 DEF NvMatched
  <2> DEFINE w == [nv.bo[b] EXCEPT !.refcnt = @ + 1]
             f == [nv.bo EXCEPT ![b] = w]
             n == IF f[b].name = "none" THEN "prime" ELSE f[b].name
             u == [f[b] EXCEPT !.name = n]
             e == [f EXCEPT ![b] = u]
  <2>4. w = [nv.bo[b] EXCEPT !.refcnt = @ + 1] /\ f = [nv.bo EXCEPT ![b] = w]
    OBVIOUS
  <2>5. t = [k |-> q, bo |-> f, lost |-> nv.lost, odd |-> nv.odd]
    BY <1>8
  <2>6. b \in NvBos /\ nv.bo[b].state = "listed"
    BY <1>8
  <2>7. f[b] = w /\ DOMAIN f = NvBos
    BY <1>2, <2>6
  <2>8. /\ n = IF f[b].name = "none" THEN "prime" ELSE f[b].name
        /\ u = [f[b] EXCEPT !.name = n]
        /\ e = [f EXCEPT ![b] = u]
    OBVIOUS
  <2> HIDE DEF w, f, n, u, e
  <2>9. NvOK(t)
    BY <1>2, <2>2, <2>3, <2>4, <2>5, <2>6, NvRefOK
  <2>10. n # "none" /\ Marked(t, b) = [k |-> q, bo |-> e, lost |-> nv.lost, odd |-> nv.odd]
    BY <2>5, <2>6, <2>7, <2>8, MarkedIs
  <2>11. /\ t.k = q /\ t.bo = f /\ t.lost = nv.lost /\ t.bo[b].state = "listed"
    <3>1. NvBuffer(nv.bo[b])
      BY <1>2, <2>6
    <3>2. w.state = nv.bo[b].state
      BY <2>3, <2>4, <2>6, <3>1, NvRefIs
    <3> QED BY <2>5, <2>6, <2>7, <3>2
  <2>12. u = [t.bo[b] EXCEPT !.name = n] /\ e = [t.bo EXCEPT ![b] = u] /\ q.open = t.k.open /\ q.prime \subseteq t.k.prime \cup {t.bo[b].handle}
    BY <2>8, <2>11
  <2>13. nv' = [k |-> q, bo |-> e, lost |-> nv.lost, odd |-> nv.odd]
    BY <1>6, <2>10
  <2>14. t.bo[b].state = "listed" /\ n # "none"
    BY <2>10, <2>11
  <2> QED BY <1>3, <2>6, <2>9, <2>11, <2>12, <2>13, <2>14, NvNameOK
<1>9. CASE /\ \A c \in NvBos : nv.bo[c].state = "listed" => nv.bo[c].handle # h
           /\ b = fresh
           /\ t = [k |-> q, lost |-> nv.lost \ {h}, odd |-> nv.odd,
                   bo |-> [nv.bo EXCEPT ![b] = [state |-> "listed", refcnt |-> 1, handle |-> h, obj |-> {q.open[h]},
                                               name |-> "none", dels |-> 0]]]
  <2>1. h \in DOMAIN nv.k.open => h \in nv.lost
    <3> SUFFICES ASSUME h \in DOMAIN nv.k.open \ nv.lost PROVE FALSE
      OBVIOUS
    <3>1. h \in nv.k.prime
      BY <1>3
    <3>2. PICK c \in NvBos : nv.bo[c].state # "free" /\ nv.bo[c].handle = h
      BY <1>2 DEF NvMatched
    <3>3. nv.bo[c].name # "none"
      BY <1>2, <3>1, <3>2 DEF NvMatched
    <3>4. NvBuffer(nv.bo[c])
      BY <1>2
    <3>5. nv.bo[c].state = "unlisted"
      BY <1>9, <3>2, <3>4 DEF NvBuffer
    <3> QED BY <3>3, <3>4, <3>5 DEF NvBuffer
  <2> DEFINE P == {q.open[h]}
             w == [state |-> "listed", refcnt |-> 1, handle |-> h, obj |-> P, name |-> "none", dels |-> 0]
             f == [nv.bo EXCEPT ![b] = w]
             u == [f[b] EXCEPT !.name = "prime"]
             e == [f EXCEPT ![b] = u]
             l == nv.lost \ {h}
  <2>2. t = [k |-> q, bo |-> f, lost |-> l, odd |-> nv.odd]
    BY <1>9
  <2>3. b \in FreshNv /\ b \in NvBos
    BY <1>1, <1>5, <1>9
  <2>4. f[b] = w /\ DOMAIN f = NvBos
    BY <1>2, <2>3
  <2>5. u = [f[b] EXCEPT !.name = "prime"] /\ e = [f EXCEPT ![b] = u]
    OBVIOUS
  <2>6. e = [nv.bo EXCEPT ![b] = u]
    <3> HIDE DEF u, w
    <3> QED BY <1>2, <2>3
  <2>7. u = [state |-> "listed", refcnt |-> 1, handle |-> h, obj |-> P, name |-> "prime", dels |-> 0]
    <3>1. u = [w EXCEPT !.name = "prime"]
      BY <2>4
    <3> HIDE DEF u, P
    <3> QED BY <3>1
  <2>8. "prime" = IF f[b].name = "none" THEN "prime" ELSE f[b].name
    <3> HIDE DEF f
    <3> QED BY <2>4
  <2>12. l = nv.lost \ {h}
    OBVIOUS
  <2> HIDE DEF w, f, u, e, l
  <2>9. Marked(t, b) = [k |-> q, bo |-> e, lost |-> l, odd |-> nv.odd]
    BY <2>2, <2>3, <2>4, <2>5, <2>8, MarkedIs
  <2>10. nv' = [k |-> q, bo |-> e, lost |-> l, odd |-> nv.odd]
    BY <1>6, <2>9
  <2>11. /\ DOMAIN q.open = DOMAIN nv.k.open \cup {h}
         /\ \A g \in DOMAIN nv.k.open : g # h => q.open[g] = nv.k.open[g]
         /\ q.prime \subseteq nv.k.prime \cup {h}
         /\ "prime" # "none"
    BY <1>3 DEF Bind
  <2> QED BY <1>3, <2>1, <2>3, <2>6, <2>7, <2>10, <2>11, <2>12, NvNewOK
<1> QED BY <1>7, <1>8, <1>9

(* nouveau_bo_name_ref.                                                    *)
LEMMA NvNameRefOK ==
  ASSUME NvOK(nv), NEW o, nouveau_bo_name_ref(o)
  PROVE  NvOK(nv')
<1> DEFINE named == Named(o)
           r == GemOpen(nv.k, o)
           q == r.k
           h == r.handle
           s == [nv EXCEPT !.k = q]
<1>1. /\ KernelOK(nv.k) /\ DOMAIN nv.bo = NvBos
      /\ \A c \in NvBos : NvBuffer(nv.bo[c])
      /\ NvMatched(nv.k, nv.bo, nv.lost)
      /\ nv = [k |-> nv.k, bo |-> nv.bo, lost |-> nv.lost, odd |-> nv.odd]
  BY DEF NvOK
<1>2. CASE named # {}
  <2>1. PICK b \in named : nv' = [nv EXCEPT !.bo[b].refcnt = @ + 1]
    BY <1>2 DEF nouveau_bo_name_ref
  <2>2. b \in NvBos /\ nv.bo[b].state = "listed" /\ nv.bo[b].name # "none"
    BY DEF Listed, Named
  <2> DEFINE w == [nv.bo[b] EXCEPT !.refcnt = @ + 1]
             f == [nv.bo EXCEPT ![b] = w]
  <2>3. nv' = [nv EXCEPT !.bo = f]
    BY <1>1, <2>1, <2>2
  <2>4. w = [nv.bo[b] EXCEPT !.refcnt = @ + 1] /\ f = [nv.bo EXCEPT ![b] = w]
    OBVIOUS
  <2> HIDE DEF w, f
  <2>5. nv' = [k |-> nv.k, bo |-> f, lost |-> nv.lost, odd |-> nv.odd]
    BY <1>1, <2>3
  <2> QED BY <1>1, <2>2, <2>4, <2>5, NvRefOK
<1>3. CASE named = {}
  <2>1. PICK fresh \in FreshNv : LET w == nouveau_bo_wrap_locked(s, h, fresh) IN nv' = [w.s EXCEPT !.bo[w.bo].name = "flink"]
    BY <1>3 DEF nouveau_bo_name_ref
  <2> DEFINE v == nouveau_bo_wrap_locked(s, h, fresh)
             b == v.bo
             t == v.s
  <2>2. KernelOK(q) /\ h \notin DOMAIN nv.k.open /\ q.open = Bind(nv.k.open, h, o) /\ q.prime = nv.k.prime
    BY <1>1, GemOpenIs
  <2> HIDE DEF r
  <2>3. s = [k |-> q, bo |-> nv.bo, lost |-> nv.lost, odd |-> nv.odd]
    <3> HIDE DEF q
    <3> QED BY <1>1
  <2>4. fresh \in NvBos /\ nv.bo[fresh].state = "free"
    BY FreshNvIs
  <2>5. nv' = [t EXCEPT !.bo[b].name = "flink"]
    BY <2>1
  <2> HIDE DEF s, q, h
  <2>6. \/ /\ b \in NvBos /\ nv.bo[b].state = "listed" /\ nv.bo[b].handle = h
           /\ t = [k |-> q, bo |-> [nv.bo EXCEPT ![b] = [nv.bo[b] EXCEPT !.refcnt = @ + 1]], lost |-> nv.lost, odd |-> nv.odd]
        \/ /\ \A c \in NvBos : nv.bo[c].state = "listed" => nv.bo[c].handle # h
           /\ b = fresh
           /\ t = [k |-> q, lost |-> nv.lost \ {h}, odd |-> nv.odd,
                   bo |-> [nv.bo EXCEPT ![b] = [state |-> "listed", refcnt |-> 1, handle |-> h, obj |-> {q.open[h]},
                                               name |-> "none", dels |-> 0]]]
    BY <1>1, <2>3, <2>4, NvWrapIs
  <2> HIDE DEF v, b, t
  <2> DEFINE w == [state |-> "listed", refcnt |-> 1, handle |-> h, obj |-> {q.open[h]}, name |-> "none", dels |-> 0]
             f == [nv.bo EXCEPT ![b] = w]
             u == [f[b] EXCEPT !.name = "flink"]
             e == [f EXCEPT ![b] = u]
             l == nv.lost \ {h}
  <2>7. b = fresh /\ t = [k |-> q, bo |-> f, lost |-> l, odd |-> nv.odd]
    <3>1. ~ (b \in NvBos /\ nv.bo[b].state = "listed" /\ nv.bo[b].handle = h)
      BY <1>1, <2>2 DEF NvMatched
    <3> QED BY <2>6, <3>1
  <2>8. b \in FreshNv /\ b \in NvBos
    BY <2>4, <2>7
  <2>9. f[b] = w /\ DOMAIN f = NvBos
    BY <1>1, <2>8
  <2>10. w = [state |-> "listed", refcnt |-> 1, handle |-> h, obj |-> {q.open[h]}, name |-> "none", dels |-> 0] /\ f = [nv.bo EXCEPT ![b] = w]
    OBVIOUS
  <2>11. u = [f[b] EXCEPT !.name = "flink"] /\ e = [f EXCEPT ![b] = u]
    OBVIOUS
  <2>12. w.state = "listed" /\ w.handle = h
    OBVIOUS
  <2>19. l = nv.lost \ {h}
    OBVIOUS
  <2> HIDE DEF w, f, u, e, l
  <2>13. t = [k |-> q, bo |-> f, lost |-> l, odd |-> nv.odd]
    BY <2>7
  <2>14. /\ q.prime \subseteq nv.k.prime \cup {h} /\ h \notin q.prime
         /\ DOMAIN q.open = DOMAIN nv.k.open \cup {h}
         /\ \A g \in DOMAIN nv.k.open : g # h => q.open[g] = nv.k.open[g]
    BY <1>1, <2>2 DEF KernelOK, Bind
  <2>15. NvOK(t)
    BY <2>2, <2>8, <2>10, <2>13, <2>14, <2>19, NvNewOK
  <2>16. nv' = [k |-> q, bo |-> e, lost |-> l, odd |-> nv.odd]
    BY <2>5, <2>8, <2>9, <2>11, <2>13, NvSetName
  <2>17. /\ t.lost = l /\ t.bo[b].state = "listed" /\ q.open = t.k.open /\ q.prime \subseteq t.k.prime \cup {t.bo[b].handle}
         /\ u = [t.bo[b] EXCEPT !.name = "flink"] /\ e = [t.bo EXCEPT ![b] = u]
    BY <2>9, <2>11, <2>12, <2>13
  <2>18. "flink" # "none"
    OBVIOUS
  <2> QED BY <2>2, <2>8, <2>15, <2>16, <2>17, <2>18, NvNameOK
<1> QED BY <1>2, <1>3

(* nouveau_bo_wrap finds the buffer that refers to the handle.             *)
LEMMA NvWrapOK ==
  ASSUME NvOK(nv), NEW h, nouveau_bo_wrap(h)
  PROVE  NvOK(nv')
<1>1. /\ KernelOK(nv.k) /\ DOMAIN nv.bo = NvBos
      /\ \A c \in NvBos : NvBuffer(nv.bo[c])
      /\ NvMatched(nv.k, nv.bo, nv.lost)
      /\ nv = [k |-> nv.k, bo |-> nv.bo, lost |-> nv.lost, odd |-> nv.odd]
  BY DEF NvOK
<1>2. PICK c \in NvBos : nv.bo[c].handle = h /\ nv.bo[c].refcnt > 0
  BY DEF nouveau_bo_wrap
<1> DEFINE s == nv
           q == nv.k
<1>3. PICK fresh \in FreshNv : nv' = nouveau_bo_wrap_locked(s, h, fresh).s
  BY DEF nouveau_bo_wrap
<1> DEFINE v == nouveau_bo_wrap_locked(s, h, fresh)
           b == v.bo
<1>4. fresh \in NvBos
  BY FreshNvIs
<1>5. \/ /\ b \in NvBos /\ nv.bo[b].state = "listed" /\ nv.bo[b].handle = h
         /\ nv' = [k |-> nv.k, bo |-> [nv.bo EXCEPT ![b] = [nv.bo[b] EXCEPT !.refcnt = @ + 1]], lost |-> nv.lost, odd |-> nv.odd]
      \/ \A d \in NvBos : nv.bo[d].state = "listed" => nv.bo[d].handle # h
  <2> DEFINE g == nv.bo
             z == nv.odd
             l == nv.lost
  <2>1. s = [k |-> q, bo |-> g, lost |-> l, odd |-> z] /\ DOMAIN g = NvBos
    BY <1>1
  <2> HIDE DEF s, q, g, z, l
  <2>2. \/ /\ b \in NvBos /\ g[b].state = "listed" /\ g[b].handle = h
           /\ v.s = [k |-> q, bo |-> [g EXCEPT ![b] = [g[b] EXCEPT !.refcnt = @ + 1]], lost |-> l, odd |-> z]
        \/ /\ \A d \in NvBos : g[d].state = "listed" => g[d].handle # h
           /\ b = fresh
           /\ v.s = [k |-> q, lost |-> l \ {h}, odd |-> z,
                    bo |-> [g EXCEPT ![b] = [state |-> "listed", refcnt |-> 1, handle |-> h, obj |-> {q.open[h]},
                                                name |-> "none", dels |-> 0]]]
    BY <1>4, <2>1, NvWrapIs
  <2> HIDE DEF b
  <2> QED BY <1>3, <2>2 DEF q, g, z, l
<1> HIDE DEF v, b
<1>6. nv.bo[c].state = "listed"
  BY <1>1, <1>2 DEF NvBuffer
<1>7. /\ b \in NvBos /\ nv.bo[b].state = "listed" /\ nv.bo[b].handle = h
      /\ nv' = [k |-> nv.k, bo |-> [nv.bo EXCEPT ![b] = [nv.bo[b] EXCEPT !.refcnt = @ + 1]], lost |-> nv.lost, odd |-> nv.odd]
  BY <1>2, <1>5, <1>6
<1>8. b = c
  BY <1>1, <1>2, <1>6, <1>7 DEF NvMatched
<1>9. nv.bo[b].refcnt > 0 /\ b \in NvBos /\ nv.bo[b].state = "listed"
  BY <1>2, <1>7, <1>8
<1> DEFINE w == [nv.bo[b] EXCEPT !.refcnt = @ + 1]
           f == [nv.bo EXCEPT ![b] = w]
<1>10. w = [nv.bo[b] EXCEPT !.refcnt = @ + 1] /\ f = [nv.bo EXCEPT ![b] = w]
  OBVIOUS
<1>11. nv' = [k |-> nv.k, bo |-> f, lost |-> nv.lost, odd |-> nv.odd]
  BY <1>7
<1> HIDE DEF w, f
<1> QED BY <1>1, <1>9, <1>10, <1>11, NvRefOK

(* nouveau_bo_del.                                                         *)
LEMMA NvDeleteOK ==
  ASSUME NvOK(nv), NEW b \in NvBos, nouveau_bo_del(b)
  PROVE  NvOK(nv')
<1> DEFINE v == nv.bo[b]
           n == v.dels - 1
           s == [nv EXCEPT !.bo[b].dels = @ - 1]
           w == [v EXCEPT !.dels = n]
           f == [nv.bo EXCEPT ![b] = w]
<1>1. /\ KernelOK(nv.k) /\ DOMAIN nv.bo = NvBos /\ NvBuffer(v)
      /\ nv = [k |-> nv.k, bo |-> nv.bo, lost |-> nv.lost, odd |-> nv.odd]
  BY DEF NvOK
<1>2. v.dels > 0 /\ n \in Nat
  <2>1. v.dels > 0
    BY DEF nouveau_bo_del
  <2> QED BY <1>1, <2>1 DEF NvBuffer
<1>3. s = [k |-> nv.k, bo |-> f, lost |-> nv.lost, odd |-> nv.odd]
  <2> DEFINE y == s
  <2>1. y = [nv EXCEPT !.bo = f]
    BY <1>1
  <2> HIDE DEF y, f
  <2>2. y = [k |-> nv.k, bo |-> f, lost |-> nv.lost, odd |-> nv.odd]
    BY <1>1, <2>1
  <2> QED BY <2>2 DEF y
<1>4. w = [state |-> v.state, refcnt |-> v.refcnt, handle |-> v.handle, obj |-> v.obj, name |-> v.name, dels |-> n]
  <2>1. NvFields(v)
    BY <1>1 DEF NvBuffer
  <2> HIDE DEF n
  <2> QED BY <2>1 DEF NvFields
<1>5. f = [nv.bo EXCEPT ![b] = w] /\ f[b] = w
  BY <1>1
<1> HIDE DEF w
<1>6. NvBuffer(w)
  BY <1>1, <1>2, <1>4 DEF NvBuffer, NvFields
<1> HIDE DEF f
<1>7. w.state = v.state /\ w.handle = v.handle /\ w.obj = v.obj /\ w.name = v.name /\ w.refcnt = v.refcnt /\ w.dels = n
  BY <1>4
<1>8. s.bo[b].dels = n
  BY <1>3, <1>5, <1>7
<1> DEFINE q == GemClose(nv.k, v.handle)
<1>9. nv' = IF v.state # "listed" THEN NvStray(s, "freed twice")
            ELSE IF Revived(v) THEN s
            ELSE IF v.name # "none"
            THEN [s EXCEPT !.k = GemClose(@, v.handle), !.bo[b] = [NoNvBo EXCEPT !.dels = s.bo[b].dels]]
            ELSE [s EXCEPT !.bo[b].state = "unlisted"]
  BY DEF nouveau_bo_del
<1> HIDE DEF s
<1>10. CASE v.state # "listed"
  <2>1. nv' = [s EXCEPT !.odd = "freed twice"]
    BY <1>9, <1>10 DEF NvStray
  <2>2. nv' = [k |-> nv.k, bo |-> f, lost |-> nv.lost, odd |-> "freed twice"]
    BY <1>3, <2>1
  <2> QED BY <1>5, <1>6, <1>7, <2>2, NvDelOK
<1>11. CASE v.state = "listed" /\ Revived(v)
  <2>1. nv' = [k |-> nv.k, bo |-> f, lost |-> nv.lost, odd |-> nv.odd]
    BY <1>3, <1>9, <1>11
  <2> QED BY <1>5, <1>6, <1>7, <2>1, NvDelOK
<1>12. CASE v.state = "listed" /\ ~ Revived(v) /\ v.name # "none"
  <2> DEFINE u == [NoNvBo EXCEPT !.dels = n]
             e == [nv.bo EXCEPT ![b] = u]
  <2>1. nv' = [s EXCEPT !.k = GemClose(@, v.handle), !.bo[b] = u]
    BY <1>8, <1>9, <1>12
  <2>2. nv' = [s EXCEPT !.k = q, !.bo = e]
    <3> HIDE DEF u
    <3>1. [f EXCEPT ![b] = u] = e
      BY <1>1, <1>5
    <3> QED BY <1>3, <2>1, <3>1
  <2>3. KernelOK(q) /\ q.open = Unbind(nv.k.open, v.handle) /\ q.prime \subseteq nv.k.prime
    BY <1>1, GemCloseIs
  <2>4. NvBuffer(u) /\ u.state = "free"
    <3> HIDE DEF n
    <3> QED BY <1>2 DEF NoNvBo, NvBuffer, NvFields
  <2> HIDE DEF u
  <2>5. e = [nv.bo EXCEPT ![b] = u] /\ v.state # "free"
    BY <1>12
  <2> HIDE DEF q, e
  <2>6. nv' = [k |-> q, bo |-> e, lost |-> nv.lost, odd |-> nv.odd]
    BY <1>3, <2>2
  <2> QED BY <2>3, <2>4, <2>5, <2>6, NvClosed
<1>13. CASE v.state = "listed" /\ ~ Revived(v) /\ v.name = "none"
  <2> DEFINE u == [w EXCEPT !.state = "unlisted"]
             e == [nv.bo EXCEPT ![b] = u]
  <2>1. nv' = [s EXCEPT !.bo[b].state = "unlisted"]
    BY <1>9, <1>13
  <2>2. nv' = [s EXCEPT !.bo = e]
    <3>1. [f EXCEPT ![b] = u] = e
      <4> HIDE DEF u
      <4> QED BY <1>1, <1>5
    <3> QED BY <1>3, <1>5, <2>1, <3>1
  <2>3. v.refcnt = 0
    BY <1>1, <1>2, <1>13 DEF NvBuffer
  <2>4. u = [state |-> "unlisted", refcnt |-> 0, handle |-> v.handle, obj |-> v.obj, name |-> "none", dels |-> n]
    <3>1. w = [state |-> v.state, refcnt |-> 0, handle |-> v.handle, obj |-> v.obj, name |-> "none", dels |-> n]
      BY <1>4, <1>13, <2>3
    <3> HIDE DEF n
    <3> QED BY <3>1
  <2> HIDE DEF u
  <2>5. NvBuffer(u) /\ u.state = "unlisted" /\ u.handle = v.handle /\ u.obj = v.obj /\ u.name = v.name
    BY <1>2, <1>13, <2>4 DEF NvBuffer, NvFields
  <2>6. e = [nv.bo EXCEPT ![b] = u]
    OBVIOUS
  <2> HIDE DEF e
  <2>7. nv' = [k |-> nv.k, bo |-> e, lost |-> nv.lost, odd |-> nv.odd]
    BY <1>3, <2>2
  <2>8. u.state = "free" <=> v.state = "free"
    BY <1>13, <2>5
  <2> QED BY <2>5, <2>6, <2>7, <2>8, NvDelOK
<1> QED BY <1>10, <1>11, <1>12, <1>13

(* nouveau_bo_ref, one more and one less, without the lock.                *)
LEMMA NvCountOK ==
  ASSUME NvOK(nv), NEW b \in NvBos, nouveau_bo_ref(b) \/ nouveau_bo_unref(b)
  PROVE  NvOK(nv')
<1> DEFINE v == nv.bo[b]
<1>1. /\ KernelOK(nv.k) /\ DOMAIN nv.bo = NvBos /\ NvBuffer(v)
      /\ nv = [k |-> nv.k, bo |-> nv.bo, lost |-> nv.lost, odd |-> nv.odd]
  BY DEF NvOK
<1>2. CASE nouveau_bo_ref(b)
  <2> DEFINE w == [nv.bo[b] EXCEPT !.refcnt = @ + 1]
             f == [nv.bo EXCEPT ![b] = w]
  <2>1. v.refcnt > 0 /\ nv' = [nv EXCEPT !.bo[b].refcnt = @ + 1]
    BY <1>2, NvAssumption DEF nouveau_bo_ref
  <2>2. v.state = "listed" /\ v.refcnt > 0
    BY <1>1, <2>1 DEF NvBuffer
  <2>3. nv' = [nv EXCEPT !.bo = f]
    BY <1>1, <2>1
  <2>4. w = [nv.bo[b] EXCEPT !.refcnt = @ + 1] /\ f = [nv.bo EXCEPT ![b] = w]
    OBVIOUS
  <2> HIDE DEF w, f
  <2>5. nv' = [k |-> nv.k, bo |-> f, lost |-> nv.lost, odd |-> nv.odd]
    BY <1>1, <2>3
  <2> QED BY <1>1, <2>2, <2>4, <2>5, NvRefOK
<1>3. CASE nouveau_bo_unref(b)
  <2> DEFINE n == v.refcnt - 1
             d == IF v.refcnt = 1 THEN v.dels + 1 ELSE v.dels
             w == [v EXCEPT !.refcnt = n, !.dels = d]
             f == [nv.bo EXCEPT ![b] = w]
  <2>1. /\ v.refcnt > 0
        /\ nv' = [nv EXCEPT !.bo[b].refcnt = @ - 1, !.bo[b].dels = IF v.refcnt = 1 THEN @ + 1 ELSE @]
    BY <1>3 DEF nouveau_bo_unref
  <2>2. NvFields(v) /\ v.refcnt \in Nat /\ v.dels \in Nat /\ v.state = "listed" /\ (v.name = "none" => v.dels = 0)
    BY <1>1, <2>1 DEF NvBuffer
  <2>3. n \in Nat /\ d \in Nat /\ (v.name = "none" /\ d > 0 => n = 0)
    BY <2>1, <2>2
  <2>4. nv' = [nv EXCEPT !.bo = f]
    <3>1. "refcnt" \in DOMAIN v /\ "dels" \in DOMAIN v
      BY <2>2 DEF NvFields
    <3>2. [v EXCEPT !.refcnt = n].dels = v.dels
      BY <2>2 DEF NvFields
    <3>3. [nv.bo EXCEPT ![b].refcnt = n][b] = [v EXCEPT !.refcnt = n]
      BY <1>1
    <3> DEFINE g == [nv.bo EXCEPT ![b].refcnt = n]
    <3>4. nv' = [[nv EXCEPT !.bo = g] EXCEPT !.bo[b].dels = d]
      BY <1>1, <2>1, <3>2, <3>3
    <3>5. [g EXCEPT ![b].dels = d] = f
      <4>1. [[v EXCEPT !.refcnt = n] EXCEPT !.dels = d] = w
        OBVIOUS
      <4> HIDE DEF w
      <4> QED BY <1>1, <3>3, <4>1
    <3> HIDE DEF g, f
    <3> QED BY <1>1, <3>4, <3>5
  <2>5. f = [nv.bo EXCEPT ![b] = w]
    OBVIOUS
  <2> HIDE DEF n, d
  <2>6. w = [state |-> v.state, refcnt |-> n, handle |-> v.handle, obj |-> v.obj, name |-> v.name, dels |-> d]
    <3> DEFINE u == w
    <3>1. u = [v EXCEPT !.refcnt = n, !.dels = d]
      OBVIOUS
    <3> HIDE DEF u
    <3>2. u = [state |-> v.state, refcnt |-> n, handle |-> v.handle, obj |-> v.obj, name |-> v.name, dels |-> d]
      BY <2>2, <3>1 DEF NvFields
    <3> QED BY <3>2 DEF u
  <2> HIDE DEF w, f
  <2>7. NvBuffer(w) /\ w.state = v.state /\ w.handle = v.handle /\ w.obj = v.obj /\ w.name = v.name
    BY <2>2, <2>3, <2>6 DEF NvBuffer, NvFields
  <2>8. nv' = [k |-> nv.k, bo |-> f, lost |-> nv.lost, odd |-> nv.odd]
    BY <1>1, <2>4
  <2>9. w.state = "free" <=> v.state = "free"
    BY <2>7
  <2> QED BY <2>5, <2>7, <2>8, <2>9, NvDelOK
<1> QED BY <1>2, <1>3

(* Every step of the nouveau buffers keeps the invariant.                  *)
LEMMA NvNextOK ==
  ASSUME NvOK(nv), NvNext
  PROVE  NvOK(nv')
<1>1. /\ KernelOK(nv.k) /\ DOMAIN nv.bo = NvBos
      /\ \A b \in NvBos : NvBuffer(nv.bo[b])
      /\ nv = [k |-> nv.k, bo |-> nv.bo, lost |-> nv.lost, odd |-> nv.odd]
  BY DEF NvOK
<1>2. ASSUME NEW o, nouveau_bo_new(o) PROVE NvOK(nv')
  <2> DEFINE r == GemCreate(nv.k, o)
             q == r.k
             h == r.handle
             s == [nv EXCEPT !.k = q]
  <2>1. h \notin DOMAIN nv.k.open /\ KernelOK(q) /\ q.open = Bind(nv.k.open, h, o) /\ q.prime = nv.k.prime
    BY <1>1, GemCreateIs
  <2>2. PICK b \in FreshNv : nv' = NewNvBo(s, b, h, "none")
    BY <1>2 DEF nouveau_bo_new
  <2> HIDE DEF r
  <2>3. s = [k |-> q, bo |-> nv.bo, lost |-> nv.lost, odd |-> nv.odd]
    <3> HIDE DEF q
    <3> QED BY <1>1
  <2>4. b \in DOMAIN nv.bo
    BY <1>1, FreshNvIs
  <2> DEFINE w == [state |-> "listed", refcnt |-> 1, handle |-> h, obj |-> {q.open[h]}, name |-> "none", dels |-> 0]
             f == [nv.bo EXCEPT ![b] = w]
  <2>5. /\ w = [state |-> "listed", refcnt |-> 1, handle |-> h, obj |-> {q.open[h]}, name |-> "none", dels |-> 0]
        /\ f = [nv.bo EXCEPT ![b] = w]
    OBVIOUS
  <2>8. nv.lost = nv.lost \ {h}
    BY <2>1 DEF NvOK, NvMatched
  <2> HIDE DEF w, f, q, h, s
  <2>6. nv' = [k |-> q, bo |-> f, lost |-> nv.lost, odd |-> nv.odd]
    BY <2>2, <2>3, <2>4, <2>5, NewNvBoIs
  <2>7. /\ q.prime \subseteq nv.k.prime \cup {h} /\ h \notin q.prime
        /\ DOMAIN q.open = DOMAIN nv.k.open \cup {h}
        /\ \A g \in DOMAIN nv.k.open : g # h => q.open[g] = nv.k.open[g]
    BY <1>1, <2>1 DEF KernelOK, Bind
  <2> QED BY <2>1, <2>5, <2>6, <2>7, <2>8, NvNewOK
<1>3. ASSUME NEW o, nouveau_bo_name_ref_fails(o) PROVE NvOK(nv')
  <2>1. nv' = [nv EXCEPT !.odd = "lock kept"]
    BY <1>3 DEF nouveau_bo_name_ref_fails, NvStray
  <2>2. nv' = [k |-> nv.k, bo |-> nv.bo, lost |-> nv.lost, odd |-> "lock kept"]
    BY <1>1, <2>1
  <2>3. NvMatched(nv.k, nv.bo, nv.lost)
    BY DEF NvOK
  <2> QED BY <1>1, <2>2, <2>3, NvParts
<1>4. ASSUME NEW b \in NvBos, nouveau_bo_name_get(b) PROVE NvOK(nv')
  <2> DEFINE q == GemFlink(nv.k, nv.bo[b].handle)
             w == [nv.bo[b] EXCEPT !.name = "flink"]
             f == [nv.bo EXCEPT ![b] = w]
  <2>1. nv.bo[b].refcnt > 0 /\ nv' = [nv EXCEPT !.bo[b].name = "flink", !.k = q]
    BY <1>1, <1>4 DEF nouveau_bo_name_get
  <2>2. nv.bo[b].state = "listed"
    BY <1>1, <2>1 DEF NvBuffer
  <2>3. KernelOK(q) /\ q.open = nv.k.open /\ q.prime = nv.k.prime
    BY <1>1, GemFlinkIs
  <2> HIDE DEF q
  <2>4. nv' = [nv EXCEPT !.bo = f, !.k = q]
    BY <1>1, <2>1
  <2>5. w = [nv.bo[b] EXCEPT !.name = "flink"] /\ f = [nv.bo EXCEPT ![b] = w] /\ "flink" # "none"
    OBVIOUS
  <2> HIDE DEF w, f
  <2>6. nv' = [k |-> q, bo |-> f, lost |-> nv.lost, odd |-> nv.odd]
    BY <1>1, <2>4
  <2>7. q.prime \subseteq nv.k.prime \cup {nv.bo[b].handle}
    BY <2>3
  <2> QED BY <2>2, <2>3, <2>5, <2>6, <2>7, NvNameOK
<1>5. ASSUME NEW b \in NvBos, nouveau_bo_set_prime(b) PROVE NvOK(nv')
  <2> DEFINE v == nv.bo[b]
             q == PrimeExport(nv.k, v.handle)
             s == [nv EXCEPT !.k = q]
             n == IF v.name = "none" THEN "prime" ELSE v.name
             w == [v EXCEPT !.name = n]
             f == [nv.bo EXCEPT ![b] = w]
  <2>1. v.refcnt > 0 /\ nv' = Marked(s, b)
    BY <1>5 DEF nouveau_bo_set_prime
  <2>2. v.state = "listed"
    BY <1>1, <2>1 DEF NvBuffer
  <2>3. v.handle \in DOMAIN nv.k.open
    BY <2>2 DEF NvOK, NvMatched
  <2>4. KernelOK(q) /\ q.open = nv.k.open /\ q.prime = nv.k.prime \cup {v.handle}
    BY <1>1, <2>3, PrimeExportIs
  <2> HIDE DEF q
  <2>5. s = [k |-> q, bo |-> nv.bo, lost |-> nv.lost, odd |-> nv.odd]
    BY <1>1
  <2>6. /\ n = IF v.name = "none" THEN "prime" ELSE v.name
        /\ w = [v EXCEPT !.name = n] /\ f = [nv.bo EXCEPT ![b] = w]
    OBVIOUS
  <2> HIDE DEF n, w, f, s
  <2>7. n # "none" /\ nv' = [k |-> q, bo |-> f, lost |-> nv.lost, odd |-> nv.odd]
    BY <1>1, <2>1, <2>5, <2>6, MarkedIs
  <2>8. q.prime \subseteq nv.k.prime \cup {v.handle}
    BY <2>4
  <2> QED BY <2>2, <2>4, <2>6, <2>7, <2>8, NvNameOK
<1>6. ASSUME NEW b \in NvBos, nouveau_bo_del_unlocked(b) PROVE NvOK(nv')
  <2> DEFINE v == nv.bo[b]
             q == GemClose(nv.k, v.handle)
             n == v.dels
             u == [NoNvBo EXCEPT !.dels = n]
             f == [nv.bo EXCEPT ![b] = u]
  <2>1. v.state = "unlisted" /\ nv' = [nv EXCEPT !.k = q, !.bo[b] = u]
    BY <1>6 DEF nouveau_bo_del_unlocked
  <2>2. KernelOK(q) /\ q.open = Unbind(nv.k.open, v.handle) /\ q.prime \subseteq nv.k.prime
    BY <1>1, GemCloseIs
  <2>3. n \in Nat
    BY <1>1 DEF NvBuffer
  <2> HIDE DEF n, q
  <2>4. NvBuffer(u) /\ u.state = "free"
    BY <2>3 DEF NoNvBo, NvBuffer, NvFields
  <2> HIDE DEF u
  <2>5. f = [nv.bo EXCEPT ![b] = u] /\ v.state # "free"
    BY <2>1
  <2>6. nv' = [nv EXCEPT !.k = q, !.bo = f]
    BY <1>1, <2>1
  <2> HIDE DEF f
  <2>7. nv' = [k |-> q, bo |-> f, lost |-> nv.lost, odd |-> nv.odd]
    BY <1>1, <2>6
  <2> QED BY <2>2, <2>4, <2>5, <2>7, NvClosed
<1>7. ASSUME NEW o, nouveau_bo_name_ref_unwrapped(o) PROVE NvOK(nv')
  <2> DEFINE r == GemOpen(nv.k, o)
             q == r.k
             h == r.handle
             l == nv.lost \cup {h}
             s == Lose(nv, r)
  <2>1. KernelOK(q) /\ h \notin DOMAIN nv.k.open /\ q.open = Bind(nv.k.open, h, o) /\ q.prime = nv.k.prime
    BY <1>1, GemOpenIs
  <2>2. s = [nv EXCEPT !.k = q, !.lost = l] /\ nv' = [s EXCEPT !.odd = "name astray"]
    BY <1>7 DEF nouveau_bo_name_ref_unwrapped, NvStray, Lose
  <2> HIDE DEF r
  <2>3. /\ DOMAIN q.open = DOMAIN nv.k.open \cup {h} /\ q.prime \subseteq nv.k.prime \cup {h}
        /\ \A g \in DOMAIN nv.k.open : q.open[g] = nv.k.open[g]
    BY <2>1 DEF Bind
  <2>4. \A b \in NvBos : nv.bo[b].state # "free" => nv.bo[b].handle # h
    BY <2>1 DEF NvOK, NvMatched
  <2>5. l = nv.lost \cup {h}
    OBVIOUS
  <2> HIDE DEF q, h, l, s
  <2>6. nv' = [k |-> q, bo |-> nv.bo, lost |-> l, odd |-> "name astray"]
    BY <1>1, <2>2
  <2> QED BY <2>1, <2>3, <2>4, <2>5, <2>6, NvLostOK
<1>8. ASSUME NEW o, nouveau_bo_prime_handle_ref_fails(o) PROVE NvOK(nv')
  <2> DEFINE r == PrimeOpen(nv.k, o)
             q == r.k
             h == r.handle
             l == nv.lost \cup {h}
  <2>1. /\ KernelOK(q)
        /\ \/ h \in nv.k.prime /\ h \in DOMAIN nv.k.open /\ q = nv.k
           \/ h \notin DOMAIN nv.k.open /\ q.open = Bind(nv.k.open, h, o) /\ q.prime = nv.k.prime \cup {h}
    BY <1>1, PrimeOpenIs
  <2>2. nv' = [nv EXCEPT !.k = q, !.lost = l] /\ \A b \in NvBos : nv.bo[b].state = "listed" => nv.bo[b].handle # h
    BY <1>8 DEF nouveau_bo_prime_handle_ref_fails, Lose, Unwrapped, Listed
  <2> HIDE DEF r
  <2>3. /\ DOMAIN q.open = DOMAIN nv.k.open \cup {h} /\ q.prime \subseteq nv.k.prime \cup {h}
        /\ \A g \in DOMAIN nv.k.open : q.open[g] = nv.k.open[g]
    BY <2>1 DEF Bind
  <2>4. ASSUME NEW b \in NvBos, nv.bo[b].state # "free", nv.bo[b].handle = h PROVE FALSE
    <3>1. h \in DOMAIN nv.k.open /\ (h \in nv.k.prime => nv.bo[b].name # "none")
      BY <2>4 DEF NvOK, NvMatched
    <3>2. nv.bo[b].name # "none"
      BY <2>1, <3>1
    <3>3. nv.bo[b].state = "listed"
      BY <1>1, <2>4, <3>2 DEF NvBuffer
    <3> QED BY <2>2, <2>4, <3>3
  <2>5. l = nv.lost \cup {h}
    OBVIOUS
  <2> HIDE DEF q, h, l
  <2>6. nv' = [k |-> q, bo |-> nv.bo, lost |-> l, odd |-> nv.odd]
    BY <1>1, <2>2
  <2> QED BY <2>1, <2>3, <2>4, <2>5, <2>6, NvLostOK
<1> QED BY <1>2, <1>3, <1>4, <1>5, <1>6, <1>7, <1>8, NvNameRefOK, NvPrimeRefOK, NvWrapOK, NvCountOK, NvDeleteOK DEF NvNext

(* No structure at first.                                                  *)
LEMMA NvInitOK ==
  ASSUME NvInit
  PROVE  NvOK(nv)
<1> DEFINE q == Kernel(NvForeign)
           f == [b \in NvBos |-> NoNvBo]
<1>1. KernelOK(q) /\ DOMAIN q.open = {}
  BY KernelInit
<1>2. nv = [k |-> q, bo |-> f, lost |-> {}, odd |-> "no"]
  BY DEF NvInit
<1> HIDE DEF q
<1>3. \A b \in NvBos : NvBuffer(f[b]) /\ f[b].state = "free"
  BY DEF NoNvBo, NvBuffer, NvFields
<1>4. DOMAIN f = NvBos
  OBVIOUS
<1> HIDE DEF f
<1>5. NvMatched(q, f, {})
  BY <1>1, <1>3 DEF NvMatched
<1> QED BY <1>1, <1>2, <1>3, <1>4, <1>5, NvParts

(* What the run checks follows.                                            *)
LEMMA NvOKSound ==
  ASSUME NvOK(nv)
  PROVE  NvSound
<1> DEFINE held == {b \in NvBos : nv.bo[b].state # "free"}
<1>1. LET handles == {nv.bo[b].handle : b \in held}
      IN  DOMAIN nv.k.open = handles \cup nv.lost /\ handles \cap nv.lost = {}
  BY DEF NvOK, NvMatched
<1>2. \A b, c \in held : nv.bo[b].handle = nv.bo[c].handle => b = c
  BY DEF NvOK, NvMatched
<1>3. \A b \in held : nv.bo[b].obj = {nv.k.open[nv.bo[b].handle]}
  BY DEF NvOK, NvMatched
<1>4. \A b \in NvBos : nv.bo[b].refcnt > 0 => nv.bo[b].state = "listed"
  BY DEF NvOK, NvBuffer
<1> QED BY <1>1, <1>2, <1>3, <1>4 DEF NvSound

-----------------------------------------------------------------------------
(* libkms.                                                                 *)

(* The fields of a buffer of libkms.                                       *)
KmsFields(w) ==
  w = [handle |-> w.handle, obj |-> w.obj, size |-> w.size, pitch |-> w.pitch,
       want |-> w.want, ptr |-> w.ptr, map_count |-> w.map_count, held |-> w.held]

(* The mappings that clients hold are counted, and have a pointer.         *)
KmsMapped(w) ==
  /\ w.map_count \in Nat /\ w.held \in Nat /\ w.held <= w.map_count
  /\ w.held > 0 => w.ptr = TRUE

KmsBuffer(w) == KmsFields(w) /\ KmsMapped(w)

(* Handles and buffers correspond one to one.                              *)
KmsMatched(k, f) ==
  /\ \A b \in DOMAIN f :
       /\ f[b].handle \in DOMAIN k.open
       /\ k.open[f[b].handle] = f[b].obj
       /\ \A c \in DOMAIN f \ {b} : f[c].handle # f[b].handle
  /\ \A h \in DOMAIN k.open : \E b \in DOMAIN f : f[b].handle = h

(* The invariant of libkms.                                                *)
KmsOK(x) ==
  /\ x = [dev |-> x.dev, drv |-> x.drv, k |-> x.k, bo |-> x.bo]
  /\ x.drv \in {"none", linux_create(x.dev)}
  /\ KernelOK(x.k)
  /\ \A b \in DOMAIN x.bo : KmsBuffer(x.bo[b])
  /\ linux_create(x.dev) # "vmwgfx" => KmsMatched(x.k, x.bo)

(* The record of the library, put together from its parts.                 *)
LEMMA KmsParts ==
  ASSUME NEW d, NEW e, e \in {"none", linux_create(d)}, NEW q, KernelOK(q), NEW f,
         \A b \in DOMAIN f : KmsBuffer(f[b]), linux_create(d) # "vmwgfx" => KmsMatched(q, f),
         NEW y, y = [dev |-> d, drv |-> e, k |-> q, bo |-> f]
  PROVE  KmsOK(y)
<1>1. y = [dev |-> y.dev, drv |-> y.drv, k |-> y.k, bo |-> y.bo] /\ y.dev = d /\ y.drv = e /\ y.k = q /\ y.bo = f
  OBVIOUS
<1> QED BY <1>1 DEF KmsOK

(* A buffer for a handle that was not open.                                *)
LEMMA KmsOpened ==
  ASSUME NEW k, NEW f, KmsMatched(k, f), NEW q, NEW h, h \notin DOMAIN k.open, NEW o,
         q.open = Bind(k.open, h, o), NEW b, b \notin DOMAIN f, NEW w, w.handle = h, w.obj = o,
         NEW g, g = Bind(f, b, w)
  PROVE  KmsMatched(q, g)
<1>1. /\ DOMAIN q.open = DOMAIN k.open \cup {h} /\ q.open[h] = o
      /\ \A i \in DOMAIN k.open : i # h => q.open[i] = k.open[i]
  BY DEF Bind
<1>2. /\ DOMAIN g = DOMAIN f \cup {b} /\ g[b] = w
      /\ \A c \in DOMAIN f : c # b => g[c] = f[c]
  BY DEF Bind
<1>3. ASSUME NEW c \in DOMAIN g
      PROVE  /\ g[c].handle \in DOMAIN q.open
             /\ q.open[g[c].handle] = g[c].obj
             /\ \A d \in DOMAIN g \ {c} : g[d].handle # g[c].handle
  <2>1. CASE c = b
    BY <1>1, <1>2, <2>1 DEF KmsMatched
  <2>2. CASE c # b
    <3>1. c \in DOMAIN f /\ g[c] = f[c]
      BY <1>2, <2>2
    <3> QED BY <1>1, <1>2, <3>1 DEF KmsMatched
  <2> QED BY <2>1, <2>2
<1>4. ASSUME NEW i \in DOMAIN q.open PROVE \E c \in DOMAIN g : g[c].handle = i
  <2>1. CASE i = h
    BY <1>2, <2>1
  <2>2. CASE i # h
    <3>1. PICK c \in DOMAIN f : f[c].handle = i
      BY <1>1, <2>2 DEF KmsMatched
    <3> QED BY <1>2, <3>1
  <2> QED BY <2>1, <2>2
<1> QED BY <1>3, <1>4 DEF KmsMatched

(* A buffer is destroyed with its handle.                                  *)
LEMMA KmsClosed ==
  ASSUME NEW k, NEW f, KmsMatched(k, f), NEW b \in DOMAIN f, NEW q, q.open = Unbind(k.open, f[b].handle),
         NEW g, g = Unbind(f, b)
  PROVE  KmsMatched(q, g)
<1>1. /\ DOMAIN q.open = DOMAIN k.open \ {f[b].handle}
      /\ \A i \in DOMAIN k.open : i # f[b].handle => q.open[i] = k.open[i]
  BY DEF Unbind
<1>2. DOMAIN g = DOMAIN f \ {b} /\ \A c \in DOMAIN g : g[c] = f[c]
  BY DEF Unbind
<1>3. ASSUME NEW c \in DOMAIN g
      PROVE  /\ g[c].handle \in DOMAIN q.open
             /\ q.open[g[c].handle] = g[c].obj
             /\ \A d \in DOMAIN g \ {c} : g[d].handle # g[c].handle
  BY <1>1, <1>2 DEF KmsMatched
<1>4. ASSUME NEW i \in DOMAIN q.open PROVE \E c \in DOMAIN g : g[c].handle = i
  <2>1. PICK c \in DOMAIN f : f[c].handle = i
    BY <1>1 DEF KmsMatched
  <2> QED BY <1>1, <1>2, <2>1
<1> QED BY <1>3, <1>4 DEF KmsMatched

(* A buffer changes and keeps its handle.                                  *)
LEMMA KmsChanged ==
  ASSUME KmsOK(kms), NEW b \in DOMAIN kms.bo, NEW w, KmsBuffer(w),
         w.handle = kms.bo[b].handle, w.obj = kms.bo[b].obj,
         NEW f, f = [kms.bo EXCEPT ![b] = w], kms' = [kms EXCEPT !.bo = f]
  PROVE  KmsOK(kms')
<1>1. DOMAIN f = DOMAIN kms.bo /\ \A c \in DOMAIN f : f[c] = IF c = b THEN w ELSE kms.bo[c]
  OBVIOUS
<1>2. /\ KernelOK(kms.k) /\ kms.drv \in {"none", linux_create(kms.dev)}
      /\ \A c \in DOMAIN kms.bo : KmsBuffer(kms.bo[c])
      /\ linux_create(kms.dev) # "vmwgfx" => KmsMatched(kms.k, kms.bo)
  BY DEF KmsOK
<1>3. kms' = [dev |-> kms.dev, drv |-> kms.drv, k |-> kms.k, bo |-> f]
  BY DEF KmsOK
<1>4. \A c \in DOMAIN f : KmsBuffer(f[c])
  BY <1>1, <1>2
<1>5. \A c \in DOMAIN f : f[c].handle = kms.bo[c].handle /\ f[c].obj = kms.bo[c].obj
  BY <1>1
<1>6. linux_create(kms.dev) # "vmwgfx" => KmsMatched(kms.k, f)
  BY <1>1, <1>2, <1>5 DEF KmsMatched
<1> QED BY <1>2, <1>3, <1>4, <1>6, KmsParts

(* A field of a buffer is set.                                             *)
LEMMA KmsSetPtr ==
  ASSUME NEW v, KmsFields(v), NEW p, NEW w, w = [v EXCEPT !.ptr = p]
  PROVE  /\ KmsFields(w) /\ w.handle = v.handle /\ w.obj = v.obj
         /\ w.ptr = p /\ w.map_count = v.map_count /\ w.held = v.held
BY DEF KmsFields

(* The same of the count of mappings.                                      *)
LEMMA KmsSetCount ==
  ASSUME NEW v, KmsFields(v), NEW m, NEW w, w = [v EXCEPT !.map_count = m]
  PROVE  /\ KmsFields(w) /\ w.handle = v.handle /\ w.obj = v.obj
         /\ w.ptr = v.ptr /\ w.map_count = m /\ w.held = v.held
BY DEF KmsFields

(* The same of the mappings that clients hold.                             *)
LEMMA KmsSetHeld ==
  ASSUME NEW v, KmsFields(v), NEW n, NEW w, w = [v EXCEPT !.held = n]
  PROVE  /\ KmsFields(w) /\ w.handle = v.handle /\ w.obj = v.obj
         /\ w.ptr = v.ptr /\ w.map_count = v.map_count /\ w.held = n
BY DEF KmsFields

(* A buffer made by kms_bo_create.                                         *)
LEMMA KmsCreateOK ==
  ASSUME KmsOK(kms), NEW b, NEW list, kms_bo_create(b, list)
  PROVE  KmsOK(kms')
<1> DEFINE a == Wanted(list)
           o == CHOOSE x \in KmsObjs \ kms.k.born : TRUE
           r == GemCreate(kms.k, o)
<1>1. /\ kms.drv # "none" /\ b \notin DOMAIN kms.bo
      /\ \E g \in Geometries(kms.drv, a), id \in IF kms.drv = "vmwgfx" THEN KmsGmrs ELSE {r.handle} :
           kms' = [kms EXCEPT !.k = r.k,
                        !.bo = Bind(@, b, [handle |-> id, obj |-> o, size |-> g.size, pitch |-> g.pitch,
                                           want |-> a, ptr |-> FALSE, map_count |-> 0, held |-> 0])]
  BY DEF kms_bo_create
<1>2. /\ KernelOK(kms.k) /\ kms.drv \in {"none", linux_create(kms.dev)}
      /\ \A c \in DOMAIN kms.bo : KmsBuffer(kms.bo[c])
      /\ linux_create(kms.dev) # "vmwgfx" => KmsMatched(kms.k, kms.bo)
      /\ kms = [dev |-> kms.dev, drv |-> kms.drv, k |-> kms.k, bo |-> kms.bo]
  BY DEF KmsOK
<1> HIDE DEF o, a
<1>3. r.handle \notin DOMAIN kms.k.open /\ KernelOK(r.k) /\ r.k.open = Bind(kms.k.open, r.handle, o)
  BY <1>2, GemCreateIs
<1>4. PICK g \in Geometries(kms.drv, a), id \in IF kms.drv = "vmwgfx" THEN KmsGmrs ELSE {r.handle} :
           kms' = [kms EXCEPT !.k = r.k,
                        !.bo = Bind(@, b, [handle |-> id, obj |-> o, size |-> g.size, pitch |-> g.pitch,
                                           want |-> a, ptr |-> FALSE, map_count |-> 0, held |-> 0])]
  BY <1>1
<1>5. linux_create(kms.dev) # "vmwgfx" => id = r.handle
  BY <1>1, <1>2
<1> DEFINE w == [handle |-> id, obj |-> o, size |-> g.size, pitch |-> g.pitch,
                 want |-> a, ptr |-> FALSE, map_count |-> 0, held |-> 0]
           f == Bind(kms.bo, b, w)
<1> HIDE DEF r
<1>6. KmsBuffer(w) /\ w.handle = id /\ w.obj = o
  BY DEF KmsBuffer, KmsFields, KmsMapped
<1>7. kms' = [kms EXCEPT !.k = r.k, !.bo = f]
  BY <1>4
<1> HIDE DEF w
<1>8. f = Bind(kms.bo, b, w)
  OBVIOUS
<1>9. \A c \in DOMAIN f : KmsBuffer(f[c])
  <2>1. /\ DOMAIN f = DOMAIN kms.bo \cup {b} /\ f[b] = w
        /\ \A c \in DOMAIN kms.bo : c # b => f[c] = kms.bo[c]
    BY DEF Bind
  <2> HIDE DEF f
  <2> QED BY <1>2, <1>6, <2>1
<1> HIDE DEF f
<1>10. kms' = [dev |-> kms.dev, drv |-> kms.drv, k |-> r.k, bo |-> f]
  BY <1>2, <1>7
<1>11. linux_create(kms.dev) # "vmwgfx" => KmsMatched(r.k, f)
  <2> SUFFICES ASSUME linux_create(kms.dev) # "vmwgfx" PROVE KmsMatched(r.k, f)
    OBVIOUS
  <2>1. KmsMatched(kms.k, kms.bo) /\ w.handle = r.handle /\ b \notin DOMAIN kms.bo
    BY <1>1, <1>2, <1>5, <1>6
  <2> QED BY <1>3, <1>6, <1>8, <2>1, KmsOpened
<1> QED BY <1>2, <1>3, <1>9, <1>10, <1>11, KmsParts

(* Every step of libkms keeps the invariant.                               *)
LEMMA KmsNextOK ==
  ASSUME KmsOK(kms), KmsNext
  PROVE  KmsOK(kms')
<1>1. /\ KernelOK(kms.k) /\ kms.drv \in {"none", linux_create(kms.dev)}
      /\ \A c \in DOMAIN kms.bo : KmsBuffer(kms.bo[c])
      /\ linux_create(kms.dev) # "vmwgfx" => KmsMatched(kms.k, kms.bo)
      /\ kms = [dev |-> kms.dev, drv |-> kms.drv, k |-> kms.k, bo |-> kms.bo]
  BY DEF KmsOK
<1>2. ASSUME NEW e, e \in {"none", linux_create(kms.dev)}, kms' = [kms EXCEPT !.drv = e] PROVE KmsOK(kms')
  <2>1. kms' = [dev |-> kms.dev, drv |-> e, k |-> kms.k, bo |-> kms.bo]
    BY <1>1, <1>2
  <2> QED BY <1>1, <1>2, <2>1, KmsParts
<1>3. CASE kms_create
  BY <1>2, <1>3 DEF kms_create
<1>4. CASE kms_destroy
  BY <1>2, <1>4 DEF kms_destroy
<1>5. ASSUME NEW b, kms_bo_map(b) PROVE KmsOK(kms')
  <2> DEFINE v == kms.bo[b]
             m == v.map_count + 1
             n == v.held + 1
             u1 == [v EXCEPT !.ptr = TRUE]
             u2 == [u1 EXCEPT !.map_count = m]
             w == [u2 EXCEPT !.held = n]
             f == [kms.bo EXCEPT ![b] = w]
  <2>1. /\ b \in DOMAIN kms.bo
        /\ kms' = [kms EXCEPT !.bo[b].ptr = TRUE, !.bo[b].map_count = @ + 1, !.bo[b].held = @ + 1]
    BY <1>5 DEF kms_bo_map
  <2>2. KmsFields(v) /\ v.map_count \in Nat /\ v.held \in Nat /\ v.held <= v.map_count
    BY <1>1, <2>1 DEF KmsBuffer, KmsMapped
  <2>3. u1.map_count = v.map_count /\ u2.held = v.held
    BY <2>2 DEF KmsFields
  <2>4. kms' = [kms EXCEPT !.bo = f]
    <3> DEFINE g1 == [kms.bo EXCEPT ![b] = u1]
               g2 == [kms.bo EXCEPT ![b] = u2]
               x1 == [kms EXCEPT !.bo[b].ptr = TRUE]
               x2 == [x1 EXCEPT !.bo[b].map_count = @ + 1]
    <3>1. kms' = [x2 EXCEPT !.bo[b].held = @ + 1]
      BY <2>1
    <3>2. x1 = [kms EXCEPT !.bo = g1]
      BY <1>1
    <3>3. g1[b] = u1 /\ g2[b] = u2
      BY <2>1
    <3>4. x1.bo = g1
      BY <1>1, <3>2
    <3>5. [g1 EXCEPT ![b] = u2] = g2
      <4> HIDE DEF u1, u2
      <4> QED OBVIOUS
    <3>6. [g1 EXCEPT ![b].map_count = @ + 1] = g2
      BY <2>3, <3>3, <3>5
    <3>7. x2 = [kms EXCEPT !.bo = g2]
      <4> HIDE DEF g1, g2
      <4>1. x2 = [x1 EXCEPT !.bo = [x1.bo EXCEPT ![b].map_count = @ + 1]]
        OBVIOUS
      <4> HIDE DEF x1, x2
      <4>2. x2 = [x1 EXCEPT !.bo = g2]
        BY <3>4, <3>6, <4>1
      <4> QED BY <1>1, <3>2, <4>2
    <3>8. [g2 EXCEPT ![b] = w] = f
      <4> HIDE DEF u2, w
      <4> QED OBVIOUS
    <3>9. [g2 EXCEPT ![b].held = @ + 1] = f
      BY <2>3, <3>3, <3>8
    <3>10. x2.bo = g2
      BY <1>1, <3>7
    <3> HIDE DEF x2, g2, f
    <3>11. kms' = [x2 EXCEPT !.bo = f]
      BY <3>1, <3>9, <3>10
    <3> QED BY <1>1, <3>7, <3>11
  <2>5. f = [kms.bo EXCEPT ![b] = w]
    OBVIOUS
  <2>6. m \in Nat /\ n \in Nat /\ n <= m
    BY <2>2
  <2> HIDE DEF m, n
  <2>7. KmsFields(w) /\ w.handle = v.handle /\ w.obj = v.obj /\ w.ptr = TRUE /\ w.map_count = m /\ w.held = n
    <3>1. KmsFields(u1) /\ u1.handle = v.handle /\ u1.obj = v.obj /\ u1.ptr = TRUE
      BY <2>2, KmsSetPtr
    <3> HIDE DEF u1
    <3>2. KmsFields(u2) /\ u2.handle = v.handle /\ u2.obj = v.obj /\ u2.ptr = TRUE /\ u2.map_count = m
      BY <3>1, KmsSetCount
    <3> HIDE DEF u2
    <3> QED BY <3>2, KmsSetHeld
  <2> HIDE DEF w, f
  <2>8. KmsBuffer(w)
    BY <2>6, <2>7 DEF KmsBuffer, KmsMapped
  <2>9. b \in DOMAIN kms.bo
    BY <2>1
  <2> QED BY <2>4, <2>5, <2>7, <2>8, <2>9, KmsChanged
<1>6. ASSUME NEW b, kms_bo_unmap(b) PROVE KmsOK(kms')
  <2> DEFINE v == kms.bo[b]
             m == v.map_count - 1
             n == v.held - 1
             p == v.ptr /\ ~ (DriverFunctions(kms.drv).unmaps /\ v.map_count = 1)
             t == [v EXCEPT !.map_count = m]
             u == [t EXCEPT !.ptr = p]
             w == [u EXCEPT !.held = n]
             f == [kms.bo EXCEPT ![b] = w]
  <2>1. /\ b \in DOMAIN kms.bo /\ v.held > 0
        /\ kms' = [kms EXCEPT !.bo[b] = [Unmapped(kms.drv, v) EXCEPT !.held = @ - 1]]
    BY <1>6 DEF kms_bo_unmap
  <2>2. KmsFields(v) /\ v.map_count \in Nat /\ v.held \in Nat /\ v.held <= v.map_count /\ v.ptr = TRUE
    BY <1>1, <2>1 DEF KmsBuffer, KmsMapped
  <2>3. m \in Nat /\ n \in Nat /\ n <= m /\ (n > 0 => v.map_count # 1)
    BY <2>1, <2>2
  <2>4. n > 0 => p = TRUE
    BY <2>2, <2>3, Zenon
  <2>5. Unmapped(kms.drv, v) = u
    <3>1. [v EXCEPT !.map_count = m].ptr = v.ptr
      BY <2>2 DEF KmsFields
    <3> QED BY <3>1 DEF Unmapped
  <2> HIDE DEF m, p, n
  <2>6. u.held = v.held
    BY <2>2 DEF KmsFields
  <2>7. kms' = [kms EXCEPT !.bo[b] = w]
    <3>1. kms' = [kms EXCEPT !.bo[b] = [u EXCEPT !.held = @ - 1]]
      <4> DEFINE z == Unmapped(kms.drv, v)
      <4>1. kms' = [kms EXCEPT !.bo[b] = [z EXCEPT !.held = @ - 1]]
        BY <2>1
      <4>2. z = u
        BY <2>5
      <4> HIDE DEF z, u
      <4> QED BY <4>1, <4>2
    <3>2. [u EXCEPT !.held = @ - 1] = w
      <4> HIDE DEF u
      <4> QED BY <2>6 DEF n
    <3> QED BY <3>1, <3>2
  <2>8. KmsFields(w) /\ w.handle = v.handle /\ w.obj = v.obj /\ w.ptr = p /\ w.map_count = m /\ w.held = n
    <3>1. KmsFields(t) /\ t.handle = v.handle /\ t.obj = v.obj /\ t.map_count = m
      BY <2>2, KmsSetCount
    <3> HIDE DEF t
    <3>2. KmsFields(u) /\ u.handle = v.handle /\ u.obj = v.obj /\ u.ptr = p /\ u.map_count = m
      BY <3>1, KmsSetPtr
    <3> HIDE DEF u
    <3> QED BY <3>2, KmsSetHeld
  <2> HIDE DEF w
  <2>9. kms' = [kms EXCEPT !.bo = f] /\ f = [kms.bo EXCEPT ![b] = w]
    BY <1>1, <2>7
  <2> HIDE DEF f
  <2>10. KmsBuffer(w)
    BY <2>3, <2>4, <2>8 DEF KmsBuffer, KmsMapped
  <2>11. b \in DOMAIN kms.bo
    BY <2>1
  <2> QED BY <2>8, <2>9, <2>10, <2>11, KmsChanged
<1>7. ASSUME NEW b, kms_bo_destroy(b) PROVE KmsOK(kms')
  <2>1. b \in DOMAIN kms.bo
    BY <1>7 DEF kms_bo_destroy
  <2>2. CASE kms' = [kms EXCEPT !.k = Destroyed(@, kms.bo[b].handle), !.bo = Unbind(@, b)]
    <3> DEFINE h == kms.bo[b].handle
               q == Destroyed(kms.k, h)
               f == Unbind(kms.bo, b)
    <3>1. kms' = [kms EXCEPT !.k = q, !.bo = f]
      BY <2>2
    <3>2. KernelOK(q)
      BY <1>1, GemCloseIs DEF Destroyed
    <3>3. h \in DOMAIN kms.k.open => q.open = Unbind(kms.k.open, h)
      BY <1>1, GemCloseIs DEF Destroyed
    <3>4. DOMAIN f = DOMAIN kms.bo \ {b} /\ \A c \in DOMAIN f : f[c] = kms.bo[c]
      BY DEF Unbind
    <3>5. f = Unbind(kms.bo, b)
      OBVIOUS
    <3> HIDE DEF q, f
    <3>6. kms' = [dev |-> kms.dev, drv |-> kms.drv, k |-> q, bo |-> f]
      BY <1>1, <3>1
    <3>7. \A c \in DOMAIN f : KmsBuffer(f[c])
      BY <1>1, <3>4
    <3>8. linux_create(kms.dev) # "vmwgfx" => KmsMatched(q, f)
      <4> SUFFICES ASSUME linux_create(kms.dev) # "vmwgfx" PROVE KmsMatched(q, f)
        OBVIOUS
      <4>1. KmsMatched(kms.k, kms.bo)
        BY <1>1
      <4>2. q.open = Unbind(kms.k.open, h)
        BY <2>1, <3>3, <4>1 DEF KmsMatched
      <4> QED BY <2>1, <3>5, <4>1, <4>2, KmsClosed
    <3> QED BY <1>1, <3>2, <3>6, <3>7, <3>8, KmsParts
  <2>3. CASE kms' = [kms EXCEPT !.bo[b].ptr = FALSE, !.bo[b].held = 0]
    <3> DEFINE v == kms.bo[b]
               u == [v EXCEPT !.ptr = FALSE]
               w == [u EXCEPT !.held = 0]
               g == [kms.bo EXCEPT ![b] = u]
               f == [kms.bo EXCEPT ![b] = w]
               x == [kms EXCEPT !.bo[b].ptr = FALSE]
    <3>1. x = [kms EXCEPT !.bo = g] /\ x.bo = g /\ g[b] = u
      BY <1>1, <2>1
    <3>2. [g EXCEPT ![b] = w] = f
      <4> HIDE DEF u, w
      <4> QED OBVIOUS
    <3>3. [g EXCEPT ![b].held = 0] = f
      BY <3>1, <3>2
    <3>4. kms' = [kms EXCEPT !.bo = f]
      <4>1. kms' = [x EXCEPT !.bo[b].held = 0]
        BY <2>3
      <4> HIDE DEF x, g, f
      <4>2. kms' = [x EXCEPT !.bo = f]
        BY <3>1, <3>3, <4>1
      <4> QED BY <1>1, <3>1, <4>2
    <3>5. KmsFields(v) /\ v.map_count \in Nat
      BY <1>1, <2>1 DEF KmsBuffer, KmsMapped
    <3>6. KmsFields(w) /\ w.handle = v.handle /\ w.obj = v.obj /\ w.map_count = v.map_count /\ w.held = 0
      <4>1. KmsFields(u) /\ u.handle = v.handle /\ u.obj = v.obj /\ u.map_count = v.map_count
        BY <3>5, KmsSetPtr
      <4> HIDE DEF u
      <4> QED BY <4>1, KmsSetHeld
    <3>7. f = [kms.bo EXCEPT ![b] = w]
      OBVIOUS
    <3> HIDE DEF w, f
    <3>8. KmsBuffer(w)
      BY <3>5, <3>6 DEF KmsBuffer, KmsMapped
    <3> QED BY <2>1, <3>4, <3>6, <3>7, <3>8, KmsChanged
  <2> QED BY <1>7, <2>2, <2>3 DEF kms_bo_destroy
<1> QED BY <1>3, <1>4, <1>5, <1>6, <1>7, KmsCreateOK DEF KmsNext

(* No buffer at first.                                                     *)
LEMMA KmsInitOK ==
  ASSUME KmsInit
  PROVE  KmsOK(kms)
<1> DEFINE q == Kernel({})
<1>1. KernelOK(q) /\ DOMAIN q.open = {}
  BY KernelInit
<1>2. PICK d \in KmsDevices : kms = [dev |-> d, drv |-> "none", k |-> q, bo |-> << >>]
  BY DEF KmsInit
<1> HIDE DEF q
<1>3. KmsMatched(q, << >>)
  BY <1>1 DEF KmsMatched
<1>4. \A b \in DOMAIN << >> : KmsBuffer(<< >>[b])
  OBVIOUS
<1> QED BY <1>1, <1>2, <1>3, <1>4, KmsParts

(* What the run checks follows.                                            *)
LEMMA KmsOKSound ==
  ASSUME KmsOK(kms)
  PROVE  KmsHandlesMatch
<1>1. \A b \in DOMAIN kms.bo : kms.bo[b].held > 0 => kms.bo[b].ptr
  <2> SUFFICES ASSUME NEW b \in DOMAIN kms.bo, kms.bo[b].held > 0 PROVE kms.bo[b].ptr
    OBVIOUS
  <2>1. kms.bo[b].ptr = TRUE
    BY DEF KmsOK, KmsBuffer, KmsMapped
  <2> QED BY <2>1
<1>2. ASSUME KmsMatched(kms.k, kms.bo)
      PROVE  /\ {kms.bo[b].handle : b \in DOMAIN kms.bo} = DOMAIN kms.k.open
             /\ \A b \in DOMAIN kms.bo : kms.k.open[kms.bo[b].handle] = kms.bo[b].obj
  BY <1>2 DEF KmsMatched
<1> QED BY <1>1, <1>2 DEF KmsOK, KmsHandlesMatch

-----------------------------------------------------------------------------
(* Omap.                                                                   *)

(* The fields of a structure of the omap library; it is live exactly as    *)
(* long as somebody refers to it.                                          *)
OmFields(w) ==
  w = [state |-> w.state, refcnt |-> w.refcnt, handle |-> w.handle, obj |-> w.obj, named |-> w.named, fd |-> w.fd]

OmBuffer(w) ==
  /\ OmFields(w)
  /\ w.state \in {"free", "live", "doomed", "closed"} /\ w.refcnt \in Nat
  /\ w.state = "live" <=> w.refcnt > 0

OmObject(w, o) == w.obj = {o}

OmHeld(w) == w.state \in {"live", "doomed"}

(* The table leads from every open handle to the structure that has it.    *)
OmMatched(k, f, t) ==
  /\ \A b \in OmapBos : OmHeld(f[b]) =>
       /\ f[b].handle \in DOMAIN k.open /\ f[b].obj = {k.open[f[b].handle]}
       /\ f[b].handle \in DOMAIN t /\ t[f[b].handle] = b
  /\ \A h \in DOMAIN k.open : \E b \in OmapBos : OmHeld(f[b]) /\ f[b].handle = h
  /\ \A h \in DOMAIN t : t[h] \in OmapBos /\ OmHeld(f[t[h]]) /\ f[t[h]].handle = h

OmUsed(f) == {b \in OmapBos : f[b].state # "free"}

(* The device is open exactly as long as the program or a structure        *)
(* refers to it.                                                           *)
OmCounted(f, table, dv, rc, us) ==
  /\ IsFiniteSet(OmUsed(f)) /\ us \in Nat /\ rc = us + Cardinality(OmUsed(f))
  /\ \/ table = FALSE /\ dv = "none" /\ rc = 0
     \/ table = TRUE /\ dv = "open" /\ rc > 0
     \/ table = TRUE /\ dv = "dying" /\ rc = 0

(* The invariant of the omap library, until something odd happens.         *)
OmShape(x) ==
  x = [k |-> x.k, bo |-> x.bo, handle_table |-> x.handle_table, dev_table |-> x.dev_table,
       device |-> x.device, refcnt |-> x.refcnt, users |-> x.users, odd |-> x.odd]

OmGood(x) ==
  /\ OmShape(x)
  /\ KernelOK(x.k)
  /\ DOMAIN x.bo = OmapBos
  /\ \A b \in OmapBos : OmBuffer(x.bo[b])
  /\ OmMatched(x.k, x.bo, x.handle_table)
  /\ OmCounted(x.bo, x.dev_table, x.device, x.refcnt, x.users)

OmOK(x) == x.odd = "no" => OmGood(x)

(* The record of the library, put together from its parts.                 *)
LEMMA OmParts ==
  ASSUME NEW q, KernelOK(q), NEW f, DOMAIN f = OmapBos, \A b \in OmapBos : OmBuffer(f[b]),
         NEW t, OmMatched(q, f, t), NEW p, NEW dv, NEW rc, NEW us, OmCounted(f, p, dv, rc, us),
         NEW z, NEW y, y = [k |-> q, bo |-> f, handle_table |-> t, dev_table |-> p,
                            device |-> dv, refcnt |-> rc, users |-> us, odd |-> z]
  PROVE  OmOK(y)
<1>1. y.k = q /\ y.bo = f /\ y.handle_table = t /\ y.dev_table = p /\ y.device = dv /\ y.refcnt = rc /\ y.users = us
  OBVIOUS
<1>2. OmShape(y)
  BY DEF OmShape
<1> QED BY <1>1, <1>2 DEF OmOK, OmGood

(* The structures that are counted, after one of them changed.             *)
LEMMA OmUsedIs ==
  ASSUME NEW g, DOMAIN g = OmapBos, IsFiniteSet(OmUsed(g)), NEW b \in OmapBos, NEW w,
         NEW f, f = [g EXCEPT ![b] = w]
  PROVE  /\ IsFiniteSet(OmUsed(f))
         /\ Cardinality(OmUsed(g)) \in Nat /\ Cardinality(OmUsed(f)) \in Nat
         /\ (g[b].state = "free") = (w.state = "free") => Cardinality(OmUsed(f)) = Cardinality(OmUsed(g))
         /\ g[b].state = "free" /\ w.state # "free" => Cardinality(OmUsed(f)) = Cardinality(OmUsed(g)) + 1
         /\ g[b].state # "free" /\ w.state = "free" => Cardinality(OmUsed(f)) = Cardinality(OmUsed(g)) - 1
<1>1. \A c \in OmapBos : f[c] = IF c = b THEN w ELSE g[c]
  OBVIOUS
<1>2. Cardinality(OmUsed(g)) \in Nat
  BY FS_CardinalityType
<1>3. CASE (g[b].state = "free") = (w.state = "free")
  <2>1. OmUsed(f) = OmUsed(g)
    BY <1>1, <1>3 DEF OmUsed
  <2> QED BY <1>2, <1>3, <2>1
<1>4. CASE g[b].state = "free" /\ w.state # "free"
  <2>1. OmUsed(f) = OmUsed(g) \cup {b} /\ b \notin OmUsed(g)
    BY <1>1, <1>4 DEF OmUsed
  <2>2. IsFiniteSet(OmUsed(f)) /\ Cardinality(OmUsed(f)) = Cardinality(OmUsed(g)) + 1
    BY <2>1, FS_AddElement
  <2> QED BY <1>2, <1>4, <2>2
<1>5. CASE g[b].state # "free" /\ w.state = "free"
  <2>1. OmUsed(f) = OmUsed(g) \ {b} /\ b \in OmUsed(g)
    BY <1>1, <1>5 DEF OmUsed
  <2>2. IsFiniteSet(OmUsed(f)) /\ Cardinality(OmUsed(f)) = Cardinality(OmUsed(g)) - 1
    BY <2>1, FS_RemoveElement
  <2>3. Cardinality(OmUsed(f)) \in Nat
    BY <2>2, FS_CardinalityType
  <2> QED BY <1>2, <1>5, <2>2, <2>3
<1> QED BY <1>3, <1>4, <1>5

(* A device without references has no structures.                          *)
LEMMA OmIdle ==
  ASSUME NEW f, NEW p, NEW dv, NEW rc, NEW us, OmCounted(f, p, dv, rc, us), rc = 0
  PROVE  us = 0 /\ OmUsed(f) = {} /\ Cardinality(OmUsed(f)) = 0
<1>1. Cardinality(OmUsed(f)) \in Nat
  BY FS_CardinalityType DEF OmCounted
<1>2. us = 0 /\ Cardinality(OmUsed(f)) = 0
  BY <1>1 DEF OmCounted
<1> QED BY <1>2, FS_EmptySet DEF OmCounted

(* An empty table is right when there is no structure.                     *)
LEMMA OmEmpty ==
  ASSUME NEW k, NEW f, NEW t, OmMatched(k, f, t), OmUsed(f) = {}, NEW u, DOMAIN u = {}
  PROVE  OmMatched(k, f, u)
<1>1. \A b \in OmapBos : ~ OmHeld(f[b])
  BY DEF OmUsed, OmHeld
<1> QED BY <1>1 DEF OmMatched

(* A structure for a handle that was not open.                             *)
LEMMA OmOpened ==
  ASSUME NEW k, NEW g, NEW t, OmMatched(k, g, t), DOMAIN g = OmapBos, NEW q, NEW h, h \notin DOMAIN k.open, NEW o,
         q.open = Bind(k.open, h, o), NEW b \in OmapBos, g[b].state = "free",
         NEW w, OmHeld(w), w.handle = h, OmObject(w, o),
         NEW f, f = [g EXCEPT ![b] = w], NEW u, u = Bind(t, h, b)
  PROVE  h \notin DOMAIN t /\ OmMatched(q, f, u)
<1>1. /\ DOMAIN q.open = DOMAIN k.open \cup {h} /\ q.open[h] = o
      /\ \A i \in DOMAIN k.open : i # h => q.open[i] = k.open[i]
  BY DEF Bind
<1>2. /\ DOMAIN u = DOMAIN t \cup {h} /\ u[h] = b
      /\ \A i \in DOMAIN t : i # h => u[i] = t[i]
  BY DEF Bind
<1>3. \A c \in OmapBos : f[c] = IF c = b THEN w ELSE g[c]
  OBVIOUS
<1>4. ~ OmHeld(g[b])
  BY DEF OmHeld
<1>5. h \notin DOMAIN t
  BY DEF OmMatched
<1>6. ASSUME NEW c \in OmapBos, OmHeld(f[c])
      PROVE  /\ f[c].handle \in DOMAIN q.open /\ f[c].obj = {q.open[f[c].handle]}
             /\ f[c].handle \in DOMAIN u /\ u[f[c].handle] = c
  <2>1. CASE c = b
    BY <1>1, <1>2, <1>3, <2>1 DEF OmObject
  <2>2. CASE c # b
    <3>1. f[c] = g[c]
      BY <1>3, <2>2
    <3>2. /\ g[c].handle \in DOMAIN k.open /\ g[c].obj = {k.open[g[c].handle]}
          /\ g[c].handle \in DOMAIN t /\ t[g[c].handle] = c
      BY <1>6, <3>1 DEF OmMatched
    <3> QED BY <1>1, <1>2, <3>1, <3>2
  <2> QED BY <2>1, <2>2
<1>7. ASSUME NEW i \in DOMAIN q.open PROVE \E c \in OmapBos : OmHeld(f[c]) /\ f[c].handle = i
  <2>1. CASE i = h
    BY <1>3, <2>1
  <2>2. CASE i # h
    <3>1. PICK c \in OmapBos : OmHeld(g[c]) /\ g[c].handle = i
      BY <1>1, <2>2 DEF OmMatched
    <3>2. f[c] = g[c]
      BY <1>3, <1>4, <3>1
    <3> QED BY <3>1, <3>2
  <2> QED BY <2>1, <2>2
<1>8. ASSUME NEW i \in DOMAIN u PROVE u[i] \in OmapBos /\ OmHeld(f[u[i]]) /\ f[u[i]].handle = i
  <2>1. CASE i = h
    BY <1>2, <1>3, <2>1
  <2>2. CASE i # h
    <3>1. i \in DOMAIN t /\ u[i] = t[i]
      BY <1>2, <2>2
    <3>2. t[i] \in OmapBos /\ OmHeld(g[t[i]]) /\ g[t[i]].handle = i
      BY <3>1 DEF OmMatched
    <3>3. f[t[i]] = g[t[i]]
      BY <1>3, <1>4, <3>2
    <3> QED BY <3>1, <3>2, <3>3
  <2> QED BY <2>1, <2>2
<1> QED BY <1>5, <1>6, <1>7, <1>8 DEF OmMatched

(* A structure changes and keeps its handle.                               *)
LEMMA OmKept ==
  ASSUME NEW k, NEW g, NEW t, OmMatched(k, g, t), DOMAIN g = OmapBos, NEW q, q.open = k.open, NEW b \in OmapBos,
         NEW w, OmHeld(w) <=> OmHeld(g[b]), w.handle = g[b].handle, w.obj = g[b].obj,
         NEW f, f = [g EXCEPT ![b] = w]
  PROVE  OmMatched(q, f, t)
<1>1. \A c \in OmapBos : f[c] = IF c = b THEN w ELSE g[c]
  OBVIOUS
<1>2. \A c \in OmapBos : (OmHeld(f[c]) <=> OmHeld(g[c])) /\ f[c].handle = g[c].handle /\ f[c].obj = g[c].obj
  BY <1>1
<1> QED BY <1>2 DEF OmMatched

(* A structure gives up its handle.                                        *)
LEMMA OmClosed ==
  ASSUME NEW k, NEW g, NEW t, OmMatched(k, g, t), DOMAIN g = OmapBos, NEW b \in OmapBos, OmHeld(g[b]),
         NEW q, q.open = Unbind(k.open, g[b].handle), NEW w, ~ OmHeld(w),
         NEW f, f = [g EXCEPT ![b] = w], NEW u, u = Unbind(t, g[b].handle)
  PROVE  OmMatched(q, f, u)
<1> DEFINE h == g[b].handle
<1>1. /\ DOMAIN q.open = DOMAIN k.open \ {h}
      /\ \A i \in DOMAIN k.open : i # h => q.open[i] = k.open[i]
  BY DEF Unbind
<1>2. DOMAIN u = DOMAIN t \ {h} /\ \A i \in DOMAIN t : i # h => u[i] = t[i]
  BY DEF Unbind
<1>3. \A c \in OmapBos : f[c] = IF c = b THEN w ELSE g[c]
  OBVIOUS
<1>4. h \in DOMAIN t /\ t[h] = b
  BY DEF OmMatched
<1> HIDE DEF h
<1>5. ASSUME NEW c \in OmapBos, OmHeld(f[c])
      PROVE  /\ f[c].handle \in DOMAIN q.open /\ f[c].obj = {q.open[f[c].handle]}
             /\ f[c].handle \in DOMAIN u /\ u[f[c].handle] = c
  <2>1. c # b /\ f[c] = g[c]
    BY <1>3, <1>5
  <2>2. /\ g[c].handle \in DOMAIN k.open /\ g[c].obj = {k.open[g[c].handle]}
        /\ g[c].handle \in DOMAIN t /\ t[g[c].handle] = c
    BY <1>5, <2>1 DEF OmMatched
  <2>3. g[c].handle # h
    BY <1>4, <2>1, <2>2
  <2> QED BY <1>1, <1>2, <2>1, <2>2, <2>3
<1>6. ASSUME NEW i \in DOMAIN q.open PROVE \E c \in OmapBos : OmHeld(f[c]) /\ f[c].handle = i
  <2>1. i \in DOMAIN k.open /\ i # h
    BY <1>1
  <2>2. PICK c \in OmapBos : OmHeld(g[c]) /\ g[c].handle = i
    BY <2>1 DEF OmMatched
  <2>3. f[c] = g[c]
    BY <1>3, <2>1, <2>2 DEF h
  <2> QED BY <2>2, <2>3
<1>7. ASSUME NEW i \in DOMAIN u PROVE u[i] \in OmapBos /\ OmHeld(f[u[i]]) /\ f[u[i]].handle = i
  <2>1. i \in DOMAIN t /\ u[i] = t[i] /\ i # h
    BY <1>2
  <2>2. t[i] \in OmapBos /\ OmHeld(g[t[i]]) /\ g[t[i]].handle = i
    BY <2>1 DEF OmMatched
  <2>3. f[t[i]] = g[t[i]]
    BY <1>3, <2>1, <2>2 DEF h
  <2> QED BY <2>1, <2>2, <2>3
<1> QED BY <1>5, <1>6, <1>7 DEF OmMatched

(* A structure that is free, where there is one.                           *)
LEMMA FreshOmapIs ==
  ASSUME NEW b \in FreshOmap
  PROVE  b \in OmapBos /\ om.bo[b].state = "free"
BY DEF FreshOmap

(* A state of the library with a new structure for a handle just opened.   *)
LEMMA OmNew ==
  ASSUME NEW x, OmGood(x), x.users > 0, NEW q, KernelOK(q), NEW h, h \notin DOMAIN x.k.open, NEW o,
         q.open = Bind(x.k.open, h, o), NEW b \in OmapBos, x.bo[b].state = "free",
         NEW w, OmBuffer(w), w.state = "live", w.handle = h, w.obj = {q.open[h]},
         NEW f, f = [x.bo EXCEPT ![b] = w], NEW t, t = Bind(x.handle_table, h, b),
         NEW y, y = [k |-> q, bo |-> f, handle_table |-> t, dev_table |-> x.dev_table,
                     device |-> x.device, refcnt |-> x.refcnt + 1, users |-> x.users, odd |-> x.odd]
  PROVE  OmOK(y)
<1>1. OmHeld(w)
  BY DEF OmHeld
<1> DEFINE k == x.k
           g == x.bo
           u == x.handle_table
<1>2. DOMAIN g = OmapBos /\ OmMatched(k, g, u) /\ \A c \in OmapBos : OmBuffer(g[c])
  BY DEF OmGood
<1>3. h \notin DOMAIN k.open /\ q.open = Bind(k.open, h, o) /\ g[b].state = "free" /\ f = [g EXCEPT ![b] = w] /\ t = Bind(u, h, b)
  OBVIOUS
<1>5. IsFiniteSet(OmUsed(g))
  BY DEF OmGood, OmCounted
<1>7. OmCounted(g, x.dev_table, x.device, x.refcnt, x.users)
  BY DEF OmGood
<1> HIDE DEF k, g, u
<1>9. OmMatched(q, f, t)
  <2>1. OmMatched(k, g, u) /\ DOMAIN g = OmapBos
    BY <1>2
  <2>2. Bind(k.open, h, o)[h] = o
    BY DEF Bind
  <2>3. OmObject(w, o)
    BY <1>3, <2>2 DEF OmObject
  <2> QED BY <1>1, <1>3, <2>1, <2>3, OmOpened
<1>4. DOMAIN f = OmapBos /\ \A c \in OmapBos : OmBuffer(f[c])
  BY <1>2, <1>3
<1>6. /\ IsFiniteSet(OmUsed(f)) /\ Cardinality(OmUsed(g)) \in Nat
      /\ Cardinality(OmUsed(f)) = Cardinality(OmUsed(g)) + 1
  BY <1>2, <1>3, <1>5, OmUsedIs
<1> DEFINE rc == x.refcnt + 1
<1>8. OmCounted(f, x.dev_table, x.device, rc, x.users)
  BY <1>6, <1>7 DEF OmCounted
<1>10. y = [k |-> q, bo |-> f, handle_table |-> t, dev_table |-> x.dev_table,
                     device |-> x.device, refcnt |-> rc, users |-> x.users, odd |-> x.odd]
  OBVIOUS
<1> HIDE DEF rc
<1> QED BY <1>9, <1>4, <1>8, <1>10, OmParts

(* The structure that bo_from_handle makes, and the state it leads to.     *)
OmFresh(w, q, h) == OmBuffer(w) /\ w.state = "live" /\ w.handle = h /\ w.obj = {q.open[h]}

OmWith(x, q, h, b, w) ==
  [k |-> q, bo |-> [x.bo EXCEPT ![b] = w], handle_table |-> Bind(x.handle_table, h, b),
   dev_table |-> x.dev_table, device |-> x.device, refcnt |-> x.refcnt + 1,
   users |-> x.users, odd |-> x.odd]

(* bo_from_handle, of a handle just opened.                                *)
LEMMA OmFromHandleIs ==
  ASSUME NEW x, OmGood(x), NEW q, NEW h, h \notin DOMAIN x.k.open, NEW b \in OmapBos,
         NEW s, s = [x EXCEPT !.k = q]
  PROVE  \E w : OmFresh(w, q, h) /\ OmapFromHandle(s, b, h) = OmWith(x, q, h, b, w)
<1>1. s = [k |-> q, bo |-> x.bo, handle_table |-> x.handle_table, dev_table |-> x.dev_table,
           device |-> x.device, refcnt |-> x.refcnt, users |-> x.users, odd |-> x.odd]
  BY DEF OmGood, OmShape
<1>2. h \notin DOMAIN x.handle_table
  BY DEF OmGood, OmMatched
<1> DEFINE P == {q.open[h]}
           w == [NoOmapBo EXCEPT !.state = "live", !.refcnt = 1, !.handle = h, !.obj = P]
           f == [x.bo EXCEPT ![b] = w]
           t == Bind(x.handle_table, h, b)
           rc == x.refcnt + 1
<1>3. {s.k.open[h]} = P
  BY <1>1
<1>4. OmapFromHandle(s, b, h) =
        [s EXCEPT !.bo[b] = w, !.refcnt = @ + 1,
                  !.handle_table = IF h \in DOMAIN @ THEN @ ELSE Bind(@, h, b)]
  BY <1>3, Zenon DEF OmapFromHandle
<1> HIDE DEF P
<1>5. OmBuffer(w) /\ w.state = "live" /\ w.handle = h /\ w.obj = P
  <2> DEFINE z == FALSE
  <2>1. NoOmapBo = [state |-> "free", refcnt |-> 0, handle |-> NoHandle, obj |-> {}, named |-> z, fd |-> z]
    BY DEF NoOmapBo
  <2> HIDE DEF z
  <2>2. ASSUME NEW v, v = w PROVE v = [state |-> "live", refcnt |-> 1, handle |-> h, obj |-> P, named |-> z, fd |-> z]
    BY <2>1, <2>2
  <2>3. w = [state |-> "live", refcnt |-> 1, handle |-> h, obj |-> P, named |-> z, fd |-> z]
    BY <2>2
  <2> HIDE DEF w
  <2> QED BY <2>3 DEF OmBuffer, OmFields
<1> HIDE DEF w
<1>6. OmapFromHandle(s, b, h) = [s EXCEPT !.bo = f, !.refcnt = rc, !.handle_table = t]
  <2>1. s.bo = x.bo /\ s.refcnt = x.refcnt /\ s.handle_table = x.handle_table
    BY <1>1
  <2> QED BY <1>1, <1>2, <1>4, <2>1
<1> HIDE DEF rc, f, t
<1>7. OmapFromHandle(s, b, h) =
           [k |-> q, bo |-> f, handle_table |-> t, dev_table |-> x.dev_table,
            device |-> x.device, refcnt |-> rc, users |-> x.users, odd |-> x.odd]
  <2>1. ASSUME NEW v, v = [s EXCEPT !.bo = f, !.refcnt = rc, !.handle_table = t]
        PROVE  v = [k |-> q, bo |-> f, handle_table |-> t, dev_table |-> x.dev_table,
            device |-> x.device, refcnt |-> rc, users |-> x.users, odd |-> x.odd]
    BY <1>1, <2>1
  <2> QED BY <1>6, <2>1
<1> QED BY <1>5, <1>7 DEF rc, f, t, P, OmFresh, OmWith

(* A step that changes one structure and leaves it its handle.             *)
LEMMA OmChanged ==
  ASSUME NEW x, OmGood(x), NEW q, KernelOK(q), q.open = x.k.open, NEW b \in OmapBos,
         NEW w, OmBuffer(w), OmHeld(w) <=> OmHeld(x.bo[b]), w.handle = x.bo[b].handle, w.obj = x.bo[b].obj,
         (x.bo[b].state = "free") = (w.state = "free"), NEW f, f = [x.bo EXCEPT ![b] = w],
         NEW z, NEW y, y = [k |-> q, bo |-> f, handle_table |-> x.handle_table, dev_table |-> x.dev_table,
                            device |-> x.device, refcnt |-> x.refcnt, users |-> x.users, odd |-> z]
  PROVE  OmOK(y)
<1> DEFINE k == x.k
           g == x.bo
           t == x.handle_table
<1>1. DOMAIN g = OmapBos /\ OmMatched(k, g, t) /\ \A c \in OmapBos : OmBuffer(g[c])
  BY DEF OmGood
<1>2. OmCounted(g, x.dev_table, x.device, x.refcnt, x.users)
  BY DEF OmGood
<1>3. /\ q.open = k.open /\ (OmHeld(w) <=> OmHeld(g[b])) /\ w.handle = g[b].handle /\ w.obj = g[b].obj
      /\ (g[b].state = "free") = (w.state = "free") /\ f = [g EXCEPT ![b] = w]
      /\ y = [k |-> q, bo |-> f, handle_table |-> t, dev_table |-> x.dev_table,
              device |-> x.device, refcnt |-> x.refcnt, users |-> x.users, odd |-> z]
  OBVIOUS
<1> HIDE DEF k, g, t
<1>4. OmMatched(q, f, t)
  BY <1>1, <1>3, OmKept
<1>5. DOMAIN f = OmapBos /\ \A c \in OmapBos : OmBuffer(f[c])
  BY <1>1, <1>3
<1>6. OmUsed(f) = OmUsed(g)
  BY <1>1, <1>3 DEF OmUsed
<1>7. OmCounted(f, x.dev_table, x.device, x.refcnt, x.users)
  BY <1>2, <1>6 DEF OmCounted
<1> QED BY <1>3, <1>4, <1>5, <1>7, OmParts

(* A step on the device.                                                   *)
LEMMA OmDevice ==
  ASSUME NEW x, OmGood(x), NEW t, OmMatched(x.k, x.bo, t), NEW p, NEW dv, NEW rc, NEW us,
         OmCounted(x.bo, p, dv, rc, us), NEW y,
         y = [x EXCEPT !.handle_table = t, !.dev_table = p, !.device = dv, !.refcnt = rc, !.users = us]
  PROVE  OmOK(y)
<1>1. y = [k |-> x.k, bo |-> x.bo, handle_table |-> t, dev_table |-> p,
           device |-> dv, refcnt |-> rc, users |-> us, odd |-> x.odd]
  BY DEF OmGood, OmShape
<1>2. KernelOK(x.k) /\ DOMAIN x.bo = OmapBos /\ \A b \in OmapBos : OmBuffer(x.bo[b])
  BY DEF OmGood
<1> DEFINE q == x.k
           f == x.bo
           z == x.odd
           v == [k |-> q, bo |-> f, handle_table |-> t, dev_table |-> p,
                 device |-> dv, refcnt |-> rc, users |-> us, odd |-> z]
<1>3. KernelOK(q) /\ DOMAIN f = OmapBos /\ (\A b \in OmapBos : OmBuffer(f[b])) /\ OmMatched(q, f, t) /\ OmCounted(f, p, dv, rc, us)
  BY <1>2
<1>4. y = v
  BY <1>1
<1> HIDE DEF q, f, z
<1>5. OmOK(v)
  BY <1>3, OmParts
<1> QED BY <1>4, <1>5

(* omap_device_new.                                                        *)
LEMMA OmDeviceNewOK ==
  ASSUME OmGood(om), omap_device_new
  PROVE  OmOK(om')
<1>0. OmShape(om) /\ OmMatched(om.k, om.bo, om.handle_table) /\ OmCounted(om.bo, om.dev_table, om.device, om.refcnt, om.users)
  BY DEF OmGood
<1>1. CASE ~ om.dev_table
  <2>1. om.refcnt = 0 /\ om.users = 0 /\ OmUsed(om.bo) = {} /\ Cardinality(OmUsed(om.bo)) = 0
    <3>1. om.refcnt = 0
      BY <1>0, <1>1 DEF OmCounted
    <3> QED BY <1>0, <3>1, OmIdle
  <2> DEFINE t == [h \in {} |-> 0]
             p == TRUE
  <2>2. OmMatched(om.k, om.bo, t)
    <3>1. DOMAIN t = {}
      OBVIOUS
    <3> HIDE DEF t
    <3> QED BY <1>0, <2>1, <3>1, OmEmpty
  <2>3. OmCounted(om.bo, p, "open", 1, 1)
    BY <1>0, <2>1 DEF OmCounted
  <2>4. om' = [om EXCEPT !.device = "open", !.dev_table = p, !.refcnt = 1, !.users = 1, !.handle_table = t]
    BY <1>1 DEF omap_device_new
  <2> HIDE DEF t, p
  <2>5. om' = [om EXCEPT !.handle_table = t, !.dev_table = p, !.device = "open", !.refcnt = 1, !.users = 1]
    BY <1>0, <2>4 DEF OmShape
  <2> QED BY <2>2, <2>3, <2>5, OmDevice
<1>2. CASE om.dev_table /\ om.device = "dying"
  <2> DEFINE s == [om EXCEPT !.refcnt = @ + 1, !.users = @ + 1]
  <2>1. om' = [s EXCEPT !.odd = "device revived"]
    BY <1>2 DEF omap_device_new, Stray
  <2>2. "odd" \in DOMAIN s
    BY <1>0 DEF OmShape
  <2>3. om'.odd = "device revived"
    BY <2>1, <2>2
  <2> QED BY <2>3 DEF OmOK
<1>3. CASE om.dev_table /\ om.device # "dying"
  <2> DEFINE rc == om.refcnt + 1
             us == om.users + 1
  <2>1. om' = [om EXCEPT !.refcnt = rc, !.users = us]
    BY <1>3 DEF omap_device_new
  <2>2. OmCounted(om.bo, om.dev_table, om.device, rc, us)
    <3>1. Cardinality(OmUsed(om.bo)) \in Nat
      BY <1>0, FS_CardinalityType DEF OmCounted
    <3> QED BY <1>0, <1>3, <3>1 DEF OmCounted
  <2> HIDE DEF rc, us
  <2>3. om' = [om EXCEPT !.handle_table = om.handle_table, !.dev_table = om.dev_table, !.device = om.device, !.refcnt = rc, !.users = us]
    BY <1>0, <2>1 DEF OmShape
  <2> QED BY <1>0, <2>2, <2>3, OmDevice
<1>4. om.dev_table \in BOOLEAN
  BY <1>0 DEF OmCounted
<1> QED BY <1>1, <1>2, <1>3, <1>4

(* omap_device_ref.                                                        *)
LEMMA OmDeviceRefOK ==
  ASSUME OmGood(om), omap_device_ref
  PROVE  OmOK(om')
<1>0. OmShape(om) /\ OmMatched(om.k, om.bo, om.handle_table) /\ OmCounted(om.bo, om.dev_table, om.device, om.refcnt, om.users)
  BY DEF OmGood
<1> DEFINE rc == om.refcnt + 1
           us == om.users + 1
<1>1. om' = [om EXCEPT !.refcnt = rc, !.users = us] /\ om.users > 0
  <2>1. OmapMaxRefs \in Nat
    BY OmapAssumption
  <2> QED BY <2>1 DEF omap_device_ref
<1>2. OmCounted(om.bo, om.dev_table, om.device, rc, us)
  <2>1. Cardinality(OmUsed(om.bo)) \in Nat
    BY <1>0, FS_CardinalityType DEF OmCounted
  <2> QED BY <1>0, <1>1, <2>1 DEF OmCounted
<1> HIDE DEF rc, us
<1>3. om' = [om EXCEPT !.handle_table = om.handle_table, !.dev_table = om.dev_table, !.device = om.device, !.refcnt = rc, !.users = us]
  BY <1>0, <1>1 DEF OmShape
<1> QED BY <1>0, <1>2, <1>3, OmDevice

(* A reference to the device less.                                         *)
LEMMA OmDropIs ==
  ASSUME NEW f, NEW p, NEW dv, NEW rc, NEW us, NEW g, NEW vs, OmCounted(f, p, dv, rc, us),
         IsFiniteSet(OmUsed(g)), vs \in Nat, rc - 1 = vs + Cardinality(OmUsed(g)), rc > 0
  PROVE  OmCounted(g, p, IF rc = 1 THEN "dying" ELSE dv, rc - 1, vs)
<1>1. Cardinality(OmUsed(f)) \in Nat /\ Cardinality(OmUsed(g)) \in Nat
  BY FS_CardinalityType DEF OmCounted
<1> QED BY <1>1 DEF OmCounted

(* omap_device_del.                                                        *)
LEMMA OmDeviceDelOK ==
  ASSUME OmGood(om), omap_device_del
  PROVE  OmOK(om')
<1>0. OmShape(om) /\ OmMatched(om.k, om.bo, om.handle_table) /\ OmCounted(om.bo, om.dev_table, om.device, om.refcnt, om.users)
  BY DEF OmGood
<1> DEFINE rc == om.refcnt - 1
           us == om.users - 1
           dv == IF om.refcnt = 1 THEN "dying" ELSE om.device
           s == [om EXCEPT !.users = us]
<1>1. om' = DropOmapDevice(s) /\ om.users > 0
  BY DEF omap_device_del
<1>2. OmCounted(om.bo, om.dev_table, dv, rc, us)
  <2>1. Cardinality(OmUsed(om.bo)) \in Nat
    BY <1>0, FS_CardinalityType DEF OmCounted
  <2>2. IsFiniteSet(OmUsed(om.bo)) /\ us \in Nat /\ om.refcnt - 1 = us + Cardinality(OmUsed(om.bo)) /\ om.refcnt > 0
    BY <1>0, <1>1, <2>1 DEF OmCounted
  <2> HIDE DEF us
  <2> QED BY <1>0, <2>2, OmDropIs
<1>3. s.refcnt = om.refcnt /\ s.device = om.device
  BY <1>0 DEF OmShape
<1>4. om' = [s EXCEPT !.refcnt = rc, !.device = dv]
  BY <1>1, <1>3 DEF DropOmapDevice
<1> HIDE DEF rc, us, dv
<1>5. om' = [om EXCEPT !.handle_table = om.handle_table, !.dev_table = om.dev_table, !.device = dv, !.refcnt = rc, !.users = us]
  BY <1>0, <1>4 DEF OmShape
<1> QED BY <1>0, <1>2, <1>5, OmDevice

(* omap_device_del under the lock.                                         *)
LEMMA OmDeviceGoneOK ==
  ASSUME OmGood(om), omap_device_del_locked
  PROVE  OmOK(om')
<1>0. OmShape(om) /\ OmMatched(om.k, om.bo, om.handle_table) /\ OmCounted(om.bo, om.dev_table, om.device, om.refcnt, om.users)
  BY DEF OmGood
<1>1. om.refcnt = 0 /\ OmUsed(om.bo) = {}
  <2>1. om.refcnt = 0
    BY <1>0 DEF OmCounted, omap_device_del_locked
  <2> QED BY <1>0, <2>1, OmIdle
<1> DEFINE t == [h \in {} |-> 0]
           p == FALSE
<1>2. OmMatched(om.k, om.bo, t)
  <2>1. DOMAIN t = {}
    OBVIOUS
  <2> HIDE DEF t
  <2> QED BY <1>0, <1>1, <2>1, OmEmpty
<1>3. OmCounted(om.bo, p, "none", om.refcnt, om.users)
  BY <1>0, <1>1 DEF OmCounted
<1>4. om' = [om EXCEPT !.device = "none", !.dev_table = p, !.handle_table = t]
  BY DEF omap_device_del_locked
<1> HIDE DEF t, p
<1>5. om' = [om EXCEPT !.handle_table = t, !.dev_table = p, !.device = "none", !.refcnt = om.refcnt, !.users = om.users]
  BY <1>0, <1>4 DEF OmShape
<1> QED BY <1>2, <1>3, <1>5, OmDevice

(* omap_bo_new.                                                            *)
LEMMA OmBoNewOK ==
  ASSUME OmGood(om), NEW o \in OmapObjs, omap_bo_new(o)
  PROVE  OmOK(om')
<1>0. KernelOK(om.k) /\ OmShape(om)
  BY DEF OmGood
<1> DEFINE r == GemCreate(om.k, o)
           q == r.k
           h == r.handle
           s == [om EXCEPT !.k = q]
<1>1. PICK b \in FreshOmap : om' = OmapFromHandle(s, b, h)
  BY DEF omap_bo_new
<1>2. om.users > 0
  BY DEF omap_bo_new, OmapUsable
<1>3. b \in OmapBos /\ om.bo[b].state = "free"
  BY FreshOmapIs
<1>4. KernelOK(q) /\ h \notin DOMAIN om.k.open /\ q.open = Bind(om.k.open, h, o)
  BY <1>0, GemCreateIs
<1> HIDE DEF r, q, h
<1>7. s = [om EXCEPT !.k = q]
  OBVIOUS
<1> HIDE DEF s
<1>8. PICK w : OmFresh(w, q, h) /\ OmapFromHandle(s, b, h) = OmWith(om, q, h, b, w)
  BY <1>3, <1>4, <1>7, OmFromHandleIs
<1>5. /\ OmBuffer(w) /\ w.state = "live" /\ w.handle = h /\ w.obj = {q.open[h]}
      /\ OmapFromHandle(s, b, h) =
           [k |-> q, bo |-> [om.bo EXCEPT ![b] = w], handle_table |-> Bind(om.handle_table, h, b),
            dev_table |-> om.dev_table, device |-> om.device, refcnt |-> om.refcnt + 1,
            users |-> om.users, odd |-> om.odd]
  BY <1>8 DEF OmFresh, OmWith
<1>6. om' = [k |-> q, bo |-> [om.bo EXCEPT ![b] = w], handle_table |-> Bind(om.handle_table, h, b),
             dev_table |-> om.dev_table, device |-> om.device, refcnt |-> om.refcnt + 1,
             users |-> om.users, odd |-> om.odd]
  BY <1>1, <1>5
<1> QED BY <1>2, <1>3, <1>4, <1>5, <1>6, OmNew

(* lookup_bo finds a structure that is live; it refuses none, but one that *)
(* was given up is revived.                                                *)
LEMMA OmLookupOK ==
  ASSUME NEW x, OmGood(x), NEW q, KernelOK(q), q.open = x.k.open, NEW b \in OmapBos, OmHeld(x.bo[b]),
         NEW s, s = [x EXCEPT !.k = q], NEW y, y = OmapLookup(s, b)
  PROVE  OmOK(y)
<1>1. s = [k |-> q, bo |-> x.bo, handle_table |-> x.handle_table, dev_table |-> x.dev_table,
           device |-> x.device, refcnt |-> x.refcnt, users |-> x.users, odd |-> x.odd]
  BY DEF OmGood, OmShape
<1>2. DOMAIN x.bo = OmapBos /\ OmBuffer(x.bo[b])
  BY DEF OmGood
<1> DEFINE n == x.bo[b].refcnt + 1
           w == [x.bo[b] EXCEPT !.refcnt = n]
           f == [x.bo EXCEPT ![b] = w]
           t == [s EXCEPT !.bo = f]
<1>3. y = IF x.bo[b].refcnt = 0 THEN [t EXCEPT !.odd = "revived"] ELSE t
  <2>1. s.bo = x.bo
    BY <1>1
  <2>2. [s EXCEPT !.bo[b].refcnt = @ + 1] = t
    BY <1>1, <1>2, <2>1 DEF OmBuffer, OmFields
  <2> QED BY <2>1, <2>2 DEF OmapLookup, Stray
<1>4. CASE x.bo[b].refcnt = 0
  <2>1. "odd" \in DOMAIN t
    BY <1>1
  <2>2. y.odd = "revived"
    BY <1>3, <1>4, <2>1
  <2> QED BY <2>2 DEF OmOK
<1>5. CASE x.bo[b].refcnt # 0
  <2>1. n \in Nat /\ n > 0 /\ x.bo[b].state = "live"
    BY <1>2, <1>5 DEF OmBuffer
  <2> HIDE DEF n
  <2>2. /\ w.state = x.bo[b].state /\ w.refcnt = n /\ w.handle = x.bo[b].handle /\ w.obj = x.bo[b].obj
        /\ OmFields(w)
    BY <1>2 DEF OmBuffer, OmFields
  <2>3. OmBuffer(w) /\ OmHeld(w)
    BY <2>1, <2>2 DEF OmBuffer, OmHeld
  <2>4. (x.bo[b].state = "free") = (w.state = "free")
    BY <2>2
  <2> HIDE DEF w
  <2>5. f = [x.bo EXCEPT ![b] = w]
    OBVIOUS
  <2>6. y = t
    BY <1>3, <1>5
  <2> HIDE DEF f
  <2>7. t = [k |-> q, bo |-> f, handle_table |-> x.handle_table, dev_table |-> x.dev_table,
             device |-> x.device, refcnt |-> x.refcnt, users |-> x.users, odd |-> x.odd]
    <3>1. ASSUME NEW v, v = t
          PROVE  v = [k |-> q, bo |-> f, handle_table |-> x.handle_table, dev_table |-> x.dev_table,
                      device |-> x.device, refcnt |-> x.refcnt, users |-> x.users, odd |-> x.odd]
      BY <1>1, <3>1
    <3> QED BY <3>1
  <2> HIDE DEF t
  <2> QED BY <2>2, <2>3, <2>4, <2>5, <2>6, <2>7, OmChanged
<1> QED BY <1>4, <1>5

(* What omap_bo_from_name and omap_bo_from_dmabuf have in common, of a     *)
(* handle just opened.                                                     *)
LEMMA OmImportedNew ==
  ASSUME NEW x, OmGood(x), x.users > 0, NEW r, NEW q, q = r.k, NEW h, h = r.handle,
         KernelOK(q), h \notin DOMAIN x.k.open, NEW o, q.open = Bind(x.k.open, h, o), NEW b \in OmapBos, x.bo[b].state = "free",
         NEW nm, NEW y, y = Imported(x, r, nm, b)
  PROVE  OmOK(y)
<1> DEFINE s == [x EXCEPT !.k = q]
           a == OmapFromHandle(s, b, h)
<1>1. h \notin DOMAIN x.handle_table
  BY DEF OmGood, OmMatched
<1>2. y = [a EXCEPT !.bo[b].named = nm]
  BY <1>1 DEF Imported
<1>4. s = [x EXCEPT !.k = q]
  OBVIOUS
<1>16. a = OmapFromHandle(s, b, h)
  OBVIOUS
<1> HIDE DEF s, a
<1>8. PICK w : OmFresh(w, q, h) /\ OmapFromHandle(s, b, h) = OmWith(x, q, h, b, w)
  BY <1>4, OmFromHandleIs
<1>5. /\ OmBuffer(w) /\ w.state = "live" /\ w.handle = h /\ w.obj = {q.open[h]}
      /\ OmapFromHandle(s, b, h) =
           [k |-> q, bo |-> [x.bo EXCEPT ![b] = w], handle_table |-> Bind(x.handle_table, h, b),
            dev_table |-> x.dev_table, device |-> x.device, refcnt |-> x.refcnt + 1,
            users |-> x.users, odd |-> x.odd]
  BY <1>8 DEF OmFresh, OmWith
<1> DEFINE v == [w EXCEPT !.named = nm]
           f == [x.bo EXCEPT ![b] = w]
           g == [x.bo EXCEPT ![b] = v]
           t == Bind(x.handle_table, h, b)
           rc == x.refcnt + 1
<1>6. OmBuffer(v) /\ v.state = "live" /\ v.handle = h /\ v.obj = {q.open[h]}
  <2>1. v = [state |-> w.state, refcnt |-> w.refcnt, handle |-> w.handle, obj |-> w.obj, named |-> nm, fd |-> w.fd]
    <3>1. OmFields(w)
      BY <1>5 DEF OmBuffer
    <3>2. ASSUME NEW u, u = [w EXCEPT !.named = nm]
          PROVE  u = [state |-> w.state, refcnt |-> w.refcnt, handle |-> w.handle, obj |-> w.obj, named |-> nm, fd |-> w.fd]
      BY <3>1, <3>2 DEF OmFields
    <3> QED BY <3>2
  <2> HIDE DEF v
  <2> QED BY <1>5, <2>1 DEF OmBuffer, OmFields
<1>7. b \in DOMAIN x.bo
  BY DEF OmGood
<1>15. f[b] = w /\ [f EXCEPT ![b].named = nm] = g
  BY <1>7
<1> HIDE DEF v
<1>9. g = [x.bo EXCEPT ![b] = v]
  OBVIOUS
<1>10. a = [k |-> q, bo |-> f, handle_table |-> t, dev_table |-> x.dev_table,
            device |-> x.device, refcnt |-> rc, users |-> x.users, odd |-> x.odd]
  BY <1>5, <1>16
<1> HIDE DEF f, g
<1>11. y = [a EXCEPT !.bo = g]
  BY <1>2, <1>15, <1>10
<1> HIDE DEF t, rc
<1>12. y = [k |-> q, bo |-> g, handle_table |-> t, dev_table |-> x.dev_table,
            device |-> x.device, refcnt |-> rc, users |-> x.users, odd |-> x.odd]
  BY <1>10, <1>11
<1>13. y = [k |-> q, bo |-> g, handle_table |-> t, dev_table |-> x.dev_table,
            device |-> x.device, refcnt |-> x.refcnt + 1, users |-> x.users, odd |-> x.odd]
  BY <1>12 DEF rc
<1>14. t = Bind(x.handle_table, h, b)
  BY DEF t
<1> QED BY <1>6, <1>9, <1>13, <1>14, OmNew

(* omap_bo_from_name: the name always gives a handle that is new.          *)
LEMMA OmFromNameOK ==
  ASSUME OmGood(om), NEW o \in OmapObjs, omap_bo_from_name(o)
  PROVE  OmOK(om')
<1>0. KernelOK(om.k)
  BY DEF OmGood
<1> DEFINE r == GemOpen(om.k, o)
           q == r.k
           h == r.handle
<1>1. PICK b \in FreshOmap : om' = Imported(om, r, TRUE, b)
  BY DEF omap_bo_from_name
<1>2. om.users > 0
  BY DEF omap_bo_from_name, OmapUsable
<1>3. b \in OmapBos /\ om.bo[b].state = "free"
  BY FreshOmapIs
<1>4. KernelOK(q) /\ h \notin DOMAIN om.k.open /\ q.open = Bind(om.k.open, h, o)
  BY <1>0, GemOpenIs
<1>5. q = r.k /\ h = r.handle
  OBVIOUS
<1> HIDE DEF r, q, h
<1> QED BY <1>1, <1>2, <1>3, <1>4, <1>5, OmImportedNew

(* omap_bo_from_dmabuf: the handle may be one of a structure.              *)
LEMMA OmFromDmabufOK ==
  ASSUME OmGood(om), NEW o \in OmapObjs, omap_bo_from_dmabuf(o)
  PROVE  OmOK(om')
<1>0. KernelOK(om.k)
  BY DEF OmGood
<1> DEFINE r == PrimeOpen(om.k, o)
           q == r.k
           h == r.handle
<1>1. PICK b \in FreshOmap : om' = Imported(om, r, FALSE, b)
  BY DEF omap_bo_from_dmabuf
<1>2. om.users > 0
  BY DEF omap_bo_from_dmabuf, OmapUsable
<1>3. b \in OmapBos /\ om.bo[b].state = "free"
  BY FreshOmapIs
<1>4. /\ KernelOK(q)
      /\ \/ h \in DOMAIN om.k.open /\ q = om.k
         \/ h \notin DOMAIN om.k.open /\ q.open = Bind(om.k.open, h, o)
  BY <1>0, PrimeOpenIs
<1>5. q = r.k /\ h = r.handle
  OBVIOUS
<1> HIDE DEF r, q, h
<1>6. CASE h \in DOMAIN om.k.open /\ q = om.k
  <2> DEFINE c == om.handle_table[h]
             s == [om EXCEPT !.k = q]
  <2>1. h \in DOMAIN om.handle_table /\ c \in OmapBos /\ OmHeld(om.bo[c])
    BY <1>6 DEF OmGood, OmMatched
  <2>2. om' = OmapLookup(s, c)
    BY <1>1, <1>5, <2>1 DEF Imported
  <2>3. s = [om EXCEPT !.k = q] /\ q.open = om.k.open
    BY <1>6
  <2> HIDE DEF c, s
  <2> QED BY <1>4, <2>1, <2>2, <2>3, OmLookupOK
<1>7. CASE h \notin DOMAIN om.k.open /\ q.open = Bind(om.k.open, h, o)
  BY <1>1, <1>2, <1>3, <1>4, <1>5, <1>7, OmImportedNew
<1> QED BY <1>4, <1>6, <1>7

(* omap_bo_ref.                                                            *)
LEMMA OmRefOK ==
  ASSUME OmGood(om), NEW b \in OmapBos, omap_bo_ref(b)
  PROVE  OmOK(om')
<1>0. OmShape(om) /\ KernelOK(om.k) /\ DOMAIN om.bo = OmapBos /\ OmBuffer(om.bo[b])
  BY DEF OmGood
<1> DEFINE n == om.bo[b].refcnt + 1
           w == [om.bo[b] EXCEPT !.refcnt = n]
           f == [om.bo EXCEPT ![b] = w]
<1>1. om' = [om EXCEPT !.bo = f]
  BY <1>0 DEF omap_bo_ref, OmBuffer, OmFields, OmShape
<1>2. n \in Nat /\ n > 0 /\ om.bo[b].state = "live"
  <2>1. OmapMaxRefs \in Nat /\ om.bo[b].refcnt \in 1..(OmapMaxRefs - 1)
    BY OmapAssumption DEF omap_bo_ref
  <2> QED BY <1>0, <2>1 DEF OmBuffer
<1> HIDE DEF n
<1>3. /\ w.state = om.bo[b].state /\ w.refcnt = n /\ w.handle = om.bo[b].handle /\ w.obj = om.bo[b].obj
      /\ OmFields(w)
  BY <1>0 DEF OmBuffer, OmFields
<1>4. OmBuffer(w) /\ OmHeld(w) /\ OmHeld(om.bo[b])
  BY <1>2, <1>3 DEF OmBuffer, OmHeld
<1>5. (om.bo[b].state = "free") = (w.state = "free")
  BY <1>3
<1> HIDE DEF w
<1>6. f = [om.bo EXCEPT ![b] = w]
  OBVIOUS
<1> HIDE DEF f
<1>7. om' = [k |-> om.k, bo |-> f, handle_table |-> om.handle_table, dev_table |-> om.dev_table,
             device |-> om.device, refcnt |-> om.refcnt, users |-> om.users, odd |-> om.odd]
  BY <1>0, <1>1 DEF OmShape
<1> QED BY <1>0, <1>3, <1>4, <1>5, <1>6, <1>7, OmChanged

(* Setting a mark of a structure.                                          *)
LEMMA OmMark ==
  ASSUME NEW v, OmBuffer(v), NEW z, NEW w, w = [v EXCEPT !.named = z] \/ w = [v EXCEPT !.fd = z]
  PROVE  OmBuffer(w) /\ w.state = v.state /\ w.handle = v.handle /\ w.obj = v.obj /\ (OmHeld(w) <=> OmHeld(v))
<1>1. OmFields(v)
  BY DEF OmBuffer
<1>2. \/ w = [state |-> v.state, refcnt |-> v.refcnt, handle |-> v.handle, obj |-> v.obj, named |-> z, fd |-> v.fd]
      \/ w = [state |-> v.state, refcnt |-> v.refcnt, handle |-> v.handle, obj |-> v.obj, named |-> v.named, fd |-> z]
  <2>1. CASE w = [v EXCEPT !.named = z]
    BY <1>1, <2>1 DEF OmFields
  <2>2. CASE w = [v EXCEPT !.fd = z]
    BY <1>1, <2>2 DEF OmFields
  <2> QED BY <2>1, <2>2
<1>3. OmFields(w) /\ w.state = v.state /\ w.refcnt = v.refcnt /\ w.handle = v.handle /\ w.obj = v.obj
  BY <1>2 DEF OmFields
<1> QED BY <1>3 DEF OmBuffer, OmHeld

(* omap_bo_get_name.                                                       *)
LEMMA OmGetNameOK ==
  ASSUME OmGood(om), NEW b \in OmapBos, omap_bo_get_name(b)
  PROVE  OmOK(om')
<1>0. OmShape(om) /\ KernelOK(om.k) /\ DOMAIN om.bo = OmapBos /\ OmBuffer(om.bo[b])
  BY DEF OmGood
<1> DEFINE z == TRUE
           w == [om.bo[b] EXCEPT !.named = z]
           f == [om.bo EXCEPT ![b] = w]
           q == GemFlink(om.k, om.bo[b].handle)
<1>1. om' = [om EXCEPT !.bo[b].named = z, !.k = q]
  BY <1>0 DEF omap_bo_get_name, OmShape
<1>2. KernelOK(q) /\ q.open = om.k.open
  BY <1>0, GemFlinkIs
<1> HIDE DEF z, q
<1>3. om' = [om EXCEPT !.bo = f, !.k = q]
  BY <1>0, <1>1 DEF OmShape, OmBuffer, OmFields
<1>4. OmBuffer(w) /\ w.state = om.bo[b].state /\ w.handle = om.bo[b].handle /\ w.obj = om.bo[b].obj /\ (OmHeld(w) <=> OmHeld(om.bo[b]))
  BY <1>0, OmMark
<1>5. (om.bo[b].state = "free") = (w.state = "free")
  BY <1>4
<1> HIDE DEF w
<1>6. f = [om.bo EXCEPT ![b] = w]
  OBVIOUS
<1> HIDE DEF f
<1>7. om' = [k |-> q, bo |-> f, handle_table |-> om.handle_table, dev_table |-> om.dev_table,
             device |-> om.device, refcnt |-> om.refcnt, users |-> om.users, odd |-> om.odd]
  BY <1>0, <1>3 DEF OmShape
<1> QED BY <1>2, <1>4, <1>5, <1>6, <1>7, OmChanged

(* omap_bo_dmabuf.                                                         *)
LEMMA OmDmabufOK ==
  ASSUME OmGood(om), NEW b \in OmapBos, omap_bo_dmabuf(b)
  PROVE  OmOK(om')
<1>0. OmShape(om) /\ KernelOK(om.k) /\ DOMAIN om.bo = OmapBos /\ OmBuffer(om.bo[b])
  BY DEF OmGood
<1>8. om.bo[b].handle \in DOMAIN om.k.open
  <2>1. OmHeld(om.bo[b])
    BY <1>0 DEF OmBuffer, OmHeld, omap_bo_dmabuf
  <2> QED BY <2>1 DEF OmGood, OmMatched
<1> DEFINE z == TRUE
           w == [om.bo[b] EXCEPT !.fd = z]
           f == [om.bo EXCEPT ![b] = w]
           q == PrimeExport(om.k, om.bo[b].handle)
<1>1. om' = [om EXCEPT !.bo[b].fd = z, !.k = q]
  BY <1>0 DEF omap_bo_dmabuf, OmShape
<1>2. KernelOK(q) /\ q.open = om.k.open
  BY <1>0, <1>8, PrimeExportIs
<1> HIDE DEF z, q
<1>3. om' = [om EXCEPT !.bo = f, !.k = q]
  BY <1>0, <1>1 DEF OmShape, OmBuffer, OmFields
<1>4. OmBuffer(w) /\ w.state = om.bo[b].state /\ w.handle = om.bo[b].handle /\ w.obj = om.bo[b].obj /\ (OmHeld(w) <=> OmHeld(om.bo[b]))
  BY <1>0, OmMark
<1>5. (om.bo[b].state = "free") = (w.state = "free")
  BY <1>4
<1> HIDE DEF w
<1>6. f = [om.bo EXCEPT ![b] = w]
  OBVIOUS
<1> HIDE DEF f
<1>7. om' = [k |-> q, bo |-> f, handle_table |-> om.handle_table, dev_table |-> om.dev_table,
             device |-> om.device, refcnt |-> om.refcnt, users |-> om.users, odd |-> om.odd]
  BY <1>0, <1>3 DEF OmShape
<1> QED BY <1>2, <1>4, <1>5, <1>6, <1>7, OmChanged

(* omap_bo_del, before the lock.                                           *)
LEMMA OmDelOK ==
  ASSUME OmGood(om), NEW b \in OmapBos, omap_bo_del(b)
  PROVE  OmOK(om')
<1>0. OmShape(om) /\ KernelOK(om.k) /\ DOMAIN om.bo = OmapBos /\ OmBuffer(om.bo[b])
  BY DEF OmGood
<1> DEFINE n == om.bo[b].refcnt - 1
           a == IF om.bo[b].refcnt = 1 THEN "doomed" ELSE om.bo[b].state
           w == [om.bo[b] EXCEPT !.refcnt = n, !.state = a]
           f == [om.bo EXCEPT ![b] = w]
<1>1. om' = [om EXCEPT !.bo[b].refcnt = n, !.bo[b].state = a]
  BY <1>0 DEF omap_bo_del, OmBuffer, OmFields, OmShape
<1>2. n \in Nat /\ om.bo[b].state = "live" /\ (a = "live" \/ a = "doomed") /\ (a = "live" <=> n > 0)
  BY <1>0 DEF OmBuffer, omap_bo_del
<1> HIDE DEF n, a
<1>8. om' = [om EXCEPT !.bo = f]
  <2> DEFINE g == [om.bo EXCEPT ![b].refcnt = n, ![b].state = a]
  <2>1. om' = [om EXCEPT !.bo = g]
    BY <1>0, <1>1 DEF OmShape
  <2>2. DOMAIN g = OmapBos /\ DOMAIN f = OmapBos
    BY <1>0
  <2>3. \A c \in OmapBos : g[c] = f[c]
    BY <1>0
  <2>4. g = f
    BY <2>2, <2>3
  <2> HIDE DEF f, g
  <2> QED BY <2>1, <2>4
<1>3. w.state = a /\ w.refcnt = n /\ w.handle = om.bo[b].handle /\ w.obj = om.bo[b].obj /\ OmFields(w)
  <2> DEFINE v == om.bo[b]
  <2>1. OmFields(v)
    BY <1>0 DEF OmBuffer
  <2> HIDE DEF v
  <2>2. ASSUME NEW u, u = [v EXCEPT !.refcnt = n, !.state = a]
        PROVE  u = [state |-> a, refcnt |-> n, handle |-> v.handle, obj |-> v.obj, named |-> v.named, fd |-> v.fd]
    BY <2>1, <2>2 DEF OmFields
  <2>3. w = [v EXCEPT !.refcnt = n, !.state = a]
    BY DEF v
  <2>4. w = [state |-> a, refcnt |-> n, handle |-> v.handle, obj |-> v.obj, named |-> v.named, fd |-> v.fd]
    BY <2>2, <2>3
  <2> HIDE DEF w
  <2> QED BY <2>4 DEF v, OmFields
<1>4. OmBuffer(w) /\ OmHeld(w) /\ OmHeld(om.bo[b])
  BY <1>2, <1>3 DEF OmBuffer, OmHeld
<1>5. (om.bo[b].state = "free") = (w.state = "free")
  BY <1>2, <1>3
<1> HIDE DEF w
<1>6. f = [om.bo EXCEPT ![b] = w]
  OBVIOUS
<1> HIDE DEF f
<1>7. om' = [k |-> om.k, bo |-> f, handle_table |-> om.handle_table, dev_table |-> om.dev_table,
             device |-> om.device, refcnt |-> om.refcnt, users |-> om.users, odd |-> om.odd]
  BY <1>0, <1>8 DEF OmShape
<1> QED BY <1>0, <1>3, <1>4, <1>5, <1>6, <1>7, OmChanged

(* omap_bo_del under the lock.                                             *)
LEMMA OmDelLockedOK ==
  ASSUME OmGood(om), NEW b \in OmapBos, omap_bo_del_locked(b)
  PROVE  OmOK(om')
<1>0. OmShape(om) /\ KernelOK(om.k) /\ DOMAIN om.bo = OmapBos /\ OmBuffer(om.bo[b])
  BY DEF OmGood
<1>1. om.bo[b].state = "doomed" /\ OmHeld(om.bo[b])
  BY DEF omap_bo_del_locked, OmHeld
<1> DEFINE h == om.bo[b].handle
           q == GemClose(om.k, h)
           t == Unbind(om.handle_table, h)
           a == "closed"
           w == [om.bo[b] EXCEPT !.state = a]
           f == [om.bo EXCEPT ![b] = w]
<1>2. om' = [om EXCEPT !.handle_table = t, !.k = q, !.bo[b].state = a]
  BY <1>0 DEF omap_bo_del_locked, OmapClose, OmShape
<1>3. KernelOK(q) /\ q.open = Unbind(om.k.open, h)
  BY <1>0, GemCloseIs
<1>4. h = om.bo[b].handle /\ t = Unbind(om.handle_table, h)
  OBVIOUS
<1> HIDE DEF h, q, t
<1>5. om' = [om EXCEPT !.handle_table = t, !.k = q, !.bo = f]
  BY <1>0, <1>2 DEF OmShape, OmBuffer, OmFields
<1>6. w.state = "closed" /\ w.refcnt = om.bo[b].refcnt /\ OmFields(w)
  BY <1>0 DEF OmBuffer, OmFields
<1>7. OmBuffer(w) /\ ~ OmHeld(w)
  BY <1>0, <1>1, <1>6 DEF OmBuffer, OmHeld
<1> HIDE DEF w
<1>8. f = [om.bo EXCEPT ![b] = w]
  OBVIOUS
<1> HIDE DEF f
<1> DEFINE z == om.odd
<1>9. om' = [k |-> q, bo |-> f, handle_table |-> t, dev_table |-> om.dev_table,
             device |-> om.device, refcnt |-> om.refcnt, users |-> om.users, odd |-> z]
  BY <1>0, <1>5 DEF OmShape
<1> HIDE DEF z
<1> DEFINE k == om.k
           g == om.bo
           u == om.handle_table
<1>10. /\ OmMatched(k, g, u) /\ DOMAIN g = OmapBos /\ OmHeld(g[b]) /\ q.open = Unbind(k.open, g[b].handle)
       /\ f = [g EXCEPT ![b] = w] /\ t = Unbind(u, g[b].handle)
  BY <1>0, <1>1, <1>3, <1>4, <1>8 DEF OmGood
<1> HIDE DEF k, g, u
<1>11. OmMatched(q, f, t)
  BY <1>7, <1>10, OmClosed
<1>12. DOMAIN f = OmapBos /\ \A c \in OmapBos : OmBuffer(f[c])
  BY <1>0, <1>7, <1>8 DEF OmGood
<1>13. OmUsed(f) = OmUsed(om.bo)
  BY <1>0, <1>1, <1>6, <1>8 DEF OmUsed
<1>14. OmCounted(f, om.dev_table, om.device, om.refcnt, om.users)
  BY <1>13 DEF OmGood, OmCounted
<1> QED BY <1>3, <1>9, <1>11, <1>12, <1>14, OmParts

(* omap_bo_del after the lock: the structure is freed, and its reference   *)
(* to the device dropped.                                                  *)
LEMMA OmDelEndOK ==
  ASSUME OmGood(om), NEW b \in OmapBos, omap_bo_del_end(b)
  PROVE  OmOK(om')
<1>0. OmShape(om) /\ KernelOK(om.k) /\ DOMAIN om.bo = OmapBos /\ OmBuffer(om.bo[b])
  BY DEF OmGood
<1>1. om.bo[b].state = "closed" /\ ~ OmHeld(om.bo[b])
  BY DEF omap_bo_del_end, OmHeld
<1> DEFINE w == NoOmapBo
           f == [om.bo EXCEPT ![b] = w]
           s == [om EXCEPT !.bo = f]
           rc == om.refcnt - 1
           dv == IF om.refcnt = 1 THEN "dying" ELSE om.device
<1>2. om' = DropOmapDevice(s)
  BY <1>0 DEF omap_bo_del_end, OmShape
<1>3. w.state = "free" /\ OmBuffer(w) /\ ~ OmHeld(w)
  BY DEF NoOmapBo, OmBuffer, OmFields, OmHeld
<1> HIDE DEF w
<1>4. DOMAIN f = OmapBos /\ \A c \in OmapBos : f[c] = IF c = b THEN w ELSE om.bo[c]
  BY <1>0
<1>5. \A c \in OmapBos : OmBuffer(f[c])
  BY <1>3, <1>4 DEF OmGood
<1>6. OmMatched(om.k, f, om.handle_table)
  <2>1. \A c \in OmapBos : (OmHeld(f[c]) <=> OmHeld(om.bo[c])) /\ (OmHeld(f[c]) => f[c] = om.bo[c])
    BY <1>1, <1>3, <1>4
  <2> HIDE DEF f
  <2> DEFINE k == om.k
             g == om.bo
             t == om.handle_table
  <2>2. OmMatched(k, g, t) /\ \A c \in OmapBos : (OmHeld(f[c]) <=> OmHeld(g[c])) /\ (OmHeld(f[c]) => f[c] = g[c])
    BY <2>1 DEF OmGood
  <2> HIDE DEF k, g, t
  <2>3. OmMatched(k, f, t)
    BY <2>2 DEF OmMatched
  <2> QED BY <2>3 DEF k, t
<1>7. OmCounted(om.bo, om.dev_table, om.device, om.refcnt, om.users)
  BY DEF OmGood
<1>8. /\ IsFiniteSet(OmUsed(f)) /\ Cardinality(OmUsed(f)) \in Nat
      /\ Cardinality(OmUsed(f)) = Cardinality(OmUsed(om.bo)) - 1
  <2>1. OmUsed(f) = OmUsed(om.bo) \ {b} /\ b \in OmUsed(om.bo) /\ IsFiniteSet(OmUsed(om.bo))
    BY <1>1, <1>3, <1>4, <1>7 DEF OmUsed, OmCounted
  <2>2. IsFiniteSet(OmUsed(f)) /\ Cardinality(OmUsed(f)) = Cardinality(OmUsed(om.bo)) - 1
    BY <2>1, FS_RemoveElement
  <2>3. Cardinality(OmUsed(f)) \in Nat
    BY <2>2, FS_CardinalityType
  <2> QED BY <2>2, <2>3
<1>9. om.refcnt - 1 = om.users + Cardinality(OmUsed(f)) /\ om.users \in Nat /\ om.refcnt > 0
  <2>1. Cardinality(OmUsed(om.bo)) \in Nat
    BY <1>7, FS_CardinalityType DEF OmCounted
  <2> QED BY <1>7, <1>8, <2>1 DEF OmCounted
<1>10. OmCounted(f, om.dev_table, dv, rc, om.users)
  <2> HIDE DEF f
  <2> QED BY <1>7, <1>8, <1>9, OmDropIs
<1> HIDE DEF f
<1>11. s.refcnt = om.refcnt /\ s.device = om.device
  BY <1>0 DEF OmShape
<1>12. om' = [s EXCEPT !.refcnt = rc, !.device = dv]
  BY <1>2, <1>11 DEF DropOmapDevice
<1> HIDE DEF rc, dv
<1> DEFINE z == om.odd
<1>13. om' = [k |-> om.k, bo |-> f, handle_table |-> om.handle_table, dev_table |-> om.dev_table,
              device |-> dv, refcnt |-> rc, users |-> om.users, odd |-> z]
  BY <1>0, <1>12 DEF OmShape
<1> HIDE DEF z
<1> QED BY <1>0, <1>4, <1>5, <1>6, <1>10, <1>13, OmParts

(* Every step of the omap library keeps its invariant.                     *)
LEMMA OmNextOK ==
  ASSUME OmOK(om), OmapNext
  PROVE  OmOK(om')
<1>0. OmGood(om)
  BY DEF OmOK, OmapNext, OmapRunning, OmapUsable, omap_device_new, omap_device_ref, omap_device_del,
         omap_device_del_locked, omap_bo_nomem, omap_bo_new, omap_bo_from_name, omap_bo_from_dmabuf,
         omap_bo_ref, omap_bo_get_name, omap_bo_dmabuf, omap_bo_del, omap_bo_del_locked, omap_bo_del_end
<1>1. CASE omap_device_new \/ omap_device_ref \/ omap_device_del \/ omap_device_del_locked
  BY <1>0, <1>1, OmDeviceNewOK, OmDeviceRefOK, OmDeviceDelOK, OmDeviceGoneOK
<1>2. CASE omap_bo_nomem
  <2>1. om' = [om EXCEPT !.odd = "null buffer"] /\ "odd" \in DOMAIN om
    BY <1>0, <1>2 DEF omap_bo_nomem, Stray, OmGood, OmShape
  <2>2. om'.odd = "null buffer"
    BY <2>1
  <2> QED BY <2>2 DEF OmOK
<1>3. ASSUME NEW o \in OmapObjs, omap_bo_new(o) \/ omap_bo_from_name(o) \/ omap_bo_from_dmabuf(o) PROVE OmOK(om')
  BY <1>0, <1>3, OmBoNewOK, OmFromNameOK, OmFromDmabufOK
<1>4. ASSUME NEW b \in OmapBos, omap_bo_ref(b) \/ omap_bo_get_name(b) \/ omap_bo_dmabuf(b) PROVE OmOK(om')
  BY <1>0, <1>4, OmRefOK, OmGetNameOK, OmDmabufOK
<1>5. ASSUME NEW b \in OmapBos, omap_bo_del(b) \/ omap_bo_del_locked(b) \/ omap_bo_del_end(b) PROVE OmOK(om')
  BY <1>0, <1>5, OmDelOK, OmDelLockedOK, OmDelEndOK
<1> QED BY <1>1, <1>2, <1>3, <1>4, <1>5 DEF OmapNext

(* The omap library starts without a device.                               *)
LEMMA OmInitOK ==
  ASSUME OmapInit
  PROVE  OmOK(om)
<1> DEFINE q == Kernel(OmapForeign)
           f == [b \in OmapBos |-> NoOmapBo]
           t == [h \in {} |-> 0]
           p == FALSE
<1>1. om = [k |-> q, bo |-> f, handle_table |-> t, dev_table |-> p, device |-> "none", refcnt |-> 0, users |-> 0, odd |-> "no"]
  BY DEF OmapInit
<1>2. KernelOK(q) /\ DOMAIN q.open = {}
  BY KernelInit
<1>3. NoOmapBo.state = "free" /\ OmBuffer(NoOmapBo) /\ ~ OmHeld(NoOmapBo)
  BY DEF NoOmapBo, OmBuffer, OmFields, OmHeld
<1>4. DOMAIN f = OmapBos /\ (\A b \in OmapBos : OmBuffer(f[b])) /\ OmUsed(f) = {}
  BY <1>3 DEF OmUsed
<1>5. DOMAIN t = {}
  OBVIOUS
<1>6. OmMatched(q, f, t)
  <2> HIDE DEF q, t
  <2> QED BY <1>2, <1>3, <1>5 DEF OmMatched
<1>7. OmCounted(f, p, "none", 0, 0)
  <2> HIDE DEF f
  <2> QED BY <1>4, FS_EmptySet DEF OmCounted
<1> HIDE DEF q, f, t, p
<1> QED BY <1>1, <1>2, <1>4, <1>6, <1>7, OmParts

(* The invariant gives the property of the omap library.                   *)
LEMMA OmOKSound ==
  ASSUME OmOK(om)
  PROVE  OmapSound
<1> SUFFICES ASSUME om.odd = "no" PROVE OmapSound
  BY DEF OmapSound
<1> DEFINE k == om.k
           f == om.bo
           t == om.handle_table
           held == {b \in OmapBos : f[b].state \in {"live", "doomed"}}
<1>1. OmMatched(k, f, t) /\ OmCounted(f, om.dev_table, om.device, om.refcnt, om.users)
  BY DEF OmOK, OmGood
<1>2. \A b \in OmapBos : b \in held <=> OmHeld(f[b])
  BY DEF OmHeld
<1> HIDE DEF k, f, t
<1>3. DOMAIN k.open = {f[b].handle : b \in held}
  BY <1>1, <1>2 DEF OmMatched
<1>4. \A b, c \in held : f[b].handle = f[c].handle => b = c
  BY <1>1, <1>2 DEF OmMatched
<1>5. \A b \in held : f[b].obj = {k.open[f[b].handle]}
  BY <1>1, <1>2 DEF OmMatched
<1>6. \A h \in DOMAIN t : LET b == t[h] IN b \in held /\ f[b].handle = h
  BY <1>1, <1>2 DEF OmMatched
<1>7. om.refcnt = om.users + Cardinality({b \in OmapBos : f[b].state # "free"}) /\ (om.device # "open" => om.refcnt = 0)
  BY <1>1 DEF OmCounted, OmUsed
<1> QED BY <1>3, <1>4, <1>5, <1>6, <1>7 DEF OmapSound, k, f, t

-----------------------------------------------------------------------------
(* Freedreno.                                                              *)

(* The fields of a structure of the freedreno library, and of the library. *)
FdFields(v) ==
  DOMAIN v = {"state", "refcnt", "handle", "obj", "named", "fd", "reuse", "big", "free_time", "dels"}

FdShape(x) ==
  DOMAIN x = {"k", "bo", "handle_table", "name_table", "bucket", "refcnt", "device", "now", "time", "odd"}

(* A structure in use has a reference or one thread that will give it up.  *)
FdBuffer(v) ==
  /\ FdFields(v)
  /\ v.refcnt \in Nat
  /\ \/ v.state = "live" /\ v.refcnt > 0 /\ v.dels = 0
     \/ v.state = "live" /\ v.refcnt = 0 /\ v.dels = 1
     \/ v.state \in {"free", "cached", "taken"} /\ v.refcnt = 0 /\ v.dels = 0

FdHeld(v) == v.state # "free"

(* The handle table leads from every open handle to the one structure that *)
(* has it, the name table to structures that know their name.              *)
FdMatched(k, f, t, n) ==
  /\ \A b \in FdBos : FdHeld(f[b]) =>
       /\ f[b].handle \in DOMAIN k.open /\ f[b].obj = {k.open[f[b].handle]}
       /\ f[b].handle \in DOMAIN t /\ t[f[b].handle] = b
  /\ \A h \in DOMAIN k.open : \E b \in FdBos : FdHeld(f[b]) /\ f[b].handle = h
  /\ \A h \in DOMAIN t : t[h] \in FdBos /\ FdHeld(f[t[h]]) /\ f[t[h]].handle = h
  /\ \A o \in DOMAIN n : n[o] \in FdBos /\ FdHeld(f[n[o]]) /\ f[n[o]].named = TRUE /\ f[n[o]].obj = {o}

(* The bucket holds every cached structure once.                           *)
FdCached(f, s) ==
  /\ s \in Seq(FdBos)
  /\ \A i \in DOMAIN s : f[s[i]].state = "cached"
  /\ \A b \in FdBos : f[b].state = "cached" => \E i \in DOMAIN s : s[i] = b
  /\ \A i, j \in DOMAIN s : s[i] = s[j] => i = j

FdLive(f) == {b \in FdBos : f[b].state = "live"}

FdTaken(f) == \E b \in FdBos : f[b].state = "taken"

(* Every structure in use has a reference to the device, and the program   *)
(* has one while it takes one from the cache.                              *)
FdCounted(f, dv, rc) ==
  /\ IsFiniteSet(FdLive(f)) /\ rc \in Nat /\ Cardinality(FdLive(f)) <= rc
  /\ FdTaken(f) => Cardinality(FdLive(f)) < rc
  /\ \/ dv = "open" /\ rc > 0
     \/ dv = "closed" /\ \A b \in FdBos : ~ FdHeld(f[b])

IsFcn(f) == f = [i \in DOMAIN f |-> f[i]]

FdGood(x) ==
  /\ FdShape(x)
  /\ KernelOK(x.k) /\ IsFcn(x.k.open)
  /\ DOMAIN x.bo = FdBos
  /\ \A b \in FdBos : FdBuffer(x.bo[b])
  /\ FdMatched(x.k, x.bo, x.handle_table, x.name_table)
  /\ FdCached(x.bo, x.bucket)
  /\ FdCounted(x.bo, x.device, x.refcnt)

(* The cache is cleaned before it is full of buffers: the time of the last *)
(* cleaning is known whenever a buffer is cached.                          *)
FdClock(x) == x.now \in Nat /\ x.now > 0 /\ (x.bucket # <<>> => x.time # 0)

(* The invariant of the freedreno library, until something odd happens.    *)
FdOK(x) == x.odd = "no" => FdGood(x) /\ FdClock(x)

FdOthers(f, g, b) == \A c \in FdBos : c # b => f[c] = g[c]

FdOf(v, h, o) == FdHeld(v) /\ v.handle = h /\ v.obj = {o}

(* A structure for a handle that was not open.                             *)
LEMMA FdOpened ==
  ASSUME NEW k, NEW g, NEW t, NEW n, FdMatched(k, g, t, n), NEW q, NEW h, h \notin DOMAIN k.open, NEW o,
         q.open = Bind(k.open, h, o), NEW b \in FdBos, ~ FdHeld(g[b]),
         NEW f, FdOf(f[b], h, o), FdOthers(f, g, b), NEW u, u = Bind(t, h, b)
  PROVE  FdMatched(q, f, u, n)
<1>0. FdHeld(f[b]) /\ f[b].handle = h /\ f[b].obj = {o} /\ \A c \in FdBos : c # b => f[c] = g[c]
  BY DEF FdOf, FdOthers
<1>1. /\ DOMAIN q.open = DOMAIN k.open \cup {h} /\ q.open[h] = o
      /\ \A i \in DOMAIN k.open : i # h => q.open[i] = k.open[i]
  BY DEF Bind
<1>2. /\ DOMAIN u = DOMAIN t \cup {h} /\ u[h] = b
      /\ \A i \in DOMAIN t : i # h => u[i] = t[i]
  BY DEF Bind
<1>3. ASSUME NEW c \in FdBos, FdHeld(f[c])
      PROVE  /\ f[c].handle \in DOMAIN q.open /\ f[c].obj = {q.open[f[c].handle]}
             /\ f[c].handle \in DOMAIN u /\ u[f[c].handle] = c
  <2>1. CASE c = b
    BY <1>0, <1>1, <1>2, <2>1
  <2>2. CASE c # b
    <3>1. /\ f[c] = g[c] /\ g[c].handle \in DOMAIN k.open /\ g[c].obj = {k.open[g[c].handle]}
          /\ g[c].handle \in DOMAIN t /\ t[g[c].handle] = c
      BY <1>0, <1>3, <2>2 DEF FdMatched
    <3> QED BY <1>1, <1>2, <3>1
  <2> QED BY <2>1, <2>2
<1>4. ASSUME NEW i \in DOMAIN q.open PROVE \E c \in FdBos : FdHeld(f[c]) /\ f[c].handle = i
  <2>1. CASE i = h
    BY <1>0, <2>1
  <2>2. CASE i # h
    <3>1. PICK c \in FdBos : FdHeld(g[c]) /\ g[c].handle = i
      BY <1>1, <2>2 DEF FdMatched
    <3>2. f[c] = g[c]
      BY <1>0, <3>1
    <3> QED BY <3>1, <3>2
  <2> QED BY <2>1, <2>2
<1>5. ASSUME NEW i \in DOMAIN u PROVE u[i] \in FdBos /\ FdHeld(f[u[i]]) /\ f[u[i]].handle = i
  <2>1. CASE i = h
    BY <1>0, <1>2, <2>1
  <2>2. CASE i # h
    <3>1. i \in DOMAIN t /\ u[i] = t[i]
      BY <1>2, <2>2
    <3>2. t[i] \in FdBos /\ FdHeld(g[t[i]]) /\ g[t[i]].handle = i
      BY <3>1 DEF FdMatched
    <3>3. f[t[i]] = g[t[i]]
      BY <1>0, <3>2
    <3> QED BY <3>1, <3>2, <3>3
  <2> QED BY <2>1, <2>2
<1>6. ASSUME NEW i \in DOMAIN n PROVE n[i] \in FdBos /\ FdHeld(f[n[i]]) /\ f[n[i]].named = TRUE /\ f[n[i]].obj = {i}
  <2>1. n[i] \in FdBos /\ FdHeld(g[n[i]]) /\ g[n[i]].named = TRUE /\ g[n[i]].obj = {i}
    BY DEF FdMatched
  <2>2. f[n[i]] = g[n[i]]
    BY <1>0, <2>1
  <2> QED BY <2>1, <2>2
<1> QED BY <1>3, <1>4, <1>5, <1>6 DEF FdMatched

(* Structures change and keep their handles and their names.               *)
FdAlike(f, g) ==
  \A c \in FdBos : /\ FdHeld(f[c]) <=> FdHeld(g[c])
                   /\ f[c].handle = g[c].handle /\ f[c].obj = g[c].obj
                   /\ g[c].named = TRUE => f[c].named = TRUE

(* The tables still lead to structures that changed in this way only.      *)
LEMMA FdKept ==
  ASSUME NEW k, NEW g, NEW t, NEW n, FdMatched(k, g, t, n), NEW q, q.open = k.open, NEW f, FdAlike(f, g)
  PROVE  FdMatched(q, f, t, n)
BY DEF FdMatched, FdAlike

(* A structure gets a name.                                                *)
LEMMA FdNamed ==
  ASSUME NEW k, NEW f, NEW t, NEW n, FdMatched(k, f, t, n), NEW b \in FdBos, FdHeld(f[b]), f[b].named = TRUE,
         NEW o, f[b].obj = {o}, NEW m, m = IF o \in DOMAIN n THEN n ELSE Bind(n, o, b)
  PROVE  FdMatched(k, f, t, m)
<1>1. CASE o \in DOMAIN n
  BY <1>1
<1>2. CASE o \notin DOMAIN n
  <2>1. /\ DOMAIN m = DOMAIN n \cup {o} /\ m[o] = b
        /\ \A i \in DOMAIN n : i # o => m[i] = n[i]
    BY <1>2 DEF Bind
  <2>2. \A i \in DOMAIN m : m[i] \in FdBos /\ FdHeld(f[m[i]]) /\ f[m[i]].named = TRUE /\ f[m[i]].obj = {i}
    BY <2>1 DEF FdMatched
  <2> QED BY <2>2 DEF FdMatched
<1> QED BY <1>1, <1>2

(* The handles and the names of several structures.                        *)
FdHandles(g, B) == {g[b].handle : b \in B}

FdNames(k, g, B) == {k.open[g[b].handle] : b \in {c \in B : g[c].named}}

(* bo_del of several structures.                                           *)
LEMMA FdForgotten ==
  ASSUME NEW k, NEW g, NEW t, NEW n, FdMatched(k, g, t, n), NEW B \in SUBSET FdBos, \A b \in B : FdHeld(g[b]),
         NEW H, H = FdHandles(g, B), NEW N, N = FdNames(k, g, B),
         NEW q, q.open = Forgotten(k.open, H), NEW f, \A c \in FdBos : f[c] = IF c \in B THEN NoFdBo ELSE g[c],
         NEW u, u = Forgotten(t, H), NEW m, m = Forgotten(n, N)
  PROVE  FdMatched(q, f, u, m)
<1>1. /\ DOMAIN q.open = DOMAIN k.open \ H /\ \A i \in DOMAIN q.open : q.open[i] = k.open[i]
  BY DEF Forgotten
<1>2. /\ DOMAIN u = DOMAIN t \ H /\ \A i \in DOMAIN u : u[i] = t[i]
  BY DEF Forgotten
<1>3. /\ DOMAIN m = DOMAIN n \ N /\ \A i \in DOMAIN m : m[i] = n[i]
  BY DEF Forgotten
<1>4. ~ FdHeld(NoFdBo)
  BY DEF FdHeld, NoFdBo
<1>5. \A c \in FdBos : (FdHeld(f[c]) <=> FdHeld(g[c]) /\ c \notin B) /\ (c \notin B => f[c] = g[c])
  BY <1>4
<1>6. \A c \in FdBos : FdHeld(g[c]) => (g[c].handle \in H <=> c \in B)
  <2>1. \A c \in FdBos : FdHeld(g[c]) => t[g[c].handle] = c
    BY DEF FdMatched
  <2> QED BY <2>1 DEF FdHandles
<1>7. ASSUME NEW c \in FdBos, FdHeld(f[c])
      PROVE  /\ f[c].handle \in DOMAIN q.open /\ f[c].obj = {q.open[f[c].handle]}
             /\ f[c].handle \in DOMAIN u /\ u[f[c].handle] = c
  <2>1. FdHeld(g[c]) /\ c \notin B /\ f[c] = g[c] /\ g[c].handle \notin H
    BY <1>5, <1>6, <1>7
  <2>2. /\ g[c].handle \in DOMAIN k.open /\ g[c].obj = {k.open[g[c].handle]}
        /\ g[c].handle \in DOMAIN t /\ t[g[c].handle] = c
    BY <2>1 DEF FdMatched
  <2> QED BY <1>1, <1>2, <2>1, <2>2
<1>8. ASSUME NEW i \in DOMAIN q.open PROVE \E c \in FdBos : FdHeld(f[c]) /\ f[c].handle = i
  <2>1. i \in DOMAIN k.open /\ i \notin H
    BY <1>1
  <2>2. PICK c \in FdBos : FdHeld(g[c]) /\ g[c].handle = i
    BY <2>1 DEF FdMatched
  <2> QED BY <1>5, <1>6, <2>1, <2>2
<1>9. ASSUME NEW i \in DOMAIN u PROVE u[i] \in FdBos /\ FdHeld(f[u[i]]) /\ f[u[i]].handle = i
  <2>1. i \in DOMAIN t /\ i \notin H /\ u[i] = t[i]
    BY <1>2
  <2>2. t[i] \in FdBos /\ FdHeld(g[t[i]]) /\ g[t[i]].handle = i
    BY <2>1 DEF FdMatched
  <2> QED BY <1>5, <1>6, <2>1, <2>2
<1>10. ASSUME NEW i \in DOMAIN m PROVE m[i] \in FdBos /\ FdHeld(f[m[i]]) /\ f[m[i]].named = TRUE /\ f[m[i]].obj = {i}
  <2>1. i \in DOMAIN n /\ i \notin N /\ m[i] = n[i]
    BY <1>3
  <2>2. n[i] \in FdBos /\ FdHeld(g[n[i]]) /\ g[n[i]].named = TRUE /\ g[n[i]].obj = {i}
    BY <2>1 DEF FdMatched
  <2>3. n[i] \notin B
    <3> SUFFICES ASSUME n[i] \in B PROVE FALSE
      OBVIOUS
    <3>1. g[n[i]].obj = {k.open[g[n[i]].handle]}
      BY <2>2 DEF FdMatched
    <3>2. k.open[g[n[i]].handle] = i
      BY <2>2, <3>1
    <3>3. n[i] \in {c \in B : g[c].named}
      BY <2>2
    <3>4. i \in N
      BY <3>2, <3>3 DEF FdNames
    <3> QED BY <2>1, <3>4
  <2> QED BY <1>5, <2>1, <2>2, <2>3
<1> QED BY <1>7, <1>8, <1>9, <1>10 DEF FdMatched

(* What bo_del does to the state of the library.                           *)
LEMMA FdDelIs ==
  ASSUME NEW s, FdShape(s), KernelOK(s.k), NEW B, NEW y, y = bo_del(s, B),
         NEW H, H = FdHandles(s.bo, B), NEW N, N = FdNames(s.k, s.bo, B)
  PROVE      /\ FdShape(y) /\ KernelOK(y.k) /\ IsFcn(y.k.open)
             /\ y.k.open = Forgotten(s.k.open, H)
             /\ y.handle_table = Forgotten(s.handle_table, H)
             /\ y.name_table = Forgotten(s.name_table, N)
             /\ DOMAIN y.bo = FdBos /\ \A c \in FdBos : y.bo[c] = IF c \in B THEN NoFdBo ELSE s.bo[c]
             /\ y.bucket = s.bucket /\ y.refcnt = s.refcnt /\ y.device = s.device
             /\ y.now = s.now /\ y.time = s.time /\ y.odd = s.odd
<1> DEFINE e == Forgotten(s.k.open, H)
           p == s.k.prime \ H
           t == Forgotten(s.handle_table, H)
           m == Forgotten(s.name_table, N)
           f == [b \in FdBos |-> IF b \in B THEN NoFdBo ELSE s.bo[b]]
<1>1. y = [s EXCEPT !.handle_table = t, !.name_table = m, !.k.open = e, !.k.prime = p, !.bo = f]
  BY DEF bo_del, FdShape, KernelOK, FdHandles, FdNames
<1>2. DOMAIN e = DOMAIN s.k.open \ H /\ IsFcn(e)
  BY DEF Forgotten, IsFcn
<1>3. IsFiniteSet(DOMAIN e)
  BY <1>2, FS_Subset DEF KernelOK
<1>4. p \subseteq DOMAIN e
  BY <1>2 DEF KernelOK
<1> HIDE DEF e, p, t, m
<1> DEFINE v == [s.k EXCEPT !.open = e, !.prime = p]
<1>8. y = [s EXCEPT !.handle_table = t, !.name_table = m, !.k = v, !.bo = f]
  BY <1>1 DEF FdShape, KernelOK
<1>9. v = [open |-> e, prime |-> p, shared |-> s.k.shared, born |-> s.k.born]
  <2>1. ASSUME NEW w, w = [s.k EXCEPT !.open = e, !.prime = p]
        PROVE  w = [open |-> e, prime |-> p, shared |-> s.k.shared, born |-> s.k.born]
    BY <2>1 DEF KernelOK
  <2> QED BY <2>1
<1> HIDE DEF v
<1>5. /\ FdShape(y) /\ y.k = v
      /\ y.handle_table = t /\ y.name_table = m /\ y.bo = f
      /\ y.bucket = s.bucket /\ y.refcnt = s.refcnt /\ y.device = s.device
      /\ y.now = s.now /\ y.time = s.time /\ y.odd = s.odd
  BY <1>8 DEF FdShape
<1>6. y.k = [open |-> e, prime |-> p, shared |-> s.k.shared, born |-> s.k.born]
  BY <1>5, <1>9
<1>7. KernelOK(y.k)
  BY <1>3, <1>4, <1>6 DEF KernelOK
<1>10. y.k.open = e
  BY <1>6
<1> QED BY <1>2, <1>5, <1>7, <1>10 DEF e, t, m

(* The library after bo_del, but for the bucket and the device.            *)
FdFreed(s, y, B) ==
  /\ FdShape(y) /\ KernelOK(y.k) /\ IsFcn(y.k.open)
  /\ DOMAIN y.bo = FdBos /\ (\A c \in FdBos : FdBuffer(y.bo[c]))
  /\ FdMatched(y.k, y.bo, y.handle_table, y.name_table)
  /\ \A c \in FdBos : y.bo[c] = IF c \in B THEN NoFdBo ELSE s.bo[c]
  /\ y.bucket = s.bucket /\ y.refcnt = s.refcnt /\ y.device = s.device
  /\ y.now = s.now /\ y.time = s.time /\ y.odd = s.odd

(* bo_del frees the structures it is given and leaves the others alone.    *)
LEMMA FdDelOK ==
  ASSUME NEW s, FdShape(s), KernelOK(s.k), FdMatched(s.k, s.bo, s.handle_table, s.name_table),
         NEW B \in SUBSET FdBos, \A b \in B : FdHeld(s.bo[b]), \A c \in FdBos \ B : FdBuffer(s.bo[c]),
         NEW y, y = bo_del(s, B)
  PROVE  FdFreed(s, y, B)
<1> DEFINE H == FdHandles(s.bo, B)
           N == FdNames(s.k, s.bo, B)
           q == y.k
           f == y.bo
           u == y.handle_table
           m == y.name_table
           k == s.k
           g == s.bo
           t == s.handle_table
           n == s.name_table
<1>1. /\ FdShape(y) /\ KernelOK(q) /\ IsFcn(q.open)
      /\ q.open = Forgotten(k.open, H) /\ u = Forgotten(t, H) /\ m = Forgotten(n, N)
      /\ DOMAIN f = FdBos /\ \A c \in FdBos : f[c] = IF c \in B THEN NoFdBo ELSE g[c]
      /\ y.bucket = s.bucket /\ y.refcnt = s.refcnt /\ y.device = s.device
      /\ y.now = s.now /\ y.time = s.time /\ y.odd = s.odd
  BY FdDelIs
<1>2. FdBuffer(NoFdBo)
  BY DEF FdBuffer, FdFields, NoFdBo
<1>3. H = FdHandles(g, B) /\ N = FdNames(k, g, B)
  OBVIOUS
<1>4. FdMatched(k, g, t, n) /\ \A b \in B : FdHeld(g[b])
  OBVIOUS
<1>5. \A c \in FdBos : FdBuffer(f[c])
  BY <1>1, <1>2
<1> HIDE DEF H, N, q, f, u, m, k, g, t, n
<1>6. FdMatched(q, f, u, m)
  BY <1>1, <1>3, <1>4, FdForgotten
<1> QED BY <1>1, <1>5, <1>6 DEF q, f, u, m, g, FdFreed

(* The old buffers are the first ones of the bucket, all of it at time 0.  *)
LEMMA FdOldIs ==
  ASSUME NEW s, s.bucket \in Seq(FdBos), NEW time, NEW n, n = OldBuffers(s, time)
  PROVE  n \in 0 .. Len(s.bucket) /\ (time = 0 => n = Len(s.bucket))
<1> DEFINE S == {i \in DOMAIN s.bucket : \A j \in 1..i : Stale(s, s.bucket[j], time)}
           l == Len(s.bucket)
<1>1. l \in Nat /\ DOMAIN s.bucket = 1 .. l
  OBVIOUS
<1>2. S \in SUBSET (1 .. l) /\ \A i \in S : \A j \in 1 .. i : j \in S
  BY <1>1
<1>3. n = Cardinality(S)
  BY DEF OldBuffers
<1>4. time = 0 => S = 1 .. l
  BY <1>1 DEF Stale
<1> HIDE DEF S, l
<1>5. Cardinality(S) \in 0 .. l
  BY <1>1, <1>2, InitialSegment
<1>6. Cardinality(1 .. l) = l
  BY <1>1, FS_Interval
<1> QED BY <1>3, <1>4, <1>5, <1>6 DEF l

(* What is left of a bucket.                                               *)
LEMMA FdRestIs ==
  ASSUME NEW s \in Seq(FdBos), NEW n \in 0 .. Len(s), NEW r, r = SubSeq(s, n + 1, Len(s))
  PROVE  /\ r \in Seq(FdBos) /\ Len(r) = Len(s) - n
         /\ DOMAIN r = 1 .. (Len(s) - n) /\ \A i \in DOMAIN r : r[i] = s[n + i] /\ n + i \in DOMAIN s
<1>1. Len(s) \in Nat /\ n \in Nat
  OBVIOUS
<1>2. r \in Seq(FdBos) /\ Len(r) = Len(s) - n
  BY <1>1
<1>3. DOMAIN r = 1 .. (Len(s) - n)
  BY <1>1, <1>2
<1>4. ASSUME NEW i \in DOMAIN r PROVE r[i] = s[n + i] /\ n + i \in DOMAIN s
  <2>1. i \in 1 .. (Len(s) - n) /\ n + i \in 1 .. Len(s)
    BY <1>1, <1>3, <1>4
  <2> QED BY <1>1, <2>1
<1> QED BY <1>2, <1>3, <1>4

(* fd_cleanup_bo_cache keeps everything in step, and empties the cache at  *)
(* time 0.                                                                 *)
LEMMA FdCleanOK ==
  ASSUME NEW s, FdGood(s), NEW time, NEW y, y = fd_cleanup_bo_cache(s, time)
  PROVE  /\ FdGood(y) /\ FdLive(y.bo) = FdLive(s.bo) /\ y.refcnt = s.refcnt /\ y.device = s.device
         /\ y.now = s.now /\ y.time = time /\ y.odd = s.odd
         /\ time = 0 /\ s.time # 0 => y.bucket = <<>>
         /\ FdTaken(y.bo) => FdTaken(s.bo)
<1>1. CASE s.time = time
  <2>1. y = s
    BY <1>1 DEF fd_cleanup_bo_cache
  <2> QED BY <1>1, <2>1
<1>2. CASE s.time # time
  <2> DEFINE n == OldBuffers(s, time)
             B == {s.bucket[i] : i \in 1..n}
             x == bo_del(s, B)
             r == SubSeq(s.bucket, n + 1, Len(s.bucket))
  <2>1. FdCached(s.bo, s.bucket) /\ s.bucket \in Seq(FdBos)
    BY DEF FdGood, FdCached
  <2>2. n \in 0 .. Len(s.bucket) /\ (time = 0 => n = Len(s.bucket))
    BY <2>1, FdOldIs
  <2>3. /\ r \in Seq(FdBos) /\ Len(r) = Len(s.bucket) - n
        /\ DOMAIN r = 1 .. (Len(s.bucket) - n)
        /\ \A i \in DOMAIN r : r[i] = s.bucket[n + i] /\ n + i \in DOMAIN s.bucket
    <3> HIDE DEF n
    <3> QED BY <2>1, <2>2, FdRestIs
  <2>4. y = [x EXCEPT !.bucket = SubSeq(@, n + 1, Len(@)), !.time = time]
    BY <1>2 DEF fd_cleanup_bo_cache
  <2>5. 1 .. n \subseteq DOMAIN s.bucket
    <3> HIDE DEF n
    <3> QED BY <2>1, <2>2
  <2>6. B \in SUBSET FdBos /\ \A b \in B : s.bo[b].state = "cached"
    <3> HIDE DEF n
    <3> QED BY <2>1, <2>5 DEF FdCached
  <2> HIDE DEF n, B
  <2>7. \A b \in B : FdHeld(s.bo[b])
    BY <2>6 DEF FdHeld
  <2>8. /\ FdShape(x) /\ KernelOK(x.k) /\ IsFcn(x.k.open)
        /\ DOMAIN x.bo = FdBos /\ (\A c \in FdBos : FdBuffer(x.bo[c]))
        /\ FdMatched(x.k, x.bo, x.handle_table, x.name_table)
        /\ \A c \in FdBos : x.bo[c] = IF c \in B THEN NoFdBo ELSE s.bo[c]
        /\ x.bucket = s.bucket /\ x.refcnt = s.refcnt /\ x.device = s.device
        /\ x.now = s.now /\ x.time = s.time /\ x.odd = s.odd
    <3>1. /\ FdShape(s) /\ KernelOK(s.k) /\ FdMatched(s.k, s.bo, s.handle_table, s.name_table)
          /\ \A c \in FdBos \ B : FdBuffer(s.bo[c])
      BY DEF FdGood
    <3>2. x = bo_del(s, B)
      OBVIOUS
    <3> HIDE DEF x
    <3>3. FdFreed(s, x, B)
      BY <2>6, <2>7, <3>1, <3>2, FdDelOK
    <3> QED BY <3>3 DEF FdFreed
  <2> HIDE DEF x
  <2>9. y = [x EXCEPT !.bucket = r, !.time = time]
    BY <2>4, <2>8
  <2> HIDE DEF r
  <2>10. /\ FdShape(y) /\ y.k = x.k /\ y.bo = x.bo /\ y.handle_table = x.handle_table /\ y.name_table = x.name_table
         /\ y.bucket = r /\ y.refcnt = s.refcnt /\ y.device = s.device
         /\ y.now = s.now /\ y.time = time /\ y.odd = s.odd
    BY <2>8, <2>9 DEF FdShape
  <2>11. NoFdBo.state = "free"
    BY DEF NoFdBo
  <2>12. FdLive(y.bo) = FdLive(s.bo)
    BY <2>6, <2>8, <2>10, <2>11 DEF FdLive
  <2>17. FdTaken(y.bo) => FdTaken(s.bo)
    BY <2>8, <2>10, <2>11 DEF FdTaken
  <2>13. FdCounted(y.bo, y.device, y.refcnt)
    <3>1. FdCounted(s.bo, s.device, s.refcnt)
      BY DEF FdGood
    <3>2. \A b \in FdBos : ~ FdHeld(s.bo[b]) => ~ FdHeld(y.bo[b])
      BY <2>8, <2>10, <2>11 DEF FdHeld
    <3> QED BY <2>10, <2>12, <2>17, <3>1, <3>2 DEF FdCounted
  <2>14. FdCached(y.bo, r)
    <3> DEFINE z == s.bucket
    <3>1. /\ z \in Seq(FdBos) /\ (\A i \in DOMAIN z : s.bo[z[i]].state = "cached")
          /\ (\A b \in FdBos : s.bo[b].state = "cached" => \E i \in DOMAIN z : z[i] = b)
          /\ (\A i, j \in DOMAIN z : z[i] = z[j] => i = j)
      BY <2>1 DEF FdCached
    <3>2. Len(z) \in Nat /\ DOMAIN z = 1 .. Len(z) /\ n \in 0 .. Len(z) /\ DOMAIN r = 1 .. (Len(z) - n)
      BY <2>2, <2>3, <3>1
    <3>3. \A i \in DOMAIN r : r[i] = z[n + i] /\ n + i \in DOMAIN z
      BY <2>3
    <3>4. \A i \in DOMAIN z : z[i] \in B <=> i \in 1 .. n
      BY <2>5, <3>1 DEF B
    <3>5. \A c \in FdBos : y.bo[c] = IF c \in B THEN NoFdBo ELSE s.bo[c]
      BY <2>8, <2>10
    <3> HIDE DEF z
    <3>6. ASSUME NEW i \in DOMAIN r PROVE y.bo[r[i]].state = "cached"
      <4>1. n + i \notin 1 .. n
        BY <3>2
      <4>2. r[i] = z[n + i] /\ z[n + i] \in FdBos /\ z[n + i] \notin B
        BY <3>1, <3>3, <3>4, <4>1
      <4> QED BY <3>1, <3>3, <3>5, <4>2
    <3>7. ASSUME NEW b \in FdBos, y.bo[b].state = "cached" PROVE \E i \in DOMAIN r : r[i] = b
      <4>1. b \notin B /\ s.bo[b].state = "cached"
        BY <2>11, <3>5, <3>7
      <4>2. PICK j \in DOMAIN z : z[j] = b
        BY <3>1, <4>1
      <4>3. j \notin 1 .. n
        BY <3>4, <4>1, <4>2
      <4>4. j - n \in DOMAIN r /\ n + (j - n) = j
        BY <3>2, <4>3
      <4> QED BY <3>3, <4>2, <4>4
    <3>8. ASSUME NEW i \in DOMAIN r, NEW j \in DOMAIN r, r[i] = r[j] PROVE i = j
      <4>1. n + i = n + j
        BY <3>1, <3>3, <3>8
      <4> QED BY <3>2, <4>1
    <3> QED BY <2>3, <3>6, <3>7, <3>8 DEF FdCached
  <2>15. FdGood(y)
    BY <2>8, <2>10, <2>13, <2>14 DEF FdGood
  <2>16. time = 0 => r = <<>>
    BY <2>2, <2>3
  <2> QED BY <2>10, <2>12, <2>15, <2>16, <2>17
<1> QED BY <1>1, <1>2

(* A reference to the device less; with the last one the cache is emptied, *)
(* and no handle is left.                                                  *)
LEMMA FdDropOK ==
  ASSUME NEW s, FdGood(s), FdClock(s), s.device = "open", Cardinality(FdLive(s.bo)) < s.refcnt,
         FdTaken(s.bo) => Cardinality(FdLive(s.bo)) < s.refcnt - 1,
         NEW y, y = DropDevice(s)
  PROVE  FdGood(y) /\ FdClock(y)
<1>0. /\ FdShape(s) /\ FdCounted(s.bo, s.device, s.refcnt) /\ s.refcnt \in Nat
      /\ IsFiniteSet(FdLive(s.bo)) /\ Cardinality(FdLive(s.bo)) \in Nat
  BY FS_CardinalityType DEF FdGood, FdCounted
<1>1. CASE s.refcnt > 1
  <2>1. y = [s EXCEPT !.refcnt = @ - 1]
    BY <1>1 DEF DropDevice
  <2>2. /\ FdShape(y) /\ y.k = s.k /\ y.bo = s.bo /\ y.handle_table = s.handle_table /\ y.name_table = s.name_table
        /\ y.bucket = s.bucket /\ y.refcnt = s.refcnt - 1 /\ y.device = s.device /\ y.now = s.now /\ y.time = s.time
    BY <1>0, <2>1 DEF FdShape
  <2>3. FdCounted(y.bo, y.device, y.refcnt)
    BY <1>0, <1>1, <2>2 DEF FdCounted
  <2> QED BY <2>2, <2>3 DEF FdGood, FdClock
<1>2. CASE ~ (s.refcnt > 1)
  <2> DEFINE t == fd_cleanup_bo_cache(s, 0)
             e == [h \in {} |-> 0]
  <2>1. FdLive(s.bo) = {}
    <3>1. Cardinality(FdLive(s.bo)) = 0
      BY <1>0, <1>2
    <3> QED BY <1>0, <3>1, FS_EmptySet
  <2>2. /\ FdGood(t) /\ FdLive(t.bo) = FdLive(s.bo) /\ t.now = s.now /\ t.time = 0
        /\ (s.time # 0 => t.bucket = <<>>) /\ (FdTaken(t.bo) => FdTaken(s.bo))
    BY FdCleanOK
  <2>3. t.bucket = <<>>
    <3>1. CASE s.time # 0
      BY <2>2, <3>1
    <3>2. CASE s.time = 0
      BY <3>2 DEF fd_cleanup_bo_cache, FdClock
    <3> QED BY <3>1, <3>2
  <2>4. y = [t EXCEPT !.refcnt = 0, !.device = "closed", !.handle_table = e, !.name_table = e]
    BY <1>2 DEF DropDevice
  <2> HIDE DEF t
  <2>5. \A b \in FdBos : ~ FdHeld(t.bo[b])
    <3>1. \A b \in FdBos : t.bo[b].state # "live"
      BY <2>1, <2>2 DEF FdLive
    <3>3. \A b \in FdBos : t.bo[b].state # "taken"
      BY <1>0, <1>2, <2>2 DEF FdTaken
    <3>2. \A b \in FdBos : t.bo[b].state # "cached"
      BY <2>2, <2>3 DEF FdGood, FdCached
    <3> QED BY <2>2, <3>1, <3>2, <3>3 DEF FdGood, FdBuffer, FdHeld
  <2>6. DOMAIN e = {}
    OBVIOUS
  <2> HIDE DEF e
  <2>7. /\ FdShape(y) /\ y.k = t.k /\ y.bo = t.bo /\ y.handle_table = e /\ y.name_table = e
        /\ y.bucket = t.bucket /\ y.refcnt = 0 /\ y.device = "closed" /\ y.now = s.now /\ y.time = 0
    BY <2>2, <2>4 DEF FdGood, FdShape
  <2>8. FdMatched(y.k, y.bo, y.handle_table, y.name_table)
    <3>1. \A h \in DOMAIN t.k.open : \E b \in FdBos : FdHeld(t.bo[b])
      BY <2>2 DEF FdGood, FdMatched
    <3> QED BY <2>5, <2>6, <2>7, <3>1 DEF FdMatched
  <2>9. FdCounted(y.bo, y.device, y.refcnt)
    <3>1. FdLive(y.bo) = {}
      BY <2>1, <2>2, <2>7
    <3>2. ~ FdTaken(y.bo)
      BY <2>5, <2>7 DEF FdTaken, FdHeld
    <3> QED BY <2>5, <2>7, <3>1, <3>2, FS_EmptySet DEF FdCounted
  <2>10. FdGood(y)
    BY <2>2, <2>7, <2>8, <2>9 DEF FdGood
  <2>11. FdClock(y)
    BY <2>3, <2>7 DEF FdClock
  <2> QED BY <2>10, <2>11
<1> QED BY <1>1, <1>2

(* A step that leaves the structures their states and handles.             *)
FdSteady(f, g) ==
  \A c \in FdBos : /\ FdBuffer(f[c]) /\ f[c].state = g[c].state
                   /\ f[c].handle = g[c].handle /\ f[c].obj = g[c].obj
                   /\ g[c].named = TRUE => f[c].named = TRUE

(* Such a step keeps the invariant.                                        *)
LEMMA FdChanged ==
  ASSUME NEW x, FdGood(x), NEW y, FdShape(y), KernelOK(y.k), y.k.open = x.k.open, DOMAIN y.bo = FdBos,
         FdSteady(y.bo, x.bo), y.handle_table = x.handle_table, y.name_table = x.name_table, y.bucket = x.bucket,
         y.device = x.device, y.refcnt = x.refcnt
  PROVE  FdGood(y)
<1> DEFINE k == x.k
           g == x.bo
           t == x.handle_table
           n == x.name_table
           q == y.k
           f == y.bo
<1>1. FdMatched(k, g, t, n) /\ q.open = k.open
  BY DEF FdGood
<1>2. \A c \in FdBos : /\ FdHeld(f[c]) <=> FdHeld(g[c])
                       /\ f[c].state = g[c].state
                       /\ f[c].handle = g[c].handle /\ f[c].obj = g[c].obj
                       /\ g[c].named = TRUE => f[c].named = TRUE
  BY DEF FdHeld, FdSteady
<1>8. \A c \in FdBos : FdBuffer(y.bo[c])
  BY DEF FdSteady
<1>3. FdCached(g, x.bucket) /\ FdCounted(g, x.device, x.refcnt)
  BY DEF FdGood
<1> HIDE DEF k, g, t, n, q, f
<1>4. FdMatched(q, f, t, n)
  <2>1. FdAlike(f, g)
    BY <1>2 DEF FdAlike
  <2> QED BY <1>1, <2>1, FdKept
<1>5. FdCached(f, x.bucket)
  <2>1. \A i \in DOMAIN x.bucket : x.bucket[i] \in FdBos
    BY <1>3 DEF FdCached
  <2> QED BY <1>2, <1>3, <2>1 DEF FdCached
<1>6. FdLive(f) = FdLive(g)
  BY <1>2 DEF FdLive
<1>7. FdCounted(f, x.device, x.refcnt)
  <2>1. FdTaken(f) => FdTaken(g)
    BY <1>2 DEF FdTaken
  <2> QED BY <1>2, <1>3, <1>6, <2>1 DEF FdCounted
<1> QED BY <1>4, <1>5, <1>7, <1>8 DEF FdGood, f, q, t, n

(* A step that makes a structure for a handle just opened.                 *)
LEMMA FdNewOK ==
  ASSUME NEW x, FdGood(x), x.device = "open", NEW y, FdShape(y), KernelOK(y.k),
         NEW h, NEW o, h \notin DOMAIN x.k.open, y.k.open = Bind(x.k.open, h, o),
         NEW b \in FdBos, x.bo[b].state = "free", DOMAIN y.bo = FdBos,
         FdBuffer(y.bo[b]), y.bo[b].state = "live", FdOf(y.bo[b], h, o), FdOthers(y.bo, x.bo, b),
         y.handle_table = Bind(x.handle_table, h, b), y.name_table = x.name_table, y.bucket = x.bucket,
         y.device = x.device, y.refcnt = x.refcnt + 1
  PROVE  FdGood(y)
<1> DEFINE k == x.k
           g == x.bo
           t == x.handle_table
           n == x.name_table
           q == y.k
           f == y.bo
           u == y.handle_table
<1>1. /\ FdMatched(k, g, t, n) /\ h \notin DOMAIN k.open /\ q.open = Bind(k.open, h, o) /\ u = Bind(t, h, b)
      /\ ~ FdHeld(g[b]) /\ FdOf(f[b], h, o) /\ FdOthers(f, g, b)
  BY DEF FdGood, FdHeld, FdOf, FdOthers
<1>10. (\A c \in FdBos : c # b => f[c] = g[c]) /\ g[b].state = "free" /\ f[b].state = "live"
  BY DEF FdOthers
<1>2. FdCached(g, x.bucket) /\ FdCounted(g, "open", x.refcnt) /\ \A c \in FdBos : FdBuffer(g[c])
  BY DEF FdGood
<1>3. FdBuffer(f[b])
  OBVIOUS
<1> HIDE DEF k, g, t, n, q, f, u
<1>4. FdMatched(q, f, u, n)
  BY <1>1, FdOpened
<1>5. FdCached(f, x.bucket)
  <2>1. \A i \in DOMAIN x.bucket : x.bucket[i] \in FdBos
    BY <1>2 DEF FdCached
  <2> QED BY <1>10, <1>2, <2>1 DEF FdCached
<1>6. /\ IsFiniteSet(FdLive(f)) /\ Cardinality(FdLive(g)) \in Nat
      /\ Cardinality(FdLive(f)) = Cardinality(FdLive(g)) + 1
  <2>1. FdLive(f) = FdLive(g) \cup {b} /\ b \notin FdLive(g) /\ IsFiniteSet(FdLive(g))
    BY <1>2, <1>10 DEF FdLive, FdCounted
  <2> QED BY <2>1, FS_AddElement, FS_CardinalityType
<1>7. FdCounted(f, "open", x.refcnt + 1)
  <2>1. FdTaken(f) => FdTaken(g)
    BY <1>10 DEF FdTaken
  <2>2. FdTaken(g) => Cardinality(FdLive(g)) < x.refcnt
    BY <1>2 DEF FdCounted
  <2>3. x.refcnt \in Nat /\ Cardinality(FdLive(g)) <= x.refcnt
    BY <1>2 DEF FdCounted
  <2>4. FdTaken(f) => Cardinality(FdLive(f)) < x.refcnt + 1
    BY <1>6, <2>1, <2>2, <2>3
  <2> QED BY <1>6, <2>3, <2>4 DEF FdCounted
<1>8. \A c \in FdBos : FdBuffer(f[c])
  BY <1>10, <1>2, <1>3
<1>9. IsFcn(q.open)
  BY <1>1 DEF IsFcn, Bind
<1> QED BY <1>4, <1>5, <1>7, <1>8, <1>9 DEF FdGood, f, q, u, n

(* A structure that is free, where there is one.                           *)
LEMMA FreshFdIs ==
  ASSUME NEW b \in FreshFd
  PROVE  b \in FdBos /\ fd.bo[b].state = "free"
BY DEF FreshFd

(* What bo_from_handle does, with a handle that is in no table.            *)
FdMade(x, y, q, b, h, big) == y = bo_from_handle([x EXCEPT !.k = q], b, h, big)

FdResult(x, y, b, h, o) ==
  /\ FdGood(y) /\ y.bo[b].state = "live" /\ y.bo[b].refcnt = 1 /\ y.bo[b].dels = 0 /\ y.bo[b].obj = {o}
  /\ h \notin DOMAIN x.handle_table
  /\ y.now = x.now /\ y.time = x.time /\ y.bucket = x.bucket /\ y.device = x.device /\ y.odd = x.odd

(* bo_from_handle makes a live structure, with the handle in the table.    *)
LEMMA FdFromHandleIs ==
  ASSUME NEW x, FdGood(x), x.device = "open", NEW q, KernelOK(q), NEW h, NEW o, h \notin DOMAIN x.k.open,
         q.open = Bind(x.k.open, h, o), NEW b \in FdBos, x.bo[b].state = "free", NEW big,
         NEW y, FdMade(x, y, q, b, h, big)
  PROVE  FdResult(x, y, b, h, o)
<1> DEFINE s == [x EXCEPT !.k = q]
<1>1. FdShape(x) /\ DOMAIN x.bo = FdBos /\ h \notin DOMAIN x.handle_table
  BY DEF FdGood, FdMatched
<1>2. /\ FdShape(s) /\ s.k = q /\ s.bo = x.bo /\ s.handle_table = x.handle_table /\ s.name_table = x.name_table
      /\ s.bucket = x.bucket /\ s.refcnt = x.refcnt /\ s.device = x.device /\ s.now = x.now /\ s.time = x.time
      /\ s.odd = x.odd
  BY <1>1 DEF FdShape
<1>3. q.open[h] = o
  BY DEF Bind
<1>4. /\ FdShape(y) /\ y.k = q /\ DOMAIN y.bo = FdBos /\ y.refcnt = x.refcnt + 1
      /\ y.bo[b].state = "live" /\ y.bo[b].refcnt = 1 /\ y.bo[b].handle = h /\ y.bo[b].obj = {q.open[h]}
      /\ y.bo[b].dels = 0 /\ FdFields(y.bo[b]) /\ (\A c \in FdBos : c # b => y.bo[c] = x.bo[c])
      /\ y.handle_table = Bind(x.handle_table, h, b) /\ y.name_table = x.name_table /\ y.bucket = x.bucket
      /\ y.device = x.device /\ y.now = x.now /\ y.time = x.time /\ y.odd = x.odd
  <2>1. y = bo_from_handle(s, b, h, big)
    BY DEF FdMade
  <2> HIDE DEF s
  <2> QED BY <1>1, <1>2, <2>1 DEF FdShape, bo_from_handle, NoFdBo, FdFields
<1>5. y.bo[b].obj = {o} /\ FdBuffer(y.bo[b])
  BY <1>3, <1>4 DEF FdBuffer
<1>6. FdGood(y)
  <2>1. /\ FdShape(y) /\ KernelOK(y.k) /\ y.k.open = Bind(x.k.open, h, o) /\ DOMAIN y.bo = FdBos
        /\ FdBuffer(y.bo[b]) /\ y.bo[b].state = "live" /\ FdOf(y.bo[b], h, o)
    BY <1>4, <1>5 DEF FdOf, FdHeld
  <2>2. FdOthers(y.bo, x.bo, b)
    BY <1>4 DEF FdOthers
  <2>3. /\ y.handle_table = Bind(x.handle_table, h, b) /\ y.name_table = x.name_table /\ y.bucket = x.bucket
        /\ y.device = x.device /\ y.refcnt = x.refcnt + 1
    BY <1>4
  <2> QED BY <2>1, <2>2, <2>3, FdNewOK
<1> QED BY <1>1, <1>4, <1>5, <1>6 DEF FdResult

(* A step that changes one structure, but neither its state nor its        *)
(* handle.                                                                 *)
FdStep(x, y, q, b, w) == y = [x EXCEPT !.k = q, !.bo[b] = w]

FdSame(w, v) ==
  /\ FdBuffer(w) /\ w.state = v.state /\ w.handle = v.handle /\ w.obj = v.obj
  /\ v.named = TRUE => w.named = TRUE

(* Such a step keeps the invariant, the clock and the bucket.              *)
LEMMA FdSet ==
  ASSUME NEW x, FdGood(x), NEW q, KernelOK(q), q.open = x.k.open, NEW b \in FdBos,
         NEW w, FdSame(w, x.bo[b]), NEW y, FdStep(x, y, q, b, w)
  PROVE  FdGood(y) /\ y.now = x.now /\ y.time = x.time /\ y.bucket = x.bucket /\ y.odd = x.odd
<1>1. FdShape(x) /\ DOMAIN x.bo = FdBos /\ \A c \in FdBos : FdBuffer(x.bo[c])
  BY DEF FdGood
<1>2. /\ FdShape(y) /\ y.k = q /\ y.bo = [x.bo EXCEPT ![b] = w] /\ y.handle_table = x.handle_table
      /\ y.name_table = x.name_table /\ y.bucket = x.bucket /\ y.refcnt = x.refcnt /\ y.device = x.device
      /\ y.now = x.now /\ y.time = x.time /\ y.odd = x.odd
  BY <1>1 DEF FdShape, FdStep
<1>3. DOMAIN y.bo = FdBos /\ \A c \in FdBos : y.bo[c] = IF c = b THEN w ELSE x.bo[c]
  BY <1>1, <1>2
<1>4. FdSteady(y.bo, x.bo)
  BY <1>1, <1>3 DEF FdSteady, FdSame
<1>5. y.k.open = x.k.open /\ KernelOK(y.k)
  BY <1>2
<1> QED BY <1>2, <1>3, <1>4, <1>5, FdChanged

(* fd_bo_new with a new kernel object.                                     *)
LEMMA FdBoNewOK ==
  ASSUME FdGood(fd), FdClock(fd), NEW o, NEW big, NEW idle, fd_bo_new(o, big, idle)
  PROVE  FdGood(fd') /\ FdClock(fd')
<1> DEFINE r == GemCreate(fd.k, o)
           q == r.k
           h == r.handle
           s == [fd EXCEPT !.k = q]
<1>1. PICK b \in FreshFd : fd' = [bo_from_handle(s, b, h, big) EXCEPT !.bo[b].reuse = TRUE]
  BY DEF fd_bo_new
<1>2. fd.device = "open" /\ KernelOK(fd.k)
  BY DEF fd_bo_new, FdRunning, FdGood
<1>3. KernelOK(q) /\ h \notin DOMAIN fd.k.open /\ q.open = Bind(fd.k.open, h, o)
  BY <1>2, GemCreateIs
<1>4. b \in FdBos /\ fd.bo[b].state = "free"
  BY FreshFdIs
<1> DEFINE y == bo_from_handle(s, b, h, big)
           w == [y.bo[b] EXCEPT !.reuse = TRUE]
<1>11. y = bo_from_handle(s, b, h, big)
  OBVIOUS
<1>12. FdMade(fd, y, q, b, h, big)
  BY DEF FdMade
<1> HIDE DEF r, q, h, s, y, w
<1>5. /\ FdGood(y) /\ y.bo[b].state = "live" /\ y.bo[b].refcnt = 1 /\ y.bo[b].dels = 0
      /\ y.now = fd.now /\ y.time = fd.time /\ y.bucket = fd.bucket
  <2>1. FdResult(fd, y, b, h, o)
    BY <1>2, <1>3, <1>4, <1>12, FdFromHandleIs
  <2> QED BY <2>1 DEF FdResult
<1>6. fd' = [y EXCEPT !.bo[b].reuse = TRUE]
  BY <1>1, <1>11
<1> USE DEF w
<1>7. FdShape(y) /\ DOMAIN y.bo = FdBos /\ FdBuffer(y.bo[b]) /\ KernelOK(y.k)
  BY <1>4, <1>5 DEF FdGood
<1>8. FdStep(y, fd', y.k, b, w)
  BY <1>6, <1>7 DEF FdShape, FdStep
<1>9. FdSame(w, y.bo[b])
  BY <1>7 DEF FdSame, FdBuffer, FdFields
<1> HIDE DEF w
<1>10. FdGood(fd') /\ fd'.now = y.now /\ fd'.time = y.time /\ fd'.bucket = y.bucket
  BY <1>4, <1>5, <1>7, <1>8, <1>9, FdSet
<1> QED BY <1>5, <1>10 DEF FdClock

(* fd_bo_from_dmabuf: a handle that is open has a structure already.       *)
LEMMA FdFromDmabufOK ==
  ASSUME FdGood(fd), FdClock(fd), NEW o, fd_bo_from_dmabuf(o)
  PROVE  FdOK(fd')
<1> DEFINE r == PrimeOpen(fd.k, o)
           q == r.k
           h == r.handle
           s == [fd EXCEPT !.k = q]
<1>1. PICK b \in FreshFd :
        fd' = IF h \in DOMAIN fd.handle_table THEN Odd(bo_from_handle(s, b, h, FALSE), "twin")
              ELSE bo_from_handle(s, b, h, FALSE)
  BY DEF fd_bo_from_dmabuf
<1>2. fd.device = "open" /\ KernelOK(fd.k) /\ FdShape(fd)
  BY DEF fd_bo_from_dmabuf, FdRunning, FdGood
<1>3. /\ KernelOK(q)
      /\ \/ h \in DOMAIN fd.k.open
         \/ h \notin DOMAIN fd.k.open /\ q.open = Bind(fd.k.open, h, o)
  BY <1>2, PrimeOpenIs
<1>4. b \in FdBos /\ fd.bo[b].state = "free"
  BY FreshFdIs
<1> DEFINE y == bo_from_handle(s, b, h, FALSE)
<1>5. CASE h \in DOMAIN fd.k.open
  <2>1. h \in DOMAIN fd.handle_table
    BY <1>5 DEF FdGood, FdMatched
  <2>2. fd' = [y EXCEPT !.odd = "twin"] /\ "odd" \in DOMAIN y
    <3> HIDE DEF q, h
    <3> QED BY <1>1, <1>2, <2>1 DEF Odd, bo_from_handle, FdShape
  <2>3. fd'.odd = "twin"
    <3> HIDE DEF y
    <3> QED BY <2>2
  <2> QED BY <2>3 DEF FdOK
<1>6. CASE h \notin DOMAIN fd.k.open /\ q.open = Bind(fd.k.open, h, o)
  <2>3. y = bo_from_handle(s, b, h, FALSE)
    OBVIOUS
  <2>4. FdMade(fd, y, q, b, h, FALSE)
    BY DEF FdMade
  <2> HIDE DEF r, q, h, s, y
  <2>1. /\ FdGood(y) /\ h \notin DOMAIN fd.handle_table
        /\ y.now = fd.now /\ y.time = fd.time /\ y.bucket = fd.bucket
    <3>1. FdResult(fd, y, b, h, o)
      BY <1>2, <1>3, <1>4, <1>6, <2>4, FdFromHandleIs
    <3> QED BY <3>1 DEF FdResult
  <2>2. fd' = y
    BY <1>1, <2>1, <2>3
  <2> QED BY <2>1, <2>2 DEF FdOK, FdClock
<1> QED BY <1>3, <1>5, <1>6

(* lookup_bo of a structure in use; to find another one is odd.            *)
LEMMA FdLookupOK ==
  ASSUME NEW x, FdGood(x), FdClock(x), NEW b \in FdBos, FdHeld(x.bo[b]), NEW y, y = lookup_bo(x, b)
  PROVE  FdOK(y)
<1> DEFINE t == [x EXCEPT !.bo[b].refcnt = @ + 1]
           w == [x.bo[b] EXCEPT !.refcnt = @ + 1]
<1>0. FdShape(x) /\ DOMAIN x.bo = FdBos /\ FdBuffer(x.bo[b]) /\ KernelOK(x.k)
  BY DEF FdGood
<1>1. CASE x.bo[b].refcnt = 0
  <2>1. y = [t EXCEPT !.odd = "revived"] /\ "odd" \in DOMAIN t
    BY <1>0, <1>1 DEF lookup_bo, Odd, FdShape
  <2>2. y.odd = "revived"
    BY <2>1
  <2> QED BY <2>2 DEF FdOK
<1>2. CASE x.bo[b].refcnt # 0
  <2>1. y = t
    BY <1>2 DEF lookup_bo
  <2>2. FdStep(x, t, x.k, b, w)
    BY <1>0 DEF FdShape, FdStep
  <2>3. FdSame(w, x.bo[b])
    BY <1>0, <1>2 DEF FdSame, FdBuffer, FdFields
  <2> HIDE DEF w, t
  <2>4. FdGood(y) /\ y.now = x.now /\ y.time = x.time /\ y.bucket = x.bucket
    BY <1>0, <2>1, <2>2, <2>3, FdSet
  <2> QED BY <2>4 DEF FdOK, FdClock
<1> QED BY <1>1, <1>2

(* set_name of a structure in use.                                         *)
LEMMA FdSetNameOK ==
  ASSUME NEW x, FdGood(x), FdClock(x), NEW b \in FdBos, FdHeld(x.bo[b]), NEW o, x.bo[b].obj = {o},
         NEW y, y = set_name(x, b, o)
  PROVE  FdGood(y) /\ FdClock(y)
<1> DEFINE w == [x.bo[b] EXCEPT !.named = TRUE]
           s == [x EXCEPT !.bo[b].named = TRUE]
           m == IF o \in DOMAIN x.name_table THEN x.name_table ELSE Bind(x.name_table, o, b)
<1>0. FdShape(x) /\ DOMAIN x.bo = FdBos /\ FdBuffer(x.bo[b]) /\ KernelOK(x.k)
  BY DEF FdGood
<1>1. y = [s EXCEPT !.name_table = m]
  BY <1>0 DEF set_name, FdShape
<1>2. FdStep(x, s, x.k, b, w)
  BY <1>0 DEF FdShape, FdStep
<1>3. FdSame(w, x.bo[b]) /\ w.named = TRUE
  BY <1>0 DEF FdSame, FdBuffer, FdFields
<1>4. s.bo[b] = w /\ s.name_table = x.name_table
  BY <1>0 DEF FdShape
<1> HIDE DEF s, w
<1>5. FdGood(s) /\ s.now = x.now /\ s.time = x.time /\ s.bucket = x.bucket
  BY <1>0, <1>2, <1>3, FdSet
<1>6. FdHeld(s.bo[b]) /\ s.bo[b].named = TRUE /\ s.bo[b].obj = {o}
  BY <1>3, <1>4 DEF FdSame, FdHeld
<1>7. m = IF o \in DOMAIN s.name_table THEN s.name_table ELSE Bind(s.name_table, o, b)
  BY <1>4
<1> HIDE DEF m
<1>8. /\ FdShape(y) /\ y.k = s.k /\ y.bo = s.bo /\ y.handle_table = s.handle_table /\ y.name_table = m
      /\ y.bucket = s.bucket /\ y.refcnt = s.refcnt /\ y.device = s.device /\ y.now = s.now /\ y.time = s.time
  BY <1>1, <1>5 DEF FdGood, FdShape
<1>9. FdMatched(s.k, s.bo, s.handle_table, m)
  <2> DEFINE k == s.k
             f == s.bo
             t == s.handle_table
             n == s.name_table
  <2>1. FdMatched(k, f, t, n) /\ FdHeld(f[b]) /\ f[b].named = TRUE
    BY <1>5, <1>6 DEF FdGood
  <2>2. f[b].obj = {o} /\ m = IF o \in DOMAIN n THEN n ELSE Bind(n, o, b)
    BY <1>6, <1>7
  <2> HIDE DEF k, f, t, n
  <2>3. FdMatched(k, f, t, m)
    BY <2>1, <2>2, FdNamed
  <2> QED BY <2>3 DEF k, f, t
<1> QED BY <1>5, <1>8, <1>9 DEF FdGood, FdClock

(* fd_bo_from_name: a structure of that name, or a new one.                *)
LEMMA FdFromNameOK ==
  ASSUME FdGood(fd), FdClock(fd), NEW o, fd_bo_from_name(o)
  PROVE  FdOK(fd')
<1>1. CASE o \in DOMAIN fd.name_table
  <2> DEFINE b == fd.name_table[o]
  <2>1. b \in FdBos /\ FdHeld(fd.bo[b])
    BY <1>1 DEF FdGood, FdMatched
  <2>2. fd' = lookup_bo(fd, b)
    BY <1>1 DEF fd_bo_from_name
  <2> HIDE DEF b
  <2> QED BY <2>1, <2>2, FdLookupOK
<1>2. CASE o \notin DOMAIN fd.name_table
  <2> DEFINE r == GemOpen(fd.k, o)
             q == r.k
             h == r.handle
             s == [fd EXCEPT !.k = q]
  <2>1. fd.device = "open" /\ KernelOK(fd.k) /\ FdShape(fd)
    BY DEF fd_bo_from_name, FdRunning, FdGood
  <2>2. KernelOK(q) /\ h \notin DOMAIN fd.k.open /\ q.open = Bind(fd.k.open, h, o)
    BY <2>1, GemOpenIs
  <2>3. h \notin DOMAIN fd.handle_table
    BY <2>2 DEF FdGood, FdMatched
  <2>4. s.handle_table = fd.handle_table
    BY <2>1 DEF FdShape
  <2>5. PICK b \in FreshFd : fd' = set_name(bo_from_handle(s, b, h, FALSE), b, o)
    BY <1>2, <2>3, <2>4 DEF fd_bo_from_name
  <2>6. b \in FdBos /\ fd.bo[b].state = "free"
    BY FreshFdIs
  <2> DEFINE y == bo_from_handle(s, b, h, FALSE)
  <2>7. FdMade(fd, y, q, b, h, FALSE)
    BY DEF FdMade
  <2>8. fd' = set_name(y, b, o)
    BY <2>5
  <2> HIDE DEF r, q, h, s, y
  <2>9. FdResult(fd, y, b, h, o)
    BY <2>1, <2>2, <2>6, <2>7, FdFromHandleIs
  <2>10. FdGood(y) /\ FdClock(y) /\ FdHeld(y.bo[b]) /\ y.bo[b].obj = {o}
    BY <2>9 DEF FdResult, FdClock, FdHeld
  <2>11. FdGood(fd') /\ FdClock(fd')
    BY <2>6, <2>8, <2>10, FdSetNameOK
  <2> QED BY <2>11 DEF FdOK
<1> QED BY <1>1, <1>2

(* fd_bo_ref.                                                              *)
LEMMA FdRefOK ==
  ASSUME FdGood(fd), FdClock(fd), NEW b \in FdBos, fd_bo_ref(b)
  PROVE  FdGood(fd') /\ FdClock(fd')
<1> DEFINE w == [fd.bo[b] EXCEPT !.refcnt = @ + 1]
<1>0. FdShape(fd) /\ DOMAIN fd.bo = FdBos /\ FdBuffer(fd.bo[b]) /\ KernelOK(fd.k)
  BY DEF FdGood
<1>1. fd' = [fd EXCEPT !.bo[b].refcnt = @ + 1] /\ fd.bo[b].refcnt # 0
  BY FdAssumption DEF fd_bo_ref
<1>2. FdStep(fd, fd', fd.k, b, w)
  BY <1>0, <1>1 DEF FdShape, FdStep
<1>3. FdSame(w, fd.bo[b])
  BY <1>0, <1>1 DEF FdSame, FdBuffer, FdFields
<1> HIDE DEF w
<1>4. FdGood(fd') /\ fd'.now = fd.now /\ fd'.time = fd.time /\ fd'.bucket = fd.bucket
  BY <1>0, <1>2, <1>3, FdSet
<1> QED BY <1>4 DEF FdClock

(* fd_bo_get_name.                                                         *)
LEMMA FdGetNameOK ==
  ASSUME FdGood(fd), FdClock(fd), NEW b \in FdBos, fd_bo_get_name(b)
  PROVE  FdGood(fd') /\ FdClock(fd')
<1> DEFINE q == GemFlink(fd.k, fd.bo[b].handle)
           s == [fd EXCEPT !.k = q]
           o == fd.k.open[fd.bo[b].handle]
<1>0. FdShape(fd) /\ DOMAIN fd.bo = FdBos /\ FdBuffer(fd.bo[b]) /\ KernelOK(fd.k)
  BY DEF FdGood
<1>1. fd' = set_name(s, b, o)
  BY <1>0 DEF fd_bo_get_name, FdShape
<1>2. KernelOK(q) /\ q.open = fd.k.open
  BY <1>0, GemFlinkIs
<1>3. FdHeld(fd.bo[b]) /\ fd.bo[b].obj = {o}
  <2>1. FdHeld(fd.bo[b])
    BY <1>0 DEF fd_bo_get_name, FdBuffer, FdHeld
  <2> QED BY <2>1 DEF FdGood, FdMatched
<1> HIDE DEF q, o
<1>6. /\ FdShape(s) /\ s.k = q /\ s.bo = fd.bo /\ s.handle_table = fd.handle_table /\ s.name_table = fd.name_table
      /\ s.bucket = fd.bucket /\ s.refcnt = fd.refcnt /\ s.device = fd.device /\ s.now = fd.now /\ s.time = fd.time
  BY <1>0 DEF FdShape
<1> HIDE DEF s
<1>5. FdSteady(s.bo, fd.bo)
  BY <1>6 DEF FdSteady, FdGood
<1>7. FdGood(s) /\ s.now = fd.now /\ s.time = fd.time /\ s.bucket = fd.bucket
  <2>1. KernelOK(s.k) /\ s.k.open = fd.k.open /\ DOMAIN s.bo = FdBos
    BY <1>0, <1>2, <1>6
  <2> QED BY <1>5, <1>6, <2>1, FdChanged
<1>8. FdClock(s) /\ FdHeld(s.bo[b]) /\ s.bo[b].obj = {o}
  BY <1>3, <1>6, <1>7 DEF FdClock
<1> QED BY <1>1, <1>7, <1>8, FdSetNameOK

(* fd_bo_dmabuf.                                                           *)
LEMMA FdDmabufOK ==
  ASSUME FdGood(fd), FdClock(fd), NEW b \in FdBos, fd_bo_dmabuf(b)
  PROVE  FdGood(fd') /\ FdClock(fd')
<1> DEFINE q == PrimeExport(fd.k, fd.bo[b].handle)
           w == [fd.bo[b] EXCEPT !.fd = TRUE]
<1>0. FdShape(fd) /\ DOMAIN fd.bo = FdBos /\ FdBuffer(fd.bo[b]) /\ KernelOK(fd.k)
  BY DEF FdGood
<1>1. fd' = [fd EXCEPT !.bo[b].fd = TRUE, !.k = q]
  BY <1>0 DEF fd_bo_dmabuf, FdShape
<1>2. KernelOK(q) /\ q.open = fd.k.open
  <2>1. FdHeld(fd.bo[b])
    BY <1>0 DEF fd_bo_dmabuf, FdBuffer, FdHeld
  <2>2. fd.bo[b].handle \in DOMAIN fd.k.open
    BY <2>1 DEF FdGood, FdMatched
  <2> QED BY <1>0, <2>2, PrimeExportIs
<1> HIDE DEF q
<1>4. FdStep(fd, fd', q, b, w)
  BY <1>0, <1>1 DEF FdShape, FdStep
<1>5. FdSame(w, fd.bo[b])
  BY <1>0 DEF FdSame, FdBuffer, FdFields
<1> HIDE DEF w
<1>7. FdGood(fd') /\ fd'.now = fd.now /\ fd'.time = fd.time /\ fd'.bucket = fd.bucket
  BY <1>2, <1>4, <1>5, FdSet
<1> QED BY <1>7 DEF FdClock

(* fd_bo_del up to the lock.                                               *)
LEMMA FdBoDelOK ==
  ASSUME FdGood(fd), FdClock(fd), NEW b \in FdBos, fd_bo_del(b)
  PROVE  FdGood(fd') /\ FdClock(fd')
<1>0. FdShape(fd) /\ DOMAIN fd.bo = FdBos /\ FdBuffer(fd.bo[b]) /\ KernelOK(fd.k) /\ fd.bo[b].refcnt > 0
  BY DEF FdGood, fd_bo_del
<1>1. ASSUME NEW w, FdSame(w, fd.bo[b]), FdStep(fd, fd', fd.k, b, w) PROVE FdGood(fd') /\ FdClock(fd')
  <2>1. FdGood(fd') /\ fd'.now = fd.now /\ fd'.time = fd.time /\ fd'.bucket = fd.bucket
    BY <1>0, <1>1, FdSet
  <2> QED BY <2>1 DEF FdClock
<1>2. CASE fd.bo[b].refcnt > 1
  <2> DEFINE w == [fd.bo[b] EXCEPT !.refcnt = @ - 1]
  <2>1. fd' = [fd EXCEPT !.bo[b].refcnt = @ - 1]
    BY <1>2 DEF fd_bo_del
  <2>2. FdStep(fd, fd', fd.k, b, w)
    BY <1>0, <2>1 DEF FdShape, FdStep
  <2>3. FdSame(w, fd.bo[b])
    BY <1>0, <1>2 DEF FdSame, FdBuffer, FdFields
  <2> QED BY <1>1, <2>2, <2>3
<1>3. CASE ~ (fd.bo[b].refcnt > 1)
  <2> DEFINE w == [fd.bo[b] EXCEPT !.refcnt = 0, !.fd = FALSE, !.dels = @ + 1]
  <2>1. fd' = [fd EXCEPT !.bo[b].refcnt = 0, !.bo[b].fd = FALSE, !.bo[b].dels = @ + 1]
    BY <1>3 DEF fd_bo_del
  <2>2. FdStep(fd, fd', fd.k, b, w)
    BY <1>0, <2>1 DEF FdShape, FdStep, FdBuffer, FdFields
  <2>3. FdSame(w, fd.bo[b])
    BY <1>0, <1>3 DEF FdSame, FdBuffer, FdFields
  <2> QED BY <1>1, <2>2, <2>3
<1> QED BY <1>2, <1>3

(* fd_bo_del under the lock, of a buffer that goes away.                   *)
LEMMA FdGoneOK ==
  ASSUME NEW x, FdGood(x), FdClock(x), x.device = "open", NEW b \in FdBos, x.bo[b].state = "live",
         NEW s, s = [x EXCEPT !.bo[b].dels = @ - 1], NEW y, y = bo_del(s, {b})
  PROVE  /\ FdGood(y) /\ FdClock(y) /\ y.device = "open" /\ Cardinality(FdLive(y.bo)) < y.refcnt
         /\ FdTaken(y.bo) => Cardinality(FdLive(y.bo)) < y.refcnt - 1
<1>0. FdShape(x) /\ DOMAIN x.bo = FdBos /\ FdBuffer(x.bo[b]) /\ KernelOK(x.k) /\ \A c \in FdBos : FdBuffer(x.bo[c])
  BY DEF FdGood
<1>1. /\ FdShape(s) /\ s.k = x.k /\ s.handle_table = x.handle_table /\ s.name_table = x.name_table
      /\ s.bucket = x.bucket /\ s.refcnt = x.refcnt /\ s.device = x.device /\ s.now = x.now /\ s.time = x.time
      /\ DOMAIN s.bo = FdBos /\ \A c \in FdBos : c # b => s.bo[c] = x.bo[c]
  BY <1>0 DEF FdShape
<1>2. /\ s.bo[b].state = x.bo[b].state /\ s.bo[b].handle = x.bo[b].handle
      /\ s.bo[b].obj = x.bo[b].obj /\ s.bo[b].named = x.bo[b].named
  BY <1>0 DEF FdShape, FdBuffer, FdFields
<1>3. FdMatched(s.k, s.bo, s.handle_table, s.name_table)
  <2>1. FdAlike(s.bo, x.bo)
    BY <1>1, <1>2 DEF FdAlike, FdHeld
  <2>2. FdMatched(x.k, x.bo, x.handle_table, x.name_table)
    BY DEF FdGood
  <2>3. FdMatched(x.k, s.bo, x.handle_table, x.name_table)
    BY <2>1, <2>2, FdKept
  <2> QED BY <1>1, <2>3
<1> DEFINE B == {b}
<1>4. B \in SUBSET FdBos /\ (\A c \in B : FdHeld(s.bo[c])) /\ \A c \in FdBos \ B : FdBuffer(s.bo[c])
  BY <1>0, <1>1, <1>2 DEF FdHeld
<1>5. y = bo_del(s, B) /\ \A c : c \in B <=> c = b
  OBVIOUS
<1> HIDE DEF B
<1>6. /\ FdShape(y) /\ KernelOK(y.k) /\ IsFcn(y.k.open)
      /\ DOMAIN y.bo = FdBos /\ (\A c \in FdBos : FdBuffer(y.bo[c]))
      /\ FdMatched(y.k, y.bo, y.handle_table, y.name_table)
      /\ \A c \in FdBos : y.bo[c] = IF c \in B THEN NoFdBo ELSE s.bo[c]
      /\ y.bucket = s.bucket /\ y.refcnt = s.refcnt /\ y.device = s.device
      /\ y.now = s.now /\ y.time = s.time /\ y.odd = s.odd
  <2>1. FdFreed(s, y, B)
    BY <1>0, <1>1, <1>3, <1>4, <1>5, FdDelOK
  <2> QED BY <2>1 DEF FdFreed
<1>7. y.bo[b].state = "free" /\ \A c \in FdBos : c # b => y.bo[c] = x.bo[c]
  <2>1. NoFdBo.state = "free"
    BY DEF NoFdBo
  <2> QED BY <1>1, <1>5, <1>6, <2>1
<1>8. FdCached(y.bo, y.bucket)
  <2>1. FdCached(x.bo, x.bucket)
    BY DEF FdGood
  <2>2. \A i \in DOMAIN x.bucket : x.bucket[i] \in FdBos /\ x.bucket[i] # b
    BY <2>1 DEF FdCached
  <2>3. y.bucket = x.bucket
    BY <1>1, <1>6
  <2>4. \A i \in DOMAIN x.bucket : y.bo[x.bucket[i]].state = "cached"
    BY <1>7, <2>1, <2>2 DEF FdCached
  <2>5. \A c \in FdBos : y.bo[c].state = "cached" => \E i \in DOMAIN x.bucket : x.bucket[i] = c
    BY <1>7, <2>1 DEF FdCached
  <2> DEFINE f == y.bo
             z == x.bucket
  <2>6. /\ z \in Seq(FdBos) /\ (\A i \in DOMAIN z : f[z[i]].state = "cached")
        /\ (\A c \in FdBos : f[c].state = "cached" => \E i \in DOMAIN z : z[i] = c)
        /\ (\A i, j \in DOMAIN z : z[i] = z[j] => i = j)
    BY <2>1, <2>4, <2>5 DEF FdCached
  <2> HIDE DEF f, z
  <2>7. FdCached(f, z)
    BY <2>6 DEF FdCached
  <2> QED BY <2>3, <2>7 DEF f, z
<1>9. FdCounted(x.bo, "open", x.refcnt)
  BY DEF FdGood
<1>10. /\ IsFiniteSet(FdLive(y.bo)) /\ Cardinality(FdLive(y.bo)) \in Nat
       /\ Cardinality(FdLive(y.bo)) < Cardinality(FdLive(x.bo))
  <2>1. FdLive(y.bo) = FdLive(x.bo) \ {b} /\ b \in FdLive(x.bo) /\ IsFiniteSet(FdLive(x.bo))
    BY <1>7, <1>9 DEF FdLive, FdCounted
  <2>2. IsFiniteSet(FdLive(y.bo)) /\ Cardinality(FdLive(y.bo)) = Cardinality(FdLive(x.bo)) - 1
    BY <2>1, FS_RemoveElement
  <2>3. Cardinality(FdLive(y.bo)) \in Nat /\ Cardinality(FdLive(x.bo)) \in Nat
    BY <2>1, <2>2, FS_CardinalityType
  <2> QED BY <2>2, <2>3
<1>11. Cardinality(FdLive(x.bo)) \in Nat /\ x.refcnt \in Nat /\ Cardinality(FdLive(x.bo)) <= x.refcnt
  BY <1>9, FS_CardinalityType DEF FdCounted
<1>12. y.refcnt = x.refcnt /\ y.device = "open" /\ Cardinality(FdLive(y.bo)) < y.refcnt
  BY <1>1, <1>6, <1>10, <1>11
<1>16. FdTaken(y.bo) => Cardinality(FdLive(y.bo)) < y.refcnt - 1
  <2>1. FdTaken(y.bo) => FdTaken(x.bo)
    BY <1>7 DEF FdTaken
  <2>2. FdTaken(x.bo) => Cardinality(FdLive(x.bo)) < x.refcnt
    BY <1>9 DEF FdCounted
  <2> QED BY <1>10, <1>11, <1>12, <2>1, <2>2
<1>13. FdCounted(y.bo, y.device, y.refcnt)
  BY <1>9, <1>10, <1>11, <1>12 DEF FdCounted
<1>14. FdGood(y)
  BY <1>6, <1>8, <1>13 DEF FdGood
<1>15. FdClock(y)
  BY <1>1, <1>6 DEF FdClock
<1> QED BY <1>12, <1>14, <1>15, <1>16

(* The same of a buffer that goes to the cache, before the cache is        *)
(* cleaned.                                                                *)
FdToCache(x, y, b) ==
  LET s == [x EXCEPT !.bo[b].dels = @ - 1]
  IN  y = [s EXCEPT !.bo[b].state = "cached", !.bo[b].free_time = s.now, !.bucket = Append(@, b)]

(* A buffer in the cache no longer counts for the device.                  *)
LEMMA FdCachedOK ==
  ASSUME NEW x, FdGood(x), x.device = "open", NEW b \in FdBos, x.bo[b].state = "live", x.bo[b].dels > 0,
         NEW y, FdToCache(x, y, b)
  PROVE  /\ FdGood(y) /\ y.device = "open" /\ Cardinality(FdLive(y.bo)) < y.refcnt
         /\ y.now = x.now /\ (FdTaken(y.bo) => Cardinality(FdLive(y.bo)) < y.refcnt - 1)
<1>0. FdShape(x) /\ DOMAIN x.bo = FdBos /\ FdBuffer(x.bo[b]) /\ KernelOK(x.k) /\ \A c \in FdBos : FdBuffer(x.bo[c])
  BY DEF FdGood
<1> DEFINE s == [x EXCEPT !.bo[b].dels = @ - 1]
<1>16. y = [s EXCEPT !.bo[b].state = "cached", !.bo[b].free_time = s.now, !.bucket = Append(@, b)]
  BY DEF FdToCache
<1>1. /\ FdShape(s) /\ s.k = x.k /\ s.handle_table = x.handle_table /\ s.name_table = x.name_table
      /\ s.bucket = x.bucket /\ s.refcnt = x.refcnt /\ s.device = x.device /\ s.now = x.now /\ s.time = x.time
      /\ DOMAIN s.bo = FdBos /\ \A c \in FdBos : c # b => s.bo[c] = x.bo[c]
  BY <1>0 DEF FdShape
<1>2. s.bo[b] = [x.bo[b] EXCEPT !.dels = @ - 1]
  BY <1>0 DEF FdShape
<1>3. /\ FdFields(s.bo[b]) /\ s.bo[b].refcnt = 0 /\ s.bo[b].dels = 0 /\ s.bo[b].handle = x.bo[b].handle
      /\ s.bo[b].obj = x.bo[b].obj /\ s.bo[b].named = x.bo[b].named
  BY <1>0, <1>2 DEF FdBuffer, FdFields
<1> HIDE DEF s
<1>4. /\ FdShape(y) /\ y.k = x.k /\ y.handle_table = x.handle_table /\ y.name_table = x.name_table
      /\ y.bucket = Append(x.bucket, b) /\ y.refcnt = x.refcnt /\ y.device = x.device /\ y.now = x.now
      /\ DOMAIN y.bo = FdBos /\ \A c \in FdBos : c # b => y.bo[c] = x.bo[c]
  BY <1>1, <1>16 DEF FdShape
<1>5. y.bo[b] = [s.bo[b] EXCEPT !.state = "cached", !.free_time = s.now]
  BY <1>1, <1>3, <1>16 DEF FdShape, FdFields
<1>6. /\ FdFields(y.bo[b]) /\ y.bo[b].refcnt = 0 /\ y.bo[b].dels = 0 /\ y.bo[b].handle = x.bo[b].handle
      /\ y.bo[b].obj = x.bo[b].obj /\ y.bo[b].named = x.bo[b].named /\ y.bo[b].state = "cached"
  BY <1>3, <1>5 DEF FdFields
<1>7. \A c \in FdBos : FdBuffer(y.bo[c])
  <2>1. FdBuffer(y.bo[b])
    BY <1>6 DEF FdBuffer
  <2> QED BY <1>0, <1>4, <2>1
<1>8. FdMatched(x.k, y.bo, x.handle_table, x.name_table)
  <2>1. FdAlike(y.bo, x.bo)
    BY <1>4, <1>6 DEF FdAlike, FdHeld
  <2>2. FdMatched(x.k, x.bo, x.handle_table, x.name_table)
    BY DEF FdGood
  <2> QED BY <2>1, <2>2, FdKept
<1>9. FdCached(y.bo, y.bucket)
  <2> DEFINE z == x.bucket
             a == y.bucket
  <2>1. /\ z \in Seq(FdBos) /\ (\A i \in DOMAIN z : x.bo[z[i]].state = "cached")
        /\ (\A c \in FdBos : x.bo[c].state = "cached" => \E i \in DOMAIN z : z[i] = c)
        /\ (\A i, j \in DOMAIN z : z[i] = z[j] => i = j)
    BY DEF FdGood, FdCached
  <2>2. a = Append(z, b)
    BY <1>4
  <2> HIDE DEF z, a
  <2>3. /\ a \in Seq(FdBos) /\ Len(z) \in Nat /\ DOMAIN z = 1 .. Len(z) /\ DOMAIN a = 1 .. Len(z) + 1
        /\ a[Len(z) + 1] = b /\ \A i \in DOMAIN z : a[i] = z[i]
    BY <2>1, <2>2
  <2>4. \A i \in DOMAIN a : i \in DOMAIN z \/ i = Len(z) + 1
    BY <2>3
  <2>5. \A i \in DOMAIN z : z[i] \in FdBos /\ z[i] # b /\ i \in DOMAIN a
    BY <2>1, <2>3
  <2>6. \A i \in DOMAIN a : y.bo[a[i]].state = "cached"
    BY <1>4, <1>6, <2>1, <2>3, <2>4, <2>5
  <2>7. ASSUME NEW c \in FdBos, y.bo[c].state = "cached" PROVE \E i \in DOMAIN a : a[i] = c
    <3>1. CASE c = b
      <4>1. Len(z) + 1 \in DOMAIN a
        BY <2>3
      <4> QED BY <2>3, <3>1, <4>1
    <3>2. CASE c # b
      <4>1. PICK i \in DOMAIN z : z[i] = c
        BY <1>4, <2>1, <2>7, <3>2
      <4> QED BY <2>3, <2>5, <4>1
    <3> QED BY <3>1, <3>2
  <2>8. \A i, j \in DOMAIN a : a[i] = a[j] => i = j
    BY <2>1, <2>3, <2>4, <2>5
  <2>9. FdCached(y.bo, a)
    BY <2>3, <2>6, <2>7, <2>8 DEF FdCached
  <2> QED BY <2>9 DEF a
<1>10. FdCounted(x.bo, "open", x.refcnt)
  BY DEF FdGood
<1>11. /\ IsFiniteSet(FdLive(y.bo)) /\ Cardinality(FdLive(y.bo)) \in Nat
       /\ Cardinality(FdLive(y.bo)) < Cardinality(FdLive(x.bo))
  <2>1. FdLive(y.bo) = FdLive(x.bo) \ {b} /\ b \in FdLive(x.bo) /\ IsFiniteSet(FdLive(x.bo))
    BY <1>4, <1>6, <1>10 DEF FdLive, FdCounted
  <2>2. IsFiniteSet(FdLive(y.bo)) /\ Cardinality(FdLive(y.bo)) = Cardinality(FdLive(x.bo)) - 1
    BY <2>1, FS_RemoveElement
  <2>3. Cardinality(FdLive(y.bo)) \in Nat /\ Cardinality(FdLive(x.bo)) \in Nat
    BY <2>1, <2>2, FS_CardinalityType
  <2> QED BY <2>2, <2>3
<1>12. Cardinality(FdLive(x.bo)) \in Nat /\ x.refcnt \in Nat /\ Cardinality(FdLive(x.bo)) <= x.refcnt
  BY <1>10, FS_CardinalityType DEF FdCounted
<1>13. Cardinality(FdLive(y.bo)) < y.refcnt
  BY <1>4, <1>11, <1>12
<1>17. FdTaken(y.bo) => Cardinality(FdLive(y.bo)) < y.refcnt - 1
  <2>1. FdTaken(y.bo) => FdTaken(x.bo)
    BY <1>4, <1>6 DEF FdTaken
  <2>2. FdTaken(x.bo) => Cardinality(FdLive(x.bo)) < x.refcnt
    BY <1>10 DEF FdCounted
  <2> QED BY <1>4, <1>11, <1>12, <2>1, <2>2
<1>14. FdCounted(y.bo, y.device, y.refcnt)
  BY <1>4, <1>10, <1>11, <1>12, <1>13 DEF FdCounted
<1>15. FdGood(y)
  <2>1. KernelOK(x.k) /\ IsFcn(x.k.open)
    BY DEF FdGood
  <2> QED BY <1>4, <1>7, <1>8, <1>9, <1>14, <2>1 DEF FdGood
<1> QED BY <1>4, <1>13, <1>15, <1>17

(* fd_bo_del under the lock.                                               *)
LEMMA FdDelLockedOK ==
  ASSUME FdGood(fd), FdClock(fd), NEW b \in FdBos, fd_bo_del_locked(b)
  PROVE  FdGood(fd') /\ FdClock(fd')
<1> DEFINE s == [fd EXCEPT !.bo[b].dels = @ - 1]
           c == [s EXCEPT !.bo[b].state = "cached", !.bo[b].free_time = s.now, !.bucket = Append(@, b)]
           y == IF s.bo[b].reuse /\ ~s.bo[b].big THEN fd_cleanup_bo_cache(c, s.now) ELSE bo_del(s, {b})
<1>0. FdShape(fd) /\ FdBuffer(fd.bo[b]) /\ fd.device = "open" /\ fd.bo[b].dels > 0
  BY DEF FdGood, fd_bo_del_locked, FdRunning
<1>1. fd.bo[b].state = "live"
  BY <1>0 DEF FdBuffer
<1>2. fd' = DropDevice(y)
  BY DEF fd_bo_del_locked
<1>3. s = [fd EXCEPT !.bo[b].dels = @ - 1]
  OBVIOUS
<1>4. s.now = fd.now
  BY <1>0 DEF FdShape
<1>5. FdToCache(fd, c, b)
  BY DEF FdToCache
<1>6. /\ FdGood(y) /\ FdClock(y) /\ y.device = "open" /\ Cardinality(FdLive(y.bo)) < y.refcnt
      /\ FdTaken(y.bo) => Cardinality(FdLive(y.bo)) < y.refcnt - 1
  <2>1. CASE ~ (s.bo[b].reuse /\ ~s.bo[b].big)
    <3>1. y = bo_del(s, {b})
      BY <2>1
    <3> HIDE DEF s, y
    <3> QED BY <1>0, <1>1, <1>3, <3>1, FdGoneOK
  <2>2. CASE s.bo[b].reuse /\ ~s.bo[b].big
    <3>1. y = fd_cleanup_bo_cache(c, s.now)
      BY <2>2
    <3> HIDE DEF s, c, y
    <3>2. /\ FdGood(c) /\ c.device = "open" /\ Cardinality(FdLive(c.bo)) < c.refcnt /\ c.now = fd.now
          /\ (FdTaken(c.bo) => Cardinality(FdLive(c.bo)) < c.refcnt - 1)
      BY <1>0, <1>1, <1>5, FdCachedOK
    <3>3. /\ FdGood(y) /\ FdLive(y.bo) = FdLive(c.bo) /\ y.refcnt = c.refcnt /\ y.device = c.device
          /\ y.now = c.now /\ y.time = s.now /\ (FdTaken(y.bo) => FdTaken(c.bo))
      BY <3>1, <3>2, FdCleanOK
    <3> QED BY <1>4, <3>2, <3>3 DEF FdClock
  <2> QED BY <2>1, <2>2
<1> HIDE DEF y
<1> QED BY <1>2, <1>6, FdDropOK

(* A buffer leaves the cache.                                              *)
FdFromCache(x, y, b) == y = [x EXCEPT !.bucket = Tail(@), !.bo[b].state = "taken"]

(* find_in_bucket: the program has a reference to the device.              *)
LEMMA FdFindOK ==
  ASSUME NEW x, FdGood(x), FdClock(x), x.device = "open", x.bucket # <<>>, Cardinality(FdLive(x.bo)) < x.refcnt,
         NEW b, b = Head(x.bucket), NEW y, FdFromCache(x, y, b)
  PROVE  FdGood(y) /\ FdClock(y)
<1>0. FdShape(x) /\ DOMAIN x.bo = FdBos /\ FdCached(x.bo, x.bucket) /\ \A c \in FdBos : FdBuffer(x.bo[c])
  BY DEF FdGood
<1> DEFINE z == x.bucket
           r == Tail(z)
<1>1. /\ z \in Seq(FdBos) /\ z # <<>> /\ b = z[1] /\ (\A i \in DOMAIN z : x.bo[z[i]].state = "cached")
      /\ (\A c \in FdBos : x.bo[c].state = "cached" => \E i \in DOMAIN z : z[i] = c)
      /\ (\A i, j \in DOMAIN z : z[i] = z[j] => i = j)
  BY <1>0 DEF FdCached
<1>2. y = [x EXCEPT !.bucket = r, !.bo[b].state = "taken"]
  BY DEF FdFromCache
<1> HIDE DEF z
<1>3. /\ Len(z) \in Nat /\ Len(z) > 0 /\ DOMAIN z = 1 .. Len(z) /\ 1 \in DOMAIN z
      /\ r \in Seq(FdBos) /\ DOMAIN r = 1 .. (Len(z) - 1) /\ \A i \in DOMAIN r : r[i] = z[i + 1] /\ i + 1 \in DOMAIN z
  BY <1>1
<1> HIDE DEF r
<1>4. b \in FdBos /\ x.bo[b].state = "cached" /\ FdBuffer(x.bo[b])
  BY <1>0, <1>1, <1>3
<1>5. /\ FdShape(y) /\ y.k = x.k /\ y.handle_table = x.handle_table /\ y.name_table = x.name_table
      /\ y.bucket = r /\ y.refcnt = x.refcnt /\ y.device = x.device /\ y.now = x.now /\ y.time = x.time
      /\ DOMAIN y.bo = FdBos /\ \A c \in FdBos : c # b => y.bo[c] = x.bo[c]
  BY <1>0, <1>2 DEF FdShape
<1>6. y.bo[b] = [x.bo[b] EXCEPT !.state = "taken"]
  BY <1>0, <1>2, <1>4 DEF FdShape, FdBuffer, FdFields
<1>7. /\ FdFields(y.bo[b]) /\ y.bo[b].refcnt = 0 /\ y.bo[b].dels = 0 /\ y.bo[b].handle = x.bo[b].handle
      /\ y.bo[b].obj = x.bo[b].obj /\ y.bo[b].named = x.bo[b].named /\ y.bo[b].state = "taken"
  BY <1>4, <1>6 DEF FdBuffer, FdFields
<1>8. \A c \in FdBos : FdBuffer(y.bo[c])
  <2>1. FdBuffer(y.bo[b])
    BY <1>7 DEF FdBuffer
  <2> QED BY <1>0, <1>5, <2>1
<1>9. FdMatched(x.k, y.bo, x.handle_table, x.name_table)
  <2>1. FdAlike(y.bo, x.bo)
    BY <1>4, <1>5, <1>7 DEF FdAlike, FdHeld
  <2>2. FdMatched(x.k, x.bo, x.handle_table, x.name_table)
    BY DEF FdGood
  <2> QED BY <2>1, <2>2, FdKept
<1>10. FdCached(y.bo, r)
  <2> DEFINE f == y.bo
             g == x.bo
  <2>1. /\ \A c \in FdBos : c # b => f[c] = g[c]
        /\ f[b].state = "taken"
        /\ (\A i \in DOMAIN z : z[i] \in FdBos /\ g[z[i]].state = "cached")
        /\ (\A c \in FdBos : g[c].state = "cached" => \E i \in DOMAIN z : z[i] = c)
    BY <1>1, <1>5, <1>7
  <2> HIDE DEF f, g
  <2>2. ASSUME NEW i \in DOMAIN r PROVE r[i] \in FdBos /\ r[i] # b /\ f[r[i]].state = "cached"
    <3>1. r[i] = z[i + 1] /\ i + 1 \in DOMAIN z /\ i + 1 # 1
      BY <1>3
    <3>2. r[i] # b
      BY <1>1, <1>3, <3>1
    <3> QED BY <2>1, <3>1, <3>2
  <2>3. ASSUME NEW c \in FdBos, f[c].state = "cached" PROVE \E i \in DOMAIN r : r[i] = c
    <3>1. c # b /\ g[c].state = "cached"
      BY <2>1, <2>3
    <3>2. PICK j \in DOMAIN z : z[j] = c
      BY <2>1, <3>1
    <3>3. j # 1
      BY <1>1, <3>1, <3>2
    <3>4. j - 1 \in DOMAIN r /\ (j - 1) + 1 = j
      BY <1>3, <3>3
    <3> QED BY <1>3, <3>2, <3>4
  <2>4. ASSUME NEW i \in DOMAIN r, NEW j \in DOMAIN r, r[i] = r[j] PROVE i = j
    <3>1. i + 1 = j + 1
      BY <1>1, <1>3, <2>4
    <3> QED BY <1>3, <3>1
  <2>5. FdCached(f, r)
    BY <1>3, <2>2, <2>3, <2>4 DEF FdCached
  <2> QED BY <2>5 DEF f
<1>11. FdCounted(y.bo, y.device, y.refcnt)
  <2>1. FdCounted(x.bo, "open", x.refcnt)
    BY DEF FdGood
  <2>2. FdLive(y.bo) = FdLive(x.bo)
    BY <1>4, <1>5, <1>7 DEF FdLive
  <2> QED BY <1>5, <2>1, <2>2 DEF FdCounted
<1>12. FdGood(y)
  <2>1. KernelOK(x.k) /\ IsFcn(x.k.open)
    BY DEF FdGood
  <2> QED BY <1>5, <1>8, <1>9, <1>10, <1>11, <2>1 DEF FdGood
<1>13. FdClock(y)
  BY <1>5 DEF FdClock
<1> QED BY <1>12, <1>13

(* The thread that took the buffer counts it.                              *)
FdRecycled(x, y, b) == y = [x EXCEPT !.refcnt = @ + 1, !.bo[b].state = "live", !.bo[b].refcnt = 1]

(* The recycling half of fd_bo_new.                                        *)
LEMMA FdRecycledOK ==
  ASSUME NEW x, FdGood(x), FdClock(x), x.device = "open", NEW b \in FdBos, x.bo[b].state = "taken",
         NEW y, FdRecycled(x, y, b)
  PROVE  FdGood(y) /\ FdClock(y)
<1>1. /\ FdShape(x) /\ DOMAIN x.bo = FdBos /\ FdCached(x.bo, x.bucket) /\ KernelOK(x.k) /\ IsFcn(x.k.open)
      /\ \A c \in FdBos : FdBuffer(x.bo[c])
  BY DEF FdGood
<1>2. /\ FdShape(y) /\ y.k = x.k /\ y.handle_table = x.handle_table /\ y.name_table = x.name_table
      /\ y.bucket = x.bucket /\ y.refcnt = x.refcnt + 1 /\ y.device = x.device /\ y.now = x.now /\ y.time = x.time
      /\ DOMAIN y.bo = FdBos /\ \A c \in FdBos : c # b => y.bo[c] = x.bo[c]
  BY <1>1 DEF FdShape, FdRecycled
<1>3. y.bo[b] = [x.bo[b] EXCEPT !.state = "live", !.refcnt = 1]
  BY <1>1 DEF FdShape, FdRecycled, FdBuffer, FdFields
<1>4. /\ FdFields(y.bo[b]) /\ y.bo[b].refcnt = 1 /\ y.bo[b].dels = 0 /\ y.bo[b].handle = x.bo[b].handle
      /\ y.bo[b].obj = x.bo[b].obj /\ y.bo[b].named = x.bo[b].named /\ y.bo[b].state = "live"
  BY <1>1, <1>3 DEF FdBuffer, FdFields
<1>5. \A c \in FdBos : FdBuffer(y.bo[c])
  <2>1. FdBuffer(y.bo[b])
    BY <1>4 DEF FdBuffer
  <2> QED BY <1>1, <1>2, <2>1
<1>6. FdMatched(x.k, y.bo, x.handle_table, x.name_table)
  <2>1. FdAlike(y.bo, x.bo)
    BY <1>2, <1>4 DEF FdAlike, FdHeld
  <2>2. FdMatched(x.k, x.bo, x.handle_table, x.name_table)
    BY DEF FdGood
  <2> QED BY <2>1, <2>2, FdKept
<1>7. FdCached(y.bo, x.bucket)
  <2> DEFINE f == y.bo
             g == x.bo
             z == x.bucket
  <2>1. /\ f[b].state = "live" /\ g[b].state = "taken" /\ FdCached(g, z)
        /\ \A c \in FdBos : c # b => f[c] = g[c]
    BY <1>1, <1>2, <1>4
  <2> HIDE DEF f, g, z
  <2>2. \A i \in DOMAIN z : z[i] \in FdBos /\ z[i] # b
    BY <2>1 DEF FdCached
  <2>3. FdCached(f, z)
    BY <2>1, <2>2 DEF FdCached
  <2> QED BY <2>3 DEF f, z
<1>8. FdCounted(y.bo, y.device, y.refcnt)
  <2>1. FdCounted(x.bo, "open", x.refcnt) /\ FdTaken(x.bo)
    BY DEF FdGood, FdTaken
  <2>2. FdLive(y.bo) = FdLive(x.bo) \cup {b} /\ b \notin FdLive(x.bo) /\ IsFiniteSet(FdLive(x.bo))
    BY <1>2, <1>4, <2>1 DEF FdLive, FdCounted
  <2>3. /\ IsFiniteSet(FdLive(y.bo)) /\ Cardinality(FdLive(x.bo)) \in Nat
        /\ Cardinality(FdLive(y.bo)) = Cardinality(FdLive(x.bo)) + 1
    BY <2>2, FS_AddElement, FS_CardinalityType
  <2> QED BY <1>2, <2>1, <2>3 DEF FdCounted
<1>9. FdGood(y)
  BY <1>1, <1>2, <1>5, <1>6, <1>7, <1>8 DEF FdGood
<1> QED BY <1>2, <1>9 DEF FdClock

(* Every step of the freedreno library keeps its invariant.                *)
LEMMA FdNextOK ==
  ASSUME FdOK(fd), FdNext
  PROVE  FdOK(fd')
<1>0. FdRunning
  BY DEF FdNext, find_in_bucket, fd_bo_new_recycled, fd_bo_new, fd_bo_new_nomem, fd_bo_from_dmabuf, fd_bo_from_dmabuf_nomem, fd_bo_from_name, fd_bo_ref,
         fd_bo_get_name, fd_bo_dmabuf, fd_bo_del, fd_bo_del_locked, fd_device_del, FdSecond
<1>1. FdGood(fd) /\ FdClock(fd) /\ fd.device = "open" /\ FdShape(fd)
  BY <1>0 DEF FdOK, FdRunning, FdGood
<1>2. ASSUME NEW idle \in BOOLEAN, find_in_bucket(idle) PROVE FdOK(fd')
  <2> DEFINE b == Head(fd.bucket)
  <2>1. fd.bucket # <<>> /\ FdFromCache(fd, fd', b) /\ fd.refcnt > Cardinality(FdLive(fd.bo))
    BY <1>2 DEF find_in_bucket, HoldsDevice, FdLive, FdFromCache
  <2>4. Cardinality(FdLive(fd.bo)) < fd.refcnt
    <3>1. Cardinality(FdLive(fd.bo)) \in Nat /\ fd.refcnt \in Nat
      BY <1>1, FS_CardinalityType DEF FdGood, FdCounted
    <3> QED BY <2>1, <3>1
  <2>2. b = Head(fd.bucket)
    OBVIOUS
  <2> HIDE DEF b
  <2>3. FdGood(fd') /\ FdClock(fd')
    BY <1>1, <2>1, <2>2, <2>4, FdFindOK
  <2> QED BY <2>3 DEF FdOK
<1>10. ASSUME NEW b \in FdBos, fd_bo_new_recycled(b) PROVE FdOK(fd')
  <2>1. fd.bo[b].state = "taken" /\ FdRecycled(fd, fd', b)
    BY <1>10 DEF fd_bo_new_recycled, FdRecycled
  <2> QED BY <1>1, <2>1, FdRecycledOK DEF FdOK
<1>11. ASSUME NEW o \in FdObjs, fd_bo_from_dmabuf_nomem(o) PROVE FdOK(fd')
  <2> DEFINE r == PrimeOpen(fd.k, o)
             s == [fd EXCEPT !.k = GemClose(r.k, r.handle)]
  <2>1. CASE r.handle \in DOMAIN fd.k.open
    <3>1. fd' = [s EXCEPT !.odd = "handle closed"] /\ "odd" \in DOMAIN s
      <4> HIDE DEF r
      <4> QED BY <1>1, <1>11, <2>1 DEF fd_bo_from_dmabuf_nomem, Odd, FdShape, r
    <3>2. fd'.odd = "handle closed"
      <4> HIDE DEF s
      <4> QED BY <3>1
    <3> QED BY <3>2 DEF FdOK
  <2>2. CASE r.handle \notin DOMAIN fd.k.open
    <3>1. fd' = fd
      BY <1>11, <2>2 DEF fd_bo_from_dmabuf_nomem
    <3> QED BY <3>1
  <2> QED BY <2>1, <2>2
<1>3. ASSUME NEW o \in FdObjs, NEW big \in BOOLEAN, NEW idle \in BOOLEAN, fd_bo_new(o, big, idle) PROVE FdOK(fd')
  BY <1>1, <1>3, FdBoNewOK DEF FdOK
<1>4. ASSUME NEW o \in FdObjs, fd_bo_new_nomem(o) PROVE FdOK(fd')
  <2> DEFINE s == [fd EXCEPT !.k.born = @ \cup {o}]
  <2>1. fd' = [s EXCEPT !.odd = "null buffer"] /\ "odd" \in DOMAIN s
    BY <1>1, <1>4 DEF fd_bo_new_nomem, Odd, FdShape
  <2>2. fd'.odd = "null buffer"
    <3> HIDE DEF s
    <3> QED BY <2>1
  <2> QED BY <2>2 DEF FdOK
<1>5. ASSUME NEW o \in FdObjs, fd_bo_from_dmabuf(o) \/ fd_bo_from_name(o) PROVE FdOK(fd')
  BY <1>1, <1>5, FdFromDmabufOK, FdFromNameOK
<1>6. ASSUME NEW b \in FdBos, fd_bo_ref(b) \/ fd_bo_get_name(b) \/ fd_bo_dmabuf(b) PROVE FdOK(fd')
  BY <1>1, <1>6, FdRefOK, FdGetNameOK, FdDmabufOK DEF FdOK
<1>7. ASSUME NEW b \in FdBos, fd_bo_del(b) \/ fd_bo_del_locked(b) PROVE FdOK(fd')
  BY <1>1, <1>7, FdBoDelOK, FdDelLockedOK DEF FdOK
<1>8. CASE fd_device_del
  <2>1. fd.refcnt > Cardinality(FdLive(fd.bo)) /\ fd' = DropDevice(fd)
    BY <1>8 DEF fd_device_del, HoldsDevice, FdLive
  <2>2. Cardinality(FdLive(fd.bo)) < fd.refcnt
    <3>1. Cardinality(FdLive(fd.bo)) \in Nat /\ fd.refcnt \in Nat
      BY <1>1, FS_CardinalityType DEF FdGood, FdCounted
    <3> QED BY <2>1, <3>1
  <2>3. FdGood(fd') /\ FdClock(fd')
    <3>1. ~ FdTaken(fd.bo)
      BY <1>8 DEF fd_device_del, FdTaken
    <3> QED BY <1>1, <2>1, <2>2, <3>1, FdDropOK
  <2> QED BY <2>3 DEF FdOK
<1>9. CASE FdSecond
  <2>1. fd' = [fd EXCEPT !.now = @ + 1]
    BY <1>9 DEF FdSecond
  <2>2. /\ FdShape(fd') /\ fd'.k = fd.k /\ fd'.bo = fd.bo /\ fd'.handle_table = fd.handle_table
        /\ fd'.name_table = fd.name_table /\ fd'.bucket = fd.bucket /\ fd'.refcnt = fd.refcnt
        /\ fd'.device = fd.device /\ fd'.now = fd.now + 1 /\ fd'.time = fd.time
    BY <1>1, <2>1 DEF FdShape
  <2>3. FdGood(fd')
    BY <1>1, <2>2 DEF FdGood
  <2>4. FdClock(fd')
    BY <1>1, <2>2 DEF FdClock
  <2> QED BY <2>3, <2>4 DEF FdOK
<1> QED BY <1>2, <1>3, <1>4, <1>5, <1>6, <1>7, <1>8, <1>9, <1>10, <1>11 DEF FdNext

(* The freedreno library starts with an open device and no structures.     *)
LEMMA FdInitOK ==
  ASSUME FdInit
  PROVE  FdOK(fd)
<1> DEFINE q == Kernel(FdForeign)
           f == [b \in FdBos |-> NoFdBo]
           e == [h \in {} |-> 0]
<1>1. fd = [k |-> q, bo |-> f, handle_table |-> e, name_table |-> e, bucket |-> <<>>, refcnt |-> 1,
            device |-> "open", now |-> 1, time |-> 0, odd |-> "no"]
  BY DEF FdInit
<1>2. KernelOK(q) /\ DOMAIN q.open = {} /\ IsFcn(q.open)
  BY KernelInit DEF Kernel, IsFcn
<1>3. NoFdBo.state = "free" /\ FdBuffer(NoFdBo)
  BY DEF NoFdBo, FdBuffer, FdFields
<1>4. DOMAIN f = FdBos /\ \A b \in FdBos : FdBuffer(f[b]) /\ f[b].state = "free"
  BY <1>3
<1>5. DOMAIN e = {}
  OBVIOUS
<1> HIDE DEF q, f, e
<1>6. FdMatched(q, f, e, e)
  BY <1>2, <1>4, <1>5 DEF FdMatched, FdHeld
<1>7. FdCached(f, <<>>)
  BY <1>4 DEF FdCached
<1>8. FdCounted(f, "open", 1)
  <2>1. FdLive(f) = {}
    BY <1>4 DEF FdLive
  <2>2. ~ FdTaken(f)
    BY <1>4 DEF FdTaken
  <2> QED BY <2>1, <2>2, FS_EmptySet DEF FdCounted
<1>9. /\ FdShape(fd) /\ fd.k = q /\ fd.bo = f /\ fd.handle_table = e /\ fd.name_table = e /\ fd.bucket = <<>>
      /\ fd.refcnt = 1 /\ fd.device = "open" /\ fd.now = 1
  BY <1>1 DEF FdShape
<1>10. FdGood(fd)
  BY <1>2, <1>4, <1>6, <1>7, <1>8, <1>9 DEF FdGood
<1>11. FdClock(fd)
  BY <1>9 DEF FdClock
<1> QED BY <1>10, <1>11 DEF FdOK

(* The invariant gives the property of the freedreno library.              *)
LEMMA FdOKSound ==
  ASSUME FdOK(fd)
  PROVE  FdSound
<1> SUFFICES ASSUME fd.odd = "no" PROVE FdSound
  BY DEF FdSound
<1> DEFINE k == fd.k
           f == fd.bo
           t == fd.handle_table
           n == fd.name_table
           z == fd.bucket
           held == {b \in FdBos : f[b].state # "free"}
           cached == {b \in FdBos : f[b].state = "cached"}
<1>1. /\ FdMatched(k, f, t, n) /\ FdCached(f, z) /\ FdCounted(f, fd.device, fd.refcnt) /\ IsFcn(k.open)
      /\ \A b \in FdBos : FdBuffer(f[b])
  BY DEF FdOK, FdGood
<1>2. \A b \in FdBos : b \in held <=> FdHeld(f[b])
  BY DEF FdHeld
<1> HIDE DEF k, f, t, n, z
<1>3. DOMAIN k.open = {f[b].handle : b \in held}
  BY <1>1, <1>2 DEF FdMatched
<1>4. \A b, c \in held : f[b].handle = f[c].handle => b = c
  BY <1>1, <1>2 DEF FdMatched
<1>5. \A b \in held : f[b].obj = {k.open[f[b].handle]}
  BY <1>1, <1>2 DEF FdMatched
<1>6. \A h \in DOMAIN t : LET b == t[h] IN b \in held /\ f[b].handle = h
  BY <1>1, <1>2 DEF FdMatched
<1>7. \A o \in DOMAIN n : n[o] \in held
  BY <1>1, <1>2 DEF FdMatched
<1>8. ToSet(z) = cached
  <2>1. ToSet(z) = {z[i] : i \in DOMAIN z}
    BY DEF ToSet
  <2>2. \A i \in DOMAIN z : z[i] \in FdBos /\ f[z[i]].state = "cached"
    BY <1>1 DEF FdCached
  <2>3. \A b \in FdBos : f[b].state = "cached" => \E i \in DOMAIN z : z[i] = b
    BY <1>1 DEF FdCached
  <2> QED BY <2>1, <2>2, <2>3
<1>9. \A b \in held : f[b].state # "live" => f[b].refcnt = 0 /\ f[b].dels = 0
  BY <1>1 DEF FdBuffer
<1>10. fd.device = "closed" => k.open = [h \in {} |-> 0]
  <2> SUFFICES ASSUME fd.device = "closed" PROVE k.open = [h \in {} |-> 0]
    OBVIOUS
  <2>1. \A b \in FdBos : ~ FdHeld(f[b])
    BY <1>1 DEF FdCounted
  <2>2. DOMAIN k.open = {}
    BY <1>1, <2>1 DEF FdMatched
  <2> QED BY <1>1, <2>2 DEF IsFcn
<1> QED BY <1>3, <1>4, <1>5, <1>6, <1>7, <1>8, <1>9, <1>10 DEF FdSound, k, f, t, n, z

-----------------------------------------------------------------------------
(* The Intel buffer managers.                                              *)

(* The references of a manager, each an element: those a thread holds are  *)
(* numbered from one, the one it is giving up under the mutex is zero.     *)
Tokens(g, m) ==
  {x \in GmThreads \X (0 .. GmMaxHeld) :
     IF x[2] = 0 THEN m \in g.last[x[1]] ELSE x[2] <= g.held[x[1]][m]}

GmType(g) ==
  g \in [list : SUBSET GmMgrs, fd : [GmMgrs -> GmFds], refcount : [GmMgrs -> Int],
         live : SUBSET GmMgrs, made : SUBSET GmMgrs, open : SUBSET GmMgrs,
         held : [GmThreads -> [GmMgrs -> 0 .. GmMaxHeld]], last : [GmThreads -> SUBSET GmMgrs]]

(* The list is what is live, with one manager for a descriptor.            *)
GmListed(g) ==
  /\ g.list = g.live
  /\ g.open \subseteq g.live
  /\ g.live \subseteq g.made
  /\ \A m \in g.list, n \in g.list : g.fd[m] = g.fd[n] => m = n

(* A thread waits for the mutex with at most one manager.                  *)
OneLast(g) == \A t \in GmThreads : \A m \in g.last[t], n \in g.last[t] : m = n

(* The count is the number of references, and a manager is live exactly    *)
(* as long as it has one.                                                  *)
GmCounted(g, m) ==
  /\ g.refcount[m] = Cardinality(Tokens(g, m))
  /\ m \in g.live <=> g.refcount[m] > 0

GmSound(g) == GmType(g) /\ GmListed(g) /\ OneLast(g) /\ \A m \in GmMgrs : GmCounted(g, m)

(* The inductive invariant.                                                *)
GmInv == GmSound(gm)

-----------------------------------------------------------------------------
(* There are finitely many references.                                     *)
LEMMA TokensFinite ==
  ASSUME NEW g, NEW m
  PROVE  IsFiniteSet(Tokens(g, m)) /\ Cardinality(Tokens(g, m)) \in Nat
<1>1. 0 \in Int /\ GmMaxHeld \in Int
  BY GmAssumption
<1>2. IsFiniteSet(0 .. GmMaxHeld)
  BY <1>1, FS_Interval
<1>3. IsFiniteSet(GmThreads \X (0 .. GmMaxHeld))
  BY <1>2, FS_Product, GmAssumption
<1>4. Tokens(g, m) \subseteq GmThreads \X (0 .. GmMaxHeld)
  BY DEF Tokens
<1>5. IsFiniteSet(Tokens(g, m))
  BY <1>3, <1>4, FS_Subset
<1> QED BY <1>5, FS_CardinalityType

(* A reference more.                                                       *)
LEMMA TokenAdded ==
  ASSUME NEW S, IsFiniteSet(S), NEW x, x \notin S
  PROVE  Cardinality(S \cup {x}) = Cardinality(S) + 1
BY FS_AddElement

(* A reference less.                                                       *)
LEMMA TokenTaken ==
  ASSUME NEW S, IsFiniteSet(S), NEW x, x \in S
  PROVE  Cardinality(S \ {x}) = Cardinality(S) - 1
BY FS_RemoveElement

(* A manager whose references are unchanged keeps its count.               *)
LEMMA CountedSame ==
  ASSUME NEW g, NEW h, NEW m \in GmMgrs, GmCounted(g, m), GmType(g), GmType(h),
         h.refcount[m] = g.refcount[m], m \in h.live <=> m \in g.live,
         \A t \in GmThreads : h.held[t][m] = g.held[t][m] /\ (m \in h.last[t] <=> m \in g.last[t])
  PROVE  GmCounted(h, m)
<1>1. Tokens(h, m) = Tokens(g, m)
  BY DEF Tokens
<1> QED BY <1>1 DEF GmCounted

(* Nothing is held and nothing is listed at the start.                     *)
LEMMA GmInitSound == GmInit => GmInv
<1> SUFFICES ASSUME GmInit PROVE GmSound(gm)
  BY DEF GmInv
<1>1. (CHOOSE f \in GmFds : TRUE) \in GmFds
  BY GmAssumption
<1>2. GmType(gm)
  BY <1>1, GmAssumption DEF GmInit, GmType
<1>3. GmListed(gm) /\ OneLast(gm)
  BY DEF GmInit, GmListed, OneLast
<1>4. ASSUME NEW m \in GmMgrs PROVE GmCounted(gm, m)
  <2>1. Tokens(gm, m) = {}
    BY GmAssumption DEF GmInit, Tokens
  <2>2. Cardinality(Tokens(gm, m)) = 0
    BY <2>1, FS_EmptySet
  <2> QED BY <2>2 DEF GmInit, GmCounted
<1> QED BY <1>2, <1>3, <1>4 DEF GmSound

(* A thread takes a reference of a manager: one it found, or a new one.    *)
LEMMA TakeCounted ==
  ASSUME NEW g, NEW h, GmType(g), GmType(h), NEW m \in GmMgrs, GmCounted(g, m), NEW t \in GmThreads,
         g.held[t][m] < GmMaxHeld, h.held = [g.held EXCEPT ![t][m] = @ + 1], h.last = g.last,
         h.refcount[m] = g.refcount[m] + 1, m \in h.live
  PROVE  GmCounted(h, m)
<1> DEFINE x == <<t, g.held[t][m] + 1>>
<1>1. g.held[t][m] \in 0 .. GmMaxHeld /\ g.held \in [GmThreads -> [GmMgrs -> 0 .. GmMaxHeld]]
  BY DEF GmType
<1>2. x \notin Tokens(g, m)
  BY <1>1 DEF Tokens
<1>3. Tokens(h, m) = Tokens(g, m) \cup {x}
  <2>1. ASSUME NEW y \in GmThreads \X (0 .. GmMaxHeld) PROVE y \in Tokens(h, m) <=> y \in Tokens(g, m) \/ y = x
    <3>1. PICK u \in GmThreads, k \in 0 .. GmMaxHeld : y = <<u, k>>
      BY <2>1
    <3>2. y \in Tokens(h, m) <=> IF k = 0 THEN m \in g.last[u] ELSE k <= h.held[u][m]
      BY <3>1 DEF Tokens
    <3>3. y \in Tokens(g, m) <=> IF k = 0 THEN m \in g.last[u] ELSE k <= g.held[u][m]
      BY <3>1 DEF Tokens
    <3>4. h.held[u][m] = IF u = t THEN g.held[t][m] + 1 ELSE g.held[u][m]
      BY <1>1
    <3>5. g.held[u][m] \in 0 .. GmMaxHeld
      BY <1>1
    <3>6. y = x <=> u = t /\ k = g.held[t][m] + 1
      BY <3>1
    <3>7. y = x => k # 0
      BY <1>1, <3>6
    <3>8. CASE k = 0
      BY <3>2, <3>3, <3>7, <3>8
    <3>9. CASE k # 0 /\ u = t
      <4>1. PICK a \in 0 .. GmMaxHeld : a = g.held[t][m]
        BY <1>1
      <4>2. k <= a + 1 <=> k <= a \/ k = a + 1
        BY GmAssumption
      <4>3. (y \in Tokens(h, m) <=> k <= a + 1) /\ (y \in Tokens(g, m) <=> k <= a)
        BY <3>2, <3>3, <3>4, <3>9, <4>1
      <4>4. y = x <=> k = a + 1
        BY <3>6, <3>9, <4>1
      <4> QED BY <4>2, <4>3, <4>4, Zenon
    <3>10. CASE k # 0 /\ u # t
      BY <3>2, <3>3, <3>4, <3>6, <3>10
    <3> QED BY <3>8, <3>9, <3>10
  <2>2. x \in GmThreads \X (0 .. GmMaxHeld)
    BY <1>1, GmAssumption
  <2>3. Tokens(h, m) \subseteq GmThreads \X (0 .. GmMaxHeld) /\ Tokens(g, m) \subseteq GmThreads \X (0 .. GmMaxHeld)
    BY DEF Tokens
  <2>4. ASSUME NEW y PROVE y \in Tokens(h, m) <=> y \in Tokens(g, m) \cup {x}
    BY <2>1, <2>2, <2>3, Zenon
  <2> QED BY <2>4, Zenon
<1>4. Cardinality(Tokens(h, m)) = Cardinality(Tokens(g, m)) + 1
  BY <1>2, <1>3, TokensFinite, TokenAdded
<1> QED BY <1>4, TokensFinite DEF GmCounted

(* The references a thread holds stay within the bound.                    *)
LEMMA RaisedHeld ==
  ASSUME NEW H \in [GmThreads -> [GmMgrs -> 0 .. GmMaxHeld]], NEW t \in GmThreads, NEW m \in GmMgrs,
         H[t][m] < GmMaxHeld
  PROVE  [H EXCEPT ![t][m] = @ + 1] \in [GmThreads -> [GmMgrs -> 0 .. GmMaxHeld]]
<1>1. H[t] \in [GmMgrs -> 0 .. GmMaxHeld] /\ H[t][m] + 1 \in 0 .. GmMaxHeld
  BY GmAssumption
<1>2. [H[t] EXCEPT ![m] = @ + 1] \in [GmMgrs -> 0 .. GmMaxHeld]
  BY <1>1
<1> QED BY <1>2

(* They also stay within it when one is given up.                          *)
LEMMA LoweredHeld ==
  ASSUME NEW H \in [GmThreads -> [GmMgrs -> 0 .. GmMaxHeld]], NEW t \in GmThreads, NEW m \in GmMgrs,
         H[t][m] > 0
  PROVE  [H EXCEPT ![t][m] = @ - 1] \in [GmThreads -> [GmMgrs -> 0 .. GmMaxHeld]]
<1>1. H[t] \in [GmMgrs -> 0 .. GmMaxHeld] /\ H[t][m] - 1 \in 0 .. GmMaxHeld
  BY GmAssumption
<1>2. [H[t] EXCEPT ![m] = @ - 1] \in [GmMgrs -> 0 .. GmMaxHeld]
  BY <1>1
<1> QED BY <1>2

(* A reference is what a thread holds or is giving up.                     *)
LEMMA TokenIs ==
  ASSUME NEW g, NEW m, NEW u \in GmThreads, NEW k \in 0 .. GmMaxHeld
  PROVE  <<u, k>> \in Tokens(g, m) <=> IF k = 0 THEN m \in g.last[u] ELSE k <= g.held[u][m]
BY DEF Tokens

(* Giving up a reference that is held, with the count going down, or with  *)
(* the thread going for the mutex.                                         *)
LEMMA DropTokens ==
  ASSUME NEW g, NEW h, GmType(g), NEW m \in GmMgrs, NEW t \in GmThreads, g.held[t][m] > 0,
         h.held = [g.held EXCEPT ![t][m] = @ - 1], h.last = g.last
  PROVE  /\ <<t, g.held[t][m]>> \in Tokens(g, m)
         /\ Tokens(h, m) = Tokens(g, m) \ {<<t, g.held[t][m]>>}
<1>1. g.held \in [GmThreads -> [GmMgrs -> 0 .. GmMaxHeld]]
  BY DEF GmType
<1>2. PICK a \in 0 .. GmMaxHeld : a = g.held[t][m] /\ a # 0 /\ a <= a
  BY <1>1
<1>3. <<t, a>> \in Tokens(g, m)
  BY <1>2, TokenIs
<1>4. ASSUME NEW u \in GmThreads, NEW k \in 0 .. GmMaxHeld
      PROVE  <<u, k>> \in Tokens(h, m) <=> <<u, k>> \in Tokens(g, m) /\ <<u, k>> # <<t, a>>
  <2>1. <<u, k>> \in Tokens(h, m) <=> IF k = 0 THEN m \in g.last[u] ELSE k <= h.held[u][m]
    BY TokenIs
  <2>2. <<u, k>> \in Tokens(g, m) <=> IF k = 0 THEN m \in g.last[u] ELSE k <= g.held[u][m]
    BY TokenIs
  <2>3. <<u, k>> = <<t, a>> <=> u = t /\ k = a
    OBVIOUS
  <2>4. CASE k = 0
    BY <1>2, <2>1, <2>2, <2>3, <2>4
  <2>5. CASE k # 0 /\ u = t
    <3>1. h.held[u][m] = a - 1 /\ g.held[u][m] = a
      BY <1>1, <1>2, <2>5
    <3>2. k <= a - 1 <=> k <= a /\ k # a
      BY GmAssumption
    <3> QED BY <2>1, <2>2, <2>3, <2>5, <3>1, <3>2
  <2>6. CASE k # 0 /\ u # t
    <3>1. h.held[u][m] = g.held[u][m]
      BY <1>1, <2>6
    <3> QED BY <2>1, <2>2, <2>3, <2>6, <3>1
  <2> QED BY <2>4, <2>5, <2>6
<1>5. ASSUME NEW y PROVE y \in Tokens(h, m) <=> y \in Tokens(g, m) \ {<<t, a>>}
  <2>1. ASSUME NEW f PROVE y \in Tokens(f, m) => \E u \in GmThreads, k \in 0 .. GmMaxHeld : y = <<u, k>>
    BY DEF Tokens
  <2> QED BY <1>4, <2>1
<1>6. Tokens(h, m) = Tokens(g, m) \ {<<t, a>>}
  BY <1>5, Zenon
<1> QED BY <1>2, <1>3, <1>6

(* The thread's place in front of the mutex is a reference.                *)
LEMMA LastTokens ==
  ASSUME NEW g, NEW h, GmType(g), NEW m \in GmMgrs, NEW t \in GmThreads, h.held = g.held,
         \A u \in GmThreads : u # t => h.last[u] = g.last[u]
  PROVE  /\ m \notin g.last[t] /\ m \in h.last[t]
            => <<t, 0>> \notin Tokens(g, m) /\ Tokens(h, m) = Tokens(g, m) \cup {<<t, 0>>}
         /\ m \in g.last[t] /\ m \notin h.last[t]
            => <<t, 0>> \in Tokens(g, m) /\ Tokens(h, m) = Tokens(g, m) \ {<<t, 0>>}
<1>1. g.last \in [GmThreads -> SUBSET GmMgrs] /\ 0 \in 0 .. GmMaxHeld
  BY GmAssumption DEF GmType
<1>2. ASSUME NEW u \in GmThreads, NEW k \in 0 .. GmMaxHeld, <<u, k>> # <<t, 0>>
      PROVE  <<u, k>> \in Tokens(h, m) <=> <<u, k>> \in Tokens(g, m)
  <2>1. k = 0 => h.last[u] = g.last[u]
    BY <1>1, <1>2
  <2> QED BY <2>1, TokenIs
<1>3. <<t, 0>> \in Tokens(g, m) <=> m \in g.last[t]
  BY <1>1, TokenIs
<1>4. <<t, 0>> \in Tokens(h, m) <=> m \in h.last[t]
  BY <1>1, TokenIs
<1>5. ASSUME NEW f, NEW y \in Tokens(f, m) PROVE \E u \in GmThreads, k \in 0 .. GmMaxHeld : y = <<u, k>>
  BY DEF Tokens
<1>6. ASSUME NEW y, y # <<t, 0>> PROVE y \in Tokens(h, m) <=> y \in Tokens(g, m)
  BY <1>2, <1>5, <1>6
<1>7. CASE m \notin g.last[t] /\ m \in h.last[t]
  <2>1. <<t, 0>> \notin Tokens(g, m) /\ <<t, 0>> \in Tokens(h, m)
    BY <1>1, <1>3, <1>4, <1>7
  <2>2. Tokens(h, m) = Tokens(g, m) \cup {<<t, 0>>}
    BY <1>6, <2>1, Zenon
  <2> QED BY <1>7, <2>1, <2>2
<1>8. CASE m \in g.last[t] /\ m \notin h.last[t]
  <2>1. <<t, 0>> \in Tokens(g, m) /\ <<t, 0>> \notin Tokens(h, m)
    BY <1>1, <1>3, <1>4, <1>8
  <2>2. Tokens(h, m) = Tokens(g, m) \ {<<t, 0>>}
    BY <1>6, <2>1, Zenon
  <2> QED BY <1>8, <2>1, <2>2
<1> QED BY <1>7, <1>8

(* Going for the mutex turns the reference into a place in front of it.    *)
LEMMA PlaceTaken ==
  ASSUME NEW g, NEW h, GmType(g), NEW m \in GmMgrs, NEW t \in GmThreads, h.held = g.held,
         h.last = [g.last EXCEPT ![t] = {m}], g.last[t] = {}
  PROVE  <<t, 0>> \notin Tokens(g, m) /\ Tokens(h, m) = Tokens(g, m) \cup {<<t, 0>>}
<1>1. /\ \A u \in GmThreads : u # t => h.last[u] = g.last[u]
      /\ m \notin g.last[t] /\ m \in h.last[t]
  BY DEF GmType
<1> QED BY <1>1, LastTokens

(* A manager with a reference has a positive count, and is live.           *)
LEMMA ReferencedIsLive ==
  ASSUME NEW g, NEW m, GmCounted(g, m), NEW x \in Tokens(g, m)
  PROVE  g.refcount[m] \in Nat /\ g.refcount[m] >= 1 /\ m \in g.live
<1>1. Cardinality(Tokens(g, m)) # 0
  BY TokensFinite, FS_EmptySet
<1> QED BY <1>1, TokensFinite DEF GmCounted

(* drm_intel_bufmgr_gem_find: the manager of the descriptor is live.       *)
LEMMA FindSound ==
  ASSUME GmSound(gm), NEW t \in GmThreads, NEW m \in gm.list, gm.held[t][m] < GmMaxHeld,
         drm_intel_bufmgr_gem_find(t, m)
  PROVE  GmSound(gm')
<1>1. m \in GmMgrs /\ GmType(gm) /\ GmListed(gm) /\ OneLast(gm) /\ \A n \in GmMgrs : GmCounted(gm, n)
  BY DEF GmSound, GmType
<1>2. GmType(gm')
  <2> DEFINE H == [gm.held EXCEPT ![t][m] = @ + 1]
             R == [gm.refcount EXCEPT ![m] = @ + 1]
  <2>1. H \in [GmThreads -> [GmMgrs -> 0 .. GmMaxHeld]]
    BY <1>1, RaisedHeld DEF GmType
  <2>2. R \in [GmMgrs -> Int]
    BY <1>1 DEF GmType
  <2>3. gm' = [gm EXCEPT !.refcount = R, !.held = H]
    BY DEF drm_intel_bufmgr_gem_find
  <2> HIDE DEF H, R
  <2> QED BY <1>1, <2>1, <2>2, <2>3 DEF GmType
<1>3. /\ gm'.held = [gm.held EXCEPT ![t][m] = @ + 1] /\ gm'.refcount = [gm.refcount EXCEPT ![m] = @ + 1]
      /\ gm'.list = gm.list /\ gm'.live = gm.live /\ gm'.made = gm.made /\ gm'.open = gm.open
      /\ gm'.fd = gm.fd /\ gm'.last = gm.last
  BY <1>1 DEF drm_intel_bufmgr_gem_find, GmType
<1>4. GmListed(gm') /\ OneLast(gm')
  BY <1>1, <1>3 DEF GmListed, OneLast
<1>5. gm'.refcount[m] = gm.refcount[m] + 1 /\ m \in gm'.live
  BY <1>1, <1>3 DEF GmType, GmListed
<1>6. GmCounted(gm', m)
  BY <1>1, <1>2, <1>3, <1>5, TakeCounted
<1>7. ASSUME NEW n \in GmMgrs, n # m PROVE GmCounted(gm', n)
  <2>1. gm'.refcount[n] = gm.refcount[n] /\ \A u \in GmThreads : gm'.held[u][n] = gm.held[u][n]
    BY <1>1, <1>3, <1>7 DEF GmType
  <2> QED BY <1>1, <1>2, <1>3, <2>1, CountedSame
<1> QED BY <1>2, <1>4, <1>6, <1>7 DEF GmSound

(* The state when m has been made for descriptor f and entered the list.   *)
Entered(t, f, m) ==
  [gm EXCEPT !.list = @ \cup {m}, !.fd[m] = f, !.refcount[m] = 1, !.live = @ \cup {m},
             !.made = @ \cup {m}, !.held[t][m] = @ + 1]

(* drm_intel_bufmgr_gem_init without a known manager: a new structure has  *)
(* no references yet, and its descriptor no other manager.                 *)
LEMMA NewSound ==
  ASSUME GmSound(gm), NEW t \in GmThreads, NEW f \in GmFds, NEW m \in GmMgrs \ gm.made,
         \A n \in gm.list : gm.fd[n] # f, gm' = Entered(t, f, m)
  PROVE  GmSound(gm')
<1>1. GmType(gm) /\ GmListed(gm) /\ OneLast(gm) /\ \A n \in GmMgrs : GmCounted(gm, n)
  BY DEF GmSound
<1>2. m \notin gm.live /\ m \notin gm.list
  BY <1>1 DEF GmListed
<1>3. gm.refcount[m] = 0 /\ Tokens(gm, m) = {}
  BY <1>1, <1>2, ReferencedIsLive, TokensFinite, FS_EmptySet DEF GmCounted
<1>4. gm.held[t][m] = 0
  <2>1. gm.held[t][m] \in 0 .. GmMaxHeld
    BY <1>1 DEF GmType
  <2>2. CASE gm.held[t][m] # 0
    <3> DEFINE a == gm.held[t][m]
    <3>1. a \in 0 .. GmMaxHeld /\ a <= a
      BY <2>1
    <3>2. <<t, a>> \in Tokens(gm, m)
      <4> HIDE DEF a
      <4>1. <<t, a>> \in Tokens(gm, m) <=> IF a = 0 THEN m \in gm.last[t] ELSE a <= gm.held[t][m]
        BY <3>1, TokenIs
      <4> QED BY <2>2, <3>1, <4>1 DEF a
    <3> QED BY <1>3, <3>2
  <2> QED BY <2>2
<1>5. GmType(gm')
  <2> DEFINE H == [gm.held EXCEPT ![t][m] = @ + 1]
             R == [gm.refcount EXCEPT ![m] = 1]
             F == [gm.fd EXCEPT ![m] = f]
             L == gm.list \cup {m}
             V == gm.live \cup {m}
             M == gm.made \cup {m}
  <2>1. H \in [GmThreads -> [GmMgrs -> 0 .. GmMaxHeld]]
    BY <1>1, <1>4, RaisedHeld, GmAssumption DEF GmType
  <2>2. R \in [GmMgrs -> Int] /\ F \in [GmMgrs -> GmFds]
    BY <1>1 DEF GmType
  <2>3. L \in SUBSET GmMgrs /\ V \in SUBSET GmMgrs /\ M \in SUBSET GmMgrs
    BY <1>1 DEF GmType
  <2>4. gm' = [gm EXCEPT !.list = L, !.fd = F, !.refcount = R, !.live = V, !.made = M, !.held = H]
    BY DEF Entered
  <2> HIDE DEF H, R, F, L, V, M
  <2> QED BY <1>1, <2>1, <2>2, <2>3, <2>4 DEF GmType
<1>6. /\ gm'.held = [gm.held EXCEPT ![t][m] = @ + 1] /\ gm'.refcount = [gm.refcount EXCEPT ![m] = 1]
      /\ gm'.list = gm.list \cup {m} /\ gm'.live = gm.live \cup {m} /\ gm'.made = gm.made \cup {m}
      /\ gm'.open = gm.open /\ gm'.fd = [gm.fd EXCEPT ![m] = f] /\ gm'.last = gm.last
  BY <1>1 DEF GmType, Entered
<1>7. GmListed(gm')
  BY <1>1, <1>2, <1>6 DEF GmListed, GmType
<1>8. OneLast(gm')
  BY <1>1, <1>6 DEF OneLast
<1>9. GmCounted(gm', m)
  <2>1. gm'.refcount[m] = gm.refcount[m] + 1 /\ m \in gm'.live /\ gm.held[t][m] < GmMaxHeld
    BY <1>1, <1>3, <1>4, <1>6, GmAssumption DEF GmType
  <2> QED BY <1>1, <1>5, <1>6, <2>1, TakeCounted
<1>10. ASSUME NEW n \in GmMgrs, n # m PROVE GmCounted(gm', n)
  <2>1. /\ gm'.refcount[n] = gm.refcount[n] /\ \A u \in GmThreads : gm'.held[u][n] = gm.held[u][n]
        /\ n \in gm'.live <=> n \in gm.live
    BY <1>1, <1>6, <1>10 DEF GmType
  <2>2. \A u \in GmThreads : gm'.held[u][n] = gm.held[u][n] /\ (n \in gm'.last[u] <=> n \in gm.last[u])
    BY <1>6, <2>1
  <2> QED BY <1>1, <1>5, <2>1, <2>2, CountedSame
<1> QED BY <1>5, <1>7, <1>8, <1>9, <1>10 DEF GmSound

(* drm_intel_bufmgr_gem_init: found, or new.                               *)
LEMMA InitSound ==
  ASSUME GmSound(gm), NEW t \in GmThreads, NEW f \in GmFds, drm_intel_bufmgr_gem_init(t, f)
  PROVE  GmSound(gm')
<1>1. CASE \E m \in gm.list : gm.held[t][m] < GmMaxHeld /\ drm_intel_bufmgr_gem_find(t, m)
  BY <1>1, FindSound
<1>2. CASE ~ \E m \in gm.list : gm.held[t][m] < GmMaxHeld /\ drm_intel_bufmgr_gem_find(t, m)
  <2> DEFINE m == CHOOSE x \in GmMgrs \ gm.made : TRUE
  <2>1. /\ \A n \in gm.list : gm.fd[n] # f
        /\ GmMgrs \ gm.made # {}
        /\ gm' = Entered(t, f, m)
    BY <1>2 DEF drm_intel_bufmgr_gem_init, Entered
  <2>2. m \in GmMgrs \ gm.made
    BY <2>1
  <2> HIDE DEF m
  <2> QED BY <2>1, <2>2, NewSound
<1> QED BY <1>1, <1>2

(* drm_intel_bufmgr_gem_unref: either the count goes down and stays        *)
(* positive, or the reference moves in front of the mutex.                 *)
LEMMA UnrefSound ==
  ASSUME GmSound(gm), NEW t \in GmThreads, NEW m \in GmMgrs, drm_intel_bufmgr_gem_unref(t, m)
  PROVE  GmSound(gm')
<1>1. GmType(gm) /\ GmListed(gm) /\ OneLast(gm) /\ \A n \in GmMgrs : GmCounted(gm, n)
  BY DEF GmSound
<1>2. gm.last[t] = {} /\ gm.held[t][m] > 0
  BY DEF drm_intel_bufmgr_gem_unref, Outside
<1> DEFINE h == [gm EXCEPT !.held[t][m] = @ - 1]
           x == <<t, gm.held[t][m]>>
<1>3. /\ GmType(h) /\ h.held = [gm.held EXCEPT ![t][m] = @ - 1] /\ h.last = gm.last
      /\ h.held \in [GmThreads -> [GmMgrs -> 0 .. GmMaxHeld]]
  <2> DEFINE H == [gm.held EXCEPT ![t][m] = @ - 1]
  <2>1. H \in [GmThreads -> [GmMgrs -> 0 .. GmMaxHeld]]
    BY <1>1, <1>2, LoweredHeld DEF GmType
  <2>2. h = [gm EXCEPT !.held = H]
    OBVIOUS
  <2> HIDE DEF H, h
  <2>3. GmType(h) /\ h.held = H /\ h.last = gm.last
    BY <1>1, <2>1, <2>2 DEF GmType
  <2> QED BY <2>1, <2>3 DEF H
<1> HIDE DEF h
<1>4. x \in Tokens(gm, m) /\ Tokens(h, m) = Tokens(gm, m) \ {x}
  BY <1>1, <1>2, <1>3, DropTokens
<1>5. Cardinality(Tokens(h, m)) = gm.refcount[m] - 1 /\ gm.refcount[m] >= 1 /\ gm.refcount[m] \in Nat /\ m \in gm.live
  BY <1>1, <1>4, TokensFinite, TokenTaken, ReferencedIsLive DEF GmCounted
<1>6. CASE gm.refcount[m] # 1
  <2>1. gm' = [gm EXCEPT !.refcount[m] = @ - 1, !.held[t][m] = @ - 1]
    BY <1>6 DEF drm_intel_bufmgr_gem_unref
  <2>2. /\ gm'.held = h.held /\ gm'.last = gm.last /\ gm'.refcount = [gm.refcount EXCEPT ![m] = @ - 1]
        /\ gm'.list = gm.list /\ gm'.live = gm.live /\ gm'.made = gm.made /\ gm'.open = gm.open /\ gm'.fd = gm.fd
    BY <1>1, <1>3, <2>1 DEF GmType
  <2>3. GmType(gm')
    <3> DEFINE R == [gm.refcount EXCEPT ![m] = @ - 1]
    <3>1. R \in [GmMgrs -> Int]
      BY <1>1 DEF GmType
    <3>2. gm' = [gm EXCEPT !.refcount = R, !.held = h.held]
      BY <1>3, <2>1
    <3> HIDE DEF R
    <3> QED BY <1>1, <1>3, <3>1, <3>2 DEF GmType
  <2>4. GmListed(gm') /\ OneLast(gm')
    BY <1>1, <2>2 DEF GmListed, OneLast
  <2>5. GmCounted(gm', m)
    <3>1. Tokens(gm', m) = Tokens(h, m)
      BY <1>3, <2>2 DEF Tokens
    <3>2. gm'.refcount[m] = gm.refcount[m] - 1
      BY <1>1, <2>2 DEF GmType
    <3> QED BY <1>5, <1>6, <2>2, <3>1, <3>2 DEF GmCounted
  <2>6. ASSUME NEW n \in GmMgrs, n # m PROVE GmCounted(gm', n)
    <3>1. gm'.refcount[n] = gm.refcount[n] /\ \A u \in GmThreads : gm'.held[u][n] = gm.held[u][n]
      BY <1>1, <1>3, <2>2, <2>6 DEF GmType
    <3> QED BY <1>1, <2>2, <2>3, <3>1, CountedSame
  <2> QED BY <2>3, <2>4, <2>5, <2>6 DEF GmSound
<1>7. CASE gm.refcount[m] = 1
  <2>1. gm' = [gm EXCEPT !.last[t] = {m}, !.held[t][m] = @ - 1]
    BY <1>7 DEF drm_intel_bufmgr_gem_unref
  <2>2. /\ gm'.held = h.held /\ gm'.last = [gm.last EXCEPT ![t] = {m}] /\ gm'.refcount = gm.refcount
        /\ gm'.list = gm.list /\ gm'.live = gm.live /\ gm'.made = gm.made /\ gm'.open = gm.open /\ gm'.fd = gm.fd
    BY <1>1, <1>3, <2>1 DEF GmType
  <2>3. GmType(gm')
    <3> DEFINE L == [gm.last EXCEPT ![t] = {m}]
    <3>1. L \in [GmThreads -> SUBSET GmMgrs]
      BY <1>1 DEF GmType
    <3>2. gm' = [gm EXCEPT !.last = L, !.held = h.held]
      BY <1>3, <2>1
    <3> HIDE DEF L
    <3> QED BY <1>1, <1>3, <3>1, <3>2 DEF GmType
  <2>4. GmListed(gm')
    BY <1>1, <2>2 DEF GmListed
  <2>5. OneLast(gm')
    BY <1>1, <2>2 DEF OneLast, GmType
  <2>6. GmCounted(gm', m)
    <3>1. <<t, 0>> \notin Tokens(h, m) /\ Tokens(gm', m) = Tokens(h, m) \cup {<<t, 0>>}
      BY <1>2, <1>3, <2>2, PlaceTaken
    <3>2. Cardinality(Tokens(gm', m)) = Cardinality(Tokens(h, m)) + 1
      BY <3>1, TokensFinite, TokenAdded
    <3> QED BY <1>5, <2>2, <3>2 DEF GmCounted
  <2>7. ASSUME NEW n \in GmMgrs, n # m PROVE GmCounted(gm', n)
    <3>1. \A u \in GmThreads : gm'.held[u][n] = gm.held[u][n] /\ (n \in gm'.last[u] <=> n \in gm.last[u])
      BY <1>1, <1>2, <1>3, <2>2, <2>7 DEF GmType
    <3> QED BY <1>1, <2>2, <2>3, <3>1, CountedSame
  <2> QED BY <2>3, <2>4, <2>5, <2>6, <2>7 DEF GmSound
<1> QED BY <1>6, <1>7

(* A buffer enters the cache of a manager that is held, and so live.       *)
LEMMA CacheSound ==
  ASSUME GmSound(gm), NEW t \in GmThreads, NEW m \in GmMgrs, CacheBuffer(t, m)
  PROVE  GmSound(gm')
<1>1. GmType(gm) /\ GmListed(gm) /\ OneLast(gm) /\ \A n \in GmMgrs : GmCounted(gm, n)
  BY DEF GmSound
<1>2. gm.held[t][m] > 0 /\ gm' = [gm EXCEPT !.open = @ \cup {m}]
  BY DEF CacheBuffer
<1>3. /\ GmType(gm') /\ gm'.open = gm.open \cup {m}
      /\ gm'.held = gm.held /\ gm'.last = gm.last /\ gm'.refcount = gm.refcount
      /\ gm'.list = gm.list /\ gm'.live = gm.live /\ gm'.made = gm.made /\ gm'.fd = gm.fd
  BY <1>1, <1>2 DEF GmType
<1>4. m \in gm.live
  <2> DEFINE h == [held |-> [gm.held EXCEPT ![t][m] = @ - 1], last |-> gm.last]
  <2>1. h.held = [gm.held EXCEPT ![t][m] = @ - 1] /\ h.last = gm.last
    OBVIOUS
  <2> HIDE DEF h
  <2> QED BY <1>1, <1>2, <2>1, DropTokens, ReferencedIsLive
<1>5. GmListed(gm') /\ OneLast(gm')
  BY <1>1, <1>3, <1>4 DEF GmListed, OneLast
<1>6. ASSUME NEW n \in GmMgrs PROVE GmCounted(gm', n)
  BY <1>1, <1>3, CountedSame
<1> QED BY <1>3, <1>5, <1>6 DEF GmSound

(* Everything is sound but that m may have lost its last reference.        *)
SoundBut(g, m) ==
  /\ g.refcount[m] = Cardinality(Tokens(g, m)) /\ g.refcount[m] \in Nat /\ m \in g.live
  /\ GmListed(g) /\ OneLast(g)
  /\ \A n \in GmMgrs \ {m} : GmCounted(g, n)

(* The reference given up under the mutex is the thread's place in front   *)
(* of it.                                                                  *)
LEMMA GivenUp ==
  ASSUME NEW f, GmSound(f), NEW t \in GmThreads, NEW m \in GmMgrs, f.last[t] = {m}, NEW g, GmType(g),
         g.refcount = [f.refcount EXCEPT ![m] = @ - 1], g.last = [f.last EXCEPT ![t] = {}],
         g.list = f.list, g.live = f.live, g.made = f.made, g.open = f.open, g.fd = f.fd, g.held = f.held
  PROVE  SoundBut(g, m)
<1>1. GmType(f) /\ GmListed(f) /\ OneLast(f) /\ \A n \in GmMgrs : GmCounted(f, n)
  BY DEF GmSound
<1>2. <<t, 0>> \in Tokens(f, m) /\ Tokens(g, m) = Tokens(f, m) \ {<<t, 0>>}
  <2>1. m \notin g.last[t] /\ \A u \in GmThreads : u # t => g.last[u] = f.last[u]
    BY <1>1 DEF GmType
  <2> QED BY <1>1, <2>1, LastTokens
<1>4. /\ g.refcount[m] = Cardinality(Tokens(g, m)) /\ g.refcount[m] \in Nat /\ m \in f.live
      /\ f.refcount[m] = g.refcount[m] + 1
  <2>1. Cardinality(Tokens(g, m)) = f.refcount[m] - 1
    BY <1>1, <1>2, TokensFinite, TokenTaken DEF GmCounted
  <2>2. f.refcount[m] \in Nat /\ f.refcount[m] >= 1 /\ m \in f.live
    BY <1>1, <1>2, ReferencedIsLive
  <2>3. g.refcount[m] = f.refcount[m] - 1
    BY <1>1 DEF GmType
  <2> QED BY <2>1, <2>2, <2>3
<1>5. /\ GmListed(g) /\ OneLast(g)
      /\ \A n \in GmMgrs \ {m} : GmCounted(g, n)
  <2>1. GmListed(g) /\ OneLast(g)
    BY <1>1 DEF GmListed, OneLast, GmType
  <2>2. ASSUME NEW n \in GmMgrs \ {m} PROVE GmCounted(g, n)
    <3>1. /\ g.refcount[n] = f.refcount[n]
          /\ \A u \in GmThreads : g.held[u][n] = f.held[u][n] /\ (n \in g.last[u] <=> n \in f.last[u])
      BY <1>1 DEF GmType
    <3> QED BY <1>1, <3>1, CountedSame
  <2> QED BY <2>1, <2>2
<1> QED BY <1>4, <1>5 DEF SoundBut

(* drm_intel_bufmgr_gem_unref with the mutex: the count decides again, and *)
(* a manager that is freed has no references.                              *)
LEMMA UnrefLockedSound ==
  ASSUME GmSound(gm), NEW t \in GmThreads, drm_intel_bufmgr_gem_unref_locked(t)
  PROVE  GmSound(gm')
<1>0. PICK m \in gm.last[t] :
        gm' = LET g == [gm EXCEPT !.refcount[m] = @ - 1, !.last[t] = {}]
              IN  IF g.refcount[m] # 0 THEN g
                  ELSE drm_intel_bufmgr_gem_destroy([g EXCEPT !.list = @ \ {m}], m)
  BY DEF drm_intel_bufmgr_gem_unref_locked
<1> DEFINE g == [gm EXCEPT !.refcount[m] = @ - 1, !.last[t] = {}]
           h == drm_intel_bufmgr_gem_destroy([g EXCEPT !.list = @ \ {m}], m)
<1>1. GmType(gm) /\ OneLast(gm) /\ m \in GmMgrs
  BY DEF GmSound, GmType
<1>2. gm.last[t] = {m}
  BY <1>1 DEF OneLast
<1>9. gm' = IF g.refcount[m] # 0 THEN g ELSE h
  BY <1>0
<1> HIDE DEF h
<1>3. /\ GmType(g) /\ g.refcount = [gm.refcount EXCEPT ![m] = @ - 1] /\ g.last = [gm.last EXCEPT ![t] = {}]
      /\ g.list = gm.list /\ g.live = gm.live /\ g.made = gm.made /\ g.open = gm.open /\ g.fd = gm.fd
      /\ g.held = gm.held
  <2> DEFINE R == [gm.refcount EXCEPT ![m] = @ - 1]
             L == [gm.last EXCEPT ![t] = {}]
  <2>1. R \in [GmMgrs -> Int] /\ L \in [GmThreads -> SUBSET GmMgrs]
    BY <1>1 DEF GmType
  <2>2. g = [gm EXCEPT !.refcount = R, !.last = L]
    OBVIOUS
  <2> HIDE DEF R, L, g
  <2>3. /\ GmType(g) /\ g.refcount = R /\ g.last = L
        /\ g.list = gm.list /\ g.live = gm.live /\ g.made = gm.made /\ g.open = gm.open /\ g.fd = gm.fd
        /\ g.held = gm.held
    BY <1>1, <2>1, <2>2 DEF GmType
  <2> QED BY <2>3 DEF R, L
<1> HIDE DEF g
<1>5. /\ g.refcount[m] = Cardinality(Tokens(g, m)) /\ g.refcount[m] \in Nat /\ m \in g.live
      /\ GmListed(g) /\ OneLast(g)
      /\ \A n \in GmMgrs \ {m} : GmCounted(g, n)
  <2>1. SoundBut(g, m)
    BY <1>1, <1>2, <1>3, GivenUp
  <2> QED BY <2>1 DEF SoundBut
<1>7. CASE g.refcount[m] # 0
  <2>1. GmCounted(g, m)
    <3>1. g.refcount[m] > 0 /\ g.refcount[m] = Cardinality(Tokens(g, m)) /\ m \in g.live
      BY <1>5, <1>7
    <3> QED BY <3>1, Zenon DEF GmCounted
  <2>2. gm' = g
    BY <1>7, <1>9
  <2> QED BY <1>3, <1>5, <2>1, <2>2 DEF GmSound
<1>8. CASE g.refcount[m] = 0
  <2>1. /\ GmType(h) /\ h.list = g.list \ {m} /\ h.open = g.open \ {m} /\ h.live = g.live \ {m}
        /\ h.made = g.made /\ h.fd = g.fd /\ h.refcount = g.refcount /\ h.held = g.held /\ h.last = g.last
    <3> DEFINE L == g.list \ {m}
               O == g.open \ {m}
               V == g.live \ {m}
    <3>1. L \in SUBSET GmMgrs /\ O \in SUBSET GmMgrs /\ V \in SUBSET GmMgrs
      BY <1>3 DEF GmType
    <3>2. h = [[g EXCEPT !.list = L] EXCEPT !.open = O, !.live = V]
      BY <1>3 DEF drm_intel_bufmgr_gem_destroy, GmType, h
    <3> HIDE DEF L, O, V
    <3>3. /\ GmType(h) /\ h.list = L /\ h.open = O /\ h.live = V
          /\ h.made = g.made /\ h.fd = g.fd /\ h.refcount = g.refcount /\ h.held = g.held /\ h.last = g.last
      BY <1>3, <3>1, <3>2 DEF GmType
    <3> QED BY <3>3 DEF L, O, V
  <2>2. gm' = h
    BY <1>8, <1>9
  <2>3. GmListed(h) /\ OneLast(h)
    BY <1>5, <2>1 DEF GmListed, OneLast
  <2>4. GmCounted(h, m)
    <3>1. Tokens(h, m) = Tokens(g, m)
      BY <2>1 DEF Tokens
    <3>2. h.refcount[m] = 0 /\ Cardinality(Tokens(h, m)) = 0 /\ m \notin h.live
      BY <1>5, <1>8, <2>1, <3>1
    <3> QED BY <3>2 DEF GmCounted
  <2>5. ASSUME NEW n \in GmMgrs, n # m PROVE GmCounted(h, n)
    BY <1>3, <1>5, <2>1, <2>5, CountedSame
  <2> QED BY <2>1, <2>2, <2>3, <2>4, <2>5 DEF GmSound
<1> QED BY <1>7, <1>8

(* Every step of every thread preserves the invariant.                     *)
LEMMA GmNextSound == GmInv /\ [GmNext]_gm => GmInv'
<1> SUFFICES ASSUME GmSound(gm), [GmNext]_gm PROVE GmSound(gm')
  BY DEF GmInv
<1>1. CASE UNCHANGED gm
  BY <1>1
<1>2. ASSUME NEW t \in GmThreads, NEW f \in GmFds, drm_intel_bufmgr_gem_init(t, f) PROVE GmSound(gm')
  BY <1>2, InitSound
<1>3. ASSUME NEW t \in GmThreads, NEW m \in GmMgrs, drm_intel_bufmgr_gem_unref(t, m) PROVE GmSound(gm')
  BY <1>3, UnrefSound
<1>4. ASSUME NEW t \in GmThreads, NEW m \in GmMgrs, CacheBuffer(t, m) PROVE GmSound(gm')
  BY <1>4, CacheSound
<1>5. ASSUME NEW t \in GmThreads, drm_intel_bufmgr_gem_unref_locked(t) PROVE GmSound(gm')
  BY <1>5, UnrefLockedSound
<1> QED BY <1>1, <1>2, <1>3, <1>4, <1>5 DEF GmNext

(* The invariant gives the property of the managers.                       *)
LEMMA GmInvShared == GmInv => ManagersShared
<1> SUFFICES ASSUME GmSound(gm) PROVE ManagersShared
  BY DEF GmInv
<1>1. GmType(gm) /\ GmListed(gm) /\ \A m \in GmMgrs : GmCounted(gm, m)
  BY DEF GmSound
<1>2. ASSUME NEW t \in GmThreads, NEW m \in GmMgrs, gm.held[t][m] > 0 PROVE m \in gm.live
  <2> DEFINE h == [held |-> [gm.held EXCEPT ![t][m] = @ - 1], last |-> gm.last]
  <2>1. h.held = [gm.held EXCEPT ![t][m] = @ - 1] /\ h.last = gm.last
    OBVIOUS
  <2> HIDE DEF h
  <2> QED BY <1>1, <1>2, <2>1, DropTokens, ReferencedIsLive
<1>3. ASSUME NEW t \in GmThreads, NEW m \in GmMgrs, m \in gm.last[t] PROVE m \in gm.live
  <2>1. 0 \in 0 .. GmMaxHeld
    BY GmAssumption
  <2>2. <<t, 0>> \in Tokens(gm, m)
    BY <1>3, <2>1, TokenIs
  <2> QED BY <1>1, <2>2, ReferencedIsLive
<1>4. ASSUME NEW m \in gm.made \ gm.live PROVE gm.refcount[m] = 0
  <2>1. m \in GmMgrs
    BY <1>1 DEF GmType
  <2> QED BY <1>1, <2>1, TokensFinite DEF GmCounted
<1> QED BY <1>1, <1>2, <1>3, <1>4 DEF ManagersShared, GmListed

(* A buffer manager is freed exactly when its last reference is given up,  *)
(* however init and unref of several threads interleave; until then it is  *)
(* on the list, the only one for its descriptor.                           *)
THEOREM ManagersAlwaysShared == GmSpec => []ManagersShared
BY GmInvShared, GmInitSound, GmNextSound, PTL DEF GmSpec

-----------------------------------------------------------------------------
(* Every library as it should be, the ones not in use as they started.     *)
HandlesInv ==
  ExOK(ex) /\ RadOK(rad) /\ NvOK(nv) /\ KmsOK(kms) /\ OmOK(om) /\ FdOK(fd) /\ GmInv

(* The libraries start as they should be.                                  *)
LEMMA HandlesInitOK == HandlesInit => HandlesInv
BY ExInitOK, RadInitOK, NvInitOK, KmsInitOK, OmInitOK, FdInitOK, GmInitSound
   DEF HandlesInit, LibrariesInit, HandlesInv

(* A step of the library in use keeps its invariant and every other one.   *)
LEMMA HandlesNextOK == HandlesInv /\ [HandlesNext]_<<driver, handleVars>> => HandlesInv'
<1> SUFFICES ASSUME HandlesInv, [HandlesNext]_<<driver, handleVars>> PROVE HandlesInv'
  OBVIOUS
<1>0. ExOK(ex) /\ RadOK(rad) /\ NvOK(nv) /\ KmsOK(kms) /\ OmOK(om) /\ FdOK(fd) /\ GmInv
  BY DEF HandlesInv
<1>1. FdNext \/ UNCHANGED fd
  BY DEF HandlesNext, handleVars
<1>2. OmapNext \/ UNCHANGED om
  BY DEF HandlesNext, handleVars
<1>3. NvNext \/ UNCHANGED nv
  BY DEF HandlesNext, handleVars
<1>4. RadBoNext \/ UNCHANGED rad
  BY DEF HandlesNext, handleVars
<1>5. ExNext \/ UNCHANGED ex
  BY DEF HandlesNext, handleVars
<1>6. KmsNext \/ UNCHANGED kms
  BY DEF HandlesNext, handleVars
<1>7. [GmNext]_gm
  BY DEF HandlesNext, handleVars
<1>11. FdOK(fd')
  BY <1>0, <1>1, FdNextOK
<1>12. OmOK(om')
  BY <1>0, <1>2, OmNextOK
<1>13. NvOK(nv')
  BY <1>0, <1>3, NvNextOK
<1>14. RadOK(rad')
  BY <1>0, <1>4, RadNextOK
<1>15. ExOK(ex')
  BY <1>0, <1>5, ExNextOK
<1>16. KmsOK(kms')
  BY <1>0, <1>6, KmsNextOK
<1>17. GmInv'
  BY <1>0, <1>7, GmNextSound
<1> QED BY <1>11, <1>12, <1>13, <1>14, <1>15, <1>16, <1>17 DEF HandlesInv

(* The handles of the kernel and the structures of the library in use      *)
(* correspond in every state: bo_del, bo_from_handle and the name tables   *)
(* of freedreno, omap and nouveau, radeon's bo_open and unref, exynos and  *)
(* libkms, and drm_intel_bufmgr_gem_init and unref.                        *)
THEOREM HandlesAlwaysSound == HandlesSpec => []HandlesSound
<1>1. HandlesInv => HandlesSound
  <2> SUFFICES ASSUME HandlesInv PROVE HandlesSound
    OBVIOUS
  <2>1. FdSound /\ OmapSound /\ NvSound
    BY FdOKSound, OmOKSound, NvOKSound DEF HandlesInv
  <2>2. RadeonBoSound /\ ExynosBoSound /\ KmsHandlesMatch
    BY RadOKSound, ExOKSound, KmsOKSound DEF HandlesInv
  <2>3. ManagersShared
    BY GmInvShared DEF HandlesInv
  <2> QED BY <2>1, <2>2, <2>3 DEF HandlesSound
<1> QED BY <1>1, HandlesInitOK, HandlesNextOK, PTL DEF HandlesSpec
=============================================================================
