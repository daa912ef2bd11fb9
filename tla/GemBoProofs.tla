---------------------------- MODULE GemBoProofs -----------------------------
(***************************************************************************)
(* Reference counts, the reuse cache and the mapping state of the buffer   *)
(* manager are sound for any number of threads, objects and buckets.       *)
(***************************************************************************)
EXTENDS GemBo, GemVmaProofs, SequenceTheorems

-----------------------------------------------------------------------------
(* The inductive invariant.                                                *)

(* Where a thread holds bufmgr_gem->lock, and where it uses a reference    *)
(* lent to the call.                                                       *)
Holding == {"alloc", "purge", "frames", "cleanup", "deadlock"}
Borrowing == {"unref", "clear", "busy", "flink", "export", "tiling"}

Used == Live \ InCache

LockInv == \A t \in Threads : lock = t <=> thread[t].pc \in Holding

BorrowInv ==
  \A t \in Threads :
    /\ thread[t].pc \in Borrowing => thread[t].bo \in Bos
    /\ thread[t].bo # NoBo => thread[t].pc \in Borrowing \cup {"frames"}

(* Activation n of t: a final one is of an object without references, and  *)
(* only the first may be one of clear_relocs, of the object of the call.   *)
FrameOK(t, n) ==
  LET f == thread[t].frames[n]
  IN  /\ f.bo \in Used
      /\ 1 <= f.from /\ f.from <= f.at /\ f.at <= Len(bo[f.bo].relocs) + 1
      /\ f.final => f.from = 1 /\ bo[f.bo].refcount = 0
      /\ f.final <=> ~(n = 1 /\ thread[t].bo # NoBo)
      /\ ~f.final => f.bo = thread[t].bo

Distinct(fs) == \A n, m \in 1 .. Len(fs) : fs[n].bo = fs[m].bo => n = m

FramesInv ==
  \A t \in Threads : thread[t].pc = "frames" =>
    (/\ thread[t].frames # << >>
     /\ \A n \in 1 .. Len(thread[t].frames) : FrameOK(t, n)
     /\ Distinct(thread[t].frames))

(* A thread about to enter clear_relocs has passed nothing yet, and is the *)
(* only one that clears its object.                                        *)
ClearOK(t) ==
  LET f == thread[t].frames[1]
  IN  /\ Len(thread[t].frames) = 1
      /\ f.bo = thread[t].bo /\ ~f.final
      /\ 1 <= f.from /\ f.from = f.at /\ f.at <= Len(bo[f.bo].relocs) + 1

ClearInv ==
  /\ \A t \in Threads : thread[t].pc = "clear" => ClearOK(t)
  /\ \A t, u \in Threads :
       (/\ thread[t].pc \in {"clear", "frames"} /\ thread[u].pc \in {"clear", "frames"}
        /\ thread[t].bo = thread[u].bo /\ thread[t].bo # NoBo) => t = u

(* The count is exact even of objects in the cache or gone.                *)
CountInv ==
  \A b \in Bos :
    bo[b].refcount = held[b] + Cardinality(Borrowers(b)) + Cardinality(RelocsTo(b))

(* An object that is in use without a reference is being torn down.        *)
TornDown(b) ==
  \E t \in Threads :
    /\ thread[t].pc = "frames"
    /\ \E n \in 1 .. Len(thread[t].frames) :
         thread[t].frames[n].bo = b /\ thread[t].frames[n].final
LeakInv == \A b \in Used : bo[b].refcount = 0 => TornDown(b)

ParkedInv ==
  \A b \in Bos \ Used :
    bo[b].refcount = 0 /\ bo[b].relocs = << >> /\ vma.map_count[b] = 0

CacheInv ==
  \A k \in Buckets :
    /\ NoDuplicates(cache[k])
    /\ \A b \in CachedIn(k) : b \in Live /\ bo[b].bucket = k /\ bo[b].reusable

NamedInv ==
  NoDuplicates(named) /\ \A b \in Items(named) : b \in Used /\ bo[b].name_list = "linked"

RelocLen == \A b \in Bos : Len(bo[b].relocs) <= MaxRelocs

CoreInv ==
  /\ GemTypeOK /\ VmaInv
  /\ LockInv /\ BorrowInv /\ FramesInv /\ ClearInv
  /\ CountInv /\ LeakInv /\ ParkedInv /\ CacheInv /\ NamedInv /\ RelocLen

-----------------------------------------------------------------------------
(* Types of the fields.                                                    *)
LEMMA BoTypes ==
  ASSUME GemTypeOK, NEW b \in Bos
  PROVE  /\ bo[b] \in BoRecord
         /\ bo[b].refcount \in Nat /\ bo[b].relocs \in Seq(Bos)
         /\ bo[b].gem_handle \in Handles \cup {0} /\ bo[b].global_name \in Objs \cup {NoObj}
         /\ bo[b].reusable \in BOOLEAN /\ bo[b].idle \in BOOLEAN
         /\ bo[b].used_as_reloc_target \in BOOLEAN
         /\ bo[b].name_list \in Links /\ bo[b].bucket \in Buckets \cup {NoBucket}
         /\ held[b] \in Nat
<1>1. bo[b] \in BoRecord /\ held[b] \in Nat
  BY DEF GemTypeOK
<1> QED BY <1>1 DEF BoRecord

(* The members of the list of named objects are objects.                   *)
LEMMA NamedBos ==
  ASSUME GemTypeOK
  PROVE  Items(named) \subseteq Bos /\ named \in Seq(Bos)
BY DEF GemTypeOK, Items

(* The fields of a thread.                                                 *)
LEMMA ThreadTypes ==
  ASSUME GemTypeOK, NEW t \in Threads
  PROVE  /\ thread[t] \in ThreadRecord
         /\ thread[t].bo \in Bos \cup {NoBo} /\ thread[t].handle \in Handles \cup {0}
         /\ thread[t].flag \in BOOLEAN /\ thread[t].bucket \in Buckets \cup {NoBucket}
         /\ thread[t].time \in Nat /\ thread[t].frames \in Seq(Frame)
<1>1. thread[t] \in ThreadRecord
  BY DEF GemTypeOK
<1> QED BY <1>1 DEF ThreadRecord

(* Replacing one record of bo or of thread.                                *)
LEMMA BoPut ==
  ASSUME GemTypeOK, NEW b \in Bos, NEW r \in BoRecord, bo' = [bo EXCEPT ![b] = r]
  PROVE  bo' \in [Bos -> BoRecord] /\ bo'[b] = r /\ \A c \in Bos \ {b} : bo'[c] = bo[c]
BY DEF GemTypeOK

(* Replacing the record of one thread.                                     *)
LEMMA ThreadPut ==
  ASSUME GemTypeOK, NEW t \in Threads, NEW r \in ThreadRecord, thread' = [thread EXCEPT ![t] = r]
  PROVE  /\ thread' \in [Threads -> ThreadRecord]
         /\ thread'[t] = r /\ \A u \in Threads \ {t} : thread'[u] = thread[u]
BY DEF GemTypeOK

(* Replacing the number of references the application holds to one object. *)
LEMMA HeldPut ==
  ASSUME GemTypeOK, NEW b \in Bos, NEW n \in Nat, held' = [held EXCEPT ![b] = n]
  PROVE  held' \in [Bos -> Nat] /\ held'[b] = n /\ \A c \in Bos \ {b} : held'[c] = held[c]
BY DEF GemTypeOK

-----------------------------------------------------------------------------
(* Counting.                                                               *)
Is(x, b) == IF x = b THEN 1 ELSE 0
BorrowersIn(th, b) == {u \in Threads : th[u].bo = b}

(* One thread changes what it borrows.                                     *)
LEMMA BorrowersStep ==
  ASSUME NEW th, NEW th2, NEW t \in Threads, NEW b,
         \A u \in Threads \ {t} : th2[u] = th[u]
  PROVE  Cardinality(BorrowersIn(th2, b)) =
           Cardinality(BorrowersIn(th, b)) + Is(th2[t].bo, b) - Is(th[t].bo, b)
<1> DEFINE A == BorrowersIn(th, b)
           B == BorrowersIn(th2, b)
           R == {u \in Threads \ {t} : th[u].bo = b}
<1>1. IsFiniteSet(A) /\ IsFiniteSet(B) /\ IsFiniteSet(R)
  <2>1. A \subseteq Threads /\ B \subseteq Threads /\ R \subseteq Threads
    BY DEF BorrowersIn
  <2> HIDE DEF A, B, R
  <2> QED BY <2>1, FS_Subset, GemThreadsAssumption
<1>2. A = IF th[t].bo = b THEN R \cup {t} ELSE R
  BY DEF BorrowersIn
<1>3. B = IF th2[t].bo = b THEN R \cup {t} ELSE R
  BY DEF BorrowersIn
<1>4. t \notin R
  OBVIOUS
<1> HIDE DEF A, B, R
<1>5. Cardinality(R) \in Nat /\ Cardinality(R \cup {t}) = Cardinality(R) + 1
  BY <1>1, <1>4, FS_CardinalityType, FS_AddElement
<1>6. Cardinality(A) = Cardinality(R) + Is(th[t].bo, b)
  BY <1>2, <1>5 DEF Is
<1>7. Cardinality(B) = Cardinality(R) + Is(th2[t].bo, b)
  BY <1>3, <1>5 DEF Is
<1>8. Is(th[t].bo, b) \in Nat /\ Is(th2[t].bo, b) \in Nat
  BY DEF Is
<1> QED BY <1>5, <1>6, <1>7, <1>8 DEF A, B

(* The same, of the step itself.                                           *)
LEMMA BorrowersChange ==
  ASSUME NEW t \in Threads, \A u \in Threads \ {t} : thread'[u] = thread[u], NEW b \in Bos
  PROVE  Cardinality(Borrowers(b)') =
           Cardinality(Borrowers(b)) + Is(thread'[t].bo, b) - Is(thread[t].bo, b)
<1>1. Borrowers(b) = BorrowersIn(thread, b) /\ Borrowers(b)' = BorrowersIn(thread', b)
  BY DEF Borrowers, BorrowersIn
<1>2. Cardinality(BorrowersIn(thread', b)) =
        Cardinality(BorrowersIn(thread, b)) + Is(thread'[t].bo, b) - Is(thread[t].bo, b)
  BY BorrowersStep
<1> QED BY <1>1, <1>2

(* The relocations that own references are finitely many.                  *)
LEMMA RelocsFinite ==
  ASSUME NEW S, S \subseteq Bos \X (1 .. MaxRelocs)
  PROVE  IsFiniteSet(S) /\ Cardinality(S) \in Nat
<1>1. IsFiniteSet(1 .. MaxRelocs)
  BY FS_Interval, GemBoundsAssumption
<1>2. IsFiniteSet(Bos \X (1 .. MaxRelocs))
  BY <1>1, BosAssumption, FS_Product
<1> QED BY <1>2, FS_Subset, FS_CardinalityType

(* What a count says of the reference it counts.                           *)
LEMMA CountsApart ==
  ASSUME GemTypeOK, CountInv, NEW b \in Bos
  PROVE  /\ Cardinality(Borrowers(b)) \in Nat /\ Cardinality(RelocsTo(b)) \in Nat
         /\ bo[b].refcount = held[b] + Cardinality(Borrowers(b)) + Cardinality(RelocsTo(b))
         /\ Borrowers(b) # {} => Cardinality(Borrowers(b)) >= 1
         /\ RelocsTo(b) # {} => Cardinality(RelocsTo(b)) >= 1
<1>1. IsFiniteSet(Borrowers(b))
  <2>1. Borrowers(b) \subseteq Threads
    BY DEF Borrowers
  <2> QED BY <2>1, FS_Subset, GemThreadsAssumption
<1>2. IsFiniteSet(RelocsTo(b))
  <2>1. RelocsTo(b) \subseteq Bos \X (1 .. MaxRelocs)
    BY DEF RelocsTo
  <2> QED BY <2>1, RelocsFinite
<1>3. ASSUME NEW S, IsFiniteSet(S) PROVE Cardinality(S) \in Nat /\ (S # {} => Cardinality(S) >= 1)
  <2>1. Cardinality(S) \in Nat /\ (Cardinality(S) = 0 <=> S = {})
    BY <1>3, FS_CardinalityType, FS_EmptySet
  <2> QED BY <2>1
<1> QED BY <1>1, <1>2, <1>3 DEF CountInv

(* An object the application refers to is in use.                          *)
LEMMA HeldIsUsed ==
  ASSUME CoreInv, NEW b \in Bos, held[b] > 0
  PROVE  b \in Used /\ bo[b].refcount >= held[b] /\ bo[b].refcount > 0
<1>1. /\ held[b] \in Nat /\ bo[b].refcount \in Nat
      /\ Cardinality(Borrowers(b)) \in Nat /\ Cardinality(RelocsTo(b)) \in Nat
      /\ bo[b].refcount = held[b] + Cardinality(Borrowers(b)) + Cardinality(RelocsTo(b))
  BY BoTypes, CountsApart DEF CoreInv
<1>2. bo[b].refcount >= held[b] /\ bo[b].refcount > 0
  BY <1>1
<1> QED BY <1>2 DEF CoreInv, ParkedInv

(* An object lent to a call is in use.                                     *)
LEMMA BorrowedIsUsed ==
  ASSUME CoreInv, NEW t \in Threads, NEW b \in Bos, thread[t].bo = b
  PROVE  b \in Used /\ bo[b].refcount > 0
<1>1. /\ held[b] \in Nat /\ bo[b].refcount \in Nat
      /\ Cardinality(Borrowers(b)) >= 1 /\ Cardinality(Borrowers(b)) \in Nat
      /\ Cardinality(RelocsTo(b)) \in Nat
      /\ bo[b].refcount = held[b] + Cardinality(Borrowers(b)) + Cardinality(RelocsTo(b))
  <2>1. Borrowers(b) # {}
    BY DEF Borrowers
  <2> QED BY <2>1, BoTypes, CountsApart DEF CoreInv
<1>2. bo[b].refcount > 0
  BY <1>1
<1> QED BY <1>2 DEF CoreInv, ParkedInv

(* The balance of a step that touches no relocation.                       *)
LEMMA CountStep ==
  ASSUME GemTypeOK, GemTypeOK', CountInv, NEW t \in Threads,
         \A u \in Threads \ {t} : thread'[u] = thread[u],
         \A b \in Bos : RelocsTo(b)' = RelocsTo(b),
         \A b \in Bos : bo'[b].refcount - bo[b].refcount =
                          held'[b] - held[b] + Is(thread'[t].bo, b) - Is(thread[t].bo, b)
  PROVE  CountInv'
<1> SUFFICES ASSUME NEW b \in Bos
             PROVE  bo'[b].refcount = held'[b] + Cardinality(Borrowers(b)') + Cardinality(RelocsTo(b)')
  BY DEF CountInv
<1>1. Cardinality(Borrowers(b)') = Cardinality(Borrowers(b)) + Is(thread'[t].bo, b) - Is(thread[t].bo, b)
  BY BorrowersChange
<1>2. /\ Cardinality(Borrowers(b)) \in Nat /\ Cardinality(RelocsTo(b)) \in Nat
      /\ bo[b].refcount = held[b] + Cardinality(Borrowers(b)) + Cardinality(RelocsTo(b))
  BY CountsApart
<1>3. /\ held[b] \in Nat /\ bo[b].refcount \in Nat /\ held'[b] \in Nat
      /\ Is(thread'[t].bo, b) \in Nat /\ Is(thread[t].bo, b) \in Nat
  BY BoTypes DEF Is, GemTypeOK
<1>4. bo'[b].refcount \in Nat
  <2>1. bo'[b] \in BoRecord
    BY DEF GemTypeOK
  <2> QED BY <2>1 DEF BoRecord
<1>5. Cardinality(RelocsTo(b)') = Cardinality(RelocsTo(b))
  OBVIOUS
<1> QED BY <1>1, <1>2, <1>3, <1>4, <1>5

-----------------------------------------------------------------------------
(* A step of t in which no relocation and no activation changes.           *)
CalmStep(t) ==
  /\ \A u \in Threads \ {t} : thread'[u] = thread[u]
  /\ thread[t].pc # "frames" /\ thread'[t].pc # "frames"
  /\ thread'[t].pc = "clear" => ClearOK(t)' /\ ~Clearing(thread'[t].bo)
  /\ \A c \in Bos : bo'[c].relocs = bo[c].relocs
  /\ Used \subseteq Used'
  /\ \A c \in Used : bo[c].refcount = 0 => bo'[c].refcount = 0
  /\ \A c \in Used' : bo'[c].refcount = 0 => c \in Used /\ bo[c].refcount = 0
  /\ \A c \in Bos \ Used' : bo'[c].refcount = 0 /\ vma'.map_count[c] = 0

(* The relocations that own references depend on the lists and on the      *)
(* activations only.                                                       *)
LEMMA RelocsKept ==
  ASSUME \A c \in Bos : bo'[c].relocs = bo[c].relocs,
         \A c \in Bos : \A i \in 1 .. MaxRelocs : Passed(c, i)' <=> Passed(c, i)
  PROVE  \A b \in Bos : RelocsTo(b)' = RelocsTo(b)
<1> SUFFICES ASSUME NEW b \in Bos, NEW p \in (Bos \ {b}) \X (1 .. MaxRelocs)
             PROVE  Owns(p[1], p[2], b)' <=> Owns(p[1], p[2], b)
  BY DEF RelocsTo
<1>1. PICK c \in Bos, i \in 1 .. MaxRelocs : c = p[1] /\ i = p[2]
  OBVIOUS
<1>2. bo'[c].relocs = bo[c].relocs /\ (Passed(c, i)' <=> Passed(c, i))
  OBVIOUS
<1>3. Owns(c, i, b)' <=> Owns(c, i, b)
  BY <1>2 DEF Owns
<1> QED BY <1>1, <1>3

(* A calm step leaves the references of relocations alone.                 *)
LEMMA CalmRelocs ==
  ASSUME NEW t \in Threads, CalmStep(t)
  PROVE  \A b \in Bos : RelocsTo(b)' = RelocsTo(b)
<1>1. ASSUME NEW u \in Threads
      PROVE  /\ At(u, "frames")' <=> At(u, "frames")
             /\ At(u, "frames") => thread'[u] = thread[u]
  BY DEF CalmStep, At
<1>2. ASSUME NEW c \in Bos, NEW i \in 1 .. MaxRelocs PROVE Passed(c, i)' <=> Passed(c, i)
  BY <1>1 DEF Passed
<1>3. \A c \in Bos : bo'[c].relocs = bo[c].relocs
  BY DEF CalmStep
<1> QED BY <1>2, <1>3, RelocsKept

(* A calm step keeps what is known of the activations.                     *)
LEMMA CalmFrames ==
  ASSUME NEW t \in Threads, CalmStep(t), CoreInv
  PROVE  FramesInv' /\ ClearInv'
<1>1. FramesInv'
  <2> SUFFICES ASSUME NEW u \in Threads, thread'[u].pc = "frames"
               PROVE  /\ thread'[u].frames # << >>
                      /\ \A n \in 1 .. Len(thread'[u].frames) : FrameOK(u, n)'
                      /\ Distinct(thread'[u].frames)
    BY DEF FramesInv, Distinct
  <2>1. u # t /\ thread'[u] = thread[u] /\ thread[u].pc = "frames"
    BY DEF CalmStep
  <2>2. /\ thread[u].frames # << >>
        /\ \A n \in 1 .. Len(thread[u].frames) : FrameOK(u, n)
        /\ Distinct(thread[u].frames)
    BY <2>1 DEF CoreInv, FramesInv
  <2>3. ASSUME NEW n \in 1 .. Len(thread[u].frames) PROVE FrameOK(u, n)'
    <3>1. FrameOK(u, n)
      BY <2>2
    <3>2. PICK f : f = thread[u].frames[n]
      OBVIOUS
    <3>3. f = thread'[u].frames[n] /\ thread'[u].bo = thread[u].bo
      BY <2>1, <3>2
    <3>4. f.bo \in Used /\ f.bo \in Bos
      BY <3>1, <3>2 DEF FrameOK, Used, Live
    <3>5. /\ f.bo \in Used' /\ bo'[f.bo].relocs = bo[f.bo].relocs
          /\ bo[f.bo].refcount = 0 => bo'[f.bo].refcount = 0
      BY <3>4 DEF CalmStep
    <3> QED BY <3>1, <3>2, <3>3, <3>5 DEF FrameOK
  <2> QED BY <2>1, <2>2, <2>3
<1>2. ASSUME NEW u \in Threads, thread'[u].pc = "clear" PROVE ClearOK(u)'
  <2>1. CASE u = t
    BY <1>2, <2>1 DEF CalmStep
  <2>2. CASE u # t
    <3>1. thread'[u] = thread[u] /\ ClearOK(u)
      BY <1>2, <2>2 DEF CalmStep, CoreInv, ClearInv
    <3>2. thread[u].bo \in Bos
      BY <1>2, <3>1 DEF CoreInv, BorrowInv, Borrowing
    <3>3. bo'[thread[u].bo].relocs = bo[thread[u].bo].relocs
      BY <3>2 DEF CalmStep
    <3> QED BY <3>1, <3>3 DEF ClearOK
  <2> QED BY <2>1, <2>2
<1>3. ASSUME NEW u \in Threads, NEW v \in Threads,
             thread'[u].pc \in {"clear", "frames"}, thread'[v].pc \in {"clear", "frames"},
             thread'[u].bo = thread'[v].bo, thread'[u].bo # NoBo
      PROVE  u = v
  <2>1. CASE u # t /\ v # t
    BY <1>3, <2>1 DEF CalmStep, CoreInv, ClearInv
  <2>2. ASSUME NEW x \in Threads, x # t, thread'[x].pc \in {"clear", "frames"},
               thread'[x].bo = thread'[t].bo, thread'[t].pc \in {"clear", "frames"}
        PROVE  FALSE
    <3>1. ~Clearing(thread'[t].bo) /\ thread'[x] = thread[x]
      BY <2>2 DEF CalmStep
    <3> QED BY <2>2, <3>1 DEF Clearing
  <2> QED BY <1>3, <2>1, <2>2
<1> QED BY <1>1, <1>2, <1>3 DEF ClearInv

(* A calm step keeps what is known of objects not in use.                  *)
LEMMA CalmParked ==
  ASSUME NEW t \in Threads, CalmStep(t), CoreInv
  PROVE  ParkedInv' /\ RelocLen'
<1>1. ASSUME NEW b \in Bos, b \notin Used'
      PROVE  bo'[b].refcount = 0 /\ bo'[b].relocs = << >> /\ vma'.map_count[b] = 0
  BY <1>1 DEF CalmStep, CoreInv, ParkedInv
<1>2. RelocLen'
  BY DEF CalmStep, CoreInv, RelocLen
<1> QED BY <1>1, <1>2 DEF ParkedInv

(* A calm step keeps an object without references on its way out.          *)
LEMMA CalmLeak ==
  ASSUME NEW t \in Threads, CalmStep(t), CoreInv
  PROVE  LeakInv'
<1> SUFFICES ASSUME NEW b \in Used', bo'[b].refcount = 0 PROVE TornDown(b)'
  BY DEF LeakInv
<1>1. b \in Used /\ bo[b].refcount = 0
  BY DEF CalmStep
<1>2. PICK u \in Threads : /\ thread[u].pc = "frames"
                          /\ \E n \in 1 .. Len(thread[u].frames) :
                               thread[u].frames[n].bo = b /\ thread[u].frames[n].final
  BY <1>1 DEF CoreInv, LeakInv, TornDown
<1>3. thread'[u] = thread[u]
  BY <1>2 DEF CalmStep
<1> QED BY <1>2, <1>3 DEF TornDown

(* Who takes or gives back the lock is in the right place.                 *)
LEMMA LockStep ==
  ASSUME NEW t \in Threads, CoreInv, \A u \in Threads \ {t} : thread'[u] = thread[u],
         \/ lock' = lock /\ (thread'[t].pc \in Holding <=> thread[t].pc \in Holding)
         \/ lock = NoThread /\ lock' = t /\ thread'[t].pc \in Holding
         \/ thread[t].pc \in Holding /\ lock' = NoThread /\ thread'[t].pc \notin Holding
  PROVE  LockInv'
<1> SUFFICES ASSUME NEW u \in Threads PROVE lock' = u <=> thread'[u].pc \in Holding
  BY DEF LockInv
<1>1. lock = u <=> thread[u].pc \in Holding
  BY DEF CoreInv, LockInv
<1>2. lock = t <=> thread[t].pc \in Holding
  BY DEF CoreInv, LockInv
<1>3. NoThread \notin Threads
  BY GemThreadsAssumption
<1>4. CASE u = t
  BY <1>1, <1>3, <1>4
<1>5. CASE u # t
  BY <1>1, <1>2, <1>3, <1>5
<1> QED BY <1>4, <1>5

(* A step of t keeps what is known of the references lent to calls.        *)
LEMMA BorrowStep ==
  ASSUME NEW t \in Threads, CoreInv, \A u \in Threads \ {t} : thread'[u] = thread[u],
         thread'[t].pc \in Borrowing => thread'[t].bo \in Bos,
         thread'[t].bo # NoBo => thread'[t].pc \in Borrowing \cup {"frames"}
  PROVE  BorrowInv'
<1> SUFFICES ASSUME NEW u \in Threads
             PROVE  /\ thread'[u].pc \in Borrowing => thread'[u].bo \in Bos
                    /\ thread'[u].bo # NoBo => thread'[u].pc \in Borrowing \cup {"frames"}
  BY DEF BorrowInv
<1>1. CASE u = t
  BY <1>1
<1>2. CASE u # t
  BY <1>2 DEF CoreInv, BorrowInv
<1> QED BY <1>1, <1>2

-----------------------------------------------------------------------------
(* The kernel's record, and what its operations do to it.                  *)
LEMMA KernelTypes ==
  ASSUME NEW k, k \in KernelRecord
  PROVE  /\ k.file \in [Handles -> Objs \cup {NoObj}]
         /\ k.flinked \in SUBSET Objs /\ k.fds \in SUBSET Objs /\ k.busy \in SUBSET Objs
         /\ k.dontneed \in SUBSET Objs /\ k.purged \in SUBSET Objs
         /\ k.leaked \in SUBSET (Handles \cup {0})
BY DEF KernelRecord

(* The kernel object behind a structure.                                   *)
LEMMA ObjOfType ==
  ASSUME GemTypeOK, NEW b \in Bos
  PROVE  ObjOf(b) \in Objs \cup {NoObj}
<1>1. kernel.file \in [Handles -> Objs \cup {NoObj}]
  BY KernelTypes DEF GemTypeOK
<1> QED BY <1>1 DEF ObjOf

(* The handle the kernel gives for an object: the one it has, or a free    *)
(* one.                                                                    *)
LEMMA HandleForType ==
  ASSUME NEW k, k \in KernelRecord, NEW o \in Objs, CanOpen(k, o)
  PROVE  /\ HandleFor(k, o) \in Handles
         /\ \/ k.file[HandleFor(k, o)] = o
            \/ k.file[HandleFor(k, o)] = NoObj /\ HandlesOf(k, o) = {}
<1>1. CASE HandlesOf(k, o) # {}
  BY <1>1 DEF HandleFor, HandlesOf
<1>2. CASE HandlesOf(k, o) = {}
  <2> DEFINE S == HandlesOf(k, NoObj)
  <2>1. S # {} /\ S \in SUBSET Nat /\ S \subseteq Handles /\ \A h \in S : k.file[h] = NoObj
    BY <1>2, GemBoundsAssumption DEF CanOpen, HandlesOf, Handles
  <2> HIDE DEF S
  <2>2. \E h \in S : \A g \in S : h <= g
    BY <2>1, LeastNatural
  <2>3. LowestFree(k) \in S
    BY <2>2 DEF LowestFree, S
  <2>4. HandleFor(k, o) = LowestFree(k)
    BY <1>2 DEF HandleFor
  <2> QED BY <1>2, <2>1, <2>3, <2>4
<1> QED BY <1>1, <1>2

(* Opening a handle changes that handle only.                              *)
LEMMA OpenType ==
  ASSUME NEW k, k \in KernelRecord, NEW o \in Objs, CanOpen(k, o)
  PROVE  /\ OpenHandle(k, o) \in KernelRecord
         /\ OpenHandle(k, o).file = [k.file EXCEPT ![HandleFor(k, o)] = o]
         /\ OpenHandle(k, o).flinked = k.flinked /\ OpenHandle(k, o).fds = k.fds
         /\ OpenHandle(k, o).busy = k.busy
         /\ OpenHandle(k, o).dontneed = k.dontneed /\ OpenHandle(k, o).purged = k.purged
         /\ OpenHandle(k, o).leaked = k.leaked \ {HandleFor(k, o)}
<1> DEFINE h == HandleFor(k, o)
           f == [k.file EXCEPT ![h] = o]
           l == k.leaked \ {h}
           x == [k EXCEPT !.file = f, !.leaked = l]
<1>1. OpenHandle(k, o) = x
  BY DEF OpenHandle, KernelRecord
<1>2. h \in Handles
  BY HandleForType
<1>3. f \in [Handles -> Objs \cup {NoObj}] /\ l \in SUBSET (Handles \cup {0})
  BY <1>2, KernelTypes
<1> HIDE DEF f, h, l
<1>4. /\ x \in KernelRecord /\ x.file = f /\ x.flinked = k.flinked /\ x.fds = k.fds
      /\ x.busy = k.busy /\ x.dontneed = k.dontneed /\ x.purged = k.purged /\ x.leaked = l
  BY <1>3 DEF KernelRecord
<1> QED BY <1>1, <1>4 DEF f, h, l

(* An import that makes no structure, or makes one after all, changes the  *)
(* history of lost handles only.                                           *)
LEMMA LeakType ==
  ASSUME NEW k, k \in KernelRecord, NEW l \in SUBSET (Handles \cup {0})
  PROVE  LET x == [k EXCEPT !.leaked = l]
         IN  /\ x \in KernelRecord /\ x.file = k.file /\ x.flinked = k.flinked /\ x.fds = k.fds
             /\ x.busy = k.busy /\ x.dontneed = k.dontneed /\ x.purged = k.purged /\ x.leaked = l
BY DEF KernelRecord

(* Closing a handle changes that handle only, and forgets the advice on    *)
(* its object.                                                             *)
LEMMA CloseType ==
  ASSUME NEW k, k \in KernelRecord, NEW h \in Handles
  PROVE  /\ CloseHandle(k, h) \in KernelRecord
         /\ CloseHandle(k, h).file = [k.file EXCEPT ![h] = NoObj]
         /\ CloseHandle(k, h).flinked = k.flinked /\ CloseHandle(k, h).fds = k.fds
         /\ CloseHandle(k, h).dontneed = k.dontneed \ ({k.file[h]} \ Shared(k))
         /\ CloseHandle(k, h).purged = k.purged \ ({k.file[h]} \ Shared(k))
         /\ CloseHandle(k, h).leaked = k.leaked \ {h}
<1> DEFINE lost == {k.file[h]} \ Shared(k)
           f == [k.file EXCEPT ![h] = NoObj]
           d == k.dontneed \ lost
           p == k.purged \ lost
           l == k.leaked \ {h}
           x == [k EXCEPT !.file = f, !.dontneed = d, !.purged = p, !.leaked = l]
<1>1. CloseHandle(k, h) = x
  BY DEF CloseHandle, KernelRecord
<1>2. /\ f \in [Handles -> Objs \cup {NoObj}] /\ d \in SUBSET Objs /\ p \in SUBSET Objs
      /\ l \in SUBSET (Handles \cup {0})
  BY KernelTypes
<1> HIDE DEF f, d, p, l
<1>3. /\ x \in KernelRecord /\ x.file = f /\ x.flinked = k.flinked /\ x.fds = k.fds
      /\ x.dontneed = d /\ x.purged = p /\ x.leaked = l
  BY <1>2 DEF KernelRecord
<1> QED BY <1>1, <1>3 DEF f, d, p, l

(* Closing any number at all keeps the type of the kernel state.           *)
LEMMA CloseAnyType ==
  ASSUME NEW k, k \in KernelRecord, NEW h
  PROVE  CloseHandle(k, h) \in KernelRecord
<1>1. CASE h \in Handles
  BY <1>1, CloseType
<1>2. CASE h \notin Handles
  BY <1>2 DEF CloseHandle
<1> QED BY <1>1, <1>2

(* MADVISE changes the advice on one object only.                          *)
LEMMA MadviseType ==
  ASSUME NEW k, k \in KernelRecord, NEW o \in Objs \cup {NoObj}, NEW dontneed \in BOOLEAN
  PROVE  /\ Madvise(k, o, dontneed) \in KernelRecord
         /\ Madvise(k, o, dontneed).file = k.file
         /\ Madvise(k, o, dontneed).flinked = k.flinked /\ Madvise(k, o, dontneed).fds = k.fds
         /\ Madvise(k, o, dontneed).purged = k.purged /\ Madvise(k, o, dontneed).leaked = k.leaked
         /\ Madvise(k, o, dontneed).dontneed =
              IF dontneed THEN k.dontneed \cup ({o} \ {NoObj}) ELSE k.dontneed \ {o}
<1> DEFINE d == IF dontneed THEN k.dontneed \cup ({o} \ {NoObj}) ELSE k.dontneed \ {o}
           x == [k EXCEPT !.dontneed = d]
<1>1. Madvise(k, o, dontneed) = x
  BY DEF Madvise, KernelRecord
<1>2. d \in SUBSET Objs
  BY KernelTypes
<1> HIDE DEF d
<1>3. /\ x \in KernelRecord /\ x.file = k.file /\ x.flinked = k.flinked /\ x.fds = k.fds
      /\ x.purged = k.purged /\ x.leaked = k.leaked /\ x.dontneed = d
  BY <1>2 DEF KernelRecord
<1> QED BY <1>1, <1>3 DEF d

-----------------------------------------------------------------------------
(* A call that returns, or goes on at another place.                       *)
LEMMA IdleType ==
  Idle \in ThreadRecord /\ Idle.pc = "idle" /\ Idle.bo = NoBo /\ Idle.frames = << >>
BY DEF Idle, ThreadRecord

(* A call returns.                                                         *)
LEMMA ReturnStep ==
  ASSUME GemTypeOK, NEW t \in Threads, Return(t)
  PROVE  /\ thread' \in [Threads -> ThreadRecord]
         /\ thread'[t].pc = "idle" /\ thread'[t].bo = NoBo
         /\ \A u \in Threads \ {t} : thread'[u] = thread[u]
<1>1. thread' = [thread EXCEPT ![t] = Idle]
  BY DEF Return
<1>2. thread' \in [Threads -> ThreadRecord] /\ thread'[t] = Idle
      /\ \A u \in Threads \ {t} : thread'[u] = thread[u]
  BY <1>1, IdleType, ThreadPut
<1> QED BY <1>2, IdleType

(* The places of a call.                                                   *)
Places == {"idle", "alloc", "purge", "create", "unref", "clear", "frames", "cleanup",
           "busy", "flink", "export", "prime", "tiling", "deadlock"}

(* A call goes on at another place.                                        *)
LEMMA GotoStep ==
  ASSUME GemTypeOK, NEW t \in Threads, NEW where \in Places, Goto(t, where)
  PROVE  /\ thread' \in [Threads -> ThreadRecord]
         /\ thread'[t].pc = where /\ thread'[t].bo = thread[t].bo
         /\ thread'[t].frames = thread[t].frames
         /\ \A u \in Threads \ {t} : thread'[u] = thread[u]
<1> DEFINE r == [thread[t] EXCEPT !.pc = where]
<1>1. thread' = [thread EXCEPT ![t] = r]
  BY DEF Goto
<1>2. /\ r \in ThreadRecord /\ r.pc = where /\ r.bo = thread[t].bo /\ r.frames = thread[t].frames
  BY ThreadTypes DEF ThreadRecord, Places
<1> HIDE DEF r
<1> QED BY <1>1, <1>2, ThreadPut

(* A call that begins with a reference to b, or goes on with it.           *)
LEMMA BeginStep ==
  ASSUME GemTypeOK, NEW t \in Threads, NEW where \in Places, NEW b \in Bos, Begin(t, where, b)
  PROVE  /\ thread' \in [Threads -> ThreadRecord]
         /\ thread'[t].pc = where /\ thread'[t].bo = b
         /\ \A u \in Threads \ {t} : thread'[u] = thread[u]
<1> DEFINE r == [thread[t] EXCEPT !.pc = where, !.bo = b]
<1>1. thread' = [thread EXCEPT ![t] = r]
  BY DEF Begin, GemTypeOK
<1>2. r \in ThreadRecord /\ r.pc = where /\ r.bo = b
  BY ThreadTypes DEF ThreadRecord, Places
<1> HIDE DEF r
<1> QED BY <1>1, <1>2, ThreadPut

-----------------------------------------------------------------------------
(* What every step of t must respect: the lock, the lent references, and   *)
(* the balance of the references.                                          *)
LockMoves(t) ==
  \/ lock' = lock /\ (thread'[t].pc \in Holding <=> thread[t].pc \in Holding)
  \/ lock = NoThread /\ lock' = t /\ thread'[t].pc \in Holding
  \/ thread[t].pc \in Holding /\ lock' = NoThread /\ thread'[t].pc \notin Holding
Borrows(t) ==
  /\ thread'[t].pc \in Borrowing => thread'[t].bo \in Bos
  /\ thread'[t].bo # NoBo => thread'[t].pc \in Borrowing \cup {"frames"}
Balanced(t) ==
  \A b \in Bos : bo'[b].refcount - bo[b].refcount =
                   held'[b] - held[b] + Is(thread'[t].bo, b) - Is(thread[t].bo, b)

(* A calm step that creates and frees nothing.                             *)
PlainStep(t) ==
  /\ \A u \in Threads \ {t} : thread'[u] = thread[u]
  /\ thread[t].pc # "frames" /\ thread'[t].pc # "frames"
  /\ thread'[t].pc = "clear" => ClearOK(t)' /\ ~Clearing(thread'[t].bo)
  /\ vma' = vma /\ cache' = cache
  /\ \A c \in Bos : bo'[c].relocs = bo[c].relocs /\ bo'[c].bucket = bo[c].bucket
  /\ \A c \in Bos \ Used : bo'[c].reusable = bo[c].reusable
  /\ \A c \in Bos : bo[c].refcount = 0 <=> bo'[c].refcount = 0

(* What has to be shown of a calm step.                                    *)
LEMMA CalmInv ==
  ASSUME CoreInv, TRUE \notin CanReject, NEW t \in Threads, CalmStep(t), [VmaNext]_vma,
         GemTypeOK', LockMoves(t), Borrows(t), Balanced(t), CacheInv', NamedInv'
  PROVE  CoreInv'
<1>1. GemTypeOK /\ CountInv /\ VmaInv
  BY DEF CoreInv
<1>2. VmaInv'
  BY <1>1, VmaNextInv
<1>3. \A u \in Threads \ {t} : thread'[u] = thread[u]
  BY DEF CalmStep
<1>4. LockInv'
  BY <1>3, LockStep DEF LockMoves
<1>5. BorrowInv'
  BY <1>3, BorrowStep DEF Borrows
<1>6. FramesInv' /\ ClearInv' /\ LeakInv' /\ ParkedInv' /\ RelocLen'
  BY CalmFrames, CalmLeak, CalmParked
<1>7. \A b \in Bos : RelocsTo(b)' = RelocsTo(b)
  BY CalmRelocs
<1>8. CountInv'
  BY <1>1, <1>3, <1>7, CountStep DEF Balanced
<1> QED BY <1>2, <1>4, <1>5, <1>6, <1>8 DEF CoreInv

(* The lists stay as they are.                                             *)
LEMMA CacheKept ==
  ASSUME CoreInv, cache' = cache, Live \subseteq Live',
         \A b \in Bos \ Used : bo'[b].bucket = bo[b].bucket /\ bo'[b].reusable = bo[b].reusable
  PROVE  CacheInv'
<1>1. ASSUME NEW k \in Buckets, NEW b \in Items(cache[k])
      PROVE  b \in Live /\ bo[b].bucket = k /\ bo[b].reusable /\ b \in Bos \ Used
  BY DEF CoreInv, CacheInv, CachedIn, Used, InCache, Live
<1>2. ASSUME NEW k \in Buckets PROVE NoDuplicates(cache[k])
  BY DEF CoreInv, CacheInv
<1> QED BY <1>1, <1>2 DEF CacheInv, CachedIn

(* The same where the object b is new, so in no bucket.                    *)
LEMMA CacheFresh ==
  ASSUME CoreInv, cache' = cache, Live \subseteq Live', NEW b, b \notin InCache,
         \A c \in Bos \ {b} : bo'[c] = bo[c]
  PROVE  CacheInv'
<1>1. ASSUME NEW k \in Buckets, NEW c \in Items(cache[k])
      PROVE  c \in Live /\ bo[c].bucket = k /\ bo[c].reusable /\ c \in Bos \ {b}
  BY DEF CoreInv, CacheInv, CachedIn, InCache, Live
<1>2. ASSUME NEW k \in Buckets PROVE NoDuplicates(cache[k])
  BY DEF CoreInv, CacheInv
<1> QED BY <1>1, <1>2 DEF CacheInv, CachedIn

(* The named objects stay in use and linked.                               *)
LEMMA NamedKept ==
  ASSUME CoreInv, named' = named, Used \subseteq Used',
         \A b \in Items(named) : bo'[b].name_list = bo[b].name_list
  PROVE  NamedInv'
<1>1. NamedInv
  BY DEF CoreInv
<1>2. ASSUME NEW b \in Items(named) PROVE b \in Used' /\ bo'[b].name_list = "linked"
  BY <1>1 DEF NamedInv
<1> QED BY <1>1, <1>2 DEF NamedInv

(* A plain step is calm and keeps the cache.                               *)
LEMMA PlainCalm ==
  ASSUME CoreInv, NEW t \in Threads, PlainStep(t)
  PROVE  CalmStep(t) /\ CacheInv' /\ Used' = Used
<1>1. Used' = Used /\ Live' = Live
  BY DEF PlainStep, Used, Live, InCache, CachedIn, Exists
<1>2. ASSUME NEW c \in Bos, c \notin Used PROVE bo'[c].refcount = 0 /\ vma'.map_count[c] = 0
  BY <1>2 DEF PlainStep, CoreInv, ParkedInv
<1>3. CalmStep(t)
  BY <1>1, <1>2 DEF PlainStep, CalmStep, Used, Live
<1>4. CacheInv'
  BY <1>1, CacheKept DEF PlainStep
<1> QED BY <1>1, <1>3, <1>4

(* What has to be shown of a plain step.                                   *)
LEMMA PlainInv ==
  ASSUME CoreInv, TRUE \notin CanReject, NEW t \in Threads, PlainStep(t),
         GemTypeOK', LockMoves(t), Borrows(t), Balanced(t), NamedInv'
  PROVE  CoreInv'
<1>1. CalmStep(t) /\ CacheInv'
  BY PlainCalm
<1>2. [VmaNext]_vma
  BY DEF PlainStep
<1> QED BY <1>1, <1>2, CalmInv

(* A step that only moves t on between places where it borrows nothing.    *)
LEMMA BookInv ==
  ASSUME CoreInv, TRUE \notin CanReject, NEW t \in Threads,
         UNCHANGED << vma, bo, named, cache, held >>,
         \A u \in Threads \ {t} : thread'[u] = thread[u],
         thread[t].pc \notin Borrowing \cup {"frames"},
         thread'[t].pc \notin Borrowing \cup {"frames"},
         thread'[t].bo = thread[t].bo \/ thread'[t].bo = NoBo,
         thread' \in [Threads -> ThreadRecord], lock' \in Threads \cup {NoThread},
         time' \in Nat, kernel' \in KernelRecord, clock' \in Nat, fault' \in BOOLEAN,
         LockMoves(t)
  PROVE  CoreInv'
<1>1. thread[t].bo = NoBo /\ thread'[t].bo = NoBo
  BY DEF CoreInv, BorrowInv
<1>2. GemTypeOK'
  BY DEF CoreInv, GemTypeOK
<1>3. PlainStep(t)
  BY DEF PlainStep, Borrowing
<1>4. Borrows(t)
  BY <1>1 DEF Borrows
<1>5. Balanced(t)
  <2>1. ASSUME NEW b \in Bos
        PROVE bo'[b].refcount - bo[b].refcount =
                held'[b] - held[b] + Is(thread'[t].bo, b) - Is(thread[t].bo, b)
    <3>1. bo'[b].refcount \in Nat /\ held[b] \in Nat /\ bo' = bo /\ held' = held
      BY BoTypes DEF CoreInv
    <3>2. Is(NoBo, b) \in Nat
      BY DEF Is
    <3> QED BY <1>1, <3>1, <3>2
  <2> QED BY <2>1 DEF Balanced
<1>6. NamedInv'
  <2>1. Used \subseteq Used'
    BY <1>3, PlainCalm
  <2> QED BY <2>1, NamedKept
<1> QED BY <1>2, <1>3, <1>4, <1>5, <1>6, PlainInv

(* alloc_internal takes the lock.                                          *)
LEMMA AllocInv ==
  ASSUME CoreInv, TRUE \notin CanReject, NEW t \in Threads, Alloc(t)
  PROVE  CoreInv'
<1>1. PICK k \in Sizes, for_render \in BOOLEAN :
        thread' = [thread EXCEPT ![t].pc = "alloc", ![t].bucket = k, ![t].flag = for_render]
  BY DEF Alloc
<1>2. /\ thread[t].pc = "idle" /\ lock = NoThread /\ lock' = t
      /\ UNCHANGED << vma, bo, named, cache, time, held, kernel, clock, fault >>
  BY DEF Alloc, Calls, At, Unlocked
<1> DEFINE r == [thread[t] EXCEPT !.pc = "alloc", !.bucket = k, !.flag = for_render]
<1>3. GemTypeOK
  BY DEF CoreInv
<1>4. thread' = [thread EXCEPT ![t] = r]
  BY <1>1, <1>3 DEF GemTypeOK
<1>5. r \in ThreadRecord /\ r.pc = "alloc" /\ r.bo = thread[t].bo
  BY <1>3, ThreadTypes, BucketsAssumption DEF ThreadRecord
<1> HIDE DEF r
<1>6. /\ thread' \in [Threads -> ThreadRecord] /\ thread'[t] = r
      /\ \A u \in Threads \ {t} : thread'[u] = thread[u]
  BY <1>3, <1>4, <1>5, ThreadPut
<1>7. LockMoves(t)
  BY <1>2, <1>5, <1>6 DEF LockMoves, Holding
<1> QED BY <1>2, <1>3, <1>5, <1>6, <1>7, BookInv DEF GemTypeOK, Borrowing

(* The cleanup of the cache ends.                                          *)
LEMMA CleanupDoneInv ==
  ASSUME CoreInv, TRUE \notin CanReject, NEW t \in Threads, CleanupDone(t)
  PROVE  CoreInv'
<1>1. /\ thread[t].pc = "cleanup" /\ lock' = NoThread /\ time' = thread[t].time /\ Return(t)
      /\ UNCHANGED << vma, bo, named, cache, held, kernel, clock, fault >>
  BY DEF CleanupDone, At
<1>2. GemTypeOK /\ time' \in Nat
  BY <1>1, ThreadTypes DEF CoreInv
<1>3. /\ thread' \in [Threads -> ThreadRecord] /\ thread'[t].pc = "idle" /\ thread'[t].bo = NoBo
      /\ \A u \in Threads \ {t} : thread'[u] = thread[u]
  BY <1>1, <1>2, ReturnStep
<1>4. LockMoves(t)
  BY <1>1, <1>3 DEF LockMoves, Holding
<1> QED BY <1>1, <1>2, <1>3, <1>4, BookInv DEF GemTypeOK, Borrowing

(* The import of an fd opens a handle, or fails.                           *)
LEMMA FDToHandleInv ==
  ASSUME CoreInv, TRUE \notin CanReject, NEW t \in Threads, NEW o \in Objs, FDToHandle(t, o)
  PROVE  CoreInv'
<1>1. /\ thread[t].pc = "idle" /\ o \in kernel.fds
      /\ UNCHANGED << vma, bo, named, cache, time, lock, held, clock, fault >>
  BY DEF FDToHandle, Calls, At
<1>2. GemTypeOK /\ kernel \in KernelRecord
  BY DEF CoreInv, GemTypeOK
<1>3. PICK h \in Handles \cup {0}, flag \in BOOLEAN :
        /\ kernel' \in KernelRecord
        /\ thread' = [thread EXCEPT ![t] = [thread[t] EXCEPT !.pc = "prime", !.flag = flag, !.handle = h]]
  <2>1. CASE /\ CanOpen(kernel, o)
             /\ kernel' = OpenHandle(kernel, o)
             /\ thread' = [thread EXCEPT ![t].pc = "prime", ![t].flag = TRUE,
                                         ![t].handle = HandleFor(kernel, o)]
    <3>1. kernel' \in KernelRecord /\ HandleFor(kernel, o) \in Handles
      BY <1>2, <2>1, OpenType, HandleForType
    <3>2. thread' = [thread EXCEPT ![t] = [thread[t] EXCEPT !.pc = "prime", !.flag = TRUE,
                                                            !.handle = HandleFor(kernel, o)]]
      BY <1>2, <2>1 DEF GemTypeOK
    <3> QED BY <3>1, <3>2
  <2>2. ASSUME NEW h \in Handles \cup {0},
               thread' = [thread EXCEPT ![t].pc = "prime", ![t].handle = h], UNCHANGED kernel
        PROVE  \E flag \in BOOLEAN :
                 thread' = [thread EXCEPT ![t] = [thread[t] EXCEPT !.pc = "prime", !.flag = flag, !.handle = h]]
    <3>1. thread[t] \in ThreadRecord /\ thread[t].flag \in BOOLEAN
      BY <1>2, ThreadTypes
    <3>2. [thread[t] EXCEPT !.pc = "prime", !.handle = h] =
            [thread[t] EXCEPT !.pc = "prime", !.flag = thread[t].flag, !.handle = h]
      BY <3>1 DEF ThreadRecord
    <3>3. thread' = [thread EXCEPT ![t] = [thread[t] EXCEPT !.pc = "prime", !.handle = h]]
      BY <1>2, <2>2 DEF GemTypeOK
    <3> QED BY <3>1, <3>2, <3>3
  <2> QED BY <1>2, <2>1, <2>2 DEF FDToHandle
<1> DEFINE r == [thread[t] EXCEPT !.pc = "prime", !.flag = flag, !.handle = h]
<1>4. r \in ThreadRecord /\ r.pc = "prime" /\ r.bo = thread[t].bo
  BY <1>2, ThreadTypes DEF ThreadRecord
<1> HIDE DEF r
<1>5. /\ thread' \in [Threads -> ThreadRecord] /\ thread'[t] = r
      /\ \A u \in Threads \ {t} : thread'[u] = thread[u]
  BY <1>2, <1>3, <1>4, ThreadPut DEF r
<1>6. LockMoves(t)
  BY <1>1, <1>4, <1>5 DEF LockMoves, Holding
<1> QED BY <1>1, <1>2, <1>3, <1>4, <1>5, <1>6, BookInv DEF GemTypeOK, Borrowing

-----------------------------------------------------------------------------
(* References that change hands.                                           *)
LEMMA BalanceAt ==
  ASSUME GemTypeOK, NEW t \in Threads, NEW b \in Bos,
         \A c \in Bos \ {b} : bo'[c].refcount = bo[c].refcount /\ held'[c] = held[c],
         thread[t].bo \in {NoBo, b}, thread'[t].bo \in {NoBo, b},
         bo'[b].refcount - bo[b].refcount =
           held'[b] - held[b] + Is(thread'[t].bo, b) - Is(thread[t].bo, b)
  PROVE  Balanced(t)
<1>1. ASSUME NEW c \in Bos \ {b}
      PROVE bo'[c].refcount - bo[c].refcount =
              held'[c] - held[c] + Is(thread'[t].bo, c) - Is(thread[t].bo, c)
  <2>1. Is(thread'[t].bo, c) = 0 /\ Is(thread[t].bo, c) = 0
    BY GemThreadsAssumption DEF Is
  <2>2. bo[c].refcount \in Nat /\ held[c] \in Nat
    BY BoTypes
  <2>3. bo'[c].refcount = bo[c].refcount /\ held'[c] = held[c]
    OBVIOUS
  <2> QED BY <2>1, <2>2, <2>3
<1> QED BY <1>1 DEF Balanced

(* No count, no relocation and no list of cached objects is touched.       *)
SoftBo ==
  \A c \in Bos :
    /\ bo'[c].refcount = bo[c].refcount /\ bo'[c].relocs = bo[c].relocs
    /\ bo'[c].bucket = bo[c].bucket
    /\ c \notin Used => bo'[c].reusable = bo[c].reusable

(* A step that changes no structure at all is soft.                        *)
LEMMA SoftSame ==
  ASSUME bo' = bo
  PROVE  SoftBo
BY DEF SoftBo

(* A call that takes a reference of the application along keeps the        *)
(* invariant.                                                              *)
LEMMA LendInv ==
  ASSUME CoreInv, TRUE \notin CanReject, NEW t \in Threads, NEW b \in Bos,
         thread[t].pc = "idle", Uses(b), Lend(b), SoftBo, NamedInv',
         UNCHANGED << vma, cache, time, lock, clock, kernel, fault >>,
         bo' \in [Bos -> BoRecord], named' \in Seq(Bos), thread' \in [Threads -> ThreadRecord],
         \A u \in Threads \ {t} : thread'[u] = thread[u],
         thread'[t].pc \in Borrowing, thread'[t].bo = b,
         thread'[t].pc = "clear" => ClearOK(t)' /\ ~Clearing(b)
  PROVE  CoreInv'
<1>1. GemTypeOK /\ held[b] > 0 /\ held[b] \in Nat /\ bo[b].refcount \in Nat
  BY BoTypes DEF CoreInv, Uses
<1>2. thread[t].bo = NoBo /\ NoBo # b
  BY GemThreadsAssumption DEF CoreInv, BorrowInv, Borrowing
<1>3. held' \in [Bos -> Nat] /\ held'[b] = held[b] - 1 /\ \A c \in Bos \ {b} : held'[c] = held[c]
  <2>1. held[b] - 1 \in Nat /\ held' = [held EXCEPT ![b] = held[b] - 1]
    BY <1>1 DEF Lend
  <2> QED BY <1>1, <2>1, HeldPut
<1>4. GemTypeOK'
  BY <1>1, <1>3 DEF GemTypeOK
<1>5. PlainStep(t)
  BY DEF PlainStep, SoftBo, Borrowing
<1>6. LockMoves(t) /\ Borrows(t)
  BY <1>2 DEF LockMoves, Borrows, Holding, Borrowing
<1>7. Balanced(t)
  <2>1. Is(thread'[t].bo, b) = 1 /\ Is(thread[t].bo, b) = 0
    BY <1>2 DEF Is
  <2>2. bo'[b].refcount = bo[b].refcount
    BY DEF SoftBo
  <2>3. bo'[b].refcount - bo[b].refcount =
          held'[b] - held[b] + Is(thread'[t].bo, b) - Is(thread[t].bo, b)
    BY <1>1, <1>3, <2>1, <2>2
  <2>4. \A c \in Bos \ {b} : bo'[c].refcount = bo[c].refcount /\ held'[c] = held[c]
    BY <1>3 DEF SoftBo
  <2> QED BY <1>1, <1>2, <2>3, <2>4, BalanceAt
<1> QED BY <1>4, <1>5, <1>6, <1>7, PlainInv

(* A call that returns the reference it was lent keeps the invariant.      *)
LEMMA GiveBackInv ==
  ASSUME CoreInv, TRUE \notin CanReject, NEW t \in Threads, NEW b \in Bos,
         thread[t].pc \in Borrowing, thread[t].bo = b, GiveBack(b), Return(t), SoftBo, NamedInv',
         UNCHANGED << vma, cache, time, lock, clock >>,
         bo' \in [Bos -> BoRecord], named' \in Seq(Bos), kernel' \in KernelRecord,
         fault' \in BOOLEAN
  PROVE  CoreInv'
<1>1. GemTypeOK /\ held[b] \in Nat /\ bo[b].refcount \in Nat
  BY BoTypes DEF CoreInv
<1>2. /\ thread' \in [Threads -> ThreadRecord] /\ thread'[t].pc = "idle" /\ thread'[t].bo = NoBo
      /\ \A u \in Threads \ {t} : thread'[u] = thread[u]
  BY <1>1, ReturnStep
<1>3. held' \in [Bos -> Nat] /\ held'[b] = held[b] + 1 /\ \A c \in Bos \ {b} : held'[c] = held[c]
  <2>1. held[b] + 1 \in Nat /\ held' = [held EXCEPT ![b] = held[b] + 1]
    BY <1>1 DEF GiveBack
  <2> QED BY <1>1, <2>1, HeldPut
<1>4. GemTypeOK'
  BY <1>1, <1>2, <1>3 DEF GemTypeOK
<1>5. PlainStep(t)
  BY <1>2 DEF PlainStep, SoftBo, Borrowing
<1>6. LockMoves(t) /\ Borrows(t)
  BY <1>2 DEF LockMoves, Borrows, Holding, Borrowing
<1>7. Balanced(t)
  <2>1. NoBo # b
    BY GemThreadsAssumption
  <2>2. Is(thread'[t].bo, b) = 0 /\ Is(thread[t].bo, b) = 1
    BY <1>2, <2>1 DEF Is
  <2>3. bo'[b].refcount = bo[b].refcount
    BY DEF SoftBo
  <2>4. bo'[b].refcount - bo[b].refcount =
          held'[b] - held[b] + Is(thread'[t].bo, b) - Is(thread[t].bo, b)
    BY <1>1, <1>3, <2>2, <2>3
  <2>5. \A c \in Bos \ {b} : bo'[c].refcount = bo[c].refcount /\ held'[c] = held[c]
    BY <1>3 DEF SoftBo
  <2> QED BY <1>1, <1>2, <2>4, <2>5, BalanceAt
<1> QED BY <1>4, <1>5, <1>6, <1>7, PlainInv

(* The list of named objects where nothing is created or freed.            *)
LEMMA NamedSame ==
  ASSUME CoreInv, UNCHANGED << vma, cache, named >>,
         \A b \in Items(named) : bo'[b].name_list = bo[b].name_list
  PROVE  NamedInv'
<1>1. Used' = Used
  BY DEF Used, Live, InCache, CachedIn, Exists
<1> QED BY <1>1, NamedKept

(* Replacing one structure by another that counts the same.                *)
LEMMA SoftPut ==
  ASSUME GemTypeOK, NEW b \in Used, NEW r \in BoRecord, bo' = [bo EXCEPT ![b] = r],
         r.refcount = bo[b].refcount, r.relocs = bo[b].relocs, r.bucket = bo[b].bucket
  PROVE  /\ SoftBo /\ bo' \in [Bos -> BoRecord]
         /\ bo'[b] = r /\ \A c \in Bos \ {b} : bo'[c] = bo[c]
<1>1. b \in Bos
  BY DEF Used, Live
<1>2. bo' \in [Bos -> BoRecord] /\ bo'[b] = r /\ \A c \in Bos \ {b} : bo'[c] = bo[c]
  BY <1>1, BoPut
<1> QED BY <1>1, <1>2 DEF SoftBo

(* An object is put on bufmgr_gem->named once.                             *)
LEMMA NamedOnce ==
  ASSUME CoreInv, NEW b \in Used, UNCHANGED << vma, cache >>, named' = NameOnce(b),
         bo'[b].name_list = NamedLink(b), \A c \in Bos \ {b} : bo'[c] = bo[c]
  PROVE  NamedInv' /\ named' \in Seq(Bos)
<1>1. /\ Used' = Used /\ b \in Bos /\ named \in Seq(Bos) /\ NoDuplicates(named)
      /\ \A c \in Items(named) : c \in Used /\ bo[c].name_list = "linked" /\ c \in Bos
  BY DEF Used, Live, InCache, CachedIn, Exists, CoreInv, NamedInv, GemTypeOK
<1>2. CASE bo[b].name_list = "self"
  <2>1. named' = Append(named, b) /\ bo'[b].name_list = "linked"
    BY <1>2 DEF NameOnce, NamedLink, LooksUnlinked
  <2>2. b \notin Items(named)
    BY <1>1, <1>2
  <2>3. named' \in Seq(Bos) /\ Items(named') = Items(named) \cup {b} /\ NoDuplicates(named')
    BY <1>1, <2>1, <2>2, AppendItems
  <2>4. ASSUME NEW c \in Items(named') PROVE c \in Used' /\ bo'[c].name_list = "linked"
    BY <1>1, <2>1, <2>3
  <2> QED BY <2>3, <2>4 DEF NamedInv
<1>3. CASE bo[b].name_list # "self"
  <2>1. named' = named /\ bo'[b].name_list = bo[b].name_list
    BY <1>3 DEF NameOnce, NamedLink, LooksUnlinked
  <2>2. ASSUME NEW c \in Items(named) PROVE c \in Used' /\ bo'[c].name_list = "linked"
    BY <1>1, <2>1
  <2> QED BY <1>1, <2>1, <2>2 DEF NamedInv
<1> QED BY <1>2, <1>3

(* clear_relocs is called.                                                 *)
LEMMA ClearRelocsInv ==
  ASSUME CoreInv, TRUE \notin CanReject, NEW t \in Threads, NEW b \in Bos, ClearRelocs(t, b)
  PROVE  CoreInv'
<1>1. PICK start \in 0 .. Len(bo[b].relocs) :
       thread' = [thread EXCEPT ![t].pc = "clear", ![t].bo = b, ![t].time = clock,
                                ![t].frames = << [bo |-> b, from |-> start + 1,
                                                  at |-> start + 1, final |-> FALSE] >>]
  BY DEF ClearRelocs
<1>2. /\ thread[t].pc = "idle" /\ Uses(b) /\ ~Clearing(b) /\ Lend(b)
      /\ UNCHANGED << vma, bo, named, cache, time, lock, kernel, clock, fault >>
  BY DEF ClearRelocs, Calls, At
<1>3. GemTypeOK /\ bo[b].relocs \in Seq(Bos) /\ clock \in Nat
  BY BoTypes DEF CoreInv, GemTypeOK
<1> DEFINE f == [bo |-> b, from |-> start + 1, at |-> start + 1, final |-> FALSE]
           r == [thread[t] EXCEPT !.pc = "clear", !.bo = b, !.time = clock, !.frames = << f >>]
<1>4. thread' = [thread EXCEPT ![t] = r]
  BY <1>1, <1>3 DEF GemTypeOK
<1>5. f \in Frame /\ f.bo = b /\ f.from = start + 1 /\ f.at = start + 1 /\ ~f.final
  BY <1>3 DEF Frame
<1> HIDE DEF f
<1>6. << f >> \in Seq(Frame) /\ Len(<< f >>) = 1 /\ << f >>[1] = f
  BY <1>5
<1>7. r \in ThreadRecord /\ r.pc = "clear" /\ r.bo = b /\ r.frames = << f >>
  BY <1>3, <1>6, ThreadTypes DEF ThreadRecord
<1> HIDE DEF r
<1>8. /\ thread' \in [Threads -> ThreadRecord] /\ thread'[t] = r
      /\ \A u \in Threads \ {t} : thread'[u] = thread[u]
  BY <1>3, <1>4, <1>7, ThreadPut
<1>9. ClearOK(t)'
  <2>1. /\ Len(thread'[t].frames) = 1 /\ thread'[t].frames[1] = f /\ thread'[t].bo = b
        /\ bo' = bo
    BY <1>2, <1>6, <1>7, <1>8
  <2>2. 1 <= f.from /\ f.from = f.at /\ f.at <= Len(bo[b].relocs) + 1
    BY <1>3, <1>5
  <2> QED BY <1>5, <2>1, <2>2 DEF ClearOK
<1>10. NamedInv' /\ SoftBo /\ bo' \in [Bos -> BoRecord] /\ named' \in Seq(Bos)
  BY <1>2, <1>3, NamedSame, SoftSame DEF GemTypeOK
<1> QED BY <1>2, <1>7, <1>8, <1>9, <1>10, LendInv DEF Borrowing

(* The busy ioctl is made.                                                 *)
LEMMA BusyInv ==
  ASSUME CoreInv, TRUE \notin CanReject, NEW t \in Threads, NEW b \in Bos, Busy(t, b)
  PROVE  CoreInv'
<1>1. /\ thread[t].pc = "idle" /\ Uses(b) /\ Lend(b)
      /\ UNCHANGED << vma, bo, named, cache, time, lock, kernel, clock, fault >>
      /\ thread' = [thread EXCEPT ![t].pc = "busy", ![t].bo = b, ![t].flag = BusyIoctl(b)]
  BY DEF Busy, Calls, At
<1>2. GemTypeOK
  BY DEF CoreInv
<1> DEFINE r == [thread[t] EXCEPT !.pc = "busy", !.bo = b, !.flag = BusyIoctl(b)]
<1>3. thread' = [thread EXCEPT ![t] = r]
  BY <1>1, <1>2 DEF GemTypeOK
<1>4. BusyIoctl(b) \in BOOLEAN
  BY DEF BusyIoctl
<1>5. r \in ThreadRecord /\ r.pc = "busy" /\ r.bo = b
  BY <1>2, <1>4, ThreadTypes DEF ThreadRecord
<1> HIDE DEF r
<1>6. /\ thread' \in [Threads -> ThreadRecord] /\ thread'[t] = r
      /\ \A u \in Threads \ {t} : thread'[u] = thread[u]
  BY <1>2, <1>3, <1>5, ThreadPut
<1>7. NamedInv' /\ SoftBo /\ bo' \in [Bos -> BoRecord] /\ named' \in Seq(Bos)
  BY <1>1, <1>2, NamedSame, SoftSame DEF GemTypeOK
<1> QED BY <1>1, <1>5, <1>6, <1>7, LendInv DEF Borrowing

(* flink is called.                                                        *)
LEMMA FlinkInv ==
  ASSUME CoreInv, TRUE \notin CanReject, NEW t \in Threads, NEW b \in Bos, Flink(t, b)
  PROVE  CoreInv'
<1>1. /\ thread[t].pc = "idle" /\ Uses(b) /\ Lend(b) /\ Begin(t, "flink", b)
      /\ UNCHANGED << vma, bo, named, cache, time, lock, kernel, clock, fault >>
  BY DEF Flink, Calls, At
<1>2. GemTypeOK
  BY DEF CoreInv
<1>3. /\ thread' \in [Threads -> ThreadRecord] /\ thread'[t].pc = "flink" /\ thread'[t].bo = b
      /\ \A u \in Threads \ {t} : thread'[u] = thread[u]
  BY <1>1, <1>2, BeginStep DEF Places
<1>4. NamedInv' /\ SoftBo /\ bo' \in [Bos -> BoRecord] /\ named' \in Seq(Bos)
  BY <1>1, <1>2, NamedSame, SoftSame DEF GemTypeOK
<1> QED BY <1>1, <1>3, <1>4, LendInv DEF Borrowing

(* export_to_prime lists the object.                                       *)
LEMMA ExportToPrimeInv ==
  ASSUME CoreInv, TRUE \notin CanReject, NEW t \in Threads, NEW b \in Bos, ExportToPrime(t, b)
  PROVE  CoreInv'
<1>1. /\ thread[t].pc = "idle" /\ Uses(b) /\ Lend(b) /\ Begin(t, "export", b)
      /\ named' = NameOnce(b) /\ bo' = [bo EXCEPT ![b].name_list = NamedLink(b)]
      /\ UNCHANGED << vma, cache, time, lock, kernel, clock, fault >>
  BY DEF ExportToPrime, Calls, At
<1>2. GemTypeOK /\ b \in Used
  BY <1>1, HeldIsUsed DEF CoreInv, Uses
<1>3. /\ thread' \in [Threads -> ThreadRecord] /\ thread'[t].pc = "export" /\ thread'[t].bo = b
      /\ \A u \in Threads \ {t} : thread'[u] = thread[u]
  BY <1>1, <1>2, BeginStep DEF Places
<1> DEFINE r == [bo[b] EXCEPT !.name_list = NamedLink(b)]
<1>4. bo' = [bo EXCEPT ![b] = r]
  BY <1>1
<1>5. NamedLink(b) \in Links
  BY <1>2, BoTypes DEF NamedLink, Links
<1>6. /\ r \in BoRecord /\ r.name_list = NamedLink(b) /\ r.refcount = bo[b].refcount
      /\ r.relocs = bo[b].relocs /\ r.bucket = bo[b].bucket
  BY <1>2, <1>5, BoTypes DEF BoRecord
<1> HIDE DEF r
<1>7. SoftBo /\ bo' \in [Bos -> BoRecord] /\ bo'[b] = r /\ \A c \in Bos \ {b} : bo'[c] = bo[c]
  BY <1>2, <1>4, <1>6, SoftPut
<1>8. NamedInv' /\ named' \in Seq(Bos)
  BY <1>1, <1>2, <1>6, <1>7, NamedOnce
<1> QED BY <1>1, <1>3, <1>7, <1>8, LendInv DEF Borrowing

(* The answer of the busy ioctl is stored.                                 *)
LEMMA StoreIdleInv ==
  ASSUME CoreInv, TRUE \notin CanReject, NEW t \in Threads, StoreIdle(t)
  PROVE  CoreInv'
<1>1. PICK b \in Bos : b = thread[t].bo
  BY DEF StoreIdle, At, CoreInv, BorrowInv, Borrowing
<1>2. /\ thread[t].pc = "busy" /\ GiveBack(b) /\ Return(t)
      /\ bo' = [bo EXCEPT ![b].idle = ~thread[t].flag]
      /\ UNCHANGED << vma, named, cache, time, lock, kernel, clock, fault >>
  BY <1>1 DEF StoreIdle, At
<1>3. GemTypeOK /\ b \in Used
  BY <1>1, BorrowedIsUsed DEF CoreInv
<1> DEFINE r == [bo[b] EXCEPT !.idle = ~thread[t].flag]
<1>4. bo' = [bo EXCEPT ![b] = r]
  BY <1>2
<1>5. /\ r \in BoRecord /\ r.name_list = bo[b].name_list /\ r.refcount = bo[b].refcount
      /\ r.relocs = bo[b].relocs /\ r.bucket = bo[b].bucket
  BY <1>3, BoTypes DEF BoRecord
<1> HIDE DEF r
<1>6. SoftBo /\ bo' \in [Bos -> BoRecord] /\ bo'[b] = r /\ \A c \in Bos \ {b} : bo'[c] = bo[c]
  BY <1>3, <1>4, <1>5, SoftPut
<1>7. NamedInv'
  <2>1. Items(named) \subseteq Bos
    BY <1>3 DEF GemTypeOK, Items
  <2> QED BY <1>2, <1>5, <1>6, <2>1, NamedSame
<1>8. named' \in Seq(Bos) /\ kernel' \in KernelRecord /\ fault' \in BOOLEAN
  BY <1>2, <1>3 DEF GemTypeOK
<1> QED BY <1>1, <1>2, <1>6, <1>7, <1>8, GiveBackInv DEF Borrowing

(* flink under the lock.                                                   *)
LEMMA FlinkLockedInv ==
  ASSUME CoreInv, TRUE \notin CanReject, NEW t \in Threads, FlinkLocked(t)
  PROVE  CoreInv'
<1>1. PICK b \in Bos : b = thread[t].bo
  BY DEF FlinkLocked, At, CoreInv, BorrowInv, Borrowing
<1>2. /\ thread[t].pc = "flink" /\ GiveBack(b) /\ Return(t)
      /\ UNCHANGED << vma, cache, time, lock, clock, fault >>
  BY <1>1 DEF FlinkLocked, At
<1>3. GemTypeOK /\ b \in Used /\ kernel \in KernelRecord /\ ObjOf(b) \in Objs \cup {NoObj}
  BY <1>1, BorrowedIsUsed, ObjOfType DEF CoreInv, GemTypeOK
<1>4. CASE UNCHANGED << kernel, named, bo >>
  <2>1. NamedInv' /\ SoftBo /\ bo' \in [Bos -> BoRecord] /\ named' \in Seq(Bos)
        /\ fault' \in BOOLEAN /\ kernel' \in KernelRecord
    BY <1>2, <1>3, <1>4, NamedSame, SoftSame DEF GemTypeOK
  <2> QED BY <1>1, <1>2, <2>1, GiveBackInv DEF Borrowing
<1>5. CASE /\ ObjOf(b) # NoObj
           /\ kernel' = [kernel EXCEPT !.flinked = @ \cup {ObjOf(b)}]
           /\ named' = NameOnce(b)
           /\ bo' = [bo EXCEPT ![b].global_name = ObjOf(b),
                               ![b].reusable = FALSE,
                               ![b].name_list = NamedLink(b)]
  <2> DEFINE r == [bo[b] EXCEPT !.global_name = ObjOf(b), !.reusable = FALSE,
                                !.name_list = NamedLink(b)]
  <2>1. bo' = [bo EXCEPT ![b] = r]
    BY <1>3, <1>5 DEF GemTypeOK
  <2>2. NamedLink(b) \in Links
    BY <1>3, BoTypes DEF NamedLink, Links
  <2>3. /\ r \in BoRecord /\ r.name_list = NamedLink(b) /\ r.refcount = bo[b].refcount
        /\ r.relocs = bo[b].relocs /\ r.bucket = bo[b].bucket
    BY <1>3, <2>2, BoTypes DEF BoRecord
  <2> HIDE DEF r
  <2>4. SoftBo /\ bo' \in [Bos -> BoRecord] /\ bo'[b] = r /\ \A c \in Bos \ {b} : bo'[c] = bo[c]
    BY <1>3, <2>1, <2>3, SoftPut
  <2>5. NamedInv' /\ named' \in Seq(Bos)
    BY <1>2, <1>3, <1>5, <2>3, <2>4, NamedOnce
  <2>6. kernel' \in KernelRecord /\ fault' \in BOOLEAN
    <3>1. kernel.flinked \cup {ObjOf(b)} \in SUBSET Objs
      BY <1>3, <1>5, KernelTypes
    <3> QED BY <1>2, <1>3, <1>5, <3>1 DEF GemTypeOK, KernelRecord
  <2> QED BY <1>1, <1>2, <2>4, <2>5, <2>6, GiveBackInv DEF Borrowing
<1> QED BY <1>1, <1>4, <1>5 DEF FlinkLocked

(* The export of the handle.                                               *)
LEMMA HandleToFDInv ==
  ASSUME CoreInv, TRUE \notin CanReject, NEW t \in Threads, HandleToFD(t)
  PROVE  CoreInv'
<1>1. PICK b \in Bos : b = thread[t].bo
  BY DEF HandleToFD, At, CoreInv, BorrowInv, Borrowing
<1>2. /\ thread[t].pc = "export" /\ GiveBack(b) /\ Return(t)
      /\ UNCHANGED << vma, named, cache, time, lock, clock, fault >>
  BY <1>1 DEF HandleToFD, At
<1>3. /\ GemTypeOK /\ b \in Used /\ kernel \in KernelRecord /\ ObjOf(b) \in Objs \cup {NoObj}
      /\ named \in Seq(Bos) /\ fault \in BOOLEAN /\ Items(named) \subseteq Bos
  <2>1. GemTypeOK
    BY DEF CoreInv
  <2> QED BY <1>1, <2>1, NamedBos, BorrowedIsUsed, ObjOfType DEF GemTypeOK
<1>4. CASE UNCHANGED << kernel, bo >>
  <2>1. NamedInv' /\ SoftBo /\ bo' \in [Bos -> BoRecord] /\ kernel' \in KernelRecord
    BY <1>2, <1>3, <1>4, NamedSame, SoftSame DEF GemTypeOK
  <2> QED BY <1>1, <1>2, <1>3, <2>1, GiveBackInv DEF Borrowing
<1>5. CASE /\ ObjOf(b) # NoObj
           /\ kernel' = [kernel EXCEPT !.fds = @ \cup {ObjOf(b)}]
           /\ bo' = [bo EXCEPT ![b].reusable = FALSE]
  <2> DEFINE r == [bo[b] EXCEPT !.reusable = FALSE]
  <2>1. bo' = [bo EXCEPT ![b] = r]
    BY <1>5
  <2>2. /\ r \in BoRecord /\ r.name_list = bo[b].name_list /\ r.refcount = bo[b].refcount
        /\ r.relocs = bo[b].relocs /\ r.bucket = bo[b].bucket
    BY <1>3, BoTypes DEF BoRecord
  <2> HIDE DEF r
  <2>3. SoftBo /\ bo' \in [Bos -> BoRecord] /\ bo'[b] = r /\ \A c \in Bos \ {b} : bo'[c] = bo[c]
    BY <1>3, <2>1, <2>2, SoftPut
  <2>4. NamedInv'
    BY <1>2, <1>3, <2>2, <2>3, NamedSame
  <2>5. kernel' \in KernelRecord
    <3>1. kernel.fds \cup {ObjOf(b)} \in SUBSET Objs
      BY <1>3, <1>5, KernelTypes
    <3> QED BY <1>3, <1>5, <3>1 DEF KernelRecord
  <2> QED BY <1>1, <1>2, <1>3, <2>3, <2>4, <2>5, GiveBackInv DEF Borrowing
<1> QED BY <1>1, <1>4, <1>5 DEF HandleToFD

-----------------------------------------------------------------------------
(* Steps that leave every reference where it is.                           *)
LEMMA StillInv ==
  ASSUME CoreInv, TRUE \notin CanReject, NEW t \in Threads, SoftBo, NamedInv',
         UNCHANGED << vma, named, cache, time, clock, held, fault >>,
         bo' \in [Bos -> BoRecord], thread' \in [Threads -> ThreadRecord],
         lock' \in Threads \cup {NoThread}, kernel' \in KernelRecord, LockMoves(t),
         \A u \in Threads \ {t} : thread'[u] = thread[u],
         thread[t].pc \notin Borrowing \cup {"frames"},
         thread'[t].pc \notin Borrowing \cup {"frames"}, thread'[t].bo = thread[t].bo
  PROVE  CoreInv'
<1>1. thread[t].bo = NoBo
  BY DEF CoreInv, BorrowInv
<1>2. GemTypeOK'
  BY DEF CoreInv, GemTypeOK
<1>3. PlainStep(t)
  BY DEF PlainStep, SoftBo, Borrowing
<1>4. Borrows(t)
  BY <1>1 DEF Borrows
<1>5. Balanced(t)
  <2>1. ASSUME NEW b \in Bos
        PROVE bo'[b].refcount - bo[b].refcount =
                held'[b] - held[b] + Is(thread'[t].bo, b) - Is(thread[t].bo, b)
    <3>1. bo[b].refcount \in Nat /\ held[b] \in Nat /\ bo'[b].refcount = bo[b].refcount /\ held' = held
      BY BoTypes DEF CoreInv, SoftBo
    <3>2. Is(NoBo, b) \in Nat
      BY DEF Is
    <3> QED BY <1>1, <3>1, <3>2
  <2> QED BY <2>1 DEF Balanced
<1> QED BY <1>2, <1>3, <1>4, <1>5, PlainInv

(* disable_reuse.                                                          *)
LEMMA DisableReuseInv ==
  ASSUME CoreInv, TRUE \notin CanReject, NEW t \in Threads, NEW b \in Bos, DisableReuse(t, b)
  PROVE  CoreInv'
<1>1. /\ thread[t].pc = "idle" /\ Uses(b) /\ bo' = [bo EXCEPT ![b].reusable = FALSE]
      /\ UNCHANGED << vma, named, cache, time, lock, thread, held, kernel, clock, fault >>
  BY DEF DisableReuse, Calls, At
<1>2. GemTypeOK /\ b \in Used /\ Items(named) \subseteq Bos
  BY <1>1, HeldIsUsed DEF CoreInv, Uses, GemTypeOK, Items
<1> DEFINE r == [bo[b] EXCEPT !.reusable = FALSE]
<1>3. bo' = [bo EXCEPT ![b] = r]
  BY <1>1
<1>4. /\ r \in BoRecord /\ r.name_list = bo[b].name_list /\ r.refcount = bo[b].refcount
      /\ r.relocs = bo[b].relocs /\ r.bucket = bo[b].bucket
  BY <1>2, BoTypes DEF BoRecord
<1> HIDE DEF r
<1>5. SoftBo /\ bo' \in [Bos -> BoRecord] /\ bo'[b] = r /\ \A c \in Bos \ {b} : bo'[c] = bo[c]
  BY <1>2, <1>3, <1>4, SoftPut
<1>6. NamedInv'
  BY <1>1, <1>2, <1>4, <1>5, NamedSame
<1>7. LockMoves(t) /\ \A u \in Threads \ {t} : thread'[u] = thread[u]
  BY <1>1 DEF LockMoves
<1> QED BY <1>1, <1>2, <1>5, <1>6, <1>7, StillInv DEF Borrowing, GemTypeOK

(* The idle flags of some objects are cleared.                             *)
LEMMA IdleCleared ==
  ASSUME GemTypeOK, NEW S,
         bo' = [c \in Bos |-> IF c \in S THEN [bo[c] EXCEPT !.idle = FALSE] ELSE bo[c]]
  PROVE  /\ SoftBo /\ bo' \in [Bos -> BoRecord]
         /\ \A c \in Bos : /\ bo'[c].name_list = bo[c].name_list
                           /\ bo'[c].gem_handle = bo[c].gem_handle
                           /\ bo'[c].reusable = bo[c].reusable
<1>1. ASSUME NEW c \in Bos
      PROVE  /\ bo'[c] \in BoRecord
             /\ bo'[c].refcount = bo[c].refcount /\ bo'[c].relocs = bo[c].relocs
             /\ bo'[c].bucket = bo[c].bucket /\ bo'[c].reusable = bo[c].reusable
             /\ bo'[c].name_list = bo[c].name_list /\ bo'[c].gem_handle = bo[c].gem_handle
  <2> DEFINE r == [bo[c] EXCEPT !.idle = FALSE]
  <2>1. bo[c] \in BoRecord
    BY BoTypes
  <2>2. /\ r \in BoRecord /\ r.name_list = bo[c].name_list /\ r.refcount = bo[c].refcount
        /\ r.relocs = bo[c].relocs /\ r.bucket = bo[c].bucket /\ r.reusable = bo[c].reusable
        /\ r.gem_handle = bo[c].gem_handle
    BY <2>1 DEF BoRecord
  <2>3. bo'[c] = IF c \in S THEN r ELSE bo[c]
    OBVIOUS
  <2> HIDE DEF r
  <2> QED BY <2>1, <2>2, <2>3
<1>2. bo' \in [Bos -> BoRecord]
  BY <1>1
<1> QED BY <1>1, <1>2 DEF SoftBo

(* exec and exec2.                                                         *)
LEMMA ExecInv ==
  ASSUME CoreInv, TRUE \notin CanReject, NEW t \in Threads, NEW b \in Bos, Exec(t, b)
  PROVE  CoreInv'
<1>1. /\ thread[t].pc = "idle" /\ bo' = Executed(b)
      /\ \/ kernel' = [kernel EXCEPT !.busy = @ \cup ({ObjOf(c) : c \in Reach(b)} \ {NoObj})]
         \/ UNCHANGED kernel
      /\ UNCHANGED << vma, named, cache, time, lock, thread, held, clock, fault >>
  BY DEF Exec, Calls, At
<1>2. GemTypeOK /\ kernel \in KernelRecord /\ Items(named) \subseteq Bos
  BY DEF CoreInv, GemTypeOK, Items
<1>3. /\ SoftBo /\ bo' \in [Bos -> BoRecord]
      /\ \A c \in Bos : bo'[c].name_list = bo[c].name_list
  BY <1>1, <1>2, IdleCleared DEF Executed
<1>4. NamedInv'
  BY <1>1, <1>2, <1>3, NamedSame
<1>5. kernel' \in KernelRecord
  <2>1. \A c \in Reach(b) : ObjOf(c) \in Objs \cup {NoObj}
    BY <1>2, ObjOfType DEF Reach
  <2> DEFINE s == kernel.busy \cup ({ObjOf(c) : c \in Reach(b)} \ {NoObj})
  <2>2. s \in SUBSET Objs
    BY <1>2, <2>1, KernelTypes
  <2>3. kernel' = [kernel EXCEPT !.busy = s] \/ kernel' = kernel
    BY <1>1
  <2> HIDE DEF s
  <2> QED BY <1>2, <2>2, <2>3 DEF KernelRecord
<1>6. LockMoves(t) /\ \A u \in Threads \ {t} : thread'[u] = thread[u]
  BY <1>1 DEF LockMoves
<1> QED BY <1>1, <1>2, <1>3, <1>4, <1>5, <1>6, StillInv DEF Borrowing, GemTypeOK

(* The bucket has nothing to give.                                         *)
LEMMA AllocMissInv ==
  ASSUME CoreInv, TRUE \notin CanReject, NEW t \in Threads, AllocMiss(t)
  PROVE  CoreInv'
<1>1. /\ thread[t].pc = "alloc" /\ lock' = NoThread /\ Goto(t, "create")
      /\ bo' = [b \in Bos |-> IF b \in Candidates(t) THEN [bo[b] EXCEPT !.idle = FALSE] ELSE bo[b]]
      /\ UNCHANGED << vma, named, cache, time, held, kernel, clock, fault >>
  BY DEF AllocMiss, At
<1>2. GemTypeOK /\ kernel \in KernelRecord /\ Items(named) \subseteq Bos
  BY DEF CoreInv, GemTypeOK, Items
<1>3. /\ SoftBo /\ bo' \in [Bos -> BoRecord]
      /\ \A c \in Bos : bo'[c].name_list = bo[c].name_list
  BY <1>1, <1>2, IdleCleared
<1>4. NamedInv'
  BY <1>1, <1>2, <1>3, NamedSame
<1>5. /\ thread' \in [Threads -> ThreadRecord]
      /\ thread'[t].pc = "create" /\ thread'[t].bo = thread[t].bo
      /\ \A u \in Threads \ {t} : thread'[u] = thread[u]
  BY <1>1, <1>2, GotoStep DEF Places
<1>6. LockMoves(t)
  BY <1>1, <1>5 DEF LockMoves, Holding
<1> QED BY <1>1, <1>2, <1>3, <1>4, <1>5, <1>6, StillInv DEF Borrowing, GemTypeOK

-----------------------------------------------------------------------------
(* Steps that change a reference count.                                    *)
LEMMA RefcountPut ==
  ASSUME GemTypeOK, NEW b \in Bos, NEW n \in Nat, bo' = [bo EXCEPT ![b].refcount = n]
  PROVE  /\ bo' \in [Bos -> BoRecord] /\ bo'[b].refcount = n
         /\ \A c \in Bos \ {b} : bo'[c].refcount = bo[c].refcount
         /\ \A c \in Bos : /\ bo'[c].relocs = bo[c].relocs /\ bo'[c].bucket = bo[c].bucket
                           /\ bo'[c].reusable = bo[c].reusable
                           /\ bo'[c].name_list = bo[c].name_list
                           /\ bo'[c].gem_handle = bo[c].gem_handle
<1> DEFINE r == [bo[b] EXCEPT !.refcount = n]
<1>1. bo' = [bo EXCEPT ![b] = r]
  OBVIOUS
<1>2. /\ r \in BoRecord /\ r.refcount = n /\ r.name_list = bo[b].name_list
      /\ r.relocs = bo[b].relocs /\ r.bucket = bo[b].bucket /\ r.reusable = bo[b].reusable
      /\ r.gem_handle = bo[b].gem_handle
  BY BoTypes DEF BoRecord
<1> HIDE DEF r
<1>3. bo' \in [Bos -> BoRecord] /\ bo'[b] = r /\ \A c \in Bos \ {b} : bo'[c] = bo[c]
  BY <1>1, <1>2, BoPut
<1> QED BY <1>2, <1>3

(* A step of a call that borrows nothing takes a reference, or drops one   *)
(* that is not the last.                                                   *)
LEMMA RefHeldInv ==
  ASSUME CoreInv, TRUE \notin CanReject, NEW t \in Threads, NEW b \in Used,
         NEW n \in Nat, NEW m \in Nat,
         bo' = [bo EXCEPT ![b].refcount = n], held' = [held EXCEPT ![b] = m],
         n - bo[b].refcount = m - held[b], bo[b].refcount > 0, n > 0,
         UNCHANGED << vma, named, cache, time, lock, clock, fault >>, kernel' \in KernelRecord,
         thread' \in [Threads -> ThreadRecord],
         \A u \in Threads \ {t} : thread'[u] = thread[u],
         thread[t].pc \notin Borrowing \cup {"frames"} \cup Holding,
         thread'[t].pc \notin Borrowing \cup {"frames"} \cup Holding,
         thread'[t].bo = thread[t].bo \/ thread'[t].bo = NoBo
  PROVE  CoreInv'
<1>1. GemTypeOK /\ thread[t].bo = NoBo /\ thread'[t].bo = NoBo /\ b \in Bos
  BY DEF CoreInv, BorrowInv, Used, Live
<1>2. /\ bo' \in [Bos -> BoRecord] /\ bo'[b].refcount = n
      /\ \A c \in Bos \ {b} : bo'[c].refcount = bo[c].refcount
      /\ \A c \in Bos : /\ bo'[c].relocs = bo[c].relocs /\ bo'[c].bucket = bo[c].bucket
                        /\ bo'[c].reusable = bo[c].reusable
                        /\ bo'[c].name_list = bo[c].name_list
  BY <1>1, RefcountPut
<1>3. held' \in [Bos -> Nat] /\ held'[b] = m /\ \A c \in Bos \ {b} : held'[c] = held[c]
  BY <1>1, HeldPut
<1>4. GemTypeOK'
  BY <1>1, <1>2, <1>3 DEF GemTypeOK
<1>5. PlainStep(t)
  <2>1. \A c \in Bos : bo[c].refcount = 0 <=> bo'[c].refcount = 0
    BY <1>2
  <2> QED BY <1>2, <2>1 DEF PlainStep, Borrowing
<1>6. LockMoves(t) /\ Borrows(t)
  BY <1>1 DEF LockMoves, Borrows
<1>7. Balanced(t)
  <2>1. Is(NoBo, b) \in Nat /\ bo[b].refcount \in Nat /\ held[b] \in Nat
    BY <1>1, BoTypes DEF Is
  <2>2. bo'[b].refcount - bo[b].refcount =
          held'[b] - held[b] + Is(thread'[t].bo, b) - Is(thread[t].bo, b)
    BY <1>1, <1>2, <1>3, <2>1
  <2> QED BY <1>1, <1>2, <1>3, <2>2, BalanceAt
<1>8. NamedInv'
  <2>1. Items(named) \subseteq Bos
    BY <1>1 DEF GemTypeOK, Items
  <2> QED BY <1>2, <2>1, NamedSame
<1> QED BY <1>4, <1>5, <1>6, <1>7, <1>8, PlainInv

(* reference.                                                              *)
LEMMA ReferenceInv ==
  ASSUME CoreInv, TRUE \notin CanReject, NEW t \in Threads, NEW b \in Bos, Reference(t, b)
  PROVE  CoreInv'
<1>1. /\ thread[t].pc = "idle" /\ held[b] > 0
      /\ UNCHANGED << vma, named, cache, time, lock, thread, kernel, clock, fault >>
  BY DEF Reference, Calls, At, Uses
<1>2. /\ GemTypeOK /\ b \in Used /\ bo[b].refcount > 0
      /\ bo[b].refcount \in Nat /\ held[b] \in Nat
  BY <1>1, HeldIsUsed, BoTypes DEF CoreInv
<1> DEFINE n == bo[b].refcount + 1
           m == held[b] + 1
<1>3. /\ n \in Nat /\ m \in Nat /\ n > 0 /\ n - bo[b].refcount = m - held[b]
      /\ bo' = [bo EXCEPT ![b].refcount = n] /\ held' = [held EXCEPT ![b] = m]
  BY <1>2 DEF Reference, GiveBack
<1> HIDE DEF n, m
<1> QED BY <1>1, <1>2, <1>3, RefHeldInv DEF GemTypeOK, Borrowing, Holding

(* unreference, up to the lock.                                            *)
LEMMA UnreferenceInv ==
  ASSUME CoreInv, TRUE \notin CanReject, NEW t \in Threads, NEW b \in Bos, Unreference(t, b)
  PROVE  CoreInv'
<1>1. /\ thread[t].pc = "idle" /\ held[b] > 0 /\ Uses(b) /\ Lend(b)
      /\ UNCHANGED << vma, named, cache, time, lock, kernel, clock, fault >>
  BY DEF Unreference, Calls, At, Uses
<1>2. /\ GemTypeOK /\ b \in Used /\ bo[b].refcount > 0
      /\ bo[b].refcount \in Nat /\ held[b] \in Nat /\ clock \in Nat
  BY <1>1, HeldIsUsed, BoTypes DEF CoreInv, GemTypeOK
<1>3. CASE bo[b].refcount = 1
  <2> DEFINE r == [thread[t] EXCEPT !.pc = "unref", !.bo = b, !.time = clock]
  <2>1. bo' = bo /\ thread' = [thread EXCEPT ![t] = r]
    BY <1>2, <1>3 DEF Unreference, GemTypeOK
  <2>2. r \in ThreadRecord /\ r.pc = "unref" /\ r.bo = b
    BY <1>2, ThreadTypes DEF ThreadRecord
  <2> HIDE DEF r
  <2>3. /\ thread' \in [Threads -> ThreadRecord] /\ thread'[t] = r
        /\ \A u \in Threads \ {t} : thread'[u] = thread[u]
    BY <1>2, <2>1, <2>2, ThreadPut
  <2>4. NamedInv' /\ SoftBo /\ bo' \in [Bos -> BoRecord] /\ named' \in Seq(Bos)
    BY <1>1, <1>2, <2>1, NamedSame, SoftSame DEF GemTypeOK
  <2> QED BY <1>1, <2>2, <2>3, <2>4, LendInv DEF Borrowing
<1>4. CASE bo[b].refcount # 1
  <2> DEFINE n == bo[b].refcount - 1
             m == held[b] - 1
  <2>1. /\ n \in Nat /\ m \in Nat /\ n > 0 /\ n - bo[b].refcount = m - held[b]
        /\ bo' = [bo EXCEPT ![b].refcount = n] /\ held' = [held EXCEPT ![b] = m]
        /\ thread' = thread
    BY <1>1, <1>2, <1>4 DEF Unreference, Lend
  <2> HIDE DEF n, m
  <2> QED BY <1>1, <1>2, <2>1, RefHeldInv DEF GemTypeOK, Borrowing, Holding
<1> QED BY <1>3, <1>4

(* A call gives up the reference lent to it, which is not the last.        *)
LEMMA RefBorrowInv ==
  ASSUME CoreInv, TRUE \notin CanReject, NEW t \in Threads, NEW b \in Bos, NEW n \in Nat \ {0},
         thread[t].pc \in Borrowing, thread[t].bo = b, Return(t),
         n = bo[b].refcount - 1, bo' = [bo EXCEPT ![b].refcount = n],
         UNCHANGED << vma, named, cache, time, lock, held, kernel, clock, fault >>
  PROVE  CoreInv'
<1>1. /\ GemTypeOK /\ b \in Used /\ bo[b].refcount > 0
      /\ bo[b].refcount \in Nat /\ held[b] \in Nat /\ NoBo # b
  BY BorrowedIsUsed, BoTypes, GemThreadsAssumption DEF CoreInv
<1>2. /\ thread' \in [Threads -> ThreadRecord] /\ thread'[t].pc = "idle" /\ thread'[t].bo = NoBo
      /\ \A u \in Threads \ {t} : thread'[u] = thread[u]
  BY <1>1, ReturnStep
<1>3. /\ bo' \in [Bos -> BoRecord] /\ bo'[b].refcount = n
      /\ \A c \in Bos \ {b} : bo'[c].refcount = bo[c].refcount
      /\ \A c \in Bos : /\ bo'[c].relocs = bo[c].relocs /\ bo'[c].bucket = bo[c].bucket
                        /\ bo'[c].reusable = bo[c].reusable
                        /\ bo'[c].name_list = bo[c].name_list
  BY ZenonT(40), <1>1, RefcountPut
<1>4. GemTypeOK'
  BY <1>1, <1>2, <1>3 DEF GemTypeOK
<1>5. PlainStep(t)
  <2>1. \A c \in Bos : bo[c].refcount = 0 <=> bo'[c].refcount = 0
    BY <1>1, <1>3
  <2> QED BY <1>2, <1>3, <2>1 DEF PlainStep, Borrowing
<1>6. LockMoves(t) /\ Borrows(t)
  BY <1>2 DEF LockMoves, Borrows, Borrowing, Holding
<1>7. Balanced(t)
  <2>1. Is(thread'[t].bo, b) = 0 /\ Is(thread[t].bo, b) = 1
    BY <1>1, <1>2 DEF Is
  <2>2. bo'[b].refcount - bo[b].refcount =
          held'[b] - held[b] + Is(thread'[t].bo, b) - Is(thread[t].bo, b)
    BY <1>1, <1>3, <2>1
  <2> QED BY <1>1, <1>2, <1>3, <2>2, BalanceAt
<1>8. NamedInv'
  <2>1. Items(named) \subseteq Bos
    BY <1>1 DEF GemTypeOK, Items
  <2> QED BY <1>3, <2>1, NamedSame
<1> QED BY <1>4, <1>5, <1>6, <1>7, <1>8, PlainInv

(* The tiling of an imported object is read, or cannot be.                 *)
LEMMA GetTilingInv ==
  ASSUME CoreInv, TRUE \notin CanReject, NEW t \in Threads, GetTiling(t)
  PROVE  CoreInv'
<1>1. PICK b \in Bos : b = thread[t].bo
  BY DEF GetTiling, At, CoreInv, BorrowInv, Borrowing
<1>2. thread[t].pc = "tiling" /\ UNCHANGED << vma, named, cache, time, lock, kernel, clock >>
  BY DEF GetTiling, At
<1>3. GemTypeOK /\ clock \in Nat /\ bo[b].used_as_reloc_target \in BOOLEAN
  BY BoTypes DEF CoreInv, GemTypeOK
<1>4. CASE /\ fault' = (fault \/ bo[b].used_as_reloc_target)
           /\ GiveBack(b) /\ Return(t) /\ UNCHANGED bo
  <2>1. NamedInv' /\ SoftBo /\ bo' \in [Bos -> BoRecord] /\ named' \in Seq(Bos)
        /\ kernel' \in KernelRecord
    BY <1>2, <1>3, <1>4, NamedSame, SoftSame DEF GemTypeOK
  <2>2. fault' \in BOOLEAN
    BY <1>3, <1>4 DEF GemTypeOK
  <2> QED BY <1>1, <1>2, <1>4, <2>1, <2>2, GiveBackInv DEF Borrowing
<1>5. CASE /\ bo[b].refcount = 1
           /\ thread' = [thread EXCEPT ![t].pc = "unref", ![t].time = clock]
           /\ UNCHANGED << bo, held, fault >>
  <2> DEFINE r == [thread[t] EXCEPT !.pc = "unref", !.time = clock]
  <2>1. thread' = [thread EXCEPT ![t] = r]
    BY <1>3, <1>5 DEF GemTypeOK
  <2>2. r \in ThreadRecord /\ r.pc = "unref" /\ r.bo = b
    BY <1>1, <1>3, ThreadTypes DEF ThreadRecord
  <2> HIDE DEF r
  <2>3. /\ thread' \in [Threads -> ThreadRecord] /\ thread'[t] = r
        /\ \A u \in Threads \ {t} : thread'[u] = thread[u]
    BY <1>3, <2>1, <2>2, ThreadPut
  <2>4. GemTypeOK'
    BY <1>2, <1>3, <1>5, <2>3 DEF GemTypeOK
  <2>5. PlainStep(t)
    BY <1>2, <1>5, <2>2, <2>3 DEF PlainStep
  <2>6. LockMoves(t) /\ Borrows(t)
    BY <1>2, <2>2, <2>3 DEF LockMoves, Borrows, Borrowing, Holding
  <2>7. Balanced(t)
    <3>1. ASSUME NEW c \in Bos
          PROVE bo'[c].refcount - bo[c].refcount =
                  held'[c] - held[c] + Is(thread'[t].bo, c) - Is(thread[t].bo, c)
      <4>1. bo[c].refcount \in Nat /\ held[c] \in Nat /\ Is(b, c) \in Nat
        BY <1>3, BoTypes DEF Is
      <4>2. Is(thread'[t].bo, c) = Is(b, c) /\ Is(thread[t].bo, c) = Is(b, c)
        BY <1>1, <2>2, <2>3
      <4> QED BY <1>5, <4>1, <4>2
    <3> QED BY <3>1 DEF Balanced
  <2>8. NamedInv'
    BY <1>2, <1>5, NamedSame
  <2> QED BY <2>4, <2>5, <2>6, <2>7, <2>8, PlainInv
<1>6. CASE /\ bo[b].refcount # 1 /\ bo' = [bo EXCEPT ![b].refcount = @ - 1] /\ Return(t)
           /\ UNCHANGED << held, fault >>
  <2> DEFINE n == bo[b].refcount - 1
  <2>1. bo[b].refcount \in Nat /\ bo[b].refcount > 0
    BY <1>1, <1>3, BoTypes, BorrowedIsUsed
  <2>2. n \in Nat \ {0} /\ n = bo[b].refcount - 1 /\ bo' = [bo EXCEPT ![b].refcount = n]
    BY <1>6, <2>1
  <2> HIDE DEF n
  <2> QED BY <1>1, <1>2, <1>6, <2>2, RefBorrowInv DEF Borrowing
<1> QED BY <1>1, <1>4, <1>5, <1>6 DEF GetTiling

(* The search of bufmgr_gem->named finds an object that is on it.          *)
LEMMA FirstNamedIn ==
  ASSUME GemTypeOK, NEW S, S # {}, S \subseteq Items(named)
  PROVE  FirstNamed(S) \in S
<1> DEFINE I == {i \in 1 .. Len(named) : named[i] \in S}
<1>1. I \in SUBSET Nat /\ I # {}
  <2>1. PICK x \in S : x \in Items(named)
    OBVIOUS
  <2>2. PICK i \in 1 .. Len(named) : named[i] = x
    BY <2>1 DEF Items
  <2>3. Len(named) \in Nat
    BY DEF GemTypeOK
  <2> QED BY <2>2, <2>3
<1>2. PICK n \in I : \A m \in I : n <= m
  BY <1>1, LeastNatural
<1>3. ASSUME NEW j \in 1 .. n - 1, named[j] \in S PROVE FALSE
  <2>1. Len(named) \in Nat /\ n \in 1 .. Len(named)
    BY <1>2 DEF GemTypeOK
  <2>2. j \in 1 .. Len(named) /\ ~(n <= j)
    BY <2>1
  <2> QED BY <1>2, <1>3, <2>2
<1>4. n \in 1 .. Len(named) /\ named[n] \in S
  BY <1>2
<1>5. \E i \in 1 .. Len(named) : named[i] \in S /\ \A j \in 1 .. i - 1 : named[j] \notin S
  BY <1>3, <1>4
<1> QED BY <1>5 DEF FirstNamed

(* While nobody holds the lock no activation is under way, so every object *)
(* in use has a reference.                                                 *)
LEMMA UnlockedReferenced ==
  ASSUME CoreInv, Unlocked, NEW b \in Used
  PROVE  bo[b].refcount > 0
<1>1. bo[b].refcount \in Nat
  BY BoTypes DEF CoreInv, Used, Live
<1>2. ~TornDown(b)
  <2>1. \A t \in Threads : thread[t].pc # "frames"
    BY GemThreadsAssumption DEF CoreInv, LockInv, Unlocked, Holding
  <2> QED BY <2>1 DEF TornDown
<1>3. bo[b].refcount # 0
  BY <1>2 DEF CoreInv, LeakInv
<1> QED BY <1>1, <1>3

(* An import finds the object on the list.                                 *)
LEMMA FoundInv ==
  ASSUME CoreInv, TRUE \notin CanReject, Unlocked, NEW t \in Threads, NEW b \in Items(named),
         Found(b), UNCHANGED << vma, named, cache, time, lock, clock, fault >>,
         kernel' \in KernelRecord,
         thread' = thread \/ Return(t), thread[t].pc \in {"idle", "prime"}
  PROVE  CoreInv'
<1>1. GemTypeOK /\ b \in Used /\ b \in Bos
  BY DEF CoreInv, NamedInv, Used, Live
<1>2. bo[b].refcount \in Nat /\ held[b] \in Nat /\ bo[b].refcount > 0
  BY <1>1, BoTypes, UnlockedReferenced
<1>3. /\ thread' \in [Threads -> ThreadRecord]
      /\ \A u \in Threads \ {t} : thread'[u] = thread[u]
      /\ thread'[t].pc \in {"idle", "prime"}
      /\ thread'[t].bo = thread[t].bo \/ thread'[t].bo = NoBo
  <2>1. CASE thread' = thread
    BY <1>1, <2>1 DEF GemTypeOK
  <2>2. CASE Return(t)
    BY <1>1, <2>2, ReturnStep
  <2> QED BY <2>1, <2>2
<1> DEFINE n == bo[b].refcount + 1
           m == held[b] + 1
<1>4. /\ n \in Nat /\ m \in Nat /\ n > 0 /\ n - bo[b].refcount = m - held[b]
      /\ bo' = [bo EXCEPT ![b].refcount = n] /\ held' = [held EXCEPT ![b] = m]
  BY <1>2 DEF Found, GiveBack
<1> HIDE DEF n, m
<1> QED BY <1>1, <1>2, <1>3, <1>4, RefHeldInv DEF Borrowing, Holding

-----------------------------------------------------------------------------
(* Objects that appear.                                                    *)

(* What nobody holds is in no hand.                                        *)
LEMMA ParkedFacts ==
  ASSUME CoreInv, NEW b \in Bos \ Used
  PROVE  /\ bo[b].refcount = 0 /\ bo[b].relocs = << >> /\ vma.map_count[b] = 0
         /\ held[b] = 0 /\ b \notin Items(named) /\ \A t \in Threads : thread[t].bo # b
<1>1. bo[b].refcount = 0 /\ bo[b].relocs = << >> /\ vma.map_count[b] = 0 /\ b \notin Items(named)
  BY DEF CoreInv, ParkedInv, NamedInv
<1>2. held[b] \in Nat /\ ~(held[b] > 0)
  BY HeldIsUsed, BoTypes DEF CoreInv
<1>3. \A t \in Threads : thread[t].bo # b
  BY BorrowedIsUsed
<1> QED BY <1>1, <1>2, <1>3

(* The object b becomes used with one reference, held by the application   *)
(* or lent to the call.                                                    *)
LEMMA BirthInv ==
  ASSUME CoreInv, TRUE \notin CanReject, NEW t \in Threads, NEW b \in Bos \ Used,
         [VmaNext]_vma, vma'.map_count = vma.map_count, Used' = Used \cup {b},
         bo' \in [Bos -> BoRecord], \A c \in Bos \ {b} : bo'[c] = bo[c],
         bo'[b].refcount = 1, bo'[b].relocs = << >>,
         CacheInv', NamedInv', named' \in Seq(Bos), cache' \in [Buckets -> Seq(Bos)],
         kernel' \in KernelRecord, UNCHANGED << time, clock, fault >>,
         lock' \in Threads \cup {NoThread}, LockMoves(t),
         thread' \in [Threads -> ThreadRecord], \A u \in Threads \ {t} : thread'[u] = thread[u],
         thread[t].pc \notin Borrowing \cup {"frames"},
         \/ thread'[t].pc \notin Borrowing \cup {"frames"} /\ GiveBack(b)
              /\ (thread'[t].bo = thread[t].bo \/ thread'[t].bo = NoBo)
         \/ thread'[t].pc = "tiling" /\ thread'[t].bo = b /\ UNCHANGED held
  PROVE  CoreInv'
<1>1. /\ GemTypeOK /\ b \in Bos /\ thread[t].bo = NoBo /\ NoBo # b
      /\ VmaInv /\ bo[b].refcount = 0 /\ bo[b].relocs = << >> /\ held[b] = 0
  BY ParkedFacts, GemThreadsAssumption DEF CoreInv, BorrowInv
<1>2. CalmStep(t)
  <2>1. \A c \in Bos : bo'[c].relocs = bo[c].relocs
    BY <1>1
  <2>2. \A c \in Used : bo[c].refcount = 0 => bo'[c].refcount = 0
    BY DEF Used, Live
  <2>3. \A c \in Used' : bo'[c].refcount = 0 => c \in Used /\ bo[c].refcount = 0
    BY DEF Used, Live
  <2>4. \A c \in Bos \ Used' : bo'[c].refcount = 0 /\ vma'.map_count[c] = 0
    BY ParkedFacts
  <2>5. thread'[t].pc # "frames" /\ thread'[t].pc # "clear" /\ thread[t].pc # "frames"
    BY DEF Borrowing
  <2> HIDE DEF Used
  <2> QED BY <2>1, <2>2, <2>3, <2>4, <2>5 DEF CalmStep
<1>3. /\ held' \in [Bos -> Nat] /\ \A c \in Bos \ {b} : held'[c] = held[c]
      /\ \/ held'[b] = 1 /\ thread'[t].bo = NoBo /\ thread'[t].pc \notin Borrowing
         \/ held'[b] = 0 /\ thread'[t].bo = b /\ thread'[t].pc = "tiling"
  <2>1. CASE thread'[t].pc \notin Borrowing \cup {"frames"} /\ GiveBack(b)
              /\ (thread'[t].bo = thread[t].bo \/ thread'[t].bo = NoBo)
    <3>1. held' = [held EXCEPT ![b] = 1]
      BY <1>1, <2>1 DEF GiveBack
    <3> QED BY <1>1, <2>1, <3>1, HeldPut
  <2>2. CASE thread'[t].pc = "tiling" /\ thread'[t].bo = b /\ UNCHANGED held
    BY <1>1, <2>2 DEF GemTypeOK
  <2> QED BY <2>1, <2>2
<1>4. VmaInv'
  BY <1>1, VmaNextInv
<1>5. GemTypeOK'
  BY <1>1, <1>3, <1>4 DEF GemTypeOK, VmaInv, Good
<1>6. Borrows(t)
  BY <1>1, <1>3 DEF Borrows, Borrowing
<1>7. Balanced(t)
  <2>1. /\ Is(thread[t].bo, b) = 0
        /\ \/ held'[b] = 1 /\ Is(thread'[t].bo, b) = 0
           \/ held'[b] = 0 /\ Is(thread'[t].bo, b) = 1
    BY <1>1, <1>3 DEF Is
  <2>2. bo'[b].refcount - bo[b].refcount =
          held'[b] - held[b] + Is(thread'[t].bo, b) - Is(thread[t].bo, b)
    BY <1>1, <2>1
  <2> QED BY <1>1, <1>3, <2>2, BalanceAt
<1> QED BY <1>2, <1>5, <1>6, <1>7, CalmInv

(* A structure is allocated and its vma_list initialised.                  *)
LEMMA NewVma ==
  ASSUME CoreInv, NEW b \in Fresh, vma' = InitVmaList(vma, b), cache' = cache
  PROVE  /\ b \in Bos \ Used /\ [VmaNext]_vma /\ vma'.map_count = vma.map_count
         /\ Used' = Used \cup {b} /\ Live' = Live \cup {b}
<1>1. b \in Bos /\ ~Exists(vma, b) /\ vma.link[b] = "zero" /\ b \notin Live
  BY DEF Fresh, Exists, Live
<1>2. Good(vma) /\ Bounded(vma) /\ VirtualMapped(vma) /\ vma.link \in [Bos -> Links]
  BY DEF CoreInv, VmaInv, Good, VmaState
<1>3. vma'.map_count = vma.map_count /\ vma'.link = [vma.link EXCEPT ![b] = "self"]
  BY <1>1, <1>2, InitListGood
<1>4. Live' = Live \cup {b}
  BY <1>1, <1>2, <1>3 DEF Live, Exists
<1>5. InCache' = InCache /\ InCache \subseteq Live
  BY DEF InCache, CachedIn, CoreInv, CacheInv
<1>6. VmaNext
  <2>1. Create(b)
    BY <1>1 DEF Create
  <2> QED BY <1>1, <2>1 DEF VmaNext
<1> QED BY <1>1, <1>3, <1>4, <1>5, <1>6 DEF Used

(* A new object that is on no list.                                        *)
LEMMA CreatedType ==
  ASSUME NEW h \in Handles, NEW k \in Buckets \cup {NoBucket}
  PROVE  /\ Created(h, k) \in BoRecord /\ Created(h, k).refcount = 1
         /\ Created(h, k).relocs = << >> /\ Created(h, k).gem_handle = h
         /\ Created(h, k).name_list = "self" /\ Created(h, k).bucket = k
         /\ Created(h, k).global_name = NoObj /\ Created(h, k).reusable
<1>1. << >> \in Seq(Bos)
  OBVIOUS
<1> QED BY <1>1 DEF Created, Blank, BoRecord, Links

(* A new object, or none.                                                  *)
LEMMA CreateBoInv ==
  ASSUME CoreInv, TRUE \notin CanReject, NEW t \in Threads, CreateBo(t)
  PROVE  CoreInv'
<1>1. /\ thread[t].pc = "create" /\ Return(t)
      /\ UNCHANGED << named, cache, time, lock, clock, fault >>
  BY DEF CreateBo, At
<1>2. /\ GemTypeOK /\ kernel \in KernelRecord /\ thread[t].bucket \in Buckets \cup {NoBucket}
      /\ named \in Seq(Bos) /\ cache \in [Buckets -> Seq(Bos)] /\ lock \in Threads \cup {NoThread}
  BY ThreadTypes DEF CoreInv, GemTypeOK
<1>3. /\ thread' \in [Threads -> ThreadRecord] /\ thread'[t].pc = "idle" /\ thread'[t].bo = NoBo
      /\ \A u \in Threads \ {t} : thread'[u] = thread[u]
  BY <1>1, <1>2, ReturnStep
<1>4. LockMoves(t)
  BY <1>1, <1>3 DEF LockMoves, Holding
<1>5. CASE UNCHANGED << vma, bo, kernel, held >>
  BY <1>1, <1>2, <1>3, <1>4, <1>5, BookInv DEF GemTypeOK, Borrowing
<1>6. ASSUME NEW b \in Fresh, NEW o \in Dead(kernel), HandlesOf(kernel, NoObj) # {},
             bo' = [bo EXCEPT ![b] = Created(HandleFor(kernel, o), thread[t].bucket)],
             vma' = InitVmaList(vma, b), kernel' = OpenHandle(kernel, o), GiveBack(b)
      PROVE  CoreInv'
  <2>1. o \in Objs /\ CanOpen(kernel, o)
    BY <1>6 DEF Dead, CanOpen
  <2>2. kernel' \in KernelRecord /\ HandleFor(kernel, o) \in Handles
    BY <1>2, <1>6, <2>1, OpenType, HandleForType
  <2>3. /\ b \in Bos \ Used /\ [VmaNext]_vma /\ vma'.map_count = vma.map_count
        /\ Used' = Used \cup {b} /\ Live' = Live \cup {b}
    BY <1>1, <1>6, NewVma
  <2> DEFINE r == Created(HandleFor(kernel, o), thread[t].bucket)
  <2>4. r \in BoRecord /\ r.refcount = 1 /\ r.relocs = << >>
    BY <1>2, <2>2, CreatedType
  <2>5. bo' = [bo EXCEPT ![b] = r]
    BY <1>6
  <2> HIDE DEF r
  <2>6. bo' \in [Bos -> BoRecord] /\ bo'[b] = r /\ \A c \in Bos \ {b} : bo'[c] = bo[c]
    BY <1>2, <2>3, <2>4, <2>5, BoPut
  <2>7. b \notin Items(named) /\ b \notin InCache
    BY <1>6 DEF CoreInv, NamedInv, Used, Live, Fresh, CacheInv, InCache
  <2>8. NamedInv'
    <3>1. \A c \in Items(named) : c \in Bos \ {b}
      BY <1>2, <2>7, NamedBos
    <3> QED BY <1>1, <2>3, <2>6, <3>1, NamedKept
  <2>9. CacheInv'
    BY <1>1, <2>3, <2>6, <2>7, CacheFresh
  <2> QED BY <1>1, <1>2, <1>3, <1>4, <1>6, <2>2, <2>3, <2>4, <2>6, <2>8, <2>9, BirthInv
          DEF Borrowing
<1> QED BY <1>1, <1>5, <1>6 DEF CreateBo

(* An object made by an import.                                            *)
LEMMA ImportedType ==
  ASSUME NEW h \in Handles \cup {0}, NEW o \in Objs \cup {NoObj}
  PROVE  /\ Imported(h, o) \in BoRecord /\ Imported(h, o).refcount = 1
         /\ Imported(h, o).relocs = << >> /\ Imported(h, o).gem_handle = h
         /\ Imported(h, o).name_list = "linked" /\ Imported(h, o).global_name = o
         /\ ~Imported(h, o).reusable
<1>1. << >> \in Seq(Bos)
  OBVIOUS
<1> QED BY <1>1 DEF Imported, Blank, BoRecord, Links

(* An import makes a structure and puts it on bufmgr_gem->named.           *)
LEMMA ImportMakes ==
  ASSUME CoreInv, NEW b \in Fresh, NEW h \in Handles \cup {0}, NEW o \in Objs \cup {NoObj},
         bo' = [bo EXCEPT ![b] = Imported(h, o)], vma' = InitVmaList(vma, b),
         named' = Append(named, b), cache' = cache
  PROVE  /\ b \in Bos \ Used /\ [VmaNext]_vma /\ vma'.map_count = vma.map_count
         /\ Used' = Used \cup {b}
         /\ bo' \in [Bos -> BoRecord] /\ \A c \in Bos \ {b} : bo'[c] = bo[c]
         /\ bo'[b].refcount = 1 /\ bo'[b].relocs = << >>
         /\ CacheInv' /\ NamedInv' /\ named' \in Seq(Bos)
<1>1. /\ b \in Bos \ Used /\ [VmaNext]_vma /\ vma'.map_count = vma.map_count
      /\ Used' = Used \cup {b} /\ Live' = Live \cup {b}
  BY NewVma
<1>2. GemTypeOK /\ named \in Seq(Bos) /\ Items(named) \subseteq Bos
  BY NamedBos DEF CoreInv
<1> DEFINE r == Imported(h, o)
<1>3. r \in BoRecord /\ r.refcount = 1 /\ r.relocs = << >> /\ r.name_list = "linked"
  BY ImportedType
<1> HIDE DEF r
<1>4. bo' \in [Bos -> BoRecord] /\ bo'[b] = r /\ \A c \in Bos \ {b} : bo'[c] = bo[c]
  BY <1>1, <1>2, <1>3, BoPut DEF r
<1>5. b \notin Items(named) /\ b \notin InCache
  BY DEF CoreInv, NamedInv, Used, Live, Fresh, CacheInv, InCache
<1>6. CacheInv'
  BY <1>1, <1>4, <1>5, CacheFresh
<1>7. /\ NoDuplicates(named)
      /\ \A c \in Items(named) : c \in Used /\ bo[c].name_list = "linked" /\ c \in Bos \ {b}
  BY <1>2, <1>5 DEF CoreInv, NamedInv
<1>8. named' \in Seq(Bos) /\ Items(named') = Items(named) \cup {b} /\ NoDuplicates(named')
  BY <1>1, <1>2, <1>5, <1>7, AppendItems
<1>9. ASSUME NEW c \in Items(named') PROVE c \in Used' /\ bo'[c].name_list = "linked"
  BY <1>1, <1>3, <1>4, <1>7, <1>8
<1>10. NamedInv'
  BY <1>8, <1>9 DEF NamedInv
<1> QED BY <1>1, <1>3, <1>4, <1>6, <1>8, <1>10

(* create_from_name.                                                       *)
LEMMA CreateFromNameInv ==
  ASSUME CoreInv, TRUE \notin CanReject, NEW t \in Threads, NEW o \in Objs, CreateFromName(t, o)
  PROVE  CoreInv'
<1> DEFINE h == HandleFor(kernel, o)
<1>1. /\ thread[t].pc = "idle" /\ Unlocked /\ UNCHANGED << cache, time, clock, fault >>
  BY DEF CreateFromName, Calls, At
<1>2. /\ GemTypeOK /\ kernel \in KernelRecord /\ cache \in [Buckets -> Seq(Bos)]
      /\ lock \in Threads \cup {NoThread} /\ thread \in [Threads -> ThreadRecord]
  BY DEF CoreInv, GemTypeOK
<1>3. CASE /\ WithName(o) # {}
           /\ Found(FirstNamed(WithName(o)))
           /\ UNCHANGED << vma, named, lock, thread, kernel >>
  <2>1. FirstNamed(WithName(o)) \in Items(named)
    <3>1. WithName(o) \subseteq Items(named)
      BY DEF WithName
    <3> QED BY <1>2, <1>3, <3>1, FirstNamedIn
  <2> QED BY <1>1, <1>2, <1>3, <2>1, FoundInv
<1>4. CASE o \in kernel.flinked /\ CanOpen(kernel, o) /\ kernel' = OpenHandle(kernel, o)
           /\ WithHandle(h) # {} /\ Found(FirstNamed(WithHandle(h)))
           /\ UNCHANGED << vma, named, lock, thread >>
  <2>1. FirstNamed(WithHandle(h)) \in Items(named)
    <3>1. WithHandle(h) \subseteq Items(named)
      BY DEF WithHandle
    <3> QED BY <1>2, <1>4, <3>1, FirstNamedIn
  <2>2. kernel' \in KernelRecord
    BY <1>2, <1>4, OpenType
  <2> QED BY <1>1, <1>2, <1>4, <2>1, <2>2, FoundInv
<1>5. ASSUME CanOpen(kernel, o), kernel' = OpenHandle(kernel, o),
             NEW b \in Fresh, bo' = [bo EXCEPT ![b] = Imported(h, o)],
             vma' = InitVmaList(vma, b), named' = Append(named, b), GiveBack(b),
             UNCHANGED << lock, thread >>
      PROVE  CoreInv'
  <2>1. kernel' \in KernelRecord /\ h \in Handles
    BY <1>2, <1>5, OpenType, HandleForType
  <2> HIDE DEF h
  <2>2. /\ b \in Bos \ Used /\ [VmaNext]_vma /\ vma'.map_count = vma.map_count
        /\ Used' = Used \cup {b}
        /\ bo' \in [Bos -> BoRecord] /\ \A c \in Bos \ {b} : bo'[c] = bo[c]
        /\ bo'[b].refcount = 1 /\ bo'[b].relocs = << >>
        /\ CacheInv' /\ NamedInv' /\ named' \in Seq(Bos)
    BY <1>1, <1>5, <2>1, ImportMakes
  <2>3. LockMoves(t) /\ \A u \in Threads \ {t} : thread'[u] = thread[u]
    BY <1>5 DEF LockMoves
  <2> QED BY <1>1, <1>2, <1>5, <2>1, <2>2, <2>3, BirthInv DEF Borrowing
<1>6. CASE CanOpen(kernel, o) /\ kernel' = OpenHandle(kernel, o) /\ lock' = t
           /\ Goto(t, "deadlock") /\ UNCHANGED << vma, bo, named, held >>
  <2>1. kernel' \in KernelRecord
    BY <1>2, <1>6, OpenType
  <2>2. /\ thread' \in [Threads -> ThreadRecord]
        /\ thread'[t].pc = "deadlock" /\ thread'[t].bo = thread[t].bo
        /\ \A u \in Threads \ {t} : thread'[u] = thread[u]
    BY <1>2, <1>6, GotoStep DEF Places
  <2>3. LockMoves(t)
    BY <1>1, <1>6, <2>2 DEF LockMoves, Holding, Unlocked
  <2> QED BY <1>1, <1>2, <1>6, <2>1, <2>2, <2>3, BookInv DEF GemTypeOK, Borrowing
<1>7. CASE /\ CanOpen(kernel, o) /\ kernel' = Leak(OpenHandle(kernel, o), h)
           /\ UNCHANGED << vma, bo, named, held, lock, thread >>
  <2> DEFINE k == OpenHandle(kernel, o)
  <2>1. k \in KernelRecord /\ h \in Handles
    BY <1>2, <1>7, OpenType, HandleForType
  <2>2. k.leaked \cup {h} \in SUBSET (Handles \cup {0})
    BY <2>1, KernelTypes
  <2>3. kernel' = [k EXCEPT !.leaked = k.leaked \cup {h}]
    BY <1>7 DEF Leak
  <2> HIDE DEF k, h
  <2>4. kernel' \in KernelRecord
    BY <2>1, <2>2, <2>3, LeakType
  <2>5. LockMoves(t)
    BY <1>7 DEF LockMoves
  <2> QED BY <1>1, <1>2, <1>7, <2>4, <2>5, BookInv DEF GemTypeOK, Borrowing
<1> QED BY <1>3, <1>4, <1>5, <1>6, <1>7 DEF CreateFromName

(* create_from_prime under the lock.                                       *)
LEMMA CreateFromPrimeInv ==
  ASSUME CoreInv, TRUE \notin CanReject, NEW t \in Threads, CreateFromPrime(t)
  PROVE  CoreInv'
<1> DEFINE h == thread[t].handle
<1>1. /\ thread[t].pc = "prime" /\ Unlocked /\ UNCHANGED << cache, time, lock, clock, fault >>
  BY DEF CreateFromPrime, At
<1>2. /\ GemTypeOK /\ kernel \in KernelRecord /\ cache \in [Buckets -> Seq(Bos)]
      /\ lock \in Threads \cup {NoThread} /\ h \in Handles \cup {0}
  BY ThreadTypes DEF CoreInv, GemTypeOK
<1>0. kernel' \in KernelRecord
  <2>1. /\ kernel.leaked \cup {h} \in SUBSET (Handles \cup {0})
        /\ kernel.leaked \ {h} \in SUBSET (Handles \cup {0})
    BY <1>2, KernelTypes
  <2>2. \/ kernel' = kernel
        \/ kernel' = [kernel EXCEPT !.leaked = kernel.leaked \cup {h}]
        \/ kernel' = [kernel EXCEPT !.leaked = kernel.leaked \ {h}]
    BY DEF CreateFromPrime, Leak
  <2> DEFINE l == kernel.leaked \cup {h}
             m == kernel.leaked \ {h}
  <2>3. [kernel EXCEPT !.leaked = l] \in KernelRecord /\ [kernel EXCEPT !.leaked = m] \in KernelRecord
    <3> HIDE DEF l, m
    <3> QED BY <1>2, <2>1, LeakType DEF l, m
  <2> QED BY <1>2, <2>2, <2>3
<1>3. CASE /\ WithHandle(h) # {} /\ Found(FirstNamed(WithHandle(h)))
           /\ Return(t) /\ UNCHANGED << vma, named >>
  <2>1. FirstNamed(WithHandle(h)) \in Items(named)
    <3>1. WithHandle(h) \subseteq Items(named)
      BY DEF WithHandle
    <3> QED BY <1>2, <1>3, <3>1, FirstNamedIn
  <2> QED BY <1>0, <1>1, <1>2, <1>3, <2>1, FoundInv
<1>4. CASE Return(t) /\ UNCHANGED << vma, bo, named, held >>
  <2>1. /\ thread' \in [Threads -> ThreadRecord] /\ thread'[t].pc = "idle" /\ thread'[t].bo = NoBo
        /\ \A u \in Threads \ {t} : thread'[u] = thread[u]
    BY <1>2, <1>4, ReturnStep
  <2>2. LockMoves(t)
    BY <1>1, <2>1 DEF LockMoves, Holding
  <2> QED BY <1>0, <1>1, <1>2, <1>4, <2>1, <2>2, BookInv DEF GemTypeOK, Borrowing
<1>5. ASSUME NEW b \in Fresh, bo' = [bo EXCEPT ![b] = Imported(h, NoObj)],
             vma' = InitVmaList(vma, b), named' = Append(named, b),
             thread' = [thread EXCEPT ![t] = [Idle EXCEPT !.pc = "tiling", !.bo = b]],
             UNCHANGED held
      PROVE  CoreInv'
  <2>0. h \in Handles \cup {0} /\ NoObj \in Objs \cup {NoObj}
    BY <1>2
  <2> HIDE DEF h
  <2>1. /\ b \in Bos \ Used /\ [VmaNext]_vma /\ vma'.map_count = vma.map_count
        /\ Used' = Used \cup {b}
        /\ bo' \in [Bos -> BoRecord] /\ \A c \in Bos \ {b} : bo'[c] = bo[c]
        /\ bo'[b].refcount = 1 /\ bo'[b].relocs = << >>
        /\ CacheInv' /\ NamedInv' /\ named' \in Seq(Bos)
    BY <1>1, <1>5, <2>0, ImportMakes
  <2> DEFINE r == [Idle EXCEPT !.pc = "tiling", !.bo = b]
  <2>2. r \in ThreadRecord /\ r.pc = "tiling" /\ r.bo = b
    <3>1. b \in Bos /\ << >> \in Seq(Frame)
      BY <2>1
    <3> QED BY <3>1 DEF Idle, ThreadRecord
  <2>3. thread' = [thread EXCEPT ![t] = r]
    BY <1>5
  <2> HIDE DEF r
  <2>4. /\ thread' \in [Threads -> ThreadRecord] /\ thread'[t] = r
        /\ \A u \in Threads \ {t} : thread'[u] = thread[u]
    BY <1>2, <2>2, <2>3, ThreadPut
  <2>5. LockMoves(t)
    BY <1>1, <2>2, <2>4 DEF LockMoves, Holding
  <2> QED BY <1>0, <1>1, <1>2, <1>5, <2>1, <2>2, <2>4, <2>5, BirthInv DEF Borrowing
<1> QED BY <1>3, <1>4, <1>5 DEF CreateFromPrime

-----------------------------------------------------------------------------
(* Objects that leave the cache.                                           *)

(* A cached object is live, parked and on one bucket.                      *)
LEMMA CachedFacts ==
  ASSUME CoreInv, NEW k \in Buckets, NEW b \in Items(cache[k])
  PROVE  /\ b \in Bos \ Used /\ b \in Live /\ b \in InCache
         /\ bo[b].bucket = k /\ bo[b].reusable
         /\ \A j \in Buckets \ {k} : b \notin Items(cache[j])
BY DEF CoreInv, CacheInv, CachedIn, InCache, Used, Live

(* The buckets once b has been taken from bucket k.                        *)
LEMMA CacheTaken ==
  ASSUME CoreInv, NEW k \in Buckets, NEW b \in Items(cache[k]), NEW list \in Seq(Bos),
         NoDuplicates(list), Items(list) = Items(cache[k]) \ {b},
         cache' = [cache EXCEPT ![k] = list],
         \A c \in Bos \ {b} : bo'[c] = bo[c], Live \ {b} \subseteq Live'
  PROVE  CacheInv' /\ cache' \in [Buckets -> Seq(Bos)] /\ InCache' = InCache \ {b}
<1>1. cache \in [Buckets -> Seq(Bos)]
  BY DEF CoreInv, GemTypeOK
<1>2. /\ cache' \in [Buckets -> Seq(Bos)] /\ cache'[k] = list
      /\ \A j \in Buckets \ {k} : cache'[j] = cache[j]
  BY <1>1
<1>3. ASSUME NEW j \in Buckets
      PROVE  NoDuplicates(cache'[j]) /\ Items(cache'[j]) = Items(cache[j]) \ {b}
  <2>1. NoDuplicates(cache[j]) /\ (j # k => b \notin Items(cache[j]))
    BY CachedFacts DEF CoreInv, CacheInv
  <2> QED BY <1>2, <2>1
<1>4. ASSUME NEW j \in Buckets, NEW c \in Items(cache'[j])
      PROVE  c \in Live' /\ bo'[c].bucket = j /\ bo'[c].reusable
  <2>1. c \in Items(cache[j]) /\ c # b
    BY <1>3
  <2>2. c \in Live /\ c \in Bos /\ bo[c].bucket = j /\ bo[c].reusable
    BY <2>1, CachedFacts
  <2> QED BY <2>1, <2>2
<1>5. InCache' = InCache \ {b}
  <2>1. ASSUME NEW c PROVE c \in InCache <=> \E j \in Buckets : c \in Items(cache[j])
    BY DEF InCache, CachedIn
  <2>2. ASSUME NEW c PROVE c \in InCache' <=> \E j \in Buckets : c \in Items(cache'[j])
    BY DEF InCache, CachedIn
  <2>3. ASSUME NEW c PROVE c \in InCache' <=> c \in InCache /\ c # b
    <3>1. \A j \in Buckets : c \in Items(cache'[j]) <=> c \in Items(cache[j]) /\ c # b
      BY <1>3
    <3>2. c \in InCache <=> \E j \in Buckets : c \in Items(cache[j])
      BY <2>1
    <3>3. c \in InCache' <=> \E j \in Buckets : c \in Items(cache'[j])
      BY <2>2
    <3> QED BY <3>1, <3>2, <3>3, Zenon
  <2> QED BY <2>3
<1> QED BY <1>2, <1>3, <1>4, <1>5 DEF CacheInv, CachedIn

(* A structure that calloc has cleared.                                    *)
LEMMA BlankType ==
  Blank \in BoRecord /\ Blank.refcount = 0 /\ Blank.relocs = << >> /\ Blank.gem_handle = 0
<1>1. << >> \in Seq(Bos)
  OBVIOUS
<1> QED BY <1>1 DEF Blank, BoRecord, Links

(* drm_intel_gem_bo_free of a cached object.                               *)
LEMMA CachedFreeInv ==
  ASSUME CoreInv, TRUE \notin CanReject, NEW t \in Threads,
         NEW k \in Buckets, NEW b \in Items(cache[k]), NEW list \in Seq(Bos),
         NoDuplicates(list), Items(list) = Items(cache[k]) \ {b},
         cache' = [cache EXCEPT ![k] = list], FreeBo(b),
         UNCHANGED << named, time, lock, held, clock, fault >>,
         thread' \in [Threads -> ThreadRecord], \A u \in Threads \ {t} : thread'[u] = thread[u],
         thread[t].pc \in {"alloc", "purge", "cleanup"},
         thread'[t].pc \in {"alloc", "purge", "cleanup"}, thread'[t].bo = thread[t].bo
  PROVE  CoreInv'
<1>1. /\ GemTypeOK /\ VmaInv /\ Good(vma) /\ Bounded(vma) /\ VirtualMapped(vma)
      /\ vma.link \in [Bos -> Links] /\ thread[t].bo = NoBo /\ kernel \in KernelRecord
  BY DEF CoreInv, VmaInv, Good, VmaState, BorrowInv, Borrowing, GemTypeOK
<1>2. /\ b \in Bos \ Used /\ b \in Live /\ b \in InCache
      /\ bo[b].refcount = 0 /\ bo[b].relocs = << >> /\ vma.map_count[b] = 0
      /\ held[b] = 0 /\ b \notin Items(named)
  BY CachedFacts, ParkedFacts
<1>3. vma' = FreeVma(vma, b) /\ vma.link[b] # "zero"
  BY <1>2 DEF FreeBo, Live, Exists
<1>4. vma'.map_count = vma.map_count /\ vma'.link = [vma.link EXCEPT ![b] = "zero"]
  BY <1>1, <1>2, <1>3, FreeGood
<1>5. VmaNext
  <2>1. Free(b)
    BY <1>2, <1>3 DEF Free, DropMappings, Exists
  <2> QED BY <1>2, <2>1 DEF VmaNext
<1>6. Live' = Live \ {b}
  BY <1>1, <1>2, <1>4 DEF Live, Exists
<1>7. bo' \in [Bos -> BoRecord] /\ bo'[b] = Blank /\ \A c \in Bos \ {b} : bo'[c] = bo[c]
  <2>1. bo' = [bo EXCEPT ![b] = Blank]
    BY DEF FreeBo
  <2> QED BY <1>1, <1>2, <2>1, BlankType, BoPut
<1>8. CacheInv' /\ cache' \in [Buckets -> Seq(Bos)] /\ InCache' = InCache \ {b}
  BY <1>6, <1>7, CacheTaken
<1>9. Used' = Used
  BY <1>2, <1>6, <1>8 DEF Used
<1>10. NamedInv'
  <2>1. \A c \in Items(named) : c \in Bos \ {b}
    BY <1>1, <1>2, NamedBos
  <2> QED BY <1>7, <1>9, <2>1, NamedKept
<1>11. CalmStep(t)
  <2>1. \A c \in Bos : bo'[c].relocs = bo[c].relocs /\ bo'[c].refcount = bo[c].refcount
    BY <1>2, <1>7, BlankType
  <2>2. \A c \in Bos \ Used' : bo'[c].refcount = 0 /\ vma'.map_count[c] = 0
    BY <1>4, <1>9, <2>1, ParkedFacts
  <2>3. Used \subseteq Bos
    BY DEF Used, Live
  <2> QED BY <1>9, <2>1, <2>2, <2>3 DEF CalmStep
<1>12. kernel' \in KernelRecord
  BY <1>1, CloseAnyType DEF FreeBo
<1>13. GemTypeOK'
  <2>1. VmaInv'
    BY <1>1, <1>5, VmaNextInv
  <2> QED BY <1>1, <1>7, <1>8, <1>12, <2>1 DEF GemTypeOK, VmaInv, Good
<1>14. LockMoves(t) /\ Borrows(t)
  BY <1>1 DEF LockMoves, Borrows, Holding, Borrowing
<1>15. Balanced(t)
  <2>1. ASSUME NEW c \in Bos
        PROVE bo'[c].refcount - bo[c].refcount =
                held'[c] - held[c] + Is(thread'[t].bo, c) - Is(thread[t].bo, c)
    <3>1. /\ bo[c].refcount \in Nat /\ held[c] \in Nat /\ held' = held
          /\ bo'[c].refcount = bo[c].refcount
      BY <1>1, <1>2, <1>7, BoTypes, BlankType
    <3>2. Is(NoBo, c) \in Nat
      BY DEF Is
    <3> QED BY <1>1, <3>1, <3>2
  <2> QED BY <2>1 DEF Balanced
<1> QED BY <1>5, <1>8, <1>10, <1>11, <1>13, <1>14, <1>15, CalmInv

(* DRMLISTDEL of the first member of a bucket.                             *)
LEMMA TailItems ==
  ASSUME NEW S, NEW list \in Seq(S), list # << >>, NoDuplicates(list)
  PROVE  /\ Tail(list) \in Seq(S) /\ list[1] \in Items(list)
         /\ Items(Tail(list)) = Items(list) \ {list[1]} /\ NoDuplicates(Tail(list))
<1>1. /\ Len(list) \in Nat \ {0} /\ Tail(list) \in Seq(S) /\ Len(Tail(list)) = Len(list) - 1
      /\ \A i \in 1 .. Len(list) - 1 : Tail(list)[i] = list[i + 1]
  OBVIOUS
<1>2. list[1] \in Items(list)
  BY <1>1 DEF Items
<1> DEFINE new == Tail(list)
<1> HIDE DEF new
<1>3. ASSUME NEW y \in Items(new) PROVE y \in Items(list) \ {list[1]}
  BY <1>1 DEF Items, NoDuplicates, new
<1>4. ASSUME NEW y \in Items(list), y # list[1] PROVE y \in Items(new)
  <2>1. PICK i \in 1 .. Len(list) : y = list[i]
    BY DEF Items
  <2>2. i - 1 \in 1 .. Len(new) /\ new[i - 1] = y
    BY <1>1, <1>4, <2>1 DEF new
  <2> QED BY <2>2 DEF Items
<1>5. NoDuplicates(new)
  BY <1>1 DEF NoDuplicates, new
<1> QED BY <1>1, <1>2, <1>3, <1>4, <1>5 DEF new

(* The cleanup frees an aged object.                                       *)
LEMMA CleanupFreeInv ==
  ASSUME CoreInv, TRUE \notin CanReject, NEW t \in Threads, CleanupFree(t)
  PROVE  CoreInv'
<1>1. PICK k \in Buckets : /\ cache[k] # << >> /\ FreeBo(cache[k][1])
                           /\ cache' = [cache EXCEPT ![k] = Tail(@)]
  BY DEF CleanupFree, Expired
<1>2. /\ thread[t].pc = "cleanup"
      /\ UNCHANGED << named, time, lock, thread, held, clock, fault >>
  BY DEF CleanupFree, At
<1>3. /\ GemTypeOK /\ thread \in [Threads -> ThreadRecord] /\ cache[k] \in Seq(Bos)
      /\ NoDuplicates(cache[k]) /\ cache' = [cache EXCEPT ![k] = Tail(cache[k])]
  BY <1>1 DEF CoreInv, GemTypeOK, CacheInv
<1>4. /\ Tail(cache[k]) \in Seq(Bos) /\ cache[k][1] \in Items(cache[k])
      /\ Items(Tail(cache[k])) = Items(cache[k]) \ {cache[k][1]} /\ NoDuplicates(Tail(cache[k]))
  BY <1>1, <1>3, TailItems
<1> QED BY <1>1, <1>2, <1>3, <1>4, CachedFreeInv

(* A turn of the purge of a bucket.                                        *)
LEMMA PurgeBucketInv ==
  ASSUME CoreInv, TRUE \notin CanReject, NEW t \in Threads, PurgeBucket(t)
  PROVE  CoreInv'
<1> DEFINE k == thread[t].bucket
           list == Bucket(k)
<1>1. thread[t].pc = "purge" /\ UNCHANGED << named, time, lock, held, clock, fault >>
  BY DEF PurgeBucket, At
<1>2. GemTypeOK /\ kernel \in KernelRecord
  BY DEF CoreInv, GemTypeOK
<1>3. CASE Goto(t, "alloc") /\ UNCHANGED << vma, bo, cache, kernel >>
  <2>1. /\ thread' \in [Threads -> ThreadRecord]
        /\ thread'[t].pc = "alloc" /\ thread'[t].bo = thread[t].bo
        /\ \A u \in Threads \ {t} : thread'[u] = thread[u]
    BY <1>2, <1>3, GotoStep DEF Places
  <2>2. LockMoves(t)
    BY <1>1, <2>1 DEF LockMoves, Holding
  <2> QED BY <1>1, <1>2, <1>3, <2>1, <2>2, BookInv DEF GemTypeOK, Borrowing
<1>4. CASE /\ list # << >> /\ FreeBo(list[1])
           /\ cache' = [cache EXCEPT ![k] = Tail(@)] /\ UNCHANGED thread
  <2>1. k \in Buckets /\ list = cache[k]
    BY <1>4 DEF Bucket
  <2>2. /\ thread \in [Threads -> ThreadRecord] /\ cache[k] \in Seq(Bos)
        /\ NoDuplicates(cache[k]) /\ cache' = [cache EXCEPT ![k] = Tail(cache[k])]
    BY <1>4, <2>1 DEF CoreInv, GemTypeOK, CacheInv
  <2>3. /\ Tail(cache[k]) \in Seq(Bos) /\ cache[k][1] \in Items(cache[k])
        /\ Items(Tail(cache[k])) = Items(cache[k]) \ {cache[k][1]} /\ NoDuplicates(Tail(cache[k]))
    BY <1>4, <2>1, <2>2, TailItems
  <2> HIDE DEF k, list
  <2> QED BY <1>1, <1>4, <2>1, <2>2, <2>3, CachedFreeInv
<1> QED BY <1>3, <1>4 DEF PurgeBucket

(* What the search of alloc looks at is on the bucket.                     *)
LEMMA CandidateCached ==
  ASSUME GemTypeOK, NEW t \in Threads, NEW b \in Candidates(t)
  PROVE  thread[t].bucket \in Buckets /\ b \in Items(cache[thread[t].bucket])
<1> DEFINE list == Bucket(thread[t].bucket)
<1>1. list # << >> /\ b = list[IF thread[t].flag THEN Len(list) ELSE 1]
  BY DEF Candidates
<1>2. thread[t].bucket \in Buckets /\ list = cache[thread[t].bucket] /\ list \in Seq(Bos)
  BY <1>1 DEF Bucket, GemTypeOK
<1> HIDE DEF list
<1>3. Len(list) \in 1 .. Len(list) /\ 1 \in 1 .. Len(list)
  BY <1>1, <1>2
<1> QED BY <1>1, <1>2, <1>3 DEF Items

(* alloc_internal takes a cached object, or frees one that lost its pages. *)
LEMMA AllocHitInv ==
  ASSUME CoreInv, TRUE \notin CanReject, NEW t \in Threads, AllocHit(t)
  PROVE  CoreInv'
<1> DEFINE k == thread[t].bucket
<1>1. /\ thread[t].pc = "alloc" /\ UNCHANGED << named, time, clock, fault >>
  BY DEF AllocHit, At
<1>2. PICK b \in Candidates(t) :
        /\ cache' = [cache EXCEPT ![k] = RemoveItem(@, b)]
        /\ \/ FreeBo(b) /\ Goto(t, "purge") /\ UNCHANGED << lock, held >>
           \/ Reuse(t, b)
  BY DEF AllocHit
<1>3. GemTypeOK /\ kernel \in KernelRecord /\ thread \in [Threads -> ThreadRecord]
  BY DEF CoreInv, GemTypeOK
<1>4. k \in Buckets /\ b \in Items(cache[k])
  BY <1>3, CandidateCached
<1> HIDE DEF k
<1> DEFINE list == RemoveItem(cache[k], b)
<1>5. /\ list \in Seq(Bos) /\ NoDuplicates(list) /\ Items(list) = Items(cache[k]) \ {b}
      /\ cache' = [cache EXCEPT ![k] = list]
  <2>1. cache[k] \in Seq(Bos) /\ NoDuplicates(cache[k])
    BY <1>4 DEF CoreInv, GemTypeOK, CacheInv
  <2> QED BY <1>2, <2>1, RemoveItemItems
<1> HIDE DEF list
<1>6. CASE FreeBo(b) /\ Goto(t, "purge") /\ UNCHANGED << lock, held >>
  <2>1. /\ thread' \in [Threads -> ThreadRecord]
        /\ thread'[t].pc = "purge" /\ thread'[t].bo = thread[t].bo
        /\ \A u \in Threads \ {t} : thread'[u] = thread[u]
    BY <1>3, <1>6, GotoStep DEF Places
  <2> QED BY <1>1, <1>4, <1>5, <1>6, <2>1, CachedFreeInv
<1>7. CASE Reuse(t, b)
  <2>1. /\ b \in Bos \ Used /\ b \in Live /\ b \in InCache /\ bo[b].relocs = << >>
        /\ b \notin Items(named)
    BY <1>4, CachedFacts, ParkedFacts
  <2>2. /\ kernel' = Madvise(kernel, ObjOf(b), FALSE) /\ vma' = vma
        /\ lock' = NoThread /\ GiveBack(b) /\ Return(t)
    BY <1>7 DEF Reuse
  <2>3. kernel' \in KernelRecord
    BY <1>3, <2>1, <2>2, MadviseType, ObjOfType
  <2>4. /\ thread' \in [Threads -> ThreadRecord] /\ thread'[t].pc = "idle" /\ thread'[t].bo = NoBo
        /\ \A u \in Threads \ {t} : thread'[u] = thread[u]
    BY <1>3, <2>2, ReturnStep
  <2> DEFINE i == bo[b].idle \/ (~thread[t].flag /\ ObjOf(b) # NoObj)
             r == [bo[b] EXCEPT !.refcount = 1, !.reusable = TRUE, !.idle = i,
                                !.used_as_reloc_target = FALSE]
  <2>5. bo' = [bo EXCEPT ![b] = r]
    BY <1>3, <1>7, <2>1 DEF Reuse, GemTypeOK
  <2>6. i \in BOOLEAN
    BY <1>3, <2>1, BoTypes
  <2> HIDE DEF i
  <2>7. r \in BoRecord /\ r.refcount = 1 /\ r.relocs = << >>
    BY <1>3, <2>1, <2>6, BoTypes DEF BoRecord
  <2> HIDE DEF r
  <2>8. bo' \in [Bos -> BoRecord] /\ bo'[b] = r /\ \A c \in Bos \ {b} : bo'[c] = bo[c]
    BY <1>3, <2>1, <2>5, <2>7, BoPut
  <2>9. Live' = Live
    BY <2>2 DEF Live, Exists
  <2>10. CacheInv' /\ cache' \in [Buckets -> Seq(Bos)] /\ InCache' = InCache \ {b}
    BY <1>4, <1>5, <2>8, <2>9, CacheTaken
  <2>11. Used' = Used \cup {b}
    BY <2>1, <2>9, <2>10 DEF Used
  <2>12. NamedInv'
    <3>1. \A c \in Items(named) : c \in Bos \ {b}
      BY <1>3, <2>1, NamedBos
    <3> QED BY <1>1, <2>8, <2>11, <3>1, NamedKept
  <2>13. LockMoves(t)
    BY <1>1, <2>2, <2>4 DEF LockMoves, Holding
  <2>14. named' \in Seq(Bos) /\ vma'.map_count = vma.map_count /\ [VmaNext]_vma
    BY <1>1, <1>3, <2>2, NamedBos
  <2> QED BY <1>1, <2>1, <2>2, <2>3, <2>4, <2>7, <2>8, <2>10, <2>11, <2>12, <2>13, <2>14, BirthInv
          DEF Borrowing
<1> QED BY <1>2, <1>6, <1>7

-----------------------------------------------------------------------------
(* The mapping calls.                                                      *)

(* A step of the mapping state in which no object appears or goes.         *)
LEMMA MappingInv ==
  ASSUME CoreInv, TRUE \notin CanReject, NEW t \in Threads, thread[t].pc = "idle",
         UNCHANGED << bo, named, cache, time, lock, thread, held, kernel, clock, fault >>,
         VmaNext, \A c \in Bos : vma'.link[c] = "zero" <=> vma.link[c] = "zero",
         \A c \in Bos \ Used : vma'.map_count[c] = vma.map_count[c]
  PROVE  CoreInv'
<1>1. GemTypeOK /\ VmaInv
  BY DEF CoreInv
<1>2. Live' = Live /\ Used' = Used /\ Used \subseteq Bos
  BY DEF Live, Exists, Used, InCache, CachedIn
<1>3. CalmStep(t)
  <2>1. \A c \in Bos \ Used' : bo'[c].refcount = 0 /\ vma'.map_count[c] = 0
    BY <1>2, ParkedFacts
  <2> QED BY <1>2, <2>1 DEF CalmStep
<1>4. CacheInv' /\ NamedInv'
  BY <1>2, CacheKept, NamedKept
<1>5. GemTypeOK'
  <2>1. VmaInv'
    BY <1>1, VmaNextInv
  <2> QED BY <1>1, <2>1 DEF GemTypeOK, VmaInv, Good
<1>6. LockMoves(t) /\ Borrows(t)
  BY DEF LockMoves, Borrows, CoreInv, BorrowInv
<1>7. Balanced(t)
  <2>1. ASSUME NEW c \in Bos
        PROVE bo'[c].refcount - bo[c].refcount =
                held'[c] - held[c] + Is(thread'[t].bo, c) - Is(thread[t].bo, c)
    <3>1. bo[c].refcount \in Nat /\ held[c] \in Nat /\ Is(thread[t].bo, c) \in Nat
      BY <1>1, BoTypes DEF Is
    <3> QED BY <3>1
  <2> QED BY <2>1 DEF Balanced
<1> QED BY <1>3, <1>4, <1>5, <1>6, <1>7, CalmInv

(* The mapping calls.                                                      *)
LEMMA MapBoInv ==
  ASSUME CoreInv, TRUE \notin CanReject, NEW t \in Threads, NEW b \in Bos, MapBo(t, b)
  PROVE  CoreInv'
<1>1. /\ thread[t].pc = "idle" /\ held[b] > 0
      /\ Map(b) \/ MapGttOrUnsynchronized(b) \/ Unmap(b)
      /\ UNCHANGED << bo, named, cache, time, lock, thread, held, kernel, clock, fault >>
  BY DEF MapBo, Calls, At, Uses
<1>2. b \in Used
  BY <1>1, HeldIsUsed
<1>3. Good(vma) /\ Bounded(vma) /\ VirtualMapped(vma)
  BY DEF CoreInv, VmaInv
<1>4. VmaNext
  BY <1>1 DEF VmaNext
<1>5. OnlyMaps(vma, vma', b)
  <2>1. CASE Map(b)
    BY <1>3, <2>1, MapCpuGood DEF Map, Exists
  <2>2. CASE MapGttOrUnsynchronized(b)
    BY <1>3, <2>2, MapGttGood DEF MapGttOrUnsynchronized, Exists
  <2>3. CASE Unmap(b)
    BY <1>3, <2>3, UnmapGood DEF Unmap
  <2> QED BY <1>1, <2>1, <2>2, <2>3
<1>6. /\ \A c \in Bos : vma'.link[c] = "zero" <=> vma.link[c] = "zero"
      /\ \A c \in Bos \ Used : vma'.map_count[c] = vma.map_count[c]
  BY <1>2, <1>5 DEF OnlyMaps
<1> QED BY <1>1, <1>4, <1>6, MappingInv

(* set_vma_cache_size.                                                     *)
LEMMA SetVmaLimitInv ==
  ASSUME CoreInv, TRUE \notin CanReject, NEW t \in Threads, SetVmaLimit(t)
  PROVE  CoreInv'
<1>1. /\ thread[t].pc = "idle"
      /\ UNCHANGED << bo, named, cache, time, lock, thread, held, kernel, clock, fault >>
  BY DEF SetVmaLimit, Calls, At
<1>2. PICK limit \in VmaLimits : SetVmaCacheSize(limit)
  BY DEF SetVmaLimit
<1>3. Good(vma) /\ VirtualMapped(vma) /\ limit \in Int
  BY VmaLimitsAssumption DEF CoreInv, VmaInv
<1>4. /\ vma'.map_count = vma.map_count
      /\ \A c \in Bos : vma'.link[c] = "zero" <=> vma.link[c] = "zero"
  BY <1>2, <1>3, SetSizeGood DEF SetVmaCacheSize
<1>5. VmaNext
  BY <1>2 DEF VmaNext
<1> QED BY <1>1, <1>4, <1>5, MappingInv

-----------------------------------------------------------------------------
(* The steps that change activations or relocations.                       *)

(* One thread at most is inside the lock.                                  *)
LEMMA OnlyHolder ==
  ASSUME CoreInv
  PROVE  /\ \A t, u \in Threads :
              thread[t].pc \in Holding /\ thread[u].pc \in Holding => t = u
         /\ Unlocked => \A u \in Threads : thread[u].pc \notin Holding
BY GemThreadsAssumption DEF CoreInv, LockInv, Unlocked

(* What has to be shown of such a step.                                    *)
LEMMA WorkInv ==
  ASSUME CoreInv, TRUE \notin CanReject, NEW t \in Threads, [VmaNext]_vma,
         \A u \in Threads \ {t} : thread'[u] = thread[u],
         GemTypeOK', LockMoves(t), Borrows(t), CountInv', CacheInv', NamedInv',
         FramesInv', ClearInv', LeakInv', ParkedInv', RelocLen'
  PROVE  CoreInv'
<1>1. VmaInv
  BY DEF CoreInv
<1>2. VmaInv'
  BY <1>1, VmaNextInv
<1>3. LockInv'
  BY LockStep DEF LockMoves
<1>4. BorrowInv'
  BY BorrowStep DEF Borrows
<1> QED BY <1>2, <1>3, <1>4 DEF CoreInv

(* A thread takes the lock with one activation that has passed nothing.    *)
LEMMA EnterRelocs ==
  ASSUME CoreInv, Unlocked, NEW t \in Threads, \A u \in Threads \ {t} : thread'[u] = thread[u],
         NEW f \in Frame, thread'[t].frames = << f >>, f.from = f.at,
         \A c \in Bos : bo'[c].relocs = bo[c].relocs
  PROVE  \A b \in Bos : RelocsTo(b)' = RelocsTo(b)
<1>1. \A u \in Threads : thread[u].pc # "frames"
  BY OnlyHolder DEF Holding
<1>2. ASSUME NEW c \in Bos, NEW i \in 1 .. MaxRelocs PROVE ~Passed(c, i)
  BY <1>1 DEF Passed, At
<1>3. ASSUME NEW c \in Bos, NEW i \in 1 .. MaxRelocs, Passed(c, i)' PROVE FALSE
  <2>1. PICK u \in Threads : /\ thread'[u].pc = "frames"
                            /\ \E n \in 1 .. Len(thread'[u].frames) :
                                 /\ thread'[u].frames[n].from <= i
                                 /\ i < thread'[u].frames[n].at
    BY <1>3 DEF Passed, At
  <2>2. u = t
    BY <1>1, <2>1
  <2>3. f.from <= i /\ i < f.at
    BY <2>1, <2>2
  <2>4. f.from \in Nat /\ i \in Nat
    BY DEF Frame
  <2> QED BY <2>3, <2>4
<1> QED BY <1>2, <1>3, RelocsKept

(* The rest of what an entry has to respect.                               *)
LEMMA EnterInv ==
  ASSUME CoreInv, TRUE \notin CanReject, Unlocked, NEW t \in Threads,
         \A u \in Threads \ {t} : thread'[u] = thread[u], thread'[t].pc = "frames",
         NEW f \in Frame, thread'[t].frames = << f >>, f.from = f.at, FrameOK(t, 1)',
         lock' = t, UNCHANGED << vma, named, cache, time, held, kernel, clock, fault >>,
         thread' \in [Threads -> ThreadRecord], bo' \in [Bos -> BoRecord],
         \A c \in Bos : /\ bo'[c].relocs = bo[c].relocs /\ bo'[c].bucket = bo[c].bucket
                        /\ bo'[c].reusable = bo[c].reusable
                        /\ bo'[c].name_list = bo[c].name_list,
         \A c \in Bos \ {f.bo} : bo'[c].refcount = bo[c].refcount,
         f.final \/ bo'[f.bo].refcount # 0, bo[f.bo].refcount # 0,
         thread'[t].bo = NoBo \/ (thread[t].pc = "clear" /\ thread'[t].bo = thread[t].bo),
         Balanced(t)
  PROVE  CoreInv'
<1>1. GemTypeOK /\ CountInv /\ f.bo \in Bos
  BY DEF CoreInv, Frame
<1>2. Used' = Used /\ Live' = Live /\ Used \subseteq Bos
  BY DEF Used, Live, InCache, CachedIn, Exists
<1>3. \A u \in Threads : thread[u].pc # "frames"
  BY OnlyHolder DEF Holding
<1>4. GemTypeOK'
  BY <1>1 DEF GemTypeOK
<1>5. CountInv'
  <2>1. \A b \in Bos : RelocsTo(b)' = RelocsTo(b)
    BY EnterRelocs
  <2> QED BY <1>1, <1>4, <2>1, CountStep DEF Balanced
<1>6. CacheInv' /\ NamedInv'
  <2>1. Items(named) \subseteq Bos
    BY <1>1, NamedBos
  <2> QED BY <1>2, <2>1, CacheKept, NamedKept
<1>7. FramesInv'
  <2> SUFFICES ASSUME NEW u \in Threads, thread'[u].pc = "frames"
               PROVE  /\ thread'[u].frames # << >>
                      /\ \A n \in 1 .. Len(thread'[u].frames) : FrameOK(u, n)'
                      /\ Distinct(thread'[u].frames)
    BY DEF FramesInv, Distinct
  <2>1. u = t
    BY <1>3
  <2>2. Len(<< f >>) = 1 /\ << f >> # << >>
    OBVIOUS
  <2>3. \A n \in 1 .. Len(thread'[u].frames) : n = 1
    <3>1. thread'[u].frames = << f >>
      BY <2>1
    <3>2. Len(thread'[u].frames) = 1
      BY <2>2, <3>1, Zenon
    <3> QED BY <3>2
  <2>4. Distinct(thread'[u].frames)
    BY <2>3 DEF Distinct
  <2>5. \A n \in 1 .. Len(thread'[u].frames) : FrameOK(u, n)'
    BY <2>1, <2>3
  <2>6. thread'[u].frames # << >>
    BY <2>1, <2>2
  <2> QED BY <2>4, <2>5, <2>6
<1>8. ClearInv'
  <2>1. ASSUME NEW u \in Threads, thread'[u].pc = "clear" PROVE ClearOK(u)'
    <3>1. thread'[u] = thread[u] /\ ClearOK(u) /\ thread[u].bo \in Bos
      BY <2>1 DEF CoreInv, ClearInv, BorrowInv, Borrowing
    <3>2. bo'[thread[u].bo].relocs = bo[thread[u].bo].relocs
      BY <3>1
    <3> QED BY <3>1, <3>2 DEF ClearOK
  <2>2. ASSUME NEW u \in Threads, NEW x \in Threads,
               thread'[u].pc \in {"clear", "frames"}, thread'[x].pc \in {"clear", "frames"},
               thread'[u].bo = thread'[x].bo, thread'[u].bo # NoBo
        PROVE  u = x
    BY <2>2 DEF CoreInv, ClearInv
  <2> QED BY <2>1, <2>2 DEF ClearInv
<1>9. LeakInv'
  <2> SUFFICES ASSUME NEW b \in Used, bo'[b].refcount = 0 PROVE TornDown(b)'
    BY <1>2 DEF LeakInv
  <2>1. b = f.bo
    <3>1. ~TornDown(b)
      BY <1>3 DEF TornDown
    <3> QED BY <1>2, <3>1 DEF CoreInv, LeakInv
  <2>2. f.final
    BY <2>1
  <2>3. 1 \in 1 .. Len(thread'[t].frames) /\ thread'[t].frames[1] = f
    OBVIOUS
  <2> QED BY <2>1, <2>2, <2>3 DEF TornDown
<1>10. ParkedInv' /\ RelocLen'
  <2>1. f.bo \in Used
    BY <1>1, ParkedFacts
  <2> QED BY <1>2, <2>1 DEF CoreInv, ParkedInv, RelocLen
<1>11. LockMoves(t) /\ Borrows(t)
  BY DEF LockMoves, Borrows, Unlocked, Holding, Borrowing
<1> QED BY <1>4, <1>5, <1>6, <1>7, <1>8, <1>9, <1>10, <1>11, WorkInv

(* The activation unreference_final starts with.                           *)
LEMMA FinalFrameType ==
  ASSUME NEW b \in Bos
  PROVE  /\ FinalFrame(b) \in Frame /\ FinalFrame(b).bo = b /\ FinalFrame(b).final
         /\ FinalFrame(b).from = 1 /\ FinalFrame(b).at = 1
BY DEF FinalFrame, Frame

(* unreference under the lock.                                             *)
LEMMA UnrefLockedInv ==
  ASSUME CoreInv, TRUE \notin CanReject, NEW t \in Threads, UnrefLocked(t)
  PROVE  CoreInv'
<1>1. PICK b \in Bos : b = thread[t].bo
  BY DEF UnrefLocked, At, CoreInv, BorrowInv, Borrowing
<1> DEFINE n == bo[b].refcount - 1
<1>2. /\ thread[t].pc = "unref" /\ Unlocked /\ bo' = [bo EXCEPT ![b].refcount = n]
      /\ UNCHANGED << vma, named, cache, time, held, kernel, clock, fault >>
  BY <1>1 DEF UnrefLocked, At
<1>3. /\ GemTypeOK /\ b \in Used /\ bo[b].refcount > 0
      /\ bo[b].refcount \in Nat /\ held[b] \in Nat /\ NoBo # b
  BY <1>1, BorrowedIsUsed, BoTypes, GemThreadsAssumption DEF CoreInv
<1>4. CASE bo[b].refcount # 1
  <2>1. n \in Nat \ {0} /\ n = bo[b].refcount - 1 /\ Return(t) /\ lock' = lock
    BY <1>1, <1>3, <1>4 DEF UnrefLocked
  <2> HIDE DEF n
  <2> QED BY <1>1, <1>2, <2>1, RefBorrowInv DEF Borrowing
<1>5. CASE bo[b].refcount = 1
  <2> DEFINE f == FinalFrame(b)
             r == [thread[t] EXCEPT !.pc = "frames", !.bo = NoBo, !.frames = << f >>]
  <2>1. lock' = t /\ thread' = [thread EXCEPT ![t] = r] /\ n = 0
    <3>1. /\ lock' = t
          /\ thread' = [thread EXCEPT ![t].pc = "frames", ![t].bo = NoBo, ![t].frames = << f >>]
      BY <1>1, <1>5 DEF UnrefLocked
    <3>2. n = 0
      BY <1>5
    <3> HIDE DEF f
    <3> QED BY <1>3, <3>1, <3>2 DEF GemTypeOK
  <2>2. f \in Frame /\ f.bo = b /\ f.final /\ f.from = 1 /\ f.at = 1
    BY FinalFrameType
  <2> HIDE DEF n, f
  <2>3. << f >> \in Seq(Frame) /\ << f >>[1] = f
    BY <2>2
  <2>4. r \in ThreadRecord /\ r.pc = "frames" /\ r.bo = NoBo /\ r.frames = << f >>
    BY <1>3, <2>3, ThreadTypes DEF ThreadRecord
  <2> HIDE DEF r
  <2>5. /\ thread' \in [Threads -> ThreadRecord] /\ thread'[t] = r
        /\ \A u \in Threads \ {t} : thread'[u] = thread[u]
    BY <1>3, <2>1, <2>4, ThreadPut
  <2>6. /\ bo' \in [Bos -> BoRecord] /\ bo'[b].refcount = 0
        /\ \A c \in Bos \ {b} : bo'[c].refcount = bo[c].refcount
        /\ \A c \in Bos : /\ bo'[c].relocs = bo[c].relocs /\ bo'[c].bucket = bo[c].bucket
                          /\ bo'[c].reusable = bo[c].reusable
                          /\ bo'[c].name_list = bo[c].name_list
    <3>1. bo' = [bo EXCEPT ![b].refcount = 0]
      BY <1>2, <2>1
    <3> QED BY <1>3, <3>1, RefcountPut
  <2>7. FrameOK(t, 1)'
    <3>1. thread'[t].frames[1] = f /\ thread'[t].bo = NoBo
      BY <2>3, <2>4, <2>5
    <3>2. b \in Used'
      BY <1>2, <1>3 DEF Used, Live, InCache, CachedIn, Exists
    <3>3. Len(bo'[b].relocs) \in Nat
      BY <1>3, <2>6, BoTypes
    <3> QED BY <2>2, <2>6, <3>1, <3>2, <3>3 DEF FrameOK
  <2>8. Balanced(t)
    <3>1. Is(thread'[t].bo, b) = 0 /\ Is(thread[t].bo, b) = 1
      BY <1>1, <1>3, <2>4, <2>5 DEF Is
    <3>2. bo'[b].refcount - bo[b].refcount =
            held'[b] - held[b] + Is(thread'[t].bo, b) - Is(thread[t].bo, b)
      BY <1>2, <1>3, <1>5, <2>6, <3>1
    <3> QED BY <1>1, <1>2, <1>3, <2>4, <2>5, <2>6, <3>2, BalanceAt
  <2> QED BY <1>2, <1>3, <2>1, <2>2, <2>4, <2>5, <2>6, <2>7, <2>8, EnterInv
<1> QED BY <1>4, <1>5

(* clear_relocs gets the lock.                                             *)
LEMMA ClearLockedInv ==
  ASSUME CoreInv, TRUE \notin CanReject, NEW t \in Threads, ClearLocked(t)
  PROVE  CoreInv'
<1>1. /\ thread[t].pc = "clear" /\ Unlocked /\ lock' = t /\ Goto(t, "frames")
      /\ UNCHANGED << vma, bo, named, cache, time, held, kernel, clock, fault >>
  BY DEF ClearLocked, At
<1>2. GemTypeOK /\ ClearOK(t) /\ thread[t].bo \in Bos /\ thread[t].frames \in Seq(Frame)
  <2>1. GemTypeOK
    BY DEF CoreInv
  <2>2. ClearOK(t) /\ thread[t].bo \in Bos
    BY <1>1 DEF CoreInv, ClearInv, BorrowInv, Borrowing
  <2>3. thread[t].frames \in Seq(Frame)
    BY <2>1, ThreadTypes
  <2> QED BY <2>1, <2>2, <2>3
<1>3. PICK f : f = thread[t].frames[1]
  OBVIOUS
<1>4. /\ Len(thread[t].frames) = 1 /\ f \in Frame /\ f.bo = thread[t].bo /\ ~f.final
      /\ 1 <= f.from /\ f.from = f.at /\ f.at <= Len(bo[f.bo].relocs) + 1
      /\ f.from \in Nat
  <2>1. /\ Len(thread[t].frames) = 1 /\ f.bo = thread[t].bo /\ ~f.final
        /\ 1 <= f.from /\ f.from = f.at /\ f.at <= Len(bo[f.bo].relocs) + 1
    BY <1>2, <1>3 DEF ClearOK
  <2>2. f \in Frame
    BY <1>2, <1>3, <2>1
  <2> QED BY <2>1, <2>2 DEF Frame
<1>5. thread[t].frames = << f >>
  <2> DEFINE s == thread[t].frames
  <2>1. s \in Seq(Frame) /\ Len(s) = 1 /\ s[1] = f
    BY <1>2, <1>3, <1>4
  <2> HIDE DEF s
  <2>2. s = << f >>
    BY <2>1
  <2> QED BY <2>2 DEF s
<1>6. /\ thread' \in [Threads -> ThreadRecord]
      /\ thread'[t].pc = "frames" /\ thread'[t].bo = thread[t].bo
      /\ thread'[t].frames = << f >>
      /\ \A u \in Threads \ {t} : thread'[u] = thread[u]
  BY <1>1, <1>2, <1>5, GotoStep DEF Places
<1>7. f.bo \in Used /\ bo[f.bo].refcount > 0 /\ bo[f.bo].refcount \in Nat
  BY <1>2, <1>4, BorrowedIsUsed, BoTypes
<1>8. FrameOK(t, 1)'
  <2>1. thread'[t].frames[1] = f /\ thread'[t].bo = f.bo /\ f.bo # NoBo
    BY <1>2, <1>4, <1>6, GemThreadsAssumption
  <2>2. f.bo \in Used'
    BY <1>1, <1>7 DEF Used, Live, InCache, CachedIn, Exists
  <2>3. f.from <= f.at
    BY <1>4
  <2> QED BY <1>1, <1>4, <2>1, <2>2, <2>3 DEF FrameOK
<1>9. Balanced(t)
  <2>1. ASSUME NEW c \in Bos
        PROVE bo'[c].refcount - bo[c].refcount =
                held'[c] - held[c] + Is(thread'[t].bo, c) - Is(thread[t].bo, c)
    <3>1. bo[c].refcount \in Nat /\ held[c] \in Nat /\ Is(thread[t].bo, c) \in Nat
      BY <1>2, BoTypes DEF Is
    <3>2. Is(thread'[t].bo, c) = Is(thread[t].bo, c) /\ bo' = bo /\ held' = held
      BY <1>1, <1>6
    <3> QED BY <3>1, <3>2
  <2> QED BY <2>1 DEF Balanced
<1>10. bo' \in [Bos -> BoRecord] /\ bo'[f.bo].refcount # 0 /\ bo[f.bo].refcount # 0
  BY <1>1, <1>2, <1>7 DEF GemTypeOK
<1> QED BY <1>1, <1>4, <1>6, <1>8, <1>9, <1>10, EnterInv

(* The activation at the top of t.                                         *)
LEMMA TopOK ==
  ASSUME CoreInv, NEW t \in Threads, thread[t].pc = "frames"
  PROVE  /\ thread[t].frames \in Seq(Frame) /\ Len(thread[t].frames) \in Nat \ {0}
         /\ FrameOK(t, Len(thread[t].frames)) /\ Distinct(thread[t].frames)
         /\ \A n \in 1 .. Len(thread[t].frames) : FrameOK(t, n) /\ thread[t].frames[n] \in Frame
         /\ Top(t) = thread[t].frames[Len(thread[t].frames)]
         /\ Top(t) \in Frame /\ Top(t).bo \in Used /\ Top(t).bo \in Bos
         /\ Top(t).from \in Nat /\ Top(t).at \in Nat
         /\ 1 <= Top(t).from /\ Top(t).from <= Top(t).at
         /\ Top(t).at <= Len(bo[Top(t).bo].relocs) + 1
         /\ bo[Top(t).bo].relocs \in Seq(Bos) /\ Len(bo[Top(t).bo].relocs) \in Nat
<1>1. /\ thread[t].frames # << >> /\ Distinct(thread[t].frames)
      /\ \A n \in 1 .. Len(thread[t].frames) : FrameOK(t, n)
  BY DEF CoreInv, FramesInv
<1>2. GemTypeOK /\ thread[t].frames \in Seq(Frame)
  <2>1. GemTypeOK
    BY DEF CoreInv
  <2> QED BY <2>1, ThreadTypes
<1>3. Len(thread[t].frames) \in Nat \ {0} /\ Len(thread[t].frames) \in 1 .. Len(thread[t].frames)
  <2> DEFINE s == thread[t].frames
  <2>1. s \in Seq(Frame) /\ s # << >>
    BY <1>1, <1>2
  <2> HIDE DEF s
  <2>2. Len(s) \in Nat \ {0} /\ Len(s) \in 1 .. Len(s)
    BY <2>1
  <2> QED BY <2>2 DEF s
<1>4. PICK f : f = Top(t) /\ f = thread[t].frames[Len(thread[t].frames)]
  BY DEF Top
<1>5. f \in Frame /\ f.from \in Nat /\ f.at \in Nat /\ f.bo \in Bos
  <2>1. f \in Frame
    BY <1>2, <1>3, <1>4
  <2> QED BY <2>1 DEF Frame
<1>6. /\ FrameOK(t, Len(thread[t].frames)) /\ f.bo \in Used
      /\ 1 <= f.from /\ f.from <= f.at /\ f.at <= Len(bo[f.bo].relocs) + 1
  BY <1>1, <1>3, <1>4 DEF FrameOK
<1>7. bo[f.bo].relocs \in Seq(Bos) /\ Len(bo[f.bo].relocs) \in Nat
  <2>1. bo[f.bo].relocs \in Seq(Bos)
    BY <1>2, <1>5, BoTypes
  <2> QED BY <2>1
<1>8. ASSUME NEW n \in 1 .. Len(thread[t].frames) PROVE thread[t].frames[n] \in Frame
  BY <1>2
<1> QED BY <1>1, <1>2, <1>3, <1>4, <1>5, <1>6, <1>7, <1>8

(* While t is in the loops the relocations passed are those of its own     *)
(* activations.                                                            *)
LEMMA PassedBy ==
  ASSUME CoreInv, NEW t \in Threads, thread[t].pc = "frames", NEW c, NEW i
  PROVE  Passed(c, i) <=>
           \E n \in 1 .. Len(thread[t].frames) :
             /\ thread[t].frames[n].bo = c
             /\ thread[t].frames[n].from <= i /\ i < thread[t].frames[n].at
<1>1. \A u \in Threads : thread[u].pc = "frames" => u = t
  BY OnlyHolder DEF Holding
<1> QED BY <1>1 DEF Passed, At

(* The relocations of the object at the top that have been passed.         *)
LEMMA TopPassed ==
  ASSUME CoreInv, NEW t \in Threads, thread[t].pc = "frames", NEW i
  PROVE  Passed(Top(t).bo, i) <=> Top(t).from <= i /\ i < Top(t).at
<1>1. /\ Len(thread[t].frames) \in 1 .. Len(thread[t].frames)
      /\ Top(t) = thread[t].frames[Len(thread[t].frames)] /\ Distinct(thread[t].frames)
  BY TopOK
<1>2. \A n \in 1 .. Len(thread[t].frames) :
        thread[t].frames[n].bo = Top(t).bo => thread[t].frames[n] = Top(t)
  BY <1>1 DEF Distinct
<1>3. Passed(Top(t).bo, i) <=>
        \E n \in 1 .. Len(thread[t].frames) :
          /\ thread[t].frames[n].bo = Top(t).bo
          /\ thread[t].frames[n].from <= i /\ i < thread[t].frames[n].at
  BY PassedBy
<1>4. ASSUME Passed(Top(t).bo, i) PROVE Top(t).from <= i /\ i < Top(t).at
  <2>1. PICK n \in 1 .. Len(thread[t].frames) :
          /\ thread[t].frames[n].bo = Top(t).bo
          /\ thread[t].frames[n].from <= i /\ i < thread[t].frames[n].at
    BY <1>3, <1>4
  <2>2. thread[t].frames[n] = Top(t)
    BY <1>2, <2>1
  <2> QED BY <2>1, <2>2
<1>5. ASSUME Top(t).from <= i, i < Top(t).at PROVE Passed(Top(t).bo, i)
  <2> DEFINE n == Len(thread[t].frames)
  <2>1. n \in 1 .. Len(thread[t].frames) /\ thread[t].frames[n] = Top(t)
    BY <1>1
  <2>2. thread[t].frames[n].bo = Top(t).bo /\ thread[t].frames[n].from <= i /\ i < thread[t].frames[n].at
    BY <1>5, <2>1
  <2> HIDE DEF n
  <2>3. \E m \in 1 .. Len(thread[t].frames) :
          /\ thread[t].frames[m].bo = Top(t).bo
          /\ thread[t].frames[m].from <= i /\ i < thread[t].frames[m].at
    BY <2>1, <2>2, Zenon
  <2> QED BY <1>3, <2>3, Zenon
<1> QED BY <1>4, <1>5

(* The references of relocations stay where they are.                      *)
LEMMA OwnsKept ==
  ASSUME \A c \in Bos : \A i \in 1 .. MaxRelocs : \A b \in Bos \ {c} :
           Owns(c, i, b)' <=> Owns(c, i, b)
  PROVE  \A b \in Bos : RelocsTo(b)' = RelocsTo(b)
<1> SUFFICES ASSUME NEW b \in Bos, NEW p \in (Bos \ {b}) \X (1 .. MaxRelocs)
             PROVE  Owns(p[1], p[2], b)' <=> Owns(p[1], p[2], b)
  BY DEF RelocsTo
<1>1. p[1] \in Bos /\ p[2] \in 1 .. MaxRelocs /\ b \in Bos \ {p[1]}
  OBVIOUS
<1> QED BY <1>1, Zenon

(* The last step of clear_relocs.                                          *)
LEMMA ClearedOwns ==
  ASSUME CoreInv, NEW t \in Threads, thread[t].pc = "frames", NEW b \in Bos, b = Top(t).bo,
         ~Top(t).final, Top(t).at > Len(bo[b].relocs),
         \A u \in Threads : thread'[u].pc # "frames",
         bo'[b].relocs = SubSeq(bo[b].relocs, 1, Top(t).from - 1),
         \A c \in Bos \ {b} : bo'[c].relocs = bo[c].relocs
  PROVE  \A c \in Bos : RelocsTo(c)' = RelocsTo(c)
<1>1. /\ Len(thread[t].frames) = 1 /\ Top(t) = thread[t].frames[1] /\ thread[t].bo = b
  BY TopOK DEF FrameOK
<1>2. /\ Top(t).from \in Nat /\ Top(t).at \in Nat /\ Len(bo[b].relocs) \in Nat
      /\ 1 <= Top(t).from /\ Top(t).from <= Top(t).at /\ Top(t).at = Len(bo[b].relocs) + 1
      /\ bo[b].relocs \in Seq(Bos)
  BY TopOK
<1>3. ASSUME NEW c, NEW i PROVE ~Passed(c, i)'
  BY DEF Passed, At
<1>4. ASSUME NEW c \in Bos \ {b}, NEW i PROVE ~Passed(c, i)
  <2>1. ASSUME NEW n \in 1 .. Len(thread[t].frames) PROVE thread[t].frames[n].bo = b
    <3>1. n \in 1 .. 1
      BY <1>1, <2>1, Zenon
    <3>2. n = 1
      BY <3>1
    <3> QED BY <1>1, <3>2, Zenon
  <2> QED BY <2>1, PassedBy
<1>5. ASSUME NEW i \in 1 .. MaxRelocs PROVE Passed(b, i) <=> Top(t).from <= i /\ i < Top(t).at
  BY TopPassed
<1>6. /\ Len(bo'[b].relocs) = Top(t).from - 1
      /\ \A i \in 1 .. Top(t).from - 1 : bo'[b].relocs[i] = bo[b].relocs[i]
  BY <1>2
<1>7. ASSUME NEW c \in Bos, NEW i \in 1 .. MaxRelocs, NEW d \in Bos \ {c}
      PROVE  Owns(c, i, d)' <=> Owns(c, i, d)
  <2>1. CASE c # b
    <3>1. bo'[c].relocs = bo[c].relocs /\ ~Passed(c, i) /\ ~Passed(c, i)'
      BY <1>3, <1>4, <2>1
    <3> QED BY <3>1 DEF Owns
  <2>2. CASE c = b
    <3>1. i \in Nat /\ 1 <= i
      BY GemBoundsAssumption
    <3>2. Owns(b, i, d)' <=> i <= Top(t).from - 1 /\ bo[b].relocs[i] = d
      BY <1>2, <1>3, <1>6, <3>1 DEF Owns
    <3>3. Owns(b, i, d) <=> i <= Len(bo[b].relocs) /\ bo[b].relocs[i] = d /\ i < Top(t).from
      BY <1>2, <1>5, <3>1 DEF Owns
    <3>4. i < Top(t).from <=> i <= Top(t).from - 1 /\ i <= Len(bo[b].relocs)
      BY <1>2, <3>1
    <3> QED BY <1>2, <2>2, <3>1, <3>2, <3>3, <3>4
  <2> QED BY <2>1, <2>2
<1> QED BY <1>7, OwnsKept

(* clear_relocs ends.                                                      *)
LEMMA ClearedInv ==
  ASSUME CoreInv, TRUE \notin CanReject, NEW t \in Threads, Cleared(t)
  PROVE  CoreInv'
<1>1. PICK b : b = Top(t).bo
  OBVIOUS
<1>2. /\ thread[t].pc = "frames" /\ ~Top(t).final /\ Top(t).at > Len(bo[b].relocs)
      /\ bo' = [bo EXCEPT ![b].relocs = SubSeq(@, 1, Top(t).from - 1)]
      /\ lock' = NoThread /\ GiveBack(b) /\ Return(t)
      /\ UNCHANGED << vma, named, cache, time, kernel, clock, fault >>
  BY <1>1 DEF Cleared, At
<1>3. /\ b \in Used /\ b \in Bos /\ bo[b].relocs \in Seq(Bos) /\ Len(bo[b].relocs) \in Nat
      /\ Top(t).from \in Nat /\ 1 <= Top(t).from /\ Top(t).from <= Len(bo[b].relocs) + 1
  BY <1>1, <1>2, TopOK
<1>4. thread[t].bo = b /\ Len(thread[t].frames) = 1 /\ ~thread[t].frames[1].final
  <2>1. FrameOK(t, Len(thread[t].frames)) /\ Top(t) = thread[t].frames[Len(thread[t].frames)]
    BY <1>2, TopOK
  <2> QED BY <1>1, <1>2, <2>1 DEF FrameOK
<1>5. /\ GemTypeOK /\ bo[b].refcount \in Nat /\ held[b] \in Nat /\ NoBo # b /\ CountInv
  BY <1>3, BoTypes, GemThreadsAssumption DEF CoreInv
<1> DEFINE s == SubSeq(bo[b].relocs, 1, Top(t).from - 1)
           r == [bo[b] EXCEPT !.relocs = s]
<1>6. s \in Seq(Bos) /\ Len(s) \in Nat /\ Len(s) <= Len(bo[b].relocs)
  BY <1>3
<1>7. bo' = [bo EXCEPT ![b] = r] /\ bo'[b].relocs = s
  BY <1>2, <1>3, <1>5, BoTypes DEF BoRecord, GemTypeOK
<1> HIDE DEF s
<1>8. /\ r \in BoRecord /\ r.relocs = s /\ r.refcount = bo[b].refcount /\ r.bucket = bo[b].bucket
      /\ r.reusable = bo[b].reusable /\ r.name_list = bo[b].name_list
  BY <1>3, <1>5, <1>6, BoTypes DEF BoRecord
<1> HIDE DEF r
<1>9. bo' \in [Bos -> BoRecord] /\ bo'[b] = r /\ \A c \in Bos \ {b} : bo'[c] = bo[c]
  BY <1>3, <1>5, <1>7, <1>8, BoPut
<1>10. /\ thread' \in [Threads -> ThreadRecord] /\ thread'[t].pc = "idle" /\ thread'[t].bo = NoBo
       /\ \A u \in Threads \ {t} : thread'[u] = thread[u]
  BY <1>2, <1>5, ReturnStep
<1>11. held' \in [Bos -> Nat] /\ held'[b] = held[b] + 1 /\ \A c \in Bos \ {b} : held'[c] = held[c]
  <2>1. held[b] + 1 \in Nat /\ held' = [held EXCEPT ![b] = held[b] + 1]
    BY <1>2, <1>5 DEF GiveBack
  <2> QED BY <1>3, <1>5, <2>1, HeldPut
<1>12. GemTypeOK'
  BY <1>2, <1>5, <1>9, <1>10, <1>11 DEF GemTypeOK
<1>13. /\ \A u \in Threads : thread[u].pc = "frames" => u = t
       /\ \A u \in Threads : thread'[u].pc # "frames"
  BY <1>2, <1>10, OnlyHolder DEF Holding
<1>14. Used' = Used /\ Live' = Live /\ Used \subseteq Bos
  BY <1>2 DEF Used, Live, InCache, CachedIn, Exists
<1>15. CountInv'
  <2>1. \A c \in Bos : RelocsTo(c)' = RelocsTo(c)
    <3>1. bo'[b].relocs = SubSeq(bo[b].relocs, 1, Top(t).from - 1)
      BY <1>7 DEF s
    <3> QED BY <1>1, <1>2, <1>3, <1>9, <1>13, <3>1, ClearedOwns
  <2>2. Is(thread'[t].bo, b) = 0 /\ Is(thread[t].bo, b) = 1
    BY <1>4, <1>5, <1>10 DEF Is
  <2>3. bo'[b].refcount - bo[b].refcount =
          held'[b] - held[b] + Is(thread'[t].bo, b) - Is(thread[t].bo, b)
    BY <1>5, <1>8, <1>9, <1>11, <2>2
  <2>4. Balanced(t)
    BY <1>3, <1>4, <1>5, <1>9, <1>10, <1>11, <2>3, BalanceAt
  <2> QED BY <1>5, <1>10, <1>12, <2>1, <2>4, CountStep DEF Balanced
<1>16. CacheInv' /\ NamedInv'
  <2>1. Items(named) \subseteq Bos
    BY <1>5, NamedBos
  <2>2. CacheInv'
    BY <1>2, <1>3, <1>9, <1>14, CacheKept
  <2>3. \A c \in Items(named) : bo'[c].name_list = bo[c].name_list
    BY <1>8, <1>9, <2>1
  <2> QED BY <1>2, <1>14, <2>2, <2>3, NamedKept
<1>17. FramesInv'
  BY <1>13 DEF FramesInv
<1>18. ClearInv'
  <2>1. ASSUME NEW u \in Threads, thread'[u].pc = "clear" PROVE ClearOK(u)'
    <3>1. thread'[u] = thread[u] /\ u # t /\ thread[u].pc = "clear"
      BY <1>10, <2>1
    <3>2. ClearOK(u) /\ thread[u].bo \in Bos /\ thread[u].bo # b
      BY <1>2, <1>4, <1>5, <3>1 DEF CoreInv, ClearInv, BorrowInv, Borrowing
    <3>3. bo'[thread[u].bo].relocs = bo[thread[u].bo].relocs
      BY <1>9, <3>2
    <3> QED BY <3>1, <3>2, <3>3 DEF ClearOK
  <2>2. ASSUME NEW u \in Threads, NEW x \in Threads,
               thread'[u].pc \in {"clear", "frames"}, thread'[x].pc \in {"clear", "frames"},
               thread'[u].bo = thread'[x].bo, thread'[u].bo # NoBo
        PROVE  u = x
    BY <1>10, <2>2 DEF CoreInv, ClearInv
  <2> QED BY <2>1, <2>2 DEF ClearInv
<1>19. LeakInv'
  <2> SUFFICES ASSUME NEW c \in Used, bo'[c].refcount = 0 PROVE FALSE
    BY <1>14 DEF LeakInv
  <2>1. bo[c].refcount = 0
    BY <1>8, <1>9, <1>14
  <2>2. TornDown(c)
    BY <2>1 DEF CoreInv, LeakInv
  <2> QED BY <1>4, <1>13, <2>2 DEF TornDown
<1>20. ParkedInv' /\ RelocLen'
  <2>1. \A c \in Bos \ Used' : bo'[c] = bo[c] /\ vma'.map_count[c] = vma.map_count[c]
    BY <1>2, <1>3, <1>9, <1>14
  <2>2. \A c \in Bos : Len(bo'[c].relocs) <= MaxRelocs
    <3>1. Len(bo[b].relocs) <= MaxRelocs
      BY <1>3 DEF CoreInv, RelocLen
    <3>2. Len(s) <= MaxRelocs
      BY <1>3, <1>6, <3>1, GemBoundsAssumption
    <3> QED BY <1>7, <1>9, <3>2 DEF CoreInv, RelocLen
  <2> QED BY <1>14, <2>1, <2>2 DEF CoreInv, ParkedInv, RelocLen
<1>21. LockMoves(t) /\ Borrows(t)
  BY <1>2, <1>10 DEF LockMoves, Borrows, Holding, Borrowing
<1>22. [VmaNext]_vma
  BY <1>2
<1> QED BY <1>10, <1>12, <1>15, <1>16, <1>17, <1>18, <1>19, <1>20, <1>21, <1>22, WorkInv

-----------------------------------------------------------------------------
(* do_bo_emit_reloc.                                                       *)

(* The structures once b has a relocation to c.                            *)
Emitted(b, c) ==
  /\ bo' \in [Bos -> BoRecord]
  /\ bo'[b].relocs = Append(bo[b].relocs, c)
  /\ \A d \in Bos \ {b} : bo'[d].relocs = bo[d].relocs
  /\ \A d \in Bos : d # c \/ c = b => bo'[d].refcount = bo[d].refcount
  /\ c # b => bo'[c].refcount = bo[c].refcount + 1
  /\ \A d \in Bos : /\ bo'[d].bucket = bo[d].bucket /\ bo'[d].reusable = bo[d].reusable
                    /\ bo'[d].name_list = bo[d].name_list
                    /\ bo'[d].gem_handle = bo[d].gem_handle

(* A relocation of a batch to itself takes no reference.                   *)
LEMMA EmitSelf ==
  ASSUME GemTypeOK, NEW b \in Bos, bo' = [bo EXCEPT ![b].relocs = Append(@, b)]
  PROVE  Emitted(b, b)
<1> DEFINE s == Append(bo[b].relocs, b)
           r == [bo[b] EXCEPT !.relocs = s]
<1>1. bo' = [bo EXCEPT ![b] = r]
  OBVIOUS
<1>2. s \in Seq(Bos)
  BY BoTypes
<1> HIDE DEF s
<1>3. /\ r \in BoRecord /\ r.relocs = s /\ r.refcount = bo[b].refcount /\ r.bucket = bo[b].bucket
      /\ r.reusable = bo[b].reusable /\ r.name_list = bo[b].name_list
      /\ r.gem_handle = bo[b].gem_handle
  BY <1>2, BoTypes DEF BoRecord
<1> HIDE DEF r
<1>4. bo' \in [Bos -> BoRecord] /\ bo'[b] = r /\ \A d \in Bos \ {b} : bo'[d] = bo[d]
  BY <1>1, <1>3, BoPut
<1> QED BY <1>3, <1>4 DEF Emitted, s

(* A relocation to another object takes one.                               *)
LEMMA EmitOther ==
  ASSUME GemTypeOK, NEW b \in Bos, NEW c \in Bos \ {b}, bo' = Relocated(b, c)
  PROVE  Emitted(b, c)
<1> DEFINE s == Append(bo[b].relocs, c)
           n == bo[c].refcount + 1
           r == [bo[b] EXCEPT !.relocs = s]
           q == [bo[c] EXCEPT !.used_as_reloc_target = TRUE, !.refcount = n]
<1>1. bo' = [bo EXCEPT ![b] = r, ![c] = q]
  BY DEF Relocated, GemTypeOK
<1>2. s \in Seq(Bos) /\ n \in Nat
  BY BoTypes
<1> HIDE DEF s, n
<1>3. /\ r \in BoRecord /\ r.relocs = s /\ r.refcount = bo[b].refcount /\ r.bucket = bo[b].bucket
      /\ r.reusable = bo[b].reusable /\ r.name_list = bo[b].name_list
      /\ r.gem_handle = bo[b].gem_handle
  BY <1>2, BoTypes DEF BoRecord
<1>4. /\ q \in BoRecord /\ q.relocs = bo[c].relocs /\ q.refcount = n /\ q.bucket = bo[c].bucket
      /\ q.reusable = bo[c].reusable /\ q.name_list = bo[c].name_list
      /\ q.gem_handle = bo[c].gem_handle
  BY <1>2, BoTypes DEF BoRecord
<1> HIDE DEF r, q
<1>5. /\ bo' \in [Bos -> BoRecord] /\ bo'[b] = r /\ bo'[c] = q
      /\ \A d \in Bos \ {b, c} : bo'[d] = bo[d]
  BY <1>1, <1>3, <1>4 DEF GemTypeOK
<1> QED BY <1>3, <1>4, <1>5 DEF Emitted, s, n

(* One relocation more to c, and none more to any other object.            *)
LEMMA EmitOwns ==
  ASSUME CoreInv, thread' = thread, NEW b \in Bos, NEW c \in Bos, Emitted(b, c),
         Len(bo[b].relocs) < MaxRelocs
  PROVE  \A d \in Bos : RelocsTo(d)' = IF d = c /\ c # b
                                       THEN RelocsTo(d) \cup {<< b, Len(bo[b].relocs) + 1 >>}
                                       ELSE RelocsTo(d)
<1> DEFINE n == Len(bo[b].relocs) + 1
<1>1. /\ bo[b].relocs \in Seq(Bos) /\ n \in 1 .. MaxRelocs
      /\ Len(bo'[b].relocs) = n /\ bo'[b].relocs[n] = c
      /\ \A i \in 1 .. n - 1 : bo'[b].relocs[i] = bo[b].relocs[i]
      /\ n \in Nat /\ Len(bo[b].relocs) = n - 1
  <2>1. bo[b].relocs \in Seq(Bos) /\ bo'[b].relocs = Append(bo[b].relocs, c)
    BY BoTypes DEF CoreInv, Emitted
  <2> QED BY <2>1, GemBoundsAssumption
<1> HIDE DEF n
<1>2. ASSUME NEW d, NEW i PROVE Passed(d, i)' <=> Passed(d, i)
  BY DEF Passed, At
<1>3. ~Passed(b, n)
  <2> SUFFICES ASSUME NEW u \in Threads, thread[u].pc = "frames",
                      NEW m \in 1 .. Len(thread[u].frames),
                      thread[u].frames[m].bo = b, n < thread[u].frames[m].at
               PROVE  FALSE
    BY DEF Passed, At
  <2>1. FrameOK(u, m) /\ thread[u].frames[m] \in Frame
    BY TopOK
  <2>2. thread[u].frames[m].at <= Len(bo[b].relocs) + 1 /\ thread[u].frames[m].at \in Nat
    BY <2>1 DEF FrameOK, Frame
  <2> QED BY <1>1, <2>2
<1>4. ASSUME NEW d \in Bos, NEW e \in Bos, e # d, NEW i \in 1 .. MaxRelocs
      PROVE  Owns(e, i, d)' <=> Owns(e, i, d) \/ (d = c /\ e = b /\ i = n)
  <2>1. i \in Nat /\ 1 <= i
    BY GemBoundsAssumption
  <2>2. CASE e # b
    <3>1. bo'[e].relocs = bo[e].relocs
      BY <2>2 DEF Emitted
    <3> QED BY <1>2, <2>2, <3>1 DEF Owns
  <2>3. CASE e = b
    <3>1. CASE i < n
      <4>1. bo'[b].relocs[i] = bo[b].relocs[i] /\ i <= Len(bo[b].relocs) /\ i <= Len(bo'[b].relocs)
        BY <1>1, <2>1, <3>1
      <4> QED BY <1>1, <1>2, <2>1, <2>3, <3>1, <4>1 DEF Owns
    <3>2. CASE i = n
      <4>1. ~(n <= Len(bo[b].relocs)) /\ n <= Len(bo'[b].relocs)
        BY <1>1
      <4> QED BY <1>1, <1>2, <1>3, <2>3, <3>2, <4>1 DEF Owns
    <3>3. CASE i > n
      <4>1. ~(i <= Len(bo[b].relocs)) /\ ~(i <= Len(bo'[b].relocs))
        BY <1>1, <2>1, <3>3
      <4> QED BY <1>1, <2>1, <2>3, <3>3, <4>1 DEF Owns
    <3> QED BY <1>1, <2>1, <3>1, <3>2, <3>3
  <2> QED BY <2>2, <2>3
<1>5. ASSUME NEW d \in Bos
      PROVE  RelocsTo(d)' = IF d = c /\ c # b THEN RelocsTo(d) \cup {<< b, n >>} ELSE RelocsTo(d)
  <2>1. ASSUME NEW p \in (Bos \ {d}) \X (1 .. MaxRelocs)
        PROVE  p \in RelocsTo(d)' <=> p \in RelocsTo(d) \/ (d = c /\ p = << b, n >>)
    <3>1. PICK e \in Bos, i \in 1 .. MaxRelocs : p = << e, i >> /\ e # d /\ p[1] = e /\ p[2] = i
      OBVIOUS
    <3>2. Owns(e, i, d)' <=> Owns(e, i, d) \/ (d = c /\ e = b /\ i = n)
      BY <1>4, <3>1
    <3>3. p \in RelocsTo(d) <=> Owns(e, i, d)
      BY <3>1 DEF RelocsTo
    <3>4. p \in RelocsTo(d)' <=> Owns(e, i, d)'
      BY <3>1 DEF RelocsTo
    <3>5. p = << b, n >> <=> e = b /\ i = n
      BY <3>1
    <3> QED BY <3>2, <3>3, <3>4, <3>5
  <2>2. /\ RelocsTo(d) \subseteq (Bos \ {d}) \X (1 .. MaxRelocs)
        /\ RelocsTo(d)' \subseteq (Bos \ {d}) \X (1 .. MaxRelocs)
    BY DEF RelocsTo
  <2>3. << b, n >> \in (Bos \ {d}) \X (1 .. MaxRelocs) <=> d # b
    BY <1>1
  <2> QED BY <2>1, <2>2, <2>3
<1> QED BY <1>5 DEF n

(* The counts stay exact when a relocation is emitted.                     *)
LEMMA EmitCount ==
  ASSUME CoreInv, thread' = thread, held' = held, GemTypeOK', NEW b \in Bos, NEW c \in Bos,
         Emitted(b, c), Len(bo[b].relocs) < MaxRelocs
  PROVE  CountInv'
<1> SUFFICES ASSUME NEW d \in Bos
             PROVE  bo'[d].refcount = held[d] + Cardinality(Borrowers(d)) + Cardinality(RelocsTo(d)')
  <2>1. \A d \in Bos : Borrowers(d)' = Borrowers(d)
    BY DEF Borrowers
  <2> QED BY <2>1 DEF CountInv
<1>1. GemTypeOK /\ CountInv
  BY DEF CoreInv
<1>2. /\ Cardinality(Borrowers(d)) \in Nat /\ Cardinality(RelocsTo(d)) \in Nat /\ held[d] \in Nat
      /\ bo[d].refcount = held[d] + Cardinality(Borrowers(d)) + Cardinality(RelocsTo(d))
  BY <1>1, CountsApart, BoTypes
<1> DEFINE p == << b, Len(bo[b].relocs) + 1 >>
<1>3. RelocsTo(d)' = IF d = c /\ c # b THEN RelocsTo(d) \cup {p} ELSE RelocsTo(d)
  BY EmitOwns
<1>4. p \notin RelocsTo(d)
  <2>1. Len(bo[b].relocs) \in Nat
    BY <1>1, BoTypes
  <2>2. ~(p[2] <= Len(bo[p[1]].relocs))
    BY <2>1
  <2> HIDE DEF p
  <2> QED BY <2>2 DEF RelocsTo, Owns
<1> HIDE DEF p
<1>5. Cardinality(RelocsTo(d) \cup {p}) = Cardinality(RelocsTo(d)) + 1
  <2>1. IsFiniteSet(RelocsTo(d))
    <3>1. RelocsTo(d) \subseteq Bos \X (1 .. MaxRelocs)
      BY DEF RelocsTo
    <3> QED BY <3>1, RelocsFinite
  <2> QED BY <1>4, <2>1, FS_AddElement
<1>6. CASE d = c /\ c # b
  <2>1. bo'[d].refcount = bo[d].refcount + 1
    BY <1>6 DEF Emitted
  <2> QED BY <1>2, <1>3, <1>5, <1>6, <2>1
<1>7. CASE ~(d = c /\ c # b)
  <2>1. bo'[d].refcount = bo[d].refcount
    BY <1>7 DEF Emitted
  <2> QED BY <1>2, <1>3, <1>7, <2>1
<1> QED BY <1>6, <1>7

(* do_bo_emit_reloc.                                                       *)
LEMMA EmitRelocInv ==
  ASSUME CoreInv, TRUE \notin CanReject, NEW t \in Threads, NEW b \in Bos, NEW c \in Bos,
         EmitReloc(t, b, c)
  PROVE  CoreInv'
<1>1. /\ thread[t].pc = "idle" /\ held[b] > 0 /\ held[c] > 0 /\ ~Clearing(b)
      /\ Len(bo[b].relocs) < MaxRelocs
      /\ UNCHANGED << vma, named, cache, time, lock, thread, held, kernel, clock, fault >>
  BY DEF EmitReloc, Calls, At, Uses
<1>2. GemTypeOK
  BY DEF CoreInv
<1>3. Emitted(b, c)
  BY <1>2, EmitSelf, EmitOther DEF EmitReloc
<1>4. b \in Used /\ c \in Used /\ bo[c].refcount > 0 /\ bo[c].refcount \in Nat
  BY <1>1, <1>2, HeldIsUsed, BoTypes
<1>5. GemTypeOK'
  BY <1>1, <1>2, <1>3 DEF GemTypeOK, Emitted
<1>6. Used' = Used /\ Live' = Live /\ Used \subseteq Bos
  BY <1>1 DEF Used, Live, InCache, CachedIn, Exists
<1>7. CountInv'
  BY <1>1, <1>3, <1>5, EmitCount
<1>8. \A d \in Bos : bo'[d].refcount = 0 <=> bo[d].refcount = 0
  <2>1. bo'[c].refcount # 0 /\ bo[c].refcount # 0
    BY <1>3, <1>4 DEF Emitted
  <2> QED BY <1>3, <2>1 DEF Emitted
<1>9. /\ \A d \in Bos : Len(bo[d].relocs) \in Nat /\ Len(bo'[d].relocs) \in Nat
                        /\ Len(bo[d].relocs) <= Len(bo'[d].relocs)
      /\ Len(bo'[b].relocs) = Len(bo[b].relocs) + 1
  <2>1. bo[b].relocs \in Seq(Bos) /\ bo'[b].relocs = Append(bo[b].relocs, c)
    BY <1>2, <1>3, BoTypes DEF Emitted
  <2>2. Len(bo[b].relocs) \in Nat /\ Len(bo'[b].relocs) = Len(bo[b].relocs) + 1
    BY <2>1
  <2>3. ASSUME NEW d \in Bos \ {b} PROVE bo'[d].relocs = bo[d].relocs /\ Len(bo[d].relocs) \in Nat
    BY <1>2, <1>3, BoTypes DEF Emitted
  <2> QED BY <2>2, <2>3
<1>10. CacheInv' /\ NamedInv'
  <2>1. Items(named) \subseteq Bos
    BY <1>2, NamedBos
  <2> QED BY <1>1, <1>3, <1>6, <2>1, CacheKept, NamedKept DEF Emitted
<1>11. FramesInv'
  <2>1. ASSUME NEW u \in Threads, thread[u].pc = "frames", NEW n \in 1 .. Len(thread[u].frames)
        PROVE  FrameOK(u, n)'
    <3>1. PICK f : f = thread[u].frames[n] /\ f = thread'[u].frames[n]
      BY <1>1
    <3>2. FrameOK(u, n) /\ f \in Frame
      BY <2>1, <3>1, TopOK
    <3>3. f.bo \in Bos /\ f.at \in Nat
      BY <3>2 DEF Frame
    <3>4. f.at <= Len(bo[f.bo].relocs) + 1
      BY <3>1, <3>2 DEF FrameOK
    <3>5. f.at <= Len(bo'[f.bo].relocs) + 1
      <4> DEFINE x == Len(bo[f.bo].relocs)
                 y == Len(bo'[f.bo].relocs)
                 a == f.at
      <4>1. x \in Nat /\ y \in Nat /\ x <= y /\ a \in Nat /\ a <= x + 1
        BY <1>9, <3>3, <3>4
      <4> HIDE DEF x, y, a
      <4>2. a <= y + 1
        BY <4>1
      <4> QED BY <4>2 DEF a, y
    <3>6. f.bo \in Used' /\ (bo[f.bo].refcount = 0 => bo'[f.bo].refcount = 0)
      BY <1>6, <1>8, <3>1, <3>2, <3>3 DEF FrameOK
    <3> QED BY <1>1, <3>1, <3>2, <3>5, <3>6 DEF FrameOK
  <2>2. ASSUME NEW u \in Threads, thread'[u].pc = "frames"
        PROVE  /\ thread'[u].frames # << >> /\ Distinct(thread'[u].frames)
               /\ \A n \in 1 .. Len(thread'[u].frames) : FrameOK(u, n)'
    <3>1. thread[u].pc = "frames" /\ thread'[u] = thread[u]
      BY <1>1, <2>2
    <3>2. thread[u].frames # << >> /\ Distinct(thread[u].frames)
      BY <3>1 DEF CoreInv, FramesInv
    <3>3. \A n \in 1 .. Len(thread[u].frames) : FrameOK(u, n)'
      BY <2>1, <3>1
    <3> QED BY <3>1, <3>2, <3>3
  <2> QED BY <2>2 DEF FramesInv, Distinct
<1>12. ClearInv'
  <2>1. ASSUME NEW u \in Threads, thread[u].pc = "clear" PROVE ClearOK(u)'
    <3>1. PICK f : f = thread[u].frames[1] /\ f = thread'[u].frames[1]
      BY <1>1
    <3>2. ClearOK(u) /\ f.bo = thread[u].bo /\ f.bo \in Bos /\ thread[u].bo # b
      BY <1>1, <2>1, <3>1 DEF CoreInv, ClearInv, ClearOK, BorrowInv, Borrowing, Clearing
    <3>3. bo'[f.bo].relocs = bo[f.bo].relocs
      BY <1>3, <3>2 DEF Emitted
    <3> QED BY <1>1, <3>1, <3>2, <3>3 DEF ClearOK
  <2> QED BY <1>1, <2>1 DEF CoreInv, ClearInv
<1>13. LeakInv'
  <2>1. \A d \in Used' : bo'[d].refcount = 0 => TornDown(d)
    BY <1>6, <1>8 DEF CoreInv, LeakInv
  <2>2. \A d : TornDown(d)' <=> TornDown(d)
    BY <1>1 DEF TornDown
  <2> QED BY <2>1, <2>2 DEF LeakInv
<1>14. ParkedInv' /\ RelocLen'
  <2>1. ASSUME NEW d \in Bos, d \notin Used
        PROVE  bo'[d].refcount = 0 /\ bo'[d].relocs = << >> /\ vma'.map_count[d] = 0
    <3>1. bo[d].refcount = 0 /\ bo[d].relocs = << >> /\ vma.map_count[d] = 0 /\ d # b /\ d # c
      BY <1>4, <2>1, ParkedFacts
    <3> QED BY <1>1, <1>3, <3>1 DEF Emitted
  <2>2. ASSUME NEW d \in Bos PROVE Len(bo'[d].relocs) <= MaxRelocs
    <3>1. CASE d = b
      <4>1. Len(bo[b].relocs) \in Nat /\ Len(bo'[b].relocs) = Len(bo[b].relocs) + 1
        BY <1>9
      <4> QED BY <1>1, <3>1, <4>1, GemBoundsAssumption
    <3>2. CASE d # b
      BY <1>3, <3>2 DEF CoreInv, RelocLen, Emitted
    <3> QED BY <3>1, <3>2
  <2> QED BY <1>6, <2>1, <2>2 DEF ParkedInv, RelocLen
<1>15. LockMoves(t) /\ Borrows(t) /\ [VmaNext]_vma /\ \A u \in Threads \ {t} : thread'[u] = thread[u]
  BY <1>1 DEF LockMoves, Borrows, CoreInv, BorrowInv
<1> QED BY <1>5, <1>7, <1>10, <1>11, <1>12, <1>13, <1>14, <1>15, WorkInv

-----------------------------------------------------------------------------
(* A turn of the loop over the relocations.                                *)

(* The activations of t once the top one has passed a relocation, and      *)
(* perhaps one has been pushed.                                            *)
Advanced(t, fs, c) ==
  LET n == Len(thread[t].frames)
  IN  /\ fs \in Seq(Frame)
      /\ Len(fs) = n \/ (Len(fs) = n + 1 /\ fs[n + 1] = FinalFrame(c))
      /\ \A m \in 1 .. n - 1 : fs[m] = thread[t].frames[m]
      /\ fs[n].bo = Top(t).bo /\ fs[n].from = Top(t).from /\ fs[n].final = Top(t).final
      /\ fs[n].at = Top(t).at + 1

(* The activations the loop goes on with, without and with a new one.      *)
LEMMA NextAdvanced ==
  ASSUME CoreInv, NEW t \in Threads, thread[t].pc = "frames", NEW c \in Bos
  PROVE  LET next == Append(Pop(t), [Top(t) EXCEPT !.at = @ + 1])
         IN  /\ Advanced(t, next, c) /\ Len(next) = Len(thread[t].frames)
             /\ Advanced(t, Append(next, FinalFrame(c)), c)
             /\ Len(Append(next, FinalFrame(c))) = Len(thread[t].frames) + 1
<1> DEFINE fs == thread[t].frames
           n == Len(fs)
           a == Top(t).at + 1
           g == [Top(t) EXCEPT !.at = a]
           p == Pop(t)
           next == Append(p, g)
           more == Append(next, FinalFrame(c))
<1>1. fs \in Seq(Frame) /\ n \in Nat \ {0} /\ Top(t) \in Frame /\ a \in Nat
  BY TopOK
<1>2. /\ g \in Frame /\ g.bo = Top(t).bo /\ g.from = Top(t).from /\ g.final = Top(t).final
      /\ g.at = a /\ g = [Top(t) EXCEPT !.at = @ + 1]
  BY <1>1 DEF Frame
<1>3. FinalFrame(c) \in Frame
  BY FinalFrameType
<1>4. p = SubSeq(fs, 1, n - 1)
  BY DEF Pop
<1> HIDE DEF fs, n, g, p
<1>5. p \in Seq(Frame) /\ Len(p) = n - 1 /\ \A m \in 1 .. n - 1 : p[m] = fs[m]
  <2>1. n = Len(fs)
    BY DEF n
  <2> QED BY <1>1, <1>4, <2>1
<1>6. /\ next \in Seq(Frame) /\ Len(next) = n /\ next[n] = g
      /\ \A m \in 1 .. n - 1 : next[m] = fs[m]
  BY <1>1, <1>2, <1>5
<1> HIDE DEF next
<1>7. /\ more \in Seq(Frame) /\ Len(more) = n + 1 /\ more[n + 1] = FinalFrame(c)
      /\ more[n] = g /\ \A m \in 1 .. n - 1 : more[m] = fs[m]
  BY <1>1, <1>3, <1>6
<1> HIDE DEF more
<1>8. Advanced(t, next, c) /\ Advanced(t, more, c)
  BY <1>2, <1>6, <1>7 DEF Advanced, fs, n, a
<1> QED BY <1>2, <1>6, <1>7, <1>8 DEF next, more, fs, n, p, g, a

(* After the turn one relocation more has been passed.                     *)
LEMMA DropPassed ==
  ASSUME CoreInv, NEW t \in Threads, thread[t].pc = "frames", thread'[t].pc = "frames",
         \A u \in Threads \ {t} : thread'[u] = thread[u],
         NEW c \in Bos, Advanced(t, thread'[t].frames, c),
         NEW d \in Bos, NEW i \in 1 .. MaxRelocs
  PROVE  Passed(d, i)' <=> Passed(d, i) \/ (d = Top(t).bo /\ i = Top(t).at)
<1> DEFINE fs == thread[t].frames
           gs == thread'[t].frames
           n == Len(fs)
<1>1. \A u \in Threads : thread[u].pc = "frames" => u = t
  BY OnlyHolder DEF Holding
<1>2. /\ n \in Nat \ {0} /\ Top(t) = fs[n] /\ Top(t).from \in Nat /\ Top(t).at \in Nat
      /\ Top(t).from <= Top(t).at /\ i \in Nat /\ 1 <= i
  BY TopOK, GemBoundsAssumption
<1>3. /\ Len(gs) = n \/ (Len(gs) = n + 1 /\ gs[n + 1].from = 1 /\ gs[n + 1].at = 1)
      /\ \A m \in 1 .. n - 1 : gs[m] = fs[m]
      /\ gs[n].bo = Top(t).bo /\ gs[n].from = Top(t).from /\ gs[n].at = Top(t).at + 1
  BY FinalFrameType DEF Advanced
<1>4. Passed(d, i)' <=> \E m \in 1 .. Len(gs) : gs[m].bo = d /\ gs[m].from <= i /\ i < gs[m].at
  BY <1>1 DEF Passed, At
<1>5. Passed(d, i) <=> \E m \in 1 .. n : fs[m].bo = d /\ fs[m].from <= i /\ i < fs[m].at
  BY PassedBy
<1> HIDE DEF fs, gs, n
<1>6. ASSUME Passed(d, i)' PROVE Passed(d, i) \/ (d = Top(t).bo /\ i = Top(t).at)
  <2>1. PICK m \in 1 .. Len(gs) : gs[m].bo = d /\ gs[m].from <= i /\ i < gs[m].at
    BY <1>4, <1>6
  <2>2. CASE m < n
    <3>1. m \in 1 .. n - 1 /\ m \in 1 .. n
      BY <1>2, <2>2
    <3> QED BY <1>3, <1>5, <2>1, <3>1
  <2>3. CASE m = n
    <3>1. i < Top(t).at \/ i = Top(t).at
      BY <1>2, <1>3, <2>1, <2>3
    <3>2. d = Top(t).bo /\ Top(t).from <= i
      BY <1>3, <2>1, <2>3
    <3>3. i < Top(t).at => Passed(d, i)
      BY <3>2, TopPassed
    <3> QED BY <3>1, <3>2, <3>3
  <2>4. CASE m > n
    <3>1. m = n + 1 /\ gs[m].from = 1 /\ gs[m].at = 1
      BY <1>2, <1>3, <2>4
    <3> QED BY <1>2, <2>1, <3>1
  <2> QED BY <1>2, <1>3, <2>2, <2>3, <2>4
<1>7. n \in 1 .. Len(gs) /\ \A m \in 1 .. n : m \in 1 .. Len(gs)
  BY <1>2, <1>3
<1>8. ASSUME Passed(d, i) PROVE Passed(d, i)'
  <2>1. PICK m \in 1 .. n : fs[m].bo = d /\ fs[m].from <= i /\ i < fs[m].at
    BY <1>5, <1>8
  <2>2. CASE m < n
    <3>1. m \in 1 .. n - 1 /\ m \in 1 .. Len(gs)
      BY <1>2, <1>7, <2>2
    <3> QED BY <1>3, <1>4, <2>1, <3>1
  <2>3. CASE m = n
    <3>1. gs[n].bo = d /\ gs[n].from <= i /\ i < gs[n].at
      BY <1>2, <1>3, <2>1, <2>3
    <3> QED BY <1>4, <1>7, <3>1
  <2> QED BY <1>2, <2>2, <2>3
<1>9. ASSUME d = Top(t).bo, i = Top(t).at PROVE Passed(d, i)'
  <2>1. gs[n].bo = d /\ gs[n].from <= i /\ i < gs[n].at
    BY <1>2, <1>3, <1>9
  <2> QED BY <1>4, <1>7, <2>1
<1> QED BY <1>6, <1>8, <1>9

(* One relocation less to the target c of the turn.                        *)
LEMMA DropOwns ==
  ASSUME CoreInv, NEW t \in Threads, thread[t].pc = "frames", thread'[t].pc = "frames",
         \A u \in Threads \ {t} : thread'[u] = thread[u],
         Top(t).at <= Len(bo[Top(t).bo].relocs),
         NEW c \in Bos, c = bo[Top(t).bo].relocs[Top(t).at], Advanced(t, thread'[t].frames, c),
         \A d \in Bos : bo'[d].relocs = bo[d].relocs
  PROVE  /\ \A d \in Bos : RelocsTo(d)' = IF d = c /\ c # Top(t).bo
                                          THEN RelocsTo(d) \ {<< Top(t).bo, Top(t).at >>}
                                          ELSE RelocsTo(d)
         /\ c # Top(t).bo => << Top(t).bo, Top(t).at >> \in RelocsTo(c)
<1> DEFINE b == Top(t).bo
           a == Top(t).at
<1>1. /\ b \in Bos /\ a \in Nat /\ 1 <= a /\ Len(bo[b].relocs) \in Nat /\ a <= Len(bo[b].relocs)
      /\ c = bo[b].relocs[a] /\ ~Passed(b, a)
  <2>1. /\ b \in Bos /\ a \in Nat /\ Top(t).from \in Nat /\ 1 <= Top(t).from /\ Top(t).from <= a
        /\ Len(bo[b].relocs) \in Nat
    BY TopOK
  <2>2. Passed(b, a) <=> Top(t).from <= a /\ a < a
    BY TopPassed
  <2> QED BY <2>1, <2>2
<1>2. a \in 1 .. MaxRelocs
  <2>1. Len(bo[b].relocs) <= MaxRelocs
    BY <1>1 DEF CoreInv, RelocLen
  <2> QED BY <1>1, <2>1, GemBoundsAssumption
<1>3. ASSUME NEW d \in Bos, NEW i \in 1 .. MaxRelocs
      PROVE  Passed(d, i)' <=> Passed(d, i) \/ (d = b /\ i = a)
  BY DropPassed
<1> HIDE DEF a, b
<1>4. ASSUME NEW e \in Bos, NEW i \in 1 .. MaxRelocs, NEW d \in Bos
      PROVE  Owns(e, i, d)' <=> Owns(e, i, d) /\ ~(e = b /\ i = a)
  <2>1. bo'[e].relocs = bo[e].relocs /\ (Passed(e, i)' <=> Passed(e, i) \/ (e = b /\ i = a))
    BY <1>3
  <2> QED BY <2>1 DEF Owns
<1>5. ASSUME NEW d \in Bos PROVE Owns(b, a, d) <=> d = c
  BY <1>1 DEF Owns
<1>6. ASSUME NEW d \in Bos
      PROVE  RelocsTo(d)' = IF d = c /\ c # b THEN RelocsTo(d) \ {<< b, a >>} ELSE RelocsTo(d)
  <2>1. ASSUME NEW p \in (Bos \ {d}) \X (1 .. MaxRelocs)
        PROVE  p \in RelocsTo(d)' <=> p \in RelocsTo(d) /\ p # << b, a >>
    <3>1. PICK e \in Bos, i \in 1 .. MaxRelocs : p = << e, i >> /\ e # d /\ p[1] = e /\ p[2] = i
      OBVIOUS
    <3>2. Owns(e, i, d)' <=> Owns(e, i, d) /\ ~(e = b /\ i = a)
      BY <1>4
    <3>3. p \in RelocsTo(d) <=> Owns(e, i, d)
      BY <3>1 DEF RelocsTo
    <3>4. p \in RelocsTo(d)' <=> Owns(e, i, d)'
      BY <3>1 DEF RelocsTo
    <3>5. p = << b, a >> <=> e = b /\ i = a
      BY <3>1
    <3> QED BY <3>2, <3>3, <3>4, <3>5
  <2>2. /\ RelocsTo(d) \subseteq (Bos \ {d}) \X (1 .. MaxRelocs)
        /\ RelocsTo(d)' \subseteq (Bos \ {d}) \X (1 .. MaxRelocs)
    BY DEF RelocsTo
  <2>3. << b, a >> \in RelocsTo(d) => d = c /\ d # b
    <3>1. << b, a >> \in RelocsTo(d) => b # d /\ Owns(b, a, d)
      BY <1>1, <1>2 DEF RelocsTo
    <3> QED BY <1>5, <3>1
  <2> QED BY <2>1, <2>2, <2>3
<1>7. ASSUME c # b PROVE << b, a >> \in RelocsTo(c)
  BY <1>1, <1>2, <1>5, <1>7 DEF RelocsTo
<1> QED BY <1>6, <1>7 DEF a, b

(* The counts stay exact when a relocation gives up its reference.         *)
LEMMA DropCount ==
  ASSUME CoreInv, NEW t \in Threads, thread[t].pc = "frames", thread'[t].pc = "frames",
         \A u \in Threads \ {t} : thread'[u] = thread[u], thread'[t].bo = thread[t].bo,
         held' = held, Top(t).at <= Len(bo[Top(t).bo].relocs),
         NEW c \in Bos, c = bo[Top(t).bo].relocs[Top(t).at], Advanced(t, thread'[t].frames, c),
         \A d \in Bos : bo'[d].relocs = bo[d].relocs,
         \A d \in Bos : d # c \/ c = Top(t).bo => bo'[d].refcount = bo[d].refcount,
         c # Top(t).bo => bo'[c].refcount = bo[c].refcount - 1
  PROVE  CountInv'
<1> SUFFICES ASSUME NEW d \in Bos
             PROVE  bo'[d].refcount = held[d] + Cardinality(Borrowers(d)) + Cardinality(RelocsTo(d)')
  <2>1. \A d \in Bos : Borrowers(d)' = Borrowers(d)
    BY DEF Borrowers
  <2> QED BY <2>1 DEF CountInv
<1>1. /\ Cardinality(Borrowers(d)) \in Nat /\ Cardinality(RelocsTo(d)) \in Nat /\ held[d] \in Nat
      /\ bo[d].refcount = held[d] + Cardinality(Borrowers(d)) + Cardinality(RelocsTo(d))
  <2>1. GemTypeOK /\ CountInv
    BY DEF CoreInv
  <2> QED BY <2>1, CountsApart, BoTypes
<1> DEFINE p == << Top(t).bo, Top(t).at >>
<1>2. /\ RelocsTo(d)' = IF d = c /\ c # Top(t).bo THEN RelocsTo(d) \ {p} ELSE RelocsTo(d)
      /\ c # Top(t).bo => p \in RelocsTo(c)
  BY DropOwns, ZenonT(40)
<1> HIDE DEF p
<1>3. CASE d = c /\ c # Top(t).bo
  <2>1. Cardinality(RelocsTo(d) \ {p}) = Cardinality(RelocsTo(d)) - 1
    <3>1. IsFiniteSet(RelocsTo(d))
      <4>1. RelocsTo(d) \subseteq Bos \X (1 .. MaxRelocs)
        BY DEF RelocsTo
      <4> QED BY <4>1, RelocsFinite
    <3>2. p \in RelocsTo(d)
      BY <1>2, <1>3
    <3> QED BY <3>1, <3>2, FS_RemoveElement
  <2>2. bo'[d].refcount = bo[d].refcount - 1 /\ RelocsTo(d)' = RelocsTo(d) \ {p}
    BY <1>2, <1>3
  <2>3. Cardinality(RelocsTo(d)') = Cardinality(RelocsTo(d)) - 1
    BY <2>1, <2>2, Zenon
  <2> DEFINE x == Cardinality(RelocsTo(d))
             y == Cardinality(RelocsTo(d)')
             z == Cardinality(Borrowers(d))
             k == bo[d].refcount
             m == bo'[d].refcount
             h == held[d]
  <2>4. x \in Nat /\ z \in Nat /\ h \in Nat /\ k = h + z + x /\ m = k - 1 /\ y = x - 1
    BY <1>1, <2>2, <2>3
  <2> HIDE DEF x, y, z, k, m, h
  <2>5. m = h + z + y
    BY <2>4
  <2> QED BY <2>5 DEF x, y, z, k, m, h
<1>4. CASE ~(d = c /\ c # Top(t).bo)
  BY <1>1, <1>2, <1>4
<1> QED BY <1>3, <1>4

(* The target of a relocation that owns a reference is in use, and a final *)
(* activation is of another object.  If that was its last reference, so is *)
(* every activation.                                                       *)
LEMMA TargetCounted ==
  ASSUME CoreInv, NEW t \in Threads, thread[t].pc = "frames",
         NEW c \in Bos, NEW p, p \in RelocsTo(c)
  PROVE  /\ c \in Used /\ bo[c].refcount \in Nat /\ bo[c].refcount > 0
         /\ \A n \in 1 .. Len(thread[t].frames) :
              thread[t].frames[n].bo = c =>
                ~thread[t].frames[n].final /\ bo[c].refcount # 1
<1>1. /\ Cardinality(Borrowers(c)) \in Nat /\ Cardinality(RelocsTo(c)) \in Nat /\ held[c] \in Nat
      /\ bo[c].refcount = held[c] + Cardinality(Borrowers(c)) + Cardinality(RelocsTo(c))
      /\ Borrowers(c) # {} => Cardinality(Borrowers(c)) >= 1
      /\ Cardinality(RelocsTo(c)) >= 1 /\ bo[c].refcount \in Nat
  <2>1. GemTypeOK /\ CountInv
    BY DEF CoreInv
  <2> QED BY <2>1, CountsApart, BoTypes
<1>2. bo[c].refcount > 0 /\ (Borrowers(c) # {} => bo[c].refcount # 1)
  BY <1>1
<1>3. c \in Used
  BY <1>2, ParkedFacts
<1>4. ASSUME NEW n \in 1 .. Len(thread[t].frames), thread[t].frames[n].bo = c
      PROVE  ~thread[t].frames[n].final /\ bo[c].refcount # 1
  <2>1. FrameOK(t, n)
    BY TopOK
  <2>2. ~thread[t].frames[n].final
    BY <1>2, <1>4, <2>1 DEF FrameOK
  <2>3. thread[t].bo = c
    BY <1>4, <2>1, <2>2 DEF FrameOK
  <2>4. Borrowers(c) # {}
    BY <2>3 DEF Borrowers
  <2> QED BY <1>2, <2>2, <2>4
<1> QED BY <1>1, <1>2, <1>3, <1>4

(* The activations after the turn: at most the pushed one is new.          *)
LEMMA AdvancedFrames ==
  ASSUME CoreInv, NEW t \in Threads, thread[t].pc = "frames", NEW c \in Bos,
         NEW gs, Advanced(t, gs, c)
  PROVE  LET fs == thread[t].frames
             n == Len(fs)
         IN  /\ n \in Nat \ {0} /\ gs \in Seq(Frame) /\ Len(gs) \in Nat /\ n <= Len(gs)
             /\ Len(gs) = n \/ (Len(gs) = n + 1 /\ gs[n + 1] = FinalFrame(c))
             /\ \A m \in 1 .. Len(gs) : m \in 1 .. n \/ (m = n + 1 /\ Len(gs) = n + 1)
             /\ \A m \in 1 .. n : /\ m \in 1 .. Len(gs)
                                  /\ gs[m].bo = fs[m].bo /\ gs[m].final = fs[m].final
                                  /\ gs[m].from = fs[m].from
                                  /\ gs[m].at = fs[m].at \/ (m = n /\ gs[m].at = fs[m].at + 1)
<1> DEFINE fs == thread[t].frames
           n == Len(fs)
<1>1. n \in Nat \ {0} /\ Top(t) = fs[n]
  BY TopOK
<1>2. /\ gs \in Seq(Frame) /\ (Len(gs) = n \/ (Len(gs) = n + 1 /\ gs[n + 1] = FinalFrame(c)))
      /\ \A m \in 1 .. n - 1 : gs[m] = fs[m]
      /\ gs[n].bo = fs[n].bo /\ gs[n].from = fs[n].from /\ gs[n].final = fs[n].final
      /\ gs[n].at = fs[n].at + 1
  BY <1>1 DEF Advanced
<1> HIDE DEF fs, n
<1>3. /\ Len(gs) \in Nat /\ n <= Len(gs)
      /\ \A m \in 1 .. Len(gs) : m \in 1 .. n \/ (m = n + 1 /\ Len(gs) = n + 1)
      /\ \A m \in 1 .. n : m \in 1 .. Len(gs)
  BY <1>1, <1>2
<1>4. ASSUME NEW m \in 1 .. n
      PROVE  /\ gs[m].bo = fs[m].bo /\ gs[m].final = fs[m].final /\ gs[m].from = fs[m].from
             /\ gs[m].at = fs[m].at \/ (m = n /\ gs[m].at = fs[m].at + 1)
  <2>1. m \in 1 .. n - 1 \/ m = n
    BY <1>1
  <2> QED BY <1>2, <2>1, Zenon
<1>5. /\ n \in Nat \ {0} /\ gs \in Seq(Frame) /\ Len(gs) \in Nat /\ n <= Len(gs)
      /\ Len(gs) = n \/ (Len(gs) = n + 1 /\ gs[n + 1] = FinalFrame(c))
      /\ \A m \in 1 .. Len(gs) : m \in 1 .. n \/ (m = n + 1 /\ Len(gs) = n + 1)
      /\ \A m \in 1 .. n : /\ m \in 1 .. Len(gs)
                           /\ gs[m].bo = fs[m].bo /\ gs[m].final = fs[m].final
                           /\ gs[m].from = fs[m].from
                           /\ gs[m].at = fs[m].at \/ (m = n /\ gs[m].at = fs[m].at + 1)
  BY <1>1, <1>2, <1>3, <1>4, Zenon
<1> QED BY <1>5 DEF fs, n

(* The turn keeps what is known of activations when an object without      *)
(* references keeps none, and the pushed activation is of one that has     *)
(* just lost its last.                                                     *)
LEMMA AdvanceFrames ==
  ASSUME CoreInv, NEW t \in Threads, thread[t].pc = "frames", thread'[t].bo = thread[t].bo,
         \A u \in Threads \ {t} : thread'[u] = thread[u],
         NEW c \in Bos, Advanced(t, thread'[t].frames, c), Used' = Used,
         Top(t).at <= Len(bo[Top(t).bo].relocs),
         \A d \in Bos : bo'[d].relocs = bo[d].relocs,
         \A d \in Bos : bo[d].refcount = 0 => bo'[d].refcount = 0,
         Len(thread'[t].frames) = Len(thread[t].frames) + 1 =>
           /\ c \in Used /\ bo'[c].refcount = 0
           /\ \A m \in 1 .. Len(thread[t].frames) : thread[t].frames[m].bo # c
  PROVE  FramesInv'
<1> DEFINE fs == thread[t].frames
<1>1. PICK gs, n : gs = thread'[t].frames /\ n = Len(fs)
  OBVIOUS
<1>2. Advanced(t, gs, c)
  BY <1>1, Zenon
<1>3. /\ n \in Nat \ {0} /\ gs \in Seq(Frame) /\ Len(gs) \in Nat /\ n <= Len(gs)
      /\ Len(gs) = n \/ (Len(gs) = n + 1 /\ gs[n + 1] = FinalFrame(c))
      /\ \A m \in 1 .. Len(gs) : m \in 1 .. n \/ (m = n + 1 /\ Len(gs) = n + 1)
      /\ \A m \in 1 .. n : /\ m \in 1 .. Len(gs)
                           /\ gs[m].bo = fs[m].bo /\ gs[m].final = fs[m].final
                           /\ gs[m].from = fs[m].from
                           /\ gs[m].at = fs[m].at \/ (m = n /\ gs[m].at = fs[m].at + 1)
  BY SMTT(30), <1>1, <1>2, AdvancedFrames
<1>4. /\ Distinct(fs) /\ Top(t) = fs[n]
      /\ \A m \in 1 .. n : FrameOK(t, m) /\ fs[m] \in Frame
      /\ fs[n].at <= Len(bo[fs[n].bo].relocs)
  BY <1>1, TopOK
<1>5. Len(gs) = n + 1 => /\ c \in Used /\ bo'[c].refcount = 0
                         /\ \A m \in 1 .. n : fs[m].bo # c
  BY <1>1
<1>6. \A u \in Threads : thread[u].pc = "frames" => u = t
  BY OnlyHolder DEF Holding
<1>7. ASSUME NEW m \in 1 .. n PROVE FrameOK(t, m)'
  <2>1. PICK f, g : f = fs[m] /\ g = gs[m]
    OBVIOUS
  <2>2. FrameOK(t, m) /\ f \in Frame /\ f.bo \in Bos /\ f.at \in Nat /\ f.from \in Nat
    BY <1>4, <2>1 DEF Frame
  <2>3. /\ f.bo \in Used /\ 1 <= f.from /\ f.from <= f.at /\ f.at <= Len(bo[f.bo].relocs) + 1
        /\ f.final => f.from = 1 /\ bo[f.bo].refcount = 0
        /\ f.final <=> ~(m = 1 /\ thread[t].bo # NoBo)
        /\ ~f.final => f.bo = thread[t].bo
    BY <2>1, <2>2 DEF FrameOK
  <2>4. /\ g.bo = f.bo /\ g.final = f.final /\ g.from = f.from
        /\ g.at = f.at \/ (m = n /\ g.at = f.at + 1)
    BY <1>3, <2>1, Zenon
  <2>5. /\ bo'[f.bo].relocs = bo[f.bo].relocs /\ Len(bo[f.bo].relocs) \in Nat
        /\ bo[f.bo].refcount = 0 => bo'[f.bo].refcount = 0
    BY <2>2, BoTypes DEF CoreInv
  <2>6. f.from <= g.at /\ g.at <= Len(bo'[f.bo].relocs) + 1
    <3> DEFINE x == Len(bo[f.bo].relocs)
    <3>1. x \in Nat /\ f.at <= x + 1 /\ (m = n => f.at <= x) /\ Len(bo'[f.bo].relocs) = x
      BY <1>4, <2>1, <2>3, <2>5
    <3> HIDE DEF x
    <3> QED BY <2>2, <2>3, <2>4, <3>1
  <2>7. /\ g.bo \in Used' /\ 1 <= g.from /\ g.from <= g.at /\ g.at <= Len(bo'[g.bo].relocs) + 1
        /\ g.final => g.from = 1 /\ bo'[g.bo].refcount = 0
        /\ g.final <=> ~(m = 1 /\ thread'[t].bo # NoBo)
        /\ ~g.final => g.bo = thread'[t].bo
    BY <2>3, <2>4, <2>5, <2>6
  <2>8. g = thread'[t].frames[m]
    BY <1>1, <2>1, Zenon
  <2> QED BY <2>7, <2>8 DEF FrameOK
<1>8. ASSUME Len(gs) = n + 1 PROVE FrameOK(t, n + 1)'
  <2>1. PICK g : g = gs[n + 1]
    OBVIOUS
  <2>2. g = FinalFrame(c) /\ n + 1 # 1
    BY <1>3, <1>8, <2>1
  <2>3. Len(bo'[c].relocs) \in Nat
    <3>1. bo'[c].relocs = bo[c].relocs /\ Len(bo[c].relocs) \in Nat
      BY BoTypes DEF CoreInv
    <3> QED BY <3>1
  <2>4. g.bo = c /\ g.from = 1 /\ g.at = 1 /\ g.final = TRUE
    BY <2>2, FinalFrameType
  <2>5. /\ g.bo \in Used' /\ 1 <= g.from /\ g.from <= g.at /\ g.at <= Len(bo'[g.bo].relocs) + 1
        /\ g.final => g.from = 1 /\ bo'[g.bo].refcount = 0
        /\ g.final <=> ~(n + 1 = 1 /\ thread'[t].bo # NoBo)
        /\ ~g.final => g.bo = thread'[t].bo
    BY <1>5, <1>8, <2>2, <2>3, <2>4
  <2>6. g = thread'[t].frames[n + 1]
    BY <1>1, <2>1, Zenon
  <2> QED BY <2>5, <2>6 DEF FrameOK
<1>9. \A m \in 1 .. Len(gs) : FrameOK(t, m)'
  BY <1>3, <1>7, <1>8, Zenon
<1>10. Distinct(gs)
  <2> SUFFICES ASSUME NEW k \in 1 .. Len(gs), NEW m \in 1 .. Len(gs), gs[k].bo = gs[m].bo
               PROVE  k = m
    BY DEF Distinct
  <2>1. ASSUME NEW j \in 1 .. n, Len(gs) = n + 1 PROVE gs[j].bo # gs[n + 1].bo
    <3>1. gs[j].bo = fs[j].bo /\ fs[j].bo # c /\ gs[n + 1] = FinalFrame(c)
      BY <1>3, <1>5, <2>1
    <3> QED BY <3>1, FinalFrameType
  <2>2. CASE k \in 1 .. n /\ m \in 1 .. n
    <3>1. gs[k].bo = fs[k].bo /\ gs[m].bo = fs[m].bo
      BY <1>3, <2>2, Zenon
    <3>2. fs[k].bo = fs[m].bo
      BY <3>1
    <3>3. \A i, j \in 1 .. n : fs[i].bo = fs[j].bo => i = j
      BY <1>1, <1>4 DEF Distinct
    <3> QED BY <2>2, <3>2, <3>3, Zenon
  <2>3. /\ k \in 1 .. n \/ (k = n + 1 /\ Len(gs) = n + 1)
        /\ m \in 1 .. n \/ (m = n + 1 /\ Len(gs) = n + 1)
    BY <1>3, Zenon
  <2> QED BY <2>1, <2>2, <2>3, Zenon
<1>11. gs # << >>
  BY <1>3
<1> SUFFICES ASSUME NEW u \in Threads, thread'[u].pc = "frames"
             PROVE  /\ thread'[u].frames # << >>
                    /\ \A m \in 1 .. Len(thread'[u].frames) : FrameOK(u, m)'
                    /\ Distinct(thread'[u].frames)
  BY DEF FramesInv, Distinct
<1>12. u = t
  BY <1>6
<1> QED BY <1>1, <1>9, <1>10, <1>11, <1>12, Zenon

(* An object torn down before the turn still is, and so is one whose       *)
(* activation the turn pushes.                                             *)
LEMMA AdvanceLeak ==
  ASSUME CoreInv, NEW t \in Threads, thread[t].pc = "frames", thread'[t].pc = "frames",
         NEW c \in Bos, Advanced(t, thread'[t].frames, c), Used' = Used,
         \A d \in Used : bo'[d].refcount = 0 =>
           \/ bo[d].refcount = 0
           \/ d = c /\ Len(thread'[t].frames) = Len(thread[t].frames) + 1
  PROVE  LeakInv'
<1> DEFINE fs == thread[t].frames
<1>1. PICK gs, n : gs = thread'[t].frames /\ n = Len(fs)
  OBVIOUS
<1>2. Advanced(t, gs, c)
  BY <1>1, Zenon
<1>3. /\ n \in Nat \ {0} /\ Len(gs) \in Nat
      /\ Len(gs) = n \/ (Len(gs) = n + 1 /\ gs[n + 1] = FinalFrame(c))
      /\ \A m \in 1 .. n : m \in 1 .. Len(gs) /\ gs[m].bo = fs[m].bo /\ gs[m].final = fs[m].final
  BY <1>1, <1>2, AdvancedFrames
<1> SUFFICES ASSUME NEW d \in Used, bo'[d].refcount = 0
             PROVE  \E m \in 1 .. Len(gs) : gs[m].bo = d /\ gs[m].final
  BY <1>1 DEF LeakInv, TornDown
<1>4. CASE bo[d].refcount = 0
  <2>1. TornDown(d)
    BY <1>4 DEF CoreInv, LeakInv
  <2>2. \A u \in Threads : thread[u].pc = "frames" => u = t
    BY OnlyHolder DEF Holding
  <2>3. PICK m \in 1 .. n : fs[m].bo = d /\ fs[m].final
    BY <1>1, <2>1, <2>2 DEF TornDown
  <2> QED BY <1>3, <2>3, Zenon
<1>5. CASE d = c /\ Len(gs) = n + 1
  <2>1. n + 1 \in 1 .. Len(gs) /\ gs[n + 1] = FinalFrame(c)
    BY <1>3, <1>5
  <2> QED BY <1>5, <2>1, FinalFrameType
<1> QED BY <1>1, <1>4, <1>5

(* A count that drops to zero was one.                                     *)
LEMMA LastOne ==
  ASSUME NEW x \in Nat, NEW y, y = x - 1, y = 0
  PROVE  x = 1
OBVIOUS

(* A count above zero is not zero.                                         *)
LEMMA PositiveCount ==
  ASSUME NEW x \in Nat, x > 0 PROVE x # 0
OBVIOUS

(* One less than one.                                                      *)
LEMMA OneLess == 1 - 1 = 0
OBVIOUS

(* What is in use depends on the mappings and the cache alone.             *)
LEMMA UsedKept ==
  ASSUME UNCHANGED << vma, cache >>
  PROVE  Used' = Used /\ Live' = Live /\ Used \subseteq Bos
BY DEF Used, Live, InCache, CachedIn, Exists

(* What has to be shown of a turn of the loop.                             *)
LEMMA AdvanceInv ==
  ASSUME CoreInv, TRUE \notin CanReject, NEW t \in Threads, thread[t].pc = "frames",
         thread'[t].pc = "frames", thread'[t].bo = thread[t].bo,
         \A u \in Threads \ {t} : thread'[u] = thread[u], thread' \in [Threads -> ThreadRecord],
         UNCHANGED << vma, named, cache, time, lock, held, kernel, clock, fault >>,
         Top(t).at <= Len(bo[Top(t).bo].relocs),
         NEW c \in Bos, c = bo[Top(t).bo].relocs[Top(t).at], Advanced(t, thread'[t].frames, c),
         bo' \in [Bos -> BoRecord],
         \A d \in Bos : /\ bo'[d].relocs = bo[d].relocs /\ bo'[d].bucket = bo[d].bucket
                        /\ bo'[d].reusable = bo[d].reusable
                        /\ bo'[d].name_list = bo[d].name_list,
         \A d \in Bos : d # c \/ c = Top(t).bo => bo'[d].refcount = bo[d].refcount,
         c # Top(t).bo => bo'[c].refcount = bo[c].refcount - 1,
         Len(thread'[t].frames) = Len(thread[t].frames) + 1 <=>
           c # Top(t).bo /\ bo[c].refcount = 1
  PROVE  CoreInv'
<1>1. GemTypeOK
  BY DEF CoreInv
<1>2. GemTypeOK'
  BY <1>1 DEF GemTypeOK
<1>3. Used' = Used /\ Live' = Live /\ Used \subseteq Bos
  BY UsedKept, Zenon
<1>4. CountInv'
  BY DropCount
<1>5. CacheInv' /\ NamedInv'
  <2>1. Items(named) \subseteq Bos
    BY <1>1, NamedBos
  <2> QED BY <1>3, <2>1, CacheKept, NamedKept
<1>6. ASSUME c # Top(t).bo
      PROVE  /\ c \in Used /\ bo[c].refcount \in Nat /\ bo[c].refcount > 0
             /\ \A m \in 1 .. Len(thread[t].frames) :
                  thread[t].frames[m].bo = c => bo[c].refcount # 1
  <2>1. << Top(t).bo, Top(t).at >> \in RelocsTo(c)
    BY <1>6, DropOwns
  <2> QED BY <2>1, TargetCounted
<1>7. \A d \in Bos : bo[d].refcount = 0 => bo'[d].refcount = 0
  <2>1. ASSUME c # Top(t).bo PROVE bo[c].refcount # 0
    BY <1>6, <2>1, PositiveCount, Zenon
  <2> QED BY <2>1, Zenon
<1>8. ASSUME Len(thread'[t].frames) = Len(thread[t].frames) + 1
      PROVE  /\ c \in Used /\ bo'[c].refcount = 0
             /\ \A m \in 1 .. Len(thread[t].frames) : thread[t].frames[m].bo # c
  <2>1. c # Top(t).bo /\ bo[c].refcount = 1 /\ bo'[c].refcount = bo[c].refcount - 1
    BY <1>8
  <2>2. c \in Used /\ \A m \in 1 .. Len(thread[t].frames) : thread[t].frames[m].bo # c
    BY <1>6, <2>1, Zenon
  <2> QED BY <2>1, <2>2, OneLess, Zenon
<1>9. ASSUME NEW d \in Used, bo'[d].refcount = 0
      PROVE  \/ bo[d].refcount = 0
             \/ d = c /\ Len(thread'[t].frames) = Len(thread[t].frames) + 1
  <2>1. CASE d # c \/ c = Top(t).bo
    BY <1>3, <1>9, <2>1
  <2>2. CASE d = c /\ c # Top(t).bo
    <3>1. bo[c].refcount \in Nat /\ bo'[c].refcount = bo[c].refcount - 1 /\ bo'[c].refcount = 0
      BY <1>6, <1>9, <2>2
    <3>2. bo[c].refcount = 1
      BY <3>1, LastOne, Zenon
    <3> QED BY <2>2, <3>2, Zenon
  <2> QED BY <2>1, <2>2
<1>10. FramesInv'
  BY <1>3, <1>7, <1>8, AdvanceFrames
<1>11. LeakInv'
  <2>1. Used' = Used
    BY <1>3
  <2> QED BY <1>9, <2>1, AdvanceLeak
<1>12. ClearInv'
  <2>1. ASSUME NEW u \in Threads, thread'[u].pc = "clear" PROVE ClearOK(u)'
    <3>1. thread'[u] = thread[u] /\ thread[u].pc = "clear"
      BY <2>1
    <3>2. PICK f : f = thread[u].frames[1]
      OBVIOUS
    <3>3. ClearOK(u) /\ f.bo \in Bos
      BY <3>1, <3>2 DEF CoreInv, ClearInv, ClearOK, BorrowInv, Borrowing
    <3>4. bo'[f.bo].relocs = bo[f.bo].relocs
      BY <3>3
    <3> QED BY <3>1, <3>2, <3>3, <3>4 DEF ClearOK
  <2>2. \A u \in Threads : thread'[u].pc = thread[u].pc /\ thread'[u].bo = thread[u].bo
    OBVIOUS
  <2>3. ASSUME NEW u \in Threads, NEW x \in Threads,
               thread'[u].pc \in {"clear", "frames"}, thread'[x].pc \in {"clear", "frames"},
               thread'[u].bo = thread'[x].bo, thread'[u].bo # NoBo
        PROVE  u = x
    BY ZenonT(40), <2>2, <2>3 DEF CoreInv, ClearInv
  <2> QED BY <2>1, <2>3 DEF ClearInv
<1>13. ParkedInv' /\ RelocLen'
  <2>1. ASSUME NEW d \in Bos \ Used PROVE bo'[d].refcount = bo[d].refcount
    BY <1>6, <2>1
  <2> QED BY ZenonT(40), <1>3, <2>1 DEF CoreInv, ParkedInv, RelocLen
<1>14. LockMoves(t) /\ Borrows(t) /\ [VmaNext]_vma
  BY DEF LockMoves, Borrows, CoreInv, BorrowInv, Borrowing, Holding
<1> QED BY <1>2, <1>4, <1>5, <1>10, <1>11, <1>12, <1>13, <1>14, WorkInv

(* A turn of the loop over the relocations keeps the invariant.            *)
LEMMA DropTargetInv ==
  ASSUME CoreInv, TRUE \notin CanReject, NEW t \in Threads, DropTarget(t)
  PROVE  CoreInv'
<1>1. /\ thread[t].pc = "frames" /\ Top(t).at <= Len(bo[Top(t).bo].relocs)
      /\ UNCHANGED << vma, named, cache, time, lock, held, kernel, clock, fault >>
  BY DEF DropTarget, At
<1>2. GemTypeOK
  BY DEF CoreInv
<1>3. PICK b, a : b = Top(t).bo /\ a = Top(t).at
  OBVIOUS
<1>4. /\ b \in Bos /\ a \in Nat /\ 1 <= a /\ bo[b].relocs \in Seq(Bos)
      /\ Len(bo[b].relocs) \in Nat /\ a <= Len(bo[b].relocs)
  <2>1. /\ b \in Bos /\ a \in Nat /\ Top(t).from \in Nat /\ 1 <= Top(t).from /\ Top(t).from <= a
        /\ a <= Len(bo[b].relocs)
    BY <1>1, <1>3, TopOK
  <2>2. bo[b].relocs \in Seq(Bos) /\ Len(bo[b].relocs) \in Nat
    BY <1>2, <2>1, BoTypes
  <2> QED BY <2>1, <2>2
<1>5. PICK c \in Bos : c = bo[b].relocs[a]
  BY <1>4
<1> DEFINE next == Append(Pop(t), [Top(t) EXCEPT !.at = @ + 1])
           more == Append(next, FinalFrame(c))
<1>6. /\ Advanced(t, next, c) /\ Len(next) = Len(thread[t].frames)
      /\ Advanced(t, more, c) /\ Len(more) = Len(thread[t].frames) + 1
      /\ Len(thread[t].frames) \in Nat
  BY <1>1, NextAdvanced, TopOK
<1>7. \/ /\ c = b /\ bo' = bo
         /\ thread' = [thread EXCEPT ![t].frames = next]
      \/ /\ c # b /\ bo' = [bo EXCEPT ![c].refcount = bo[c].refcount - 1]
         /\ thread' = [thread EXCEPT ![t].frames = IF bo[c].refcount = 1 THEN more ELSE next]
  BY <1>2, <1>3, <1>5 DEF DropTarget, GemTypeOK
<1> HIDE DEF next, more
<1>8. PICK gs : /\ thread' = [thread EXCEPT ![t].frames = gs] /\ Advanced(t, gs, c)
                /\ Len(gs) = Len(thread[t].frames) + 1 <=> c # b /\ bo[c].refcount = 1
  <2>1. Len(next) # Len(thread[t].frames) + 1
    BY <1>6
  <2> QED BY <1>6, <1>7, <2>1
<1>9. gs \in Seq(Frame)
  BY <1>8 DEF Advanced
<1> DEFINE r == [thread[t] EXCEPT !.frames = gs]
<1>10. thread' = [thread EXCEPT ![t] = r]
  BY <1>8
<1>11. r \in ThreadRecord /\ r.frames = gs /\ r.pc = thread[t].pc /\ r.bo = thread[t].bo
  BY <1>2, <1>9, ThreadTypes DEF ThreadRecord
<1> HIDE DEF r
<1>12. /\ thread' \in [Threads -> ThreadRecord] /\ thread'[t].frames = gs
       /\ thread'[t].pc = "frames" /\ thread'[t].bo = thread[t].bo
       /\ \A u \in Threads \ {t} : thread'[u] = thread[u]
  BY <1>1, <1>2, <1>10, <1>11, ThreadPut
<1>13. c # b => bo[c].refcount \in Nat /\ bo[c].refcount - 1 \in Nat
  <2>1. ASSUME c # b PROVE << Top(t).bo, Top(t).at >> \in RelocsTo(c)
    <3>1. Owns(b, a, c)
      <4>1. Passed(b, a) <=> Top(t).from <= a /\ a < a
        BY <1>1, <1>3, <1>4, TopPassed
      <4> QED BY <1>4, <1>5, <4>1 DEF Owns
    <3>2. a \in 1 .. MaxRelocs
      <4>1. Len(bo[b].relocs) <= MaxRelocs
        BY <1>4 DEF CoreInv, RelocLen
      <4> QED BY <1>4, <4>1, GemBoundsAssumption
    <3>3. << b, a >> \in RelocsTo(c)
      BY <1>4, <2>1, <3>1, <3>2 DEF RelocsTo
    <3> QED BY <1>3, <3>3
  <2>2. c # b => bo[c].refcount \in Nat /\ bo[c].refcount > 0
    BY <1>1, <2>1, TargetCounted
  <2> QED BY <2>2
<1>14. /\ bo' \in [Bos -> BoRecord]
       /\ \A d \in Bos : /\ bo'[d].relocs = bo[d].relocs /\ bo'[d].bucket = bo[d].bucket
                         /\ bo'[d].reusable = bo[d].reusable
                         /\ bo'[d].name_list = bo[d].name_list
       /\ \A d \in Bos : d # c \/ c = b => bo'[d].refcount = bo[d].refcount
       /\ c # b => bo'[c].refcount = bo[c].refcount - 1
  <2>1. CASE c = b
    <3>1. bo' = bo
      BY <1>7, <2>1
    <3> QED BY <1>2, <2>1, <3>1 DEF GemTypeOK
  <2>2. CASE c # b
    <3>1. bo' = [bo EXCEPT ![c].refcount = bo[c].refcount - 1] /\ bo[c].refcount - 1 \in Nat
      BY <1>7, <1>13, <2>2
    <3> QED BY <1>2, <2>2, <3>1, RefcountPut
  <2> QED BY <2>1, <2>2
<1>15. /\ Top(t).at <= Len(bo[Top(t).bo].relocs)
       /\ c = bo[Top(t).bo].relocs[Top(t).at]
  BY <1>1, <1>3, <1>5, Zenon
<1>16. /\ Advanced(t, thread'[t].frames, c)
       /\ Len(thread'[t].frames) = Len(thread[t].frames) + 1 <=>
            c # Top(t).bo /\ bo[c].refcount = 1
  BY <1>3, <1>8, <1>12, Zenon
<1>17. /\ \A d \in Bos : d # c \/ c = Top(t).bo => bo'[d].refcount = bo[d].refcount
       /\ c # Top(t).bo => bo'[c].refcount = bo[c].refcount - 1
  BY <1>3, <1>14, Zenon
<1> QED BY ZenonT(40), <1>1, <1>12, <1>14, <1>15, <1>16, <1>17, AdvanceInv

-----------------------------------------------------------------------------
(* The end of unreference_final.                                           *)

(* The activations below the top one.                                      *)
LEMMA PopFacts ==
  ASSUME CoreInv, NEW t \in Threads, thread[t].pc = "frames"
  PROVE  /\ Pop(t) \in Seq(Frame) /\ Len(Pop(t)) = Len(thread[t].frames) - 1
         /\ \A m \in 1 .. Len(Pop(t)) : /\ Pop(t)[m] = thread[t].frames[m]
                                        /\ m \in 1 .. Len(thread[t].frames)
                                        /\ thread[t].frames[m].bo # Top(t).bo
         /\ \A m \in 1 .. Len(thread[t].frames) :
              m \in 1 .. Len(Pop(t)) \/ thread[t].frames[m] = Top(t)
         /\ Len(Pop(t)) \in Nat /\ (Pop(t) = << >> <=> Len(thread[t].frames) = 1)
<1>1. PICK fs, p : fs = thread[t].frames /\ p = Pop(t)
  OBVIOUS
<1>2. /\ fs \in Seq(Frame) /\ Len(fs) \in Nat \ {0} /\ Top(t) = fs[Len(fs)] /\ Distinct(fs)
      /\ p = SubSeq(fs, 1, Len(fs) - 1)
  BY <1>1, TopOK DEF Pop
<1>3. /\ p \in Seq(Frame) /\ Len(p) = Len(fs) - 1 /\ \A m \in 1 .. Len(fs) - 1 : p[m] = fs[m]
  <2>1. PICK n : n = Len(fs) /\ n \in Nat \ {0} /\ p = SubSeq(fs, 1, n - 1)
    BY <1>2
  <2>2. p \in Seq(Frame) /\ Len(p) = n - 1
    BY <1>2, <2>1
  <2>3. \A m \in 1 .. n - 1 : p[m] = fs[m]
    BY <1>2, <2>1
  <2> QED BY <2>1, <2>2, <2>3
<1>4. ASSUME NEW m \in 1 .. Len(p)
      PROVE  p[m] = fs[m] /\ m \in 1 .. Len(fs) /\ fs[m].bo # Top(t).bo
  <2>1. m \in 1 .. Len(fs) - 1 /\ m \in 1 .. Len(fs) /\ m # Len(fs) /\ Len(fs) \in 1 .. Len(fs)
    BY <1>2, <1>3
  <2>2. fs[m].bo # fs[Len(fs)].bo
    <3>1. \A i, j \in 1 .. Len(fs) : fs[i].bo = fs[j].bo => i = j
      BY <1>2 DEF Distinct
    <3> QED BY <2>1, <3>1, Zenon
  <2>3. p[m] = fs[m]
    BY <1>3, <2>1
  <2> QED BY <1>2, <2>1, <2>2, <2>3, Zenon
<1>5. ASSUME NEW m \in 1 .. Len(fs) PROVE m \in 1 .. Len(p) \/ fs[m] = Top(t)
  <2>1. m \in 1 .. Len(p) \/ m = Len(fs)
    BY <1>2, <1>3
  <2> QED BY <1>2, <2>1
<1>6. Len(p) \in Nat /\ (p = << >> <=> Len(fs) = 1)
  <2>1. p = << >> <=> Len(p) = 0
    BY <1>3, EmptySeq
  <2> QED BY <1>2, <1>3, <2>1
<1>7. /\ p \in Seq(Frame) /\ Len(p) = Len(fs) - 1
      /\ \A m \in 1 .. Len(p) : p[m] = fs[m] /\ m \in 1 .. Len(fs) /\ fs[m].bo # Top(t).bo
      /\ \A m \in 1 .. Len(fs) : m \in 1 .. Len(p) \/ fs[m] = Top(t)
  BY <1>3, <1>4, <1>5
<1> QED BY <1>1, <1>6, <1>7

(* What t leaves behind when the top activation returns.                   *)
Popped(t, b) ==
  /\ \A u \in Threads \ {t} : thread'[u] = thread[u]
  /\ thread' \in [Threads -> ThreadRecord] /\ thread'[t].frames = Pop(t)
  /\ thread'[t].bo = thread[t].bo
  /\ thread'[t].pc = IF Pop(t) = << >> THEN "cleanup" ELSE "frames"
  /\ bo' \in [Bos -> BoRecord] /\ bo'[b].relocs = << >> /\ bo'[b].refcount = 0
  /\ \A d \in Bos \ {b} : bo'[d] = bo[d]

(* The object that is retired owns no reference any more: its activation   *)
(* has passed all its relocations.                                         *)
LEMMA RetireOwns ==
  ASSUME CoreInv, NEW t \in Threads, thread[t].pc = "frames", Top(t).final,
         NEW b \in Bos, b = Top(t).bo, Top(t).at > Len(bo[b].relocs), Popped(t, b)
  PROVE  \A d \in Bos : RelocsTo(d)' = RelocsTo(d)
<1> DEFINE fs == thread[t].frames
<1>1. PICK gs : gs = Pop(t)
  OBVIOUS
<1>2. /\ \A m \in 1 .. Len(gs) : gs[m] = fs[m] /\ m \in 1 .. Len(fs) /\ fs[m].bo # b
      /\ \A m \in 1 .. Len(fs) : m \in 1 .. Len(gs) \/ fs[m] = Top(t)
      /\ gs = << >> => Len(gs) = 0
  BY <1>1, PopFacts
<1>3. /\ thread'[t].frames = gs /\ thread'[t].pc = (IF gs = << >> THEN "cleanup" ELSE "frames")
      /\ \A u \in Threads \ {t} : thread'[u] = thread[u]
      /\ bo'[b].relocs = << >> /\ \A d \in Bos \ {b} : bo'[d].relocs = bo[d].relocs
  BY <1>1 DEF Popped
<1>4. \A u \in Threads \ {t} : thread[u].pc # "frames" /\ thread'[u].pc # "frames"
  BY <1>3, OnlyHolder DEF Holding
<1>5. ASSUME NEW d \in Bos \ {b}, NEW i PROVE Passed(d, i)' <=> Passed(d, i)
  <2>1. Passed(d, i) <=> \E m \in 1 .. Len(fs) : fs[m].bo = d /\ fs[m].from <= i /\ i < fs[m].at
    BY PassedBy
  <2>2. Passed(d, i)' <=> \E m \in 1 .. Len(gs) : gs[m].bo = d /\ gs[m].from <= i /\ i < gs[m].at
    <3>1. CASE gs = << >>
      <4>1. \A u \in Threads : thread'[u].pc # "frames"
        BY <1>3, <1>4, <3>1
      <4>2. ~Passed(d, i)'
        BY <4>1 DEF Passed, At
      <4>3. \A m \in 1 .. Len(gs) : FALSE
        BY <1>2, <3>1
      <4> QED BY <4>2, <4>3, Zenon
    <3>2. CASE gs # << >>
      BY <1>3, <1>4, <3>2 DEF Passed, At
    <3> QED BY <3>1, <3>2
  <2>3. ASSUME NEW m \in 1 .. Len(fs), fs[m].bo = d PROVE m \in 1 .. Len(gs) /\ gs[m] = fs[m]
    BY <1>2, <2>3
  <2>4. ASSUME NEW m \in 1 .. Len(gs) PROVE m \in 1 .. Len(fs) /\ gs[m] = fs[m]
    BY <1>2
  <2> HIDE DEF fs
  <2> QED BY <2>1, <2>2, <2>3, <2>4, Zenon
<1>6. ASSUME NEW i \in 1 .. MaxRelocs, NEW d PROVE ~Owns(b, i, d) /\ ~Owns(b, i, d)'
  <2>1. /\ Top(t).from = 1 /\ Top(t).at \in Nat /\ Len(bo[b].relocs) \in Nat
        /\ i \in Nat /\ 1 <= i
    BY TopOK, GemBoundsAssumption DEF FrameOK
  <2>2. Passed(b, i) <=> Top(t).from <= i /\ i < Top(t).at
    BY TopPassed
  <2>3. i <= Len(bo[b].relocs) => Passed(b, i)
    BY <2>1, <2>2
  <2>4. ~(i <= Len(bo'[b].relocs))
    BY <1>3, <2>1
  <2> QED BY <2>3, <2>4 DEF Owns
<1>7. ASSUME NEW c \in Bos, NEW i \in 1 .. MaxRelocs, NEW d \in Bos \ {c}
      PROVE  Owns(c, i, d)' <=> Owns(c, i, d)
  <2>1. CASE c = b
    BY <1>6, <2>1
  <2>2. CASE c # b
    <3>1. bo'[c].relocs = bo[c].relocs /\ (Passed(c, i)' <=> Passed(c, i))
      BY <1>3, <1>5, <2>2
    <3> QED BY <3>1 DEF Owns
  <2> QED BY <2>1, <2>2
<1> QED BY <1>7, OwnsKept

(* The activations that remain are of other objects.                       *)
LEMMA RetireFrames ==
  ASSUME CoreInv, NEW t \in Threads, thread[t].pc = "frames", Top(t).final,
         NEW b \in Bos, b = Top(t).bo, Popped(t, b), Used' = Used \ {b}
  PROVE  FramesInv' /\ LeakInv'
<1> DEFINE fs == thread[t].frames
<1>1. PICK gs : gs = Pop(t)
  OBVIOUS
<1>2. /\ \A m \in 1 .. Len(gs) : gs[m] = fs[m] /\ m \in 1 .. Len(fs) /\ fs[m].bo # b
      /\ \A m \in 1 .. Len(fs) : m \in 1 .. Len(gs) \/ fs[m] = Top(t)
      /\ gs = << >> => Len(gs) = 0
  BY <1>1, PopFacts
<1>3. /\ thread'[t].frames = gs /\ thread'[t].pc = (IF gs = << >> THEN "cleanup" ELSE "frames")
      /\ thread'[t].bo = thread[t].bo
      /\ \A u \in Threads \ {t} : thread'[u] = thread[u]
      /\ \A d \in Bos \ {b} : bo'[d] = bo[d]
  BY <1>1 DEF Popped
<1>4. /\ \A u \in Threads \ {t} : thread[u].pc # "frames"
      /\ \A u \in Threads : thread'[u].pc = "frames" => u = t /\ gs # << >>
  BY <1>3, OnlyHolder DEF Holding
<1>5. Distinct(fs) /\ \A m \in 1 .. Len(fs) : FrameOK(t, m) /\ fs[m] \in Frame
  BY TopOK
<1>6. ASSUME NEW m \in 1 .. Len(gs) PROVE FrameOK(t, m)'
  <2>1. PICK f : f = fs[m] /\ f = gs[m]
    BY <1>2
  <2>2. FrameOK(t, m) /\ f \in Frame /\ f.bo # b
    BY <1>2, <1>5, <2>1
  <2>3. f.bo \in Bos \ {b}
    BY <2>2 DEF Frame
  <2>4. bo'[f.bo] = bo[f.bo] /\ f = thread'[t].frames[m] /\ thread'[t].bo = thread[t].bo
    BY <1>3, <2>1, <2>3
  <2>5. f.bo \in Used'
    BY <2>1, <2>2, <2>3 DEF FrameOK
  <2> QED BY <2>1, <2>2, <2>4, <2>5 DEF FrameOK
<1>7. Distinct(gs)
  <2>1. \A i, j \in 1 .. Len(fs) : fs[i].bo = fs[j].bo => i = j
    BY <1>5 DEF Distinct
  <2>2. ASSUME NEW i \in 1 .. Len(gs), NEW j \in 1 .. Len(gs), gs[i].bo = gs[j].bo PROVE i = j
    <3>1. gs[i] = fs[i] /\ gs[j] = fs[j] /\ i \in 1 .. Len(fs) /\ j \in 1 .. Len(fs)
      BY <1>2, Zenon
    <3>2. fs[i].bo = fs[j].bo
      BY <2>2, <3>1
    <3> QED BY <2>1, <3>1, <3>2, Zenon
  <2> QED BY <2>2 DEF Distinct
<1>8. FramesInv'
  <2> SUFFICES ASSUME NEW u \in Threads, thread'[u].pc = "frames"
               PROVE  /\ thread'[u].frames # << >>
                      /\ \A m \in 1 .. Len(thread'[u].frames) : FrameOK(u, m)'
                      /\ Distinct(thread'[u].frames)
    BY DEF FramesInv, Distinct
  <2>1. u = t /\ gs # << >> /\ thread'[t].frames = gs
    BY <1>3, <1>4
  <2> QED BY <1>6, <1>7, <2>1, Zenon
<1>9. ASSUME NEW d \in Used \ {b}, bo'[d].refcount = 0 PROVE TornDown(d)'
  <2>1. TornDown(d)
    <3>1. d \in Bos \ {b} /\ bo'[d] = bo[d]
      BY <1>3 DEF Used, Live
    <3> QED BY <1>9, <3>1 DEF CoreInv, LeakInv
  <2>2. PICK m \in 1 .. Len(fs) : fs[m].bo = d /\ fs[m].final
    BY <1>4, <2>1 DEF TornDown
  <2>3. m \in 1 .. Len(gs) /\ gs[m] = fs[m]
    BY <1>2, <2>2
  <2>4. gs # << >>
    BY <1>2, <2>3
  <2> QED BY <1>3, <2>2, <2>3, <2>4 DEF TornDown
<1>10. LeakInv'
  BY <1>9 DEF LeakInv
<1> QED BY <1>8, <1>10

(* What else has to be shown of the end of unreference_final.              *)
LEMMA RetireInv ==
  ASSUME CoreInv, TRUE \notin CanReject, NEW t \in Threads, thread[t].pc = "frames", Top(t).final,
         NEW b \in Bos, b = Top(t).bo, Top(t).at > Len(bo[b].relocs), Popped(t, b),
         Used' = Used \ {b}, UNCHANGED << time, lock, held, clock >>,
         [VmaNext]_vma, GemTypeOK', CacheInv', NamedInv',
         \A c \in Bos : vma'.map_count[c] = IF c = b THEN 0 ELSE vma.map_count[c]
  PROVE  CoreInv'
<1>1. /\ \A u \in Threads \ {t} : thread'[u] = thread[u]
      /\ thread'[t].frames = Pop(t) /\ thread'[t].bo = thread[t].bo
      /\ thread'[t].pc = IF Pop(t) = << >> THEN "cleanup" ELSE "frames"
      /\ bo'[b].relocs = << >> /\ bo'[b].refcount = 0
      /\ \A d \in Bos \ {b} : bo'[d] = bo[d]
  BY DEF Popped
<1>2. GemTypeOK /\ CountInv
  BY DEF CoreInv
<1>3. b \in Used /\ bo[b].refcount = 0
  BY TopOK DEF FrameOK
<1>4. Pop(t) = << >> => thread[t].bo = NoBo
  <2>1. ASSUME Pop(t) = << >> PROVE Top(t) = thread[t].frames[1] /\ FrameOK(t, 1)
    <3>1. Len(thread[t].frames) = 1
      BY <2>1, PopFacts
    <3> QED BY <3>1, TopOK
  <2> QED BY <2>1 DEF FrameOK
<1>5. CountInv'
  <2>1. \A d \in Bos : RelocsTo(d)' = RelocsTo(d)
    BY RetireOwns
  <2>2. ASSUME NEW d \in Bos
        PROVE  bo'[d].refcount - bo[d].refcount =
                 held'[d] - held[d] + Is(thread'[t].bo, d) - Is(thread[t].bo, d)
    <3>1. /\ bo'[d].refcount = bo[d].refcount /\ bo[d].refcount \in Nat
          /\ held'[d] = held[d] /\ held[d] \in Nat
      BY <1>1, <1>2, <1>3, BoTypes
    <3>2. Is(thread[t].bo, d) \in Nat /\ Is(thread'[t].bo, d) = Is(thread[t].bo, d)
      BY <1>1 DEF Is
    <3> QED BY <3>1, <3>2
  <2> QED BY <1>1, <1>2, <2>1, <2>2, CountStep
<1>6. FramesInv' /\ LeakInv'
  BY RetireFrames
<1>7. ASSUME NEW u \in Threads, thread'[u].pc = "clear"
      PROVE  ClearOK(u)'
  <2>1. thread'[u] = thread[u] /\ thread[u].pc = "clear"
    BY <1>1, <1>7
  <2>2. PICK f : f = thread[u].frames[1]
    OBVIOUS
  <2>3. ClearOK(u) /\ f.bo = thread[u].bo /\ f.bo \in Bos
    BY <2>1, <2>2 DEF CoreInv, ClearInv, ClearOK, BorrowInv, Borrowing
  <2>4. f.bo # b
    BY <1>3, <2>3, BorrowedIsUsed
  <2>5. bo'[f.bo].relocs = bo[f.bo].relocs
    BY <1>1, <2>3, <2>4
  <2> QED BY <2>1, <2>2, <2>3, <2>5 DEF ClearOK
<1>8. ClearInv'
  <2>1. \A u \in Threads : thread'[u].pc \in {"clear", "frames"} =>
                             thread[u].pc \in {"clear", "frames"}
    BY <1>1
  <2>2. \A u \in Threads : thread'[u].bo = thread[u].bo
    BY <1>1
  <2>3. ASSUME NEW u \in Threads, NEW x \in Threads,
               thread'[u].pc \in {"clear", "frames"}, thread'[x].pc \in {"clear", "frames"},
               thread'[u].bo = thread'[x].bo, thread'[u].bo # NoBo
        PROVE  u = x
    BY <2>1, <2>2, <2>3 DEF CoreInv, ClearInv
  <2> QED BY <1>7, <2>3 DEF ClearInv
<1>9. ParkedInv'
  <2>1. ASSUME NEW d \in Bos, d \notin Used'
        PROVE  bo'[d].refcount = 0 /\ bo'[d].relocs = << >> /\ vma'.map_count[d] = 0
    <3>1. CASE d = b
      BY <1>1, <3>1
    <3>2. CASE d # b
      <4>1. d \in Bos \ Used /\ bo'[d] = bo[d] /\ vma'.map_count[d] = vma.map_count[d]
        BY <1>1, <2>1, <3>2
      <4> QED BY <4>1 DEF CoreInv, ParkedInv
    <3> QED BY <3>1, <3>2
  <2> QED BY <2>1 DEF ParkedInv
<1>10. RelocLen'
  <2>1. Len(bo'[b].relocs) <= MaxRelocs
    BY <1>1, GemBoundsAssumption
  <2> QED BY <1>1, <2>1 DEF CoreInv, RelocLen
<1>11. LockMoves(t) /\ Borrows(t)
  <2>1. thread'[t].pc \in {"cleanup", "frames"}
    BY <1>1
  <2>2. thread[t].bo # NoBo => thread'[t].pc = "frames"
    BY <1>1, <1>4
  <2> QED BY <1>1, <2>1, <2>2 DEF LockMoves, Borrows, Holding, Borrowing
<1> QED BY <1>1, <1>5, <1>6, <1>8, <1>9, <1>10, <1>11, WorkInv

(* The mapping state when the object goes to the cache.                    *)
LEMMA RetireVma ==
  ASSUME CoreInv, NEW b \in Live, vma' = DropMappings(vma, b)
  PROVE  /\ [VmaNext]_vma /\ Live' = Live
         /\ \A c \in Bos : vma'.map_count[c] = IF c = b THEN 0 ELSE vma.map_count[c]
<1>1. b \in Bos /\ Exists(vma, b)
  BY DEF Live
<1>2. /\ Good(vma) /\ Bounded(vma) /\ VirtualMapped(vma) /\ vma.map_count \in [Bos -> Nat]
  BY DEF CoreInv, VmaInv, Good, VmaState
<1>3. vma'.map_count[b] = 0 /\ OnlyMaps(vma, vma', b)
  BY <1>1, <1>2, DropGood
<1>4. [VmaNext]_vma
  <2>1. CASE vma.map_count[b] = 0
    BY <2>1 DEF DropMappings
  <2>2. CASE vma.map_count[b] # 0
    <3>1. vma.map_count[b] > 0
      BY <1>1, <1>2, <2>2
    <3>2. Retire(b)
      BY <1>1, <3>1 DEF Retire
    <3> QED BY <1>1, <3>2 DEF VmaNext
  <2> QED BY <2>1, <2>2
<1> QED BY <1>1, <1>3, <1>4 DEF OnlyMaps, Live, Exists

(* The mapping state when the object is freed.                             *)
LEMMA DiscardVma ==
  ASSUME CoreInv, NEW b \in Live, vma' = FreeVma(DropMappings(vma, b), b)
  PROVE  /\ [VmaNext]_vma /\ Live' = Live \ {b}
         /\ \A c \in Bos : vma'.map_count[c] = IF c = b THEN 0 ELSE vma.map_count[c]
<1>1. b \in Bos /\ Exists(vma, b) /\ vma.link[b] # "zero"
  BY DEF Live, Exists
<1>2. Good(vma) /\ Bounded(vma) /\ VirtualMapped(vma)
  BY DEF CoreInv, VmaInv
<1>3. PICK v : v = DropMappings(vma, b)
  OBVIOUS
<1>4. /\ Good(v) /\ Bounded(v) /\ VirtualMapped(v) /\ v.map_count[b] = 0 /\ OnlyMaps(vma, v, b)
  BY <1>1, <1>2, <1>3, DropGood
<1>5. v.link[b] # "zero" /\ v.link \in [Bos -> Links]
  BY <1>1, <1>4, GoodSets DEF OnlyMaps, Good
<1>6. vma'.map_count = v.map_count /\ vma'.link = [v.link EXCEPT ![b] = "zero"]
  BY <1>1, <1>3, <1>4, <1>5, FreeGood
<1>7. [VmaNext]_vma
  <2>1. Free(b)
    BY <1>1 DEF Free
  <2> QED BY <1>1, <2>1 DEF VmaNext
<1>8. Live' = Live \ {b}
  <2>1. ASSUME NEW c \in Bos PROVE vma'.link[c] # "zero" <=> vma.link[c] # "zero" /\ c # b
    BY <1>1, <1>4, <1>5, <1>6 DEF OnlyMaps
  <2> QED BY <1>1, <2>1 DEF Live, Exists
<1> QED BY <1>1, <1>4, <1>6, <1>7, <1>8 DEF OnlyMaps

(* DRMLISTADDTAIL of b to its bucket.                                      *)
LEMMA CacheGiven ==
  ASSUME CoreInv, NEW b \in Used, NEW k \in Buckets,
         cache' = [cache EXCEPT ![k] = Append(cache[k], b)],
         bo'[b].bucket = k, bo'[b].reusable, Live' = Live, \A c \in Bos \ {b} : bo'[c] = bo[c]
  PROVE  CacheInv' /\ cache' \in [Buckets -> Seq(Bos)] /\ InCache' = InCache \cup {b}
<1>1. /\ cache \in [Buckets -> Seq(Bos)] /\ b \in Bos /\ b \in Live
      /\ \A j \in Buckets : b \notin Items(cache[j]) /\ NoDuplicates(cache[j])
  BY DEF CoreInv, GemTypeOK, CacheInv, Used, Live, InCache, CachedIn
<1>2. /\ Append(cache[k], b) \in Seq(Bos) /\ NoDuplicates(Append(cache[k], b))
      /\ Items(Append(cache[k], b)) = Items(cache[k]) \cup {b}
  BY <1>1, AppendItems
<1>3. /\ cache' \in [Buckets -> Seq(Bos)] /\ cache'[k] = Append(cache[k], b)
      /\ \A j \in Buckets \ {k} : cache'[j] = cache[j]
  BY <1>1, <1>2
<1>4. ASSUME NEW j \in Buckets
      PROVE  /\ NoDuplicates(cache'[j])
             /\ \A c : c \in Items(cache'[j]) <=> c \in Items(cache[j]) \/ (j = k /\ c = b)
  BY <1>1, <1>2, <1>3
<1>5. ASSUME NEW j \in Buckets, NEW c \in Items(cache'[j])
      PROVE  c \in Live' /\ bo'[c].bucket = j /\ bo'[c].reusable
  <2>1. CASE c = b
    <3>1. j = k
      BY <1>1, <1>4, <2>1
    <3> QED BY <1>1, <2>1, <3>1
  <2>2. CASE c # b
    <3>1. c \in Items(cache[j])
      BY <1>4, <2>2
    <3>2. c \in Live /\ c \in Bos /\ bo[c].bucket = j /\ bo[c].reusable
      BY <3>1, CachedFacts
    <3> QED BY <2>2, <3>2
  <2> QED BY <2>1, <2>2
<1>6. InCache' = InCache \cup {b}
  <2>1. ASSUME NEW c PROVE c \in InCache <=> \E j \in Buckets : c \in Items(cache[j])
    BY DEF InCache, CachedIn
  <2>2. ASSUME NEW c PROVE c \in InCache' <=> \E j \in Buckets : c \in Items(cache'[j])
    BY DEF InCache, CachedIn
  <2>3. ASSUME NEW c PROVE c \in InCache' <=> c \in InCache \/ c = b
    BY <1>4, <2>1, <2>2, Zenon
  <2> QED BY <2>3
<1> QED BY <1>3, <1>4, <1>5, <1>6 DEF CacheInv, CachedIn

(* DRMLISTDEL of b from the list of named objects.                         *)
LEMMA NamedRemoved ==
  ASSUME CoreInv, NEW b \in Bos, named' = RemoveItem(named, b), Used' = Used \ {b},
         \A c \in Bos \ {b} : bo'[c] = bo[c]
  PROVE  NamedInv' /\ named' \in Seq(Bos)
<1>1. /\ named \in Seq(Bos) /\ Items(named) \subseteq Bos /\ NoDuplicates(named)
      /\ \A c \in Items(named) : c \in Used /\ bo[c].name_list = "linked"
  BY NamedBos DEF CoreInv, NamedInv
<1>2. named' \in Seq(Bos) /\ Items(named') = Items(named) \ {b} /\ NoDuplicates(named')
  BY <1>1, RemoveItemItems
<1>3. \A c \in Items(named') : c \in Used' /\ bo'[c].name_list = "linked"
  BY <1>1, <1>2
<1> QED BY <1>2, <1>3 DEF NamedInv

(* The end of unreference_final keeps the invariant.                       *)
LEMMA RetireBoInv ==
  ASSUME CoreInv, TRUE \notin CanReject, NEW t \in Threads, RetireBo(t)
  PROVE  CoreInv'
<1>1. PICK b : b = Top(t).bo
  OBVIOUS
<1>2. /\ thread[t].pc = "frames" /\ Top(t).final /\ Top(t).at > Len(bo[b].relocs)
      /\ named' = RemoveItem(named, b) /\ fault' = (fault \/ DelFaults(bo[b].name_list))
      /\ UNCHANGED << time, lock, held, clock >>
  BY <1>1 DEF RetireBo, At
<1>3. /\ GemTypeOK /\ kernel \in KernelRecord /\ fault \in BOOLEAN /\ b \in Bos /\ b \in Used
      /\ b \in Live /\ b \notin InCache /\ bo[b].refcount = 0
      /\ [VmaNext]_vma => VmaInv'
  <2>1. b \in Bos /\ b \in Used /\ bo[b].refcount = 0
    <3>1. /\ Top(t).bo \in Bos /\ Top(t).bo \in Used /\ FrameOK(t, Len(thread[t].frames))
          /\ Top(t) = thread[t].frames[Len(thread[t].frames)]
      BY <1>2, TopOK, Zenon
    <3>2. bo[Top(t).bo].refcount = 0
      BY <1>2, <3>1 DEF FrameOK
    <3> QED BY <1>1, <3>1, <3>2, Zenon
  <2> QED BY <2>1, VmaNextInv DEF CoreInv, GemTypeOK, Used
<1> DEFINE gs == Pop(t)
           pc == IF gs = << >> THEN "cleanup" ELSE "frames"
           r == [thread[t] EXCEPT !.frames = gs, !.pc = pc]
<1>4. thread' = [thread EXCEPT ![t] = r]
  BY <1>3 DEF RetireBo, GemTypeOK
<1>5. gs \in Seq(Frame) /\ pc \in {"cleanup", "frames"}
  BY <1>2, PopFacts
<1> HIDE DEF gs, pc
<1>6. r \in ThreadRecord /\ r.frames = gs /\ r.pc = pc /\ r.bo = thread[t].bo
  BY <1>3, <1>5, ThreadTypes DEF ThreadRecord
<1> HIDE DEF r
<1>7. /\ thread' \in [Threads -> ThreadRecord] /\ thread'[t].frames = gs
      /\ thread'[t].pc = pc /\ thread'[t].bo = thread[t].bo
      /\ \A u \in Threads \ {t} : thread'[u] = thread[u]
  BY <1>3, <1>4, <1>6, ThreadPut
<1>8. fault' \in BOOLEAN
  BY <1>2 DEF DelFaults
<1>9. CASE Keeps(b)
  <2>1. /\ vma' = DropMappings(vma, b) /\ kernel' = Madvise(kernel, ObjOf(b), TRUE)
        /\ cache' = [cache EXCEPT ![bo[b].bucket] = Append(@, b)]
        /\ bo' = [bo EXCEPT ![b].relocs = << >>, ![b].used_as_reloc_target = FALSE,
                            ![b].name_list = AfterDel(@), ![b].free_time = thread[t].time]
    BY <1>1, <1>9 DEF RetireBo
  <2>2. PICK k \in Buckets : k = bo[b].bucket /\ bo[b].reusable
    BY <1>9 DEF Keeps
  <2>3. cache' = [cache EXCEPT ![k] = Append(cache[k], b)]
    BY <1>3, <2>1, <2>2 DEF GemTypeOK
  <2> DEFINE l == AfterDel(bo[b].name_list)
             tm == thread[t].time
             q == [bo[b] EXCEPT !.relocs = << >>, !.used_as_reloc_target = FALSE,
                                !.name_list = l, !.free_time = tm]
  <2>4. bo' = [bo EXCEPT ![b] = q]
    BY <1>3, <2>1 DEF GemTypeOK
  <2>5. l \in Links /\ tm \in Nat /\ << >> \in Seq(Bos)
    BY <1>3, BoTypes, ThreadTypes DEF AfterDel, Links
  <2> HIDE DEF l, tm
  <2>6. /\ q \in BoRecord /\ q.relocs = << >> /\ q.refcount = bo[b].refcount
        /\ q.bucket = bo[b].bucket /\ q.reusable = bo[b].reusable
    BY <1>3, <2>5, BoTypes DEF BoRecord
  <2> HIDE DEF q
  <2>7. bo' \in [Bos -> BoRecord] /\ bo'[b] = q /\ \A c \in Bos \ {b} : bo'[c] = bo[c]
    BY <1>3, <2>4, <2>6, BoPut
  <2>8. /\ [VmaNext]_vma /\ Live' = Live
        /\ \A c \in Bos : vma'.map_count[c] = IF c = b THEN 0 ELSE vma.map_count[c]
    BY <1>3, <2>1, RetireVma
  <2>9. CacheInv' /\ cache' \in [Buckets -> Seq(Bos)] /\ InCache' = InCache \cup {b}
    BY <1>3, <2>2, <2>3, <2>6, <2>7, <2>8, CacheGiven
  <2>10. Used' = Used \ {b}
    BY <2>8, <2>9 DEF Used
  <2>11. NamedInv' /\ named' \in Seq(Bos)
    BY <1>2, <1>3, <2>7, <2>10, NamedRemoved
  <2>12. kernel' \in KernelRecord
    BY <1>3, <2>1, MadviseType, ObjOfType
  <2>13. GemTypeOK'
    BY <1>2, <1>3, <1>7, <1>8, <2>7, <2>8, <2>9, <2>11, <2>12 DEF GemTypeOK, VmaInv, Good
  <2>14. Popped(t, b)
    BY <1>3, <1>7, <2>6, <2>7 DEF Popped, gs, pc
  <2> QED BY <1>1, <1>2, <1>3, <2>8, <2>9, <2>10, <2>11, <2>13, <2>14, RetireInv
<1>10. CASE ~Keeps(b)
  <2>1. /\ vma' = FreeVma(DropMappings(vma, b), b) /\ cache' = cache
        /\ kernel' = CloseHandle(kernel, bo[b].gem_handle) /\ bo' = [bo EXCEPT ![b] = Blank]
    BY <1>1, <1>10 DEF RetireBo, Discard
  <2>2. bo' \in [Bos -> BoRecord] /\ bo'[b] = Blank /\ \A c \in Bos \ {b} : bo'[c] = bo[c]
    BY <1>3, <2>1, BlankType, BoPut
  <2>3. /\ [VmaNext]_vma /\ Live' = Live \ {b}
        /\ \A c \in Bos : vma'.map_count[c] = IF c = b THEN 0 ELSE vma.map_count[c]
    BY <1>3, <2>1, DiscardVma
  <2>4. InCache' = InCache
    BY <2>1 DEF InCache, CachedIn
  <2>5. Used' = Used \ {b}
    BY <2>3, <2>4 DEF Used
  <2>6. CacheInv' /\ cache' \in [Buckets -> Seq(Bos)]
    <3>1. ASSUME NEW k \in Buckets, NEW c \in Items(cache[k])
          PROVE  c \in Live' /\ bo'[c].bucket = k /\ bo'[c].reusable
      <4>1. c \in Live /\ c \in Bos /\ c \in InCache /\ bo[c].bucket = k /\ bo[c].reusable
        BY CachedFacts
      <4> QED BY <1>3, <2>2, <2>3, <4>1
    <3>2. \A k \in Buckets : NoDuplicates(cache[k])
      BY DEF CoreInv, CacheInv
    <3> QED BY <1>3, <2>1, <3>1, <3>2 DEF CacheInv, CachedIn, GemTypeOK
  <2>7. NamedInv' /\ named' \in Seq(Bos)
    BY <1>2, <1>3, <2>2, <2>5, NamedRemoved
  <2>8. kernel' \in KernelRecord
    BY <1>3, <2>1, CloseAnyType
  <2>9. GemTypeOK'
    BY <1>2, <1>3, <1>7, <1>8, <2>2, <2>3, <2>6, <2>7, <2>8 DEF GemTypeOK, VmaInv, Good
  <2>10. Popped(t, b)
    BY <1>7, <2>2, BlankType DEF Popped, gs, pc
  <2> QED BY <1>1, <1>2, <1>3, <2>3, <2>5, <2>6, <2>7, <2>9, <2>10, RetireInv
<1> QED BY <1>9, <1>10

-----------------------------------------------------------------------------
(* The rest of the system, and the invariant of the specification.         *)

(* A step outside the process changes the kernel's state and the clock.    *)
LEMMA OutsideInv ==
  ASSUME CoreInv, UNCHANGED << vma, bo, named, cache, time, lock, thread, held, fault >>,
         kernel' \in KernelRecord, clock' \in Nat
  PROVE  CoreInv'
<1>1. GemTypeOK' /\ VmaInv'
  <2>1. GemTypeOK /\ VmaInv
    BY DEF CoreInv
  <2>2. VmaInv'
    BY <2>1 DEF VmaInv, Good, Listed, NodeOK, Cached, Closed, Bounded, VmaLimit, VirtualMapped
  <2> QED BY <2>1, <2>2 DEF GemTypeOK
<1>2. Live' = Live /\ InCache' = InCache /\ Used' = Used
  BY DEF Used, Live, InCache, CachedIn, Exists
<1>3. LockInv' /\ BorrowInv'
  BY DEF CoreInv, LockInv, BorrowInv
<1>4. FramesInv'
  BY <1>2 DEF CoreInv, FramesInv, FrameOK, Distinct
<1>5. ClearInv'
  BY DEF CoreInv, ClearInv, ClearOK
<1>6. CountInv'
  <2>1. \A b \in Bos : Borrowers(b)' = Borrowers(b) /\ RelocsTo(b)' = RelocsTo(b)
    BY DEF Borrowers, RelocsTo, Owns, Passed, At
  <2> QED BY <2>1 DEF CoreInv, CountInv
<1>7. LeakInv'
  BY <1>2 DEF CoreInv, LeakInv, TornDown
<1>8. ParkedInv' /\ CacheInv' /\ NamedInv' /\ RelocLen'
  BY <1>2 DEF CoreInv, ParkedInv, CacheInv, CachedIn, NamedInv, RelocLen
<1> QED BY <1>1, <1>3, <1>4, <1>5, <1>6, <1>7, <1>8 DEF CoreInv

(* Work, memory pressure, other processes and the clock.                   *)
LEMMA EnvironmentInv ==
  ASSUME CoreInv, Environment
  PROVE  CoreInv' /\ UNCHANGED vma
<1>1. kernel \in KernelRecord /\ clock \in Nat
  BY DEF CoreInv, GemTypeOK
<1>2. /\ kernel.busy \in SUBSET Objs /\ kernel.purged \in SUBSET Objs
      /\ kernel.fds \in SUBSET Objs /\ kernel.flinked \in SUBSET Objs
  BY <1>1, KernelTypes
<1>3. CASE Tick
  <2>1. clock' \in Nat /\ kernel' = kernel
        /\ UNCHANGED << vma, bo, named, cache, time, lock, thread, held, fault >>
    BY <1>1, <1>3 DEF Tick
  <2> QED BY <1>1, <2>1, OutsideInv
<1>4. ASSUME NEW o \in Objs,
             GpuRetires(o) \/ ShrinkerPurges(o) \/ SharersRender(o) \/ SharersClose(o)
      PROVE  CoreInv' /\ UNCHANGED vma
  <2>1. clock' = clock /\ UNCHANGED << vma, bo, named, cache, time, lock, thread, held, fault >>
    BY <1>4 DEF GpuRetires, ShrinkerPurges, SharersRender, SharersClose
  <2>2. CASE GpuRetires(o)
    <3>1. PICK s \in SUBSET Objs : kernel' = [kernel EXCEPT !.busy = s]
      <4>1. kernel' = [kernel EXCEPT !.busy = kernel.busy \ {o}]
        BY <1>1, <2>2 DEF GpuRetires, KernelRecord
      <4> QED BY <1>2, <4>1
    <3> QED BY <1>1, <2>1, <3>1, OutsideInv DEF KernelRecord
  <2>3. CASE ShrinkerPurges(o)
    <3>1. PICK s \in SUBSET Objs : kernel' = [kernel EXCEPT !.purged = s]
      <4>1. kernel' = [kernel EXCEPT !.purged = kernel.purged \cup {o}]
        BY <1>1, <2>3 DEF ShrinkerPurges, KernelRecord
      <4> QED BY <1>2, <4>1
    <3> QED BY <1>1, <2>1, <3>1, OutsideInv DEF KernelRecord
  <2>4. CASE SharersRender(o)
    <3>1. PICK s \in SUBSET Objs : kernel' = [kernel EXCEPT !.busy = s]
      <4>1. kernel' = [kernel EXCEPT !.busy = kernel.busy \cup {o}]
        BY <1>1, <2>4 DEF SharersRender, KernelRecord
      <4> QED BY <1>2, <4>1
    <3> QED BY <1>1, <2>1, <3>1, OutsideInv DEF KernelRecord
  <2>5. CASE SharersClose(o)
    <3>1. PICK s, r \in SUBSET Objs : kernel' = [kernel EXCEPT !.fds = s, !.flinked = r]
      <4> DEFINE r == IF HandlesOf(kernel, o) = {} THEN kernel.flinked \ {o} ELSE kernel.flinked
      <4>1. kernel' = [kernel EXCEPT !.fds = kernel.fds \ {o}, !.flinked = r]
        BY <1>1, <2>5 DEF SharersClose, KernelRecord
      <4>2. r \in SUBSET Objs /\ kernel.fds \ {o} \in SUBSET Objs
        BY <1>2
      <4> QED BY <4>1, <4>2
    <3> QED BY <1>1, <2>1, <3>1, OutsideInv DEF KernelRecord
  <2> QED BY <1>4, <2>2, <2>3, <2>4, <2>5, <2>1
<1>5. Tick => UNCHANGED vma
  BY DEF Tick
<1> QED BY <1>3, <1>4, <1>5 DEF Environment

(* The buffer manager as drm_intel_bufmgr_gem_init leaves it.              *)
LEMMA GemInitInv == GemInit => CoreInv
<1> SUFFICES ASSUME GemInit PROVE CoreInv
  OBVIOUS
<1>1. VmaInv /\ vma.map_count = [b \in Bos |-> 0] /\ vma.link = [b \in Bos |-> "zero"]
  BY VmaInitInv DEF GemInit, VmaInit
<1>2. /\ bo = [b \in Bos |-> Blank] /\ named = << >> /\ cache = [k \in Buckets |-> << >>]
      /\ time = 0 /\ lock = NoThread /\ thread = [t \in Threads |-> Idle]
      /\ held = [b \in Bos |-> 0] /\ clock = 0 /\ fault = FALSE
  BY DEF GemInit
<1>3. kernel \in KernelRecord
  BY ObjsAssumption DEF GemInit, KernelRecord
<1>4. GemTypeOK
  <2>1. << >> \in Seq(Bos)
    OBVIOUS
  <2>2. vma \in VmaState
    BY <1>1 DEF VmaInv, Good
  <2> QED BY <1>2, <1>3, <2>1, <2>2, IdleType, BlankType DEF GemTypeOK
<1>5. Live = {} /\ Used = {}
  BY <1>1 DEF Live, Exists, Used
<1>6. /\ \A t \in Threads : thread[t].pc = "idle" /\ thread[t].bo = NoBo
      /\ \A b \in Bos : bo[b].refcount = 0 /\ bo[b].relocs = << >>
  BY <1>2, IdleType, BlankType
<1>7. LockInv /\ BorrowInv /\ FramesInv /\ ClearInv
  BY <1>2, <1>6, GemThreadsAssumption DEF LockInv, BorrowInv, FramesInv, ClearInv, Holding, Borrowing
<1>8. CountInv
  <2>1. \A b \in Bos : Borrowers(b) = {}
    BY <1>6, GemThreadsAssumption DEF Borrowers
  <2>2. ASSUME NEW b \in Bos PROVE RelocsTo(b) = {}
    <3>1. ASSUME NEW c \in Bos, NEW i \in 1 .. MaxRelocs PROVE ~Owns(c, i, b)
      <4>1. Len(bo[c].relocs) = 0 /\ i \in Nat /\ 1 <= i
        BY <1>6, GemBoundsAssumption
      <4> QED BY <4>1 DEF Owns
    <3> QED BY <3>1 DEF RelocsTo
  <2>3. Cardinality({}) = 0
    BY FS_EmptySet
  <2>4. \A b \in Bos : held[b] = 0
    BY <1>2
  <2>5. ASSUME NEW b \in Bos
        PROVE  bo[b].refcount = held[b] + Cardinality(Borrowers(b)) + Cardinality(RelocsTo(b))
    <3>1. Cardinality(Borrowers(b)) = 0 /\ Cardinality(RelocsTo(b)) = 0
      BY <2>1, <2>2, <2>3, Zenon
    <3> QED BY <1>6, <2>4, <3>1
  <2> QED BY <2>5 DEF CountInv
<1>9. LeakInv /\ ParkedInv /\ RelocLen
  BY <1>1, <1>5, <1>6, GemBoundsAssumption DEF LeakInv, ParkedInv, RelocLen
<1>10. CacheInv /\ NamedInv
  <2>1. Items(<< >>) = {} /\ NoDuplicates(<< >>)
    BY DEF Items, NoDuplicates
  <2> QED BY <1>2, <2>1 DEF CacheInv, NamedInv, CachedIn
<1> QED BY <1>1, <1>4, <1>7, <1>8, <1>9, <1>10 DEF CoreInv

(* Every step of the buffer manager keeps the invariant.                   *)
LEMMA GemNextInv ==
  ASSUME CoreInv, TRUE \notin CanReject, [GemNext]_gemVars
  PROVE  CoreInv'
<1>1. CASE UNCHANGED gemVars
  BY <1>1, OutsideInv DEF gemVars, CoreInv, GemTypeOK
<1>2. CASE Environment
  BY <1>2, EnvironmentInv
<1>3. ASSUME NEW t \in Threads, Call(t) PROVE CoreInv'
  <2>1. ASSUME NEW b \in Bos,
               \/ Reference(t, b) \/ Unreference(t, b) \/ ClearRelocs(t, b) \/ Exec(t, b)
               \/ Busy(t, b) \/ DisableReuse(t, b) \/ Flink(t, b) \/ ExportToPrime(t, b)
               \/ MapBo(t, b)
        PROVE  CoreInv'
    BY <2>1, ReferenceInv, UnreferenceInv, ClearRelocsInv, ExecInv, BusyInv, DisableReuseInv,
       FlinkInv, ExportToPrimeInv, MapBoInv
  <2>2. ASSUME NEW b \in Bos, NEW c \in Bos, EmitReloc(t, b, c) PROVE CoreInv'
    BY <2>2, EmitRelocInv
  <2>3. ASSUME NEW o \in Objs, CreateFromName(t, o) \/ FDToHandle(t, o) PROVE CoreInv'
    BY <2>3, CreateFromNameInv, FDToHandleInv
  <2>4. CASE Alloc(t) \/ SetVmaLimit(t)
    BY <2>4, AllocInv, SetVmaLimitInv
  <2> QED BY <1>3, <2>1, <2>2, <2>3, <2>4 DEF Call
<1>4. ASSUME NEW t \in Threads, Proceed(t) PROVE CoreInv'
  <2>1. CASE AllocMiss(t) \/ AllocHit(t) \/ PurgeBucket(t) \/ CreateBo(t)
    BY <2>1, AllocMissInv, AllocHitInv, PurgeBucketInv, CreateBoInv
  <2>2. CASE DropTarget(t) \/ Cleared(t) \/ RetireBo(t) \/ CleanupFree(t) \/ CleanupDone(t)
    BY <2>2, DropTargetInv, ClearedInv, RetireBoInv, CleanupFreeInv, CleanupDoneInv
  <2>3. CASE StoreIdle(t) \/ HandleToFD(t) \/ GetTiling(t)
    BY <2>3, StoreIdleInv, HandleToFDInv, GetTilingInv
  <2> QED BY <1>4, <2>1, <2>2, <2>3 DEF Proceed
<1>5. ASSUME NEW t \in Threads, Enter(t) PROVE CoreInv'
  BY <1>5, UnrefLockedInv, ClearLockedInv, FlinkLockedInv, CreateFromPrimeInv DEF Enter
<1> QED BY <1>1, <1>2, <1>3, <1>4, <1>5 DEF GemNext

-----------------------------------------------------------------------------
(* What the invariant says of the mapping state: every step of the buffer  *)
(* manager is a step of GemVma.                                            *)

(* drm_intel_gem_bo_free of a cached object.                               *)
LEMMA CachedFreeVma ==
  ASSUME CoreInv, NEW k \in Buckets, NEW b \in Items(cache[k]), FreeBo(b)
  PROVE  [VmaNext]_vma
<1>1. b \in Live /\ b \in Bos /\ vma.map_count[b] = 0
  BY CachedFacts, ParkedFacts
<1>2. vma' = FreeVma(DropMappings(vma, b), b)
  BY <1>1 DEF FreeBo, DropMappings
<1> QED BY <1>1, <1>2, DiscardVma

(* A step of alloc, of the creation or of the ageing of the cache.         *)
LEMMA AllocVma ==
  ASSUME CoreInv, NEW t \in Threads,
         AllocHit(t) \/ PurgeBucket(t) \/ CleanupFree(t) \/ CreateBo(t)
  PROVE  [VmaNext]_vma
<1>1. GemTypeOK /\ cache \in [Buckets -> Seq(Bos)] /\ CacheInv
  BY DEF CoreInv, GemTypeOK
<1>2. CASE AllocHit(t)
  <2>1. PICK b \in Candidates(t) : FreeBo(b) \/ UNCHANGED vma
    BY <1>2 DEF AllocHit, Reuse
  <2>2. thread[t].bucket \in Buckets /\ b \in Items(cache[thread[t].bucket])
    BY <1>1, CandidateCached
  <2> QED BY <2>1, <2>2, CachedFreeVma
<1>3. ASSUME NEW k \in Buckets, cache[k] # << >>, FreeBo(cache[k][1]) PROVE [VmaNext]_vma
  <2>1. cache[k][1] \in Items(cache[k])
    BY <1>1, <1>3, TailItems DEF CacheInv
  <2> QED BY <1>3, <2>1, CachedFreeVma
<1>4. CASE PurgeBucket(t)
  <2>1. \/ UNCHANGED vma
        \/ /\ Bucket(thread[t].bucket) # << >>
           /\ FreeBo(Bucket(thread[t].bucket)[1])
    BY <1>4 DEF PurgeBucket
  <2>2. Bucket(thread[t].bucket) # << >> =>
          thread[t].bucket \in Buckets /\ Bucket(thread[t].bucket) = cache[thread[t].bucket]
    BY DEF Bucket
  <2>3. CASE UNCHANGED vma
    BY <2>3
  <2>4. CASE /\ thread[t].bucket \in Buckets /\ cache[thread[t].bucket] # << >>
             /\ FreeBo(cache[thread[t].bucket][1])
    BY <1>3, <2>4
  <2> QED BY <2>1, <2>2, <2>3, <2>4
<1>5. CASE CleanupFree(t)
  <2>1. PICK k \in Buckets : cache[k] # << >> /\ FreeBo(cache[k][1])
    BY <1>5 DEF CleanupFree, Expired
  <2> QED BY <1>3, <2>1
<1>6. CASE CreateBo(t)
  <2>1. \/ UNCHANGED vma
        \/ \E b \in Fresh : \/ vma' = InitVmaList(vma, b)
                            \/ TRUE \in CanReject /\ vma' = FreeVma(vma, b)
    BY <1>6 DEF CreateBo
  <2>2. ASSUME NEW b \in Fresh,
               vma' = InitVmaList(vma, b) \/ (TRUE \in CanReject /\ vma' = FreeVma(vma, b))
        PROVE  VmaNext
    <3>1. b \in Bos /\ Create(b)
      BY <2>2 DEF Fresh, Create
    <3> QED BY <3>1 DEF VmaNext
  <2> QED BY <2>1, <2>2
<1> QED BY <1>2, <1>4, <1>5, <1>6

(* An import by name or by fd.                                             *)
LEMMA ImportVma ==
  ASSUME CoreInv, NEW t \in Threads,
         CreateFromPrime(t) \/ \E o \in Objs : CreateFromName(t, o)
  PROVE  [VmaNext]_vma
<1>1. UNCHANGED vma \/ \E b \in Fresh : vma' = InitVmaList(vma, b)
  BY DEF CreateFromPrime, CreateFromName
<1>2. ASSUME NEW b \in Fresh, vma' = InitVmaList(vma, b) PROVE VmaNext
  <2>1. b \in Bos /\ Create(b)
    BY <1>2 DEF Fresh, Create
  <2> QED BY <2>1 DEF VmaNext
<1> QED BY <1>1, <1>2

(* Every step of the buffer manager is a step of GemVma, or leaves it      *)
(* alone.                                                                  *)
LEMMA GemVmaStep ==
  ASSUME CoreInv, [GemNext]_gemVars
  PROVE  [VmaNext]_vma
<1>1. CASE UNCHANGED gemVars
  BY <1>1 DEF gemVars
<1>2. CASE Environment
  BY <1>2, EnvironmentInv
<1>3. ASSUME NEW t \in Threads, Call(t) PROVE [VmaNext]_vma
  <2>1. ASSUME NEW b \in Bos,
               \/ Reference(t, b) \/ Unreference(t, b) \/ ClearRelocs(t, b) \/ Exec(t, b)
               \/ Busy(t, b) \/ DisableReuse(t, b) \/ Flink(t, b) \/ ExportToPrime(t, b)
        PROVE  UNCHANGED vma
    BY <2>1 DEF Reference, Unreference, ClearRelocs, Exec, Busy, DisableReuse, Flink, ExportToPrime
  <2>2. ASSUME NEW b \in Bos, MapBo(t, b) PROVE VmaNext
    BY <2>2 DEF MapBo, VmaNext
  <2>3. ASSUME NEW b \in Bos, NEW c \in Bos, EmitReloc(t, b, c) PROVE UNCHANGED vma
    BY <2>3 DEF EmitReloc
  <2>4. ASSUME NEW o \in Objs, CreateFromName(t, o) PROVE [VmaNext]_vma
    BY <2>4, ImportVma
  <2>5. ASSUME NEW o \in Objs, FDToHandle(t, o) PROVE UNCHANGED vma
    BY <2>5 DEF FDToHandle
  <2>6. Alloc(t) => UNCHANGED vma
    BY DEF Alloc
  <2>7. SetVmaLimit(t) => VmaNext
    BY DEF SetVmaLimit, VmaNext
  <2> QED BY <1>3, <2>1, <2>2, <2>3, <2>4, <2>5, <2>6, <2>7 DEF Call
<1>4. ASSUME NEW t \in Threads, RetireBo(t) PROVE [VmaNext]_vma
  <2>1. PICK b : b = Top(t).bo
    OBVIOUS
  <2>2. thread[t].pc = "frames" /\ (vma' = DropMappings(vma, b) \/ Discard(b))
    BY <1>4, <2>1 DEF RetireBo, At
  <2>3. b \in Live
    BY <2>1, <2>2, TopOK DEF Used
  <2> QED BY <2>2, <2>3, RetireVma, DiscardVma DEF Discard
<1>5. ASSUME NEW t \in Threads, Proceed(t) PROVE [VmaNext]_vma
  <2>1. CASE AllocHit(t) \/ PurgeBucket(t) \/ CleanupFree(t) \/ CreateBo(t)
    BY <2>1, AllocVma
  <2>2. CASE RetireBo(t)
    BY <1>4, <2>2
  <2>3. CASE \/ AllocMiss(t) \/ DropTarget(t) \/ Cleared(t) \/ CleanupDone(t)
             \/ StoreIdle(t) \/ HandleToFD(t) \/ GetTiling(t)
    <3>1. UNCHANGED vma
      BY <2>3 DEF AllocMiss, DropTarget, Cleared, CleanupDone, StoreIdle, HandleToFD, GetTiling
    <3> QED BY <3>1
  <2> QED BY <1>5, <2>1, <2>2, <2>3 DEF Proceed
<1>6. ASSUME NEW t \in Threads, Enter(t) PROVE [VmaNext]_vma
  <2>1. CASE CreateFromPrime(t)
    BY <2>1, ImportVma
  <2>2. CASE UnrefLocked(t) \/ ClearLocked(t) \/ FlinkLocked(t)
    BY <2>2 DEF UnrefLocked, ClearLocked, FlinkLocked
  <2> QED BY <1>6, <2>1, <2>2 DEF Enter
<1> QED BY <1>1, <1>2, <1>3, <1>5, <1>6 DEF GemNext

-----------------------------------------------------------------------------
(* The theorems.  TRUE \notin CanReject: the kernel accepts the tiling     *)
(* mode it is asked for.  When it does not, drm_intel_gem_bo_free runs on  *)
(* an object whose list nodes are still zero, which the run vma_rejected   *)
(* shows.                                                                  *)

(* The inductive invariant holds in every reachable state.                 *)
THEOREM GemInvariant ==
  ASSUME TRUE \notin CanReject
  PROVE  GemSpec => []CoreInv
<1>1. CoreInv /\ [GemNext]_gemVars => CoreInv'
  BY GemNextInv
<1> QED BY <1>1, GemInitInv, PTL DEF GemSpec

(* The structures, lists, locks and calls of the buffer manager keep their *)
(* types for any number of threads, objects and buckets.                   *)
THEOREM GemTypeCorrect ==
  ASSUME TRUE \notin CanReject
  PROVE  GemSpec => []GemTypeOK
<1>1. CoreInv => GemTypeOK
  BY DEF CoreInv
<1> QED BY <1>1, GemInvariant, PTL

(* drm_intel_gem_bo_unreference and unreference_final keep every reference *)
(* count exact, so that their assertions never fail, while any number of   *)
(* threads import, relocate and tear down.                                 *)
THEOREM GemRefcountsExact ==
  ASSUME TRUE \notin CanReject
  PROVE  GemSpec => []RefcountsExact
<1>1. CoreInv => RefcountsExact
  BY DEF CoreInv, CountInv, RefcountsExact, Live
<1> QED BY <1>1, GemInvariant, PTL

(* No reference, relocation or list entry ever leads to an object that has *)
(* been freed or that waits in the cache.                                  *)
THEOREM GemInUseIsLive ==
  ASSUME TRUE \notin CanReject
  PROVE  GemSpec => []InUseIsLive
<1>1. CoreInv => InUseIsLive
  <2> SUFFICES ASSUME CoreInv, NEW b \in Bos,
                      held[b] > 0 \/ Borrowers(b) # {} \/ RelocsTo(b) # {} \/ b \in Items(named)
               PROVE  b \in Used
    BY DEF InUseIsLive, Used
  <2>1. CASE held[b] > 0
    BY <2>1, HeldIsUsed
  <2>2. CASE Borrowers(b) # {}
    <3>1. PICK t \in Threads : thread[t].bo = b
      BY <2>2 DEF Borrowers
    <3> QED BY <3>1, BorrowedIsUsed
  <2>3. CASE RelocsTo(b) # {}
    <3>1. /\ held[b] \in Nat /\ Cardinality(Borrowers(b)) \in Nat
          /\ Cardinality(RelocsTo(b)) \in Nat /\ Cardinality(RelocsTo(b)) >= 1
          /\ bo[b].refcount = held[b] + Cardinality(Borrowers(b)) + Cardinality(RelocsTo(b))
      <4>1. GemTypeOK /\ CountInv
        BY DEF CoreInv
      <4> QED BY <2>3, <4>1, CountsApart, BoTypes
    <3>2. bo[b].refcount # 0
      BY <3>1
    <3> QED BY <3>2, ParkedFacts
  <2>4. CASE b \in Items(named)
    BY <2>4 DEF CoreInv, NamedInv
  <2> QED BY <2>1, <2>2, <2>3, <2>4
<1> QED BY <1>1, GemInvariant, PTL

(* Nothing leaks: an object in use that nobody refers to any more is one   *)
(* that unreference_final is tearing down at that moment.                  *)
NothingLeaks == \A b \in Live \ InCache : bo[b].refcount = 0 => TornDown(b)

(* An object without references is in the cache, freed, or on the stack of *)
(* the thread in unreference_final, in every reachable state.              *)
THEOREM GemNothingLeaks ==
  ASSUME TRUE \notin CanReject
  PROVE  GemSpec => []NothingLeaks
<1>1. CoreInv => NothingLeaks
  BY DEF CoreInv, LeakInv, NothingLeaks, Used
<1> QED BY <1>1, GemInvariant, PTL

(* The buffer manager implements the specification of its mapping state:   *)
(* so what is proved of GemVma holds of it.                                *)
THEOREM GemImplementsVma ==
  ASSUME TRUE \notin CanReject
  PROVE  GemSpec => MappingsImplemented
<1>1. GemInit => VmaInit
  BY DEF GemInit
<1>2. CoreInv /\ [GemNext]_gemVars => [VmaNext]_vma
  BY GemVmaStep
<1> QED BY <1>1, <1>2, GemInvariant, PTL DEF GemSpec, MappingsImplemented, VmaSpec

(* The mappings of the buffer manager itself, with the reference counts    *)
(* deciding when an object is retired or freed, are sound: the hand-kept   *)
(* counters are exact, an address handed out stays mapped, the limit of    *)
(* the cache of mappings is kept and no list operation is undefined.       *)
THEOREM GemMappingsSound ==
  ASSUME TRUE \notin CanReject
  PROVE  GemSpec => [](NoVmaFault /\ CountsExact /\ VirtualIsMapped /\ MappingsBounded)
<1>1. MappingsImplemented => VmaSpec
  BY DEF MappingsImplemented
<1> QED BY <1>1, GemImplementsVma, VmaNeverFaults, VmaCountsExact, VmaVirtualValid, VmaLimitKept, PTL
=============================================================================
