----------------------------- MODULE DrmAtomic ------------------------------
(***************************************************************************)
(* Reference counting with the atomic operations of xf86atomic.h, as       *)
(* drm_intel_gem_bo_reference and drm_intel_gem_bo_unreference use them:   *)
(* the last reference is dropped only under bufmgr_gem->lock, because      *)
(* create_from_name may revive an object it finds on the list of named     *)
(* objects, and any other reference is dropped by atomic_add_unless, a     *)
(* compare-and-swap loop, without the lock.                                *)
(*                                                                         *)
(* What the primitives return depends on how libdrm was configured: gcc's  *)
(* __sync builtins, the libatomic_ops library or the Solaris atomics.      *)
(***************************************************************************)
EXTENDS Integers, FiniteSets

CONSTANTS
  Threads,
  NoThread,
  Build,     \* the primitives compiled in
  MaxRefs    \* bound: references in existence

ASSUME ThreadsAssumption == IsFiniteSet(Threads) /\ NoThread \notin Threads
ASSUME BuildAssumption == Build \in {"sync", "atomic_ops", "solaris"}
ASSUME MaxRefsAssumption == MaxRefs \in Nat

VARIABLES
  refcount,  \* bo_gem->refcount
  refs,      \* the references the application owns and is not giving back
  lock,      \* the holder of bufmgr_gem->lock
  pc,        \* where thread t is in drm_intel_gem_bo_unreference
  c,         \* the local c of atomic_add_unless in thread t
  freed      \* drm_intel_gem_bo_unreference_final has run

vars == << refcount, refs, lock, pc, c, freed >>

RefInit ==
  /\ refcount = 1
  /\ refs = 1
  /\ lock = NoThread
  /\ pc = [t \in Threads |-> "idle"]
  /\ c = [t \in Threads |-> 0]
  /\ freed = FALSE

(* The threads that are giving a reference back.                           *)
Pending == {t \in Threads : pc[t] # "idle"}

-----------------------------------------------------------------------------
(* The value of atomic_cmpxchg(v, expected, new) when v held actual:       *)
(* AO_compare_and_swap_full answers whether it swapped, the other two      *)
(* return the old value.                                                   *)
CmpxchgResult(actual, expected) ==
  IF Build = "atomic_ops" THEN IF actual = expected THEN 1 ELSE 0 ELSE actual

DecTestsNew(actual) == actual - 1 = 1   \* mutation: the new value is compared

(* atomic_dec_and_test(v) when v held actual: the old value is compared    *)
(* with 1, except that atomic_dec_uint_nv returns the new one.             *)
DecTestsTrue(actual) ==
  IF Build = "solaris" THEN actual - 1 = 1 ELSE actual = 1

(* The structure of a freed object is allocated again.                     *)
Create ==
  /\ freed /\ refs = 0 /\ Pending = {}
  /\ refcount' = 1
  /\ refs' = 1
  /\ freed' = FALSE
  /\ UNCHANGED << lock, pc, c >>

(* drm_intel_gem_bo_reference by the owner of a reference.                 *)
Reference(t) ==
  /\ pc[t] = "idle"
  /\ 0 < refs /\ refs < MaxRefs
  /\ refcount' = refcount + 1
  /\ refs' = refs + 1
  /\ UNCHANGED << lock, pc, c, freed >>

(* drm_intel_bo_gem_create_from_name finds the object on bufmgr_gem->named *)
(* and references it, under the lock; the object leaves that list when it  *)
(* is freed.                                                               *)
Revive(t) ==
  /\ pc[t] = "idle"
  /\ lock = NoThread
  /\ ~freed
  /\ refs < MaxRefs
  /\ refcount' = refcount + 1
  /\ refs' = refs + 1
  /\ UNCHANGED << lock, pc, c, freed >>

(* drm_intel_gem_bo_unreference is called: atomic_add_unless reads v and   *)
(* returns at once if it is 1.                                             *)
Unreference(t) ==
  /\ pc[t] = "idle"
  /\ refs > 0
  /\ refs' = refs - 1
  /\ c' = [c EXCEPT ![t] = refcount]
  /\ pc' = [pc EXCEPT ![t] = IF refcount = 1 THEN "lock" ELSE "compare"]
  /\ UNCHANGED << refcount, lock, freed >>

(* Mutation of CompareAndSwap: a plain store of c - 1.                     *)
StoreDecremented(t) ==
  /\ pc[t] = "compare"
  /\ refcount' = c[t] - 1
  /\ pc' = [pc EXCEPT ![t] = "idle"]
  /\ UNCHANGED << refs, lock, c, freed >>

(* One turn of the loop: swap if v still holds c, then look at the result. *)
(* atomic_add_unless returns c == 1, which sends the caller to the lock.   *)
CompareAndSwap(t) ==
  LET result == CmpxchgResult(refcount, c[t])
  IN  /\ pc[t] = "compare"
      /\ refcount' = IF refcount = c[t] THEN refcount - 1 ELSE refcount
      /\ c' = [c EXCEPT ![t] = result]
      /\ pc' = [pc EXCEPT ![t] = CASE result = c[t]                -> "idle"
                                   [] result # c[t] /\ result = 1 -> "lock"
                                   [] result # c[t] /\ result # 1 -> "compare"]
      /\ UNCHANGED << refs, lock, freed >>

Lock(t) ==
  /\ pc[t] = "lock"
  /\ lock = NoThread
  /\ lock' = t
  /\ pc' = [pc EXCEPT ![t] = "locked"]
  /\ UNCHANGED << refcount, refs, c, freed >>

(* Mutation of DecAndTest: whoever takes the lock frees.                   *)
DecAndFree(t) ==
  /\ pc[t] = "locked"
  /\ refcount' = refcount - 1
  /\ freed' = TRUE
  /\ lock' = NoThread
  /\ pc' = [pc EXCEPT ![t] = "idle"]
  /\ UNCHANGED << refs, c >>

(* atomic_dec_and_test, unreference_final if it says so, and unlock.       *)
DecAndTest(t) ==
  /\ pc[t] = "locked"
  /\ refcount' = refcount - 1
  /\ freed' = (freed \/ DecTestsTrue(refcount))
  /\ lock' = NoThread
  /\ pc' = [pc EXCEPT ![t] = "idle"]
  /\ UNCHANGED << refs, c >>

RefNext ==
  \/ Create
  \/ \E t \in Threads :
       \/ Reference(t) \/ Revive(t) \/ Unreference(t)
       \/ CompareAndSwap(t) \/ Lock(t) \/ DecAndTest(t)

(* A call in progress is not abandoned, and a thread waiting for the mutex *)
(* gets it if it is free again and again.                                  *)
RefFairness ==
  \A t \in Threads :
    WF_vars(CompareAndSwap(t)) /\ SF_vars(Lock(t)) /\ WF_vars(DecAndTest(t))

RefSpec == RefInit /\ [][RefNext]_vars /\ RefFairness
-----------------------------------------------------------------------------
(* Type correctness.                                                       *)
RefTypeOK ==
  /\ refcount \in Int
  /\ refs \in Nat
  /\ lock \in Threads \cup {NoThread}
  /\ pc \in [Threads -> {"idle", "compare", "lock", "locked"}]
  /\ c \in [Threads -> Int]
  /\ freed \in BOOLEAN

(* Until it is freed, an object's refcount is the number of references in  *)
(* the application's hands or on their way back, whichever thread's        *)
(* compare-and-swap fails or loses its turn to the lock.                   *)
CountExact == ~freed => refcount = refs + Cardinality(Pending)

(* An object is freed only when no reference remains, so the assertions    *)
(* refcount > 0 of both unreference functions hold for every caller.       *)
FreedUnreferenced == freed => refs = 0 /\ Pending = {}

(* If the application gives back its last reference for good, the object   *)
(* is freed: no decrement is lost.                                         *)
LastReferenceFrees == <>[](refs = 0) => <>[]freed

(* The inductive invariant: a thread inside the loop never holds 1, and    *)
(* the lock is held by the one thread past it.                             *)
RefInv ==
  /\ RefTypeOK
  /\ CountExact
  /\ FreedUnreferenced
  /\ ~freed => refcount >= 1
  /\ \A t \in Threads : pc[t] = "compare" => c[t] # 1
  /\ \A t \in Threads : pc[t] = "locked" <=> lock = t
=============================================================================
