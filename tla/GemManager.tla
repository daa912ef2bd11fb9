----------------------------- MODULE GemManager -----------------------------
(* intel_bufmgr_gem.c: the buffer managers, one per file descriptor, which *)
(* the libraries of a process share.  init finds a manager under the mutex *)
(* of the list and takes a reference; unref gives up a reference without   *)
(* the mutex as long as it is not the last, and decides again with it.     *)
EXTENDS Integers, FiniteSets

CONSTANTS
  GmThreads,   \* the threads of the process
  GmFds,       \* file descriptors
  GmMgrs,      \* the structures
  GmMaxHeld    \* bound: references a thread holds of a manager

ASSUME GmAssumption == IsFiniteSet(GmThreads) /\ GmFds # {} /\ GmMaxHeld \in Nat \ {0}

VARIABLE gm
  (* list: the managers found by fd; refcount; live: not freed; made: the  *)
  (* structures used so far; open: those whose cache has buffers, with     *)
  (* handles of the file; held: the references the threads hold; last: the *)
  (* threads that saw the last reference and wait for the mutex.           *)

GmInit ==
  gm = [list |-> {}, fd |-> [m \in GmMgrs |-> CHOOSE f \in GmFds : TRUE], refcount |-> [m \in GmMgrs |-> 0],
        live |-> {}, made |-> {}, open |-> {}, held |-> [t \in GmThreads |-> [m \in GmMgrs |-> 0]],
        last |-> [t \in GmThreads |-> {}]]

Outside(t) == gm.last[t] = {}

(* The list is searched and changed under the mutex; nothing that another  *)
(* thread does without it can come between.  A new manager enters the list *)
(* when it is complete; when memory, the mutex or the chip's generation is *)
(* wanting, it is freed and the list is as it was.                         *)
drm_intel_bufmgr_gem_find(t, m) ==
  gm' = [gm EXCEPT !.refcount[m] = @ + 1, !.held[t][m] = @ + 1]

drm_intel_bufmgr_gem_init(t, f) ==
  LET known == {m \in gm.list : gm.fd[m] = f}
  IN  /\ Outside(t)
      /\ \/ \E m \in known : gm.held[t][m] < GmMaxHeld /\ drm_intel_bufmgr_gem_find(t, m)
         \/ /\ known = {}
            /\ GmMgrs \ gm.made # {}
            /\ LET m == CHOOSE x \in GmMgrs \ gm.made : TRUE
               IN  gm' = [gm EXCEPT !.list = @ \cup {m}, !.fd[m] = f, !.refcount[m] = 1, !.live = @ \cup {m},
                                    !.made = @ \cup {m}, !.held[t][m] = @ + 1]

(* atomic_add_unless(refcount, -1, 1): one reference less, unless it is    *)
(* the last; then the thread goes for the mutex.                           *)
drm_intel_bufmgr_gem_unref(t, m) ==
  /\ Outside(t)
  /\ gm.held[t][m] > 0
  /\ IF gm.refcount[m] # 1
     THEN gm' = [gm EXCEPT !.refcount[m] = @ - 1, !.held[t][m] = @ - 1]
     ELSE gm' = [gm EXCEPT !.last[t] = {m}, !.held[t][m] = @ - 1]

(* A user of the manager lets go of a buffer, which enters the cache.      *)
CacheBuffer(t, m) ==
  /\ Outside(t)
  /\ gm.held[t][m] > 0
  /\ gm' = [gm EXCEPT !.open = @ \cup {m}]

(* The buffers in the caches are freed, and with them their handles.       *)
drm_intel_bufmgr_gem_destroy(g, m) == [g EXCEPT !.open = @ \ {m}, !.live = @ \ {m}]

(* With the mutex: the reference is given up, and if it still is the last  *)
(* the manager leaves the list and is freed.                               *)
drm_intel_bufmgr_gem_unref_locked(t) ==
  \E m \in gm.last[t] :
    LET g == [gm EXCEPT !.refcount[m] = @ - 1, !.last[t] = {}]
    IN  gm' = IF g.refcount[m] # 0 THEN g
              ELSE drm_intel_bufmgr_gem_destroy([g EXCEPT !.list = @ \ {m}], m)

GmNext ==
  \/ \E t \in GmThreads, f \in GmFds : drm_intel_bufmgr_gem_init(t, f)
  \/ \E t \in GmThreads, m \in GmMgrs : drm_intel_bufmgr_gem_unref(t, m) \/ CacheBuffer(t, m)
  \/ \E t \in GmThreads : drm_intel_bufmgr_gem_unref_locked(t)

GmSpec == GmInit /\ [][GmNext]_gm

-----------------------------------------------------------------------------
(* A manager that a thread holds, or is about to give up, is not freed,    *)
(* whichever way giving up and finding interleave; the list has one        *)
(* manager for a descriptor, and exactly those that are not freed; a freed *)
(* manager has no reference and no handle of the file left.                *)
ManagersShared ==
  /\ \A t \in GmThreads, m \in GmMgrs : gm.held[t][m] > 0 \/ m \in gm.last[t] => m \in gm.live
  /\ gm.list = gm.live
  /\ gm.open \subseteq gm.live
  /\ \A m \in gm.list, n \in gm.list : gm.fd[m] = gm.fd[n] => m = n
  /\ \A m \in gm.made \ gm.live : gm.refcount[m] = 0
=============================================================================
