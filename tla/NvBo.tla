-------------------------------- MODULE NvBo --------------------------------
(* nouveau/nouveau.c: buffer objects on the device's bo_list, found again  *)
(* by handle or name.  What runs under the device's lock is one step.  A   *)
(* reference is dropped without the lock, so a thread may be on its way    *)
(* into nouveau_bo_del while another finds the buffer on the list.         *)
EXTENDS GemHandles

CONSTANTS
  NvObjs, NvForeign,  \* kernel objects; those of another process
  NvBos,              \* structures
  NvMaxRefs,          \* bound: references to one structure
  NvMaxDels           \* bound: threads on their way to delete one structure

ASSUME NvAssumption ==
  NvForeign \subseteq NvObjs /\ NvMaxRefs \in Nat /\ NvMaxDels \in Nat

VARIABLE nv

(* name: none, prime (the code's ~0, which only forces a locked close), or *)
(* flink.  dels: threads past the last nouveau_bo_ref and not yet in the   *)
(* lock of nouveau_bo_del.  state: free, listed, or unlisted while an      *)
(* unnamed buffer is closed outside the lock.  lost: the handles that an   *)
(* import opened and left without a structure when it failed.              *)
NoNvBo ==
  [state |-> "free", refcnt |-> 0, handle |-> NoHandle, obj |-> {}, name |-> "none", dels |-> 0]

NvInit ==
  nv = [k |-> Kernel(NvForeign), bo |-> [b \in NvBos |-> NoNvBo], lost |-> {}, odd |-> "no"]

NvRunning == nv.odd = "no"

NvStray(s, why) == [s EXCEPT !.odd = why]

FreshNv ==
  LET unused == {b \in NvBos : nv.bo[b].state = "free" /\ nv.bo[b].dels = 0}
  IN  IF unused = {} THEN {} ELSE {CHOOSE b \in unused : TRUE}

Listed(s) == {b \in NvBos : s.bo[b].state = "listed"}

NewNvBo(s, b, h, name) ==
  [s EXCEPT !.bo[b] = [NoNvBo EXCEPT !.state = "listed", !.refcnt = 1, !.handle = h,
                                     !.obj = {s.k.open[h]}, !.name = name]]

(* nouveau_bo_new and abi16_bo_init.                                       *)
nouveau_bo_new(o) ==
  /\ NvRunning
  /\ o \in NvObjs \ nv.k.born
  /\ \E b \in FreshNv :
       LET r == GemCreate(nv.k, o)
       IN  nv' = NewNvBo([nv EXCEPT !.k = r.k], b, r.handle, "none")

(* nouveau_bo_wrap_locked: the buffer with that handle, with a reference   *)
(* more, or a new one; the structure is set up by abi16_bo_info.  When     *)
(* GEM_INFO or the allocation of a new one fails, the handle stays open.   *)
nouveau_bo_wrap_locked(s, h, fresh) ==
  LET known == {b \in Listed(s) : s.bo[b].handle = h}
  IN  IF known # {}
      THEN LET b == CHOOSE b \in known : TRUE
           IN  [s |-> [s EXCEPT !.bo[b].refcnt = @ + 1], bo |-> b]
      ELSE [s |-> NewNvBo([s EXCEPT !.lost = @ \ {h}], fresh, h, "none"), bo |-> fresh]

Unwrapped(s, h) == \A b \in Listed(s) : s.bo[b].handle # h

Lose(s, r) == [s EXCEPT !.k = r.k, !.lost = @ \cup {r.handle}]

NvRoom == \A b \in NvBos : nv.bo[b].refcnt < NvMaxRefs

(* nouveau_bo_wrap of a handle that the program has from elsewhere.        *)
nouveau_bo_wrap(h) ==
  /\ NvRunning
  /\ NvRoom
  /\ \E b \in NvBos : nv.bo[b].handle = h /\ nv.bo[b].refcnt > 0
  /\ \E b \in FreshNv : nv' = nouveau_bo_wrap_locked(nv, h, b).s

Named(o) == {b \in Listed(nv) : nv.bo[b].name = "flink" /\ nv.bo[b].obj = {o}}

nouveau_bo_name_ref(o) ==
  /\ NvRunning
  /\ NvRoom
  /\ o \in nv.k.shared
  /\ LET r == GemOpen(nv.k, o)
     IN  IF Named(o) # {}
         THEN \E b \in Named(o) : nv' = [nv EXCEPT !.bo[b].refcnt = @ + 1]
         ELSE \E b \in FreshNv :
                LET w == nouveau_bo_wrap_locked([nv EXCEPT !.k = r.k], r.handle, b)
                IN  nv' = [w.s EXCEPT !.bo[w.bo].name = "flink"]

(* GEM_OPEN fails in nouveau_bo_name_ref: it returns with the lock held.   *)
nouveau_bo_name_ref_fails(o) ==
  /\ NvRunning
  /\ o \in NvObjs \ nv.k.shared
  /\ nv' = NvStray(nv, "lock kept")

(* The wrapping fails in it: the name is stored all the same, behind what  *)
(* the caller's pointer held before.                                       *)
nouveau_bo_name_ref_unwrapped(o) ==
  /\ NvRunning
  /\ o \in nv.k.shared
  /\ Named(o) = {}
  /\ nv' = NvStray(Lose(nv, GemOpen(nv.k, o)), "name astray")

(* ~0 makes nouveau_bo_del close the handle under the lock.                *)
Marked(s, b) ==
  [s EXCEPT !.bo[b].name = IF @ = "none" THEN "prime" ELSE @]

nouveau_bo_prime_handle_ref(o) ==
  /\ NvRunning
  /\ NvRoom
  /\ o \in nv.k.shared
  /\ \E b \in FreshNv :
       LET r == PrimeOpen(nv.k, o)
           w == nouveau_bo_wrap_locked([nv EXCEPT !.k = r.k], r.handle, b)
       IN  nv' = Marked(w.s, w.bo)

(* The wrapping fails in it.  A later import finds the handle again.       *)
nouveau_bo_prime_handle_ref_fails(o) ==
  /\ NvRunning
  /\ o \in nv.k.shared
  /\ LET r == PrimeOpen(nv.k, o)
     IN  Unwrapped(nv, r.handle) /\ nv' = Lose(nv, r)

nouveau_bo_name_get(b) ==
  /\ NvRunning
  /\ nv.bo[b].refcnt > 0
  /\ nv.bo[b].name # "flink"
  /\ nv' = [nv EXCEPT !.bo[b].name = "flink", !.k = GemFlink(@, nv.bo[b].handle)]

nouveau_bo_set_prime(b) ==
  /\ NvRunning
  /\ nv.bo[b].refcnt > 0
  /\ nv' = Marked([nv EXCEPT !.k = PrimeExport(@, nv.bo[b].handle)], b)

(* nouveau_bo_ref(bo, &null): one more.                                    *)
nouveau_bo_ref(b) ==
  /\ NvRunning
  /\ nv.bo[b].refcnt \in 1..(NvMaxRefs - 1)
  /\ nv' = [nv EXCEPT !.bo[b].refcnt = @ + 1]

(* nouveau_bo_ref(NULL, &bo): one less, without the lock.                  *)
nouveau_bo_unref(b) ==
  /\ NvRunning
  /\ nv.bo[b].refcnt > 0
  /\ nv.bo[b].dels < NvMaxDels
  /\ nv' = [nv EXCEPT !.bo[b].refcnt = @ - 1,
                      !.bo[b].dels = IF nv.bo[b].refcnt = 1 THEN @ + 1 ELSE @]

(* Somebody found a named buffer on the list before nouveau_bo_del got the *)
(* lock.                                                                   *)
Revived(bo) == bo.name # "none" /\ bo.refcnt > 0

(* nouveau_bo_del under the lock.  A second thread that finds the buffer   *)
(* gone reads and frees what was freed.                                    *)
nouveau_bo_del(b) ==
  /\ NvRunning
  /\ nv.bo[b].dels > 0
  /\ LET s == [nv EXCEPT !.bo[b].dels = @ - 1]
     IN  nv' = IF nv.bo[b].state # "listed" THEN NvStray(s, "freed twice")
               ELSE IF Revived(nv.bo[b]) THEN s
               ELSE IF nv.bo[b].name # "none"
               THEN [s EXCEPT !.k = GemClose(@, nv.bo[b].handle),
                              !.bo[b] = [NoNvBo EXCEPT !.dels = s.bo[b].dels]]
               ELSE [s EXCEPT !.bo[b].state = "unlisted"]

(* An unnamed buffer is closed after the lock was given back.              *)
nouveau_bo_del_unlocked(b) ==
  /\ NvRunning
  /\ nv.bo[b].state = "unlisted"
  /\ nv' = [nv EXCEPT !.k = GemClose(@, nv.bo[b].handle),
                      !.bo[b] = [NoNvBo EXCEPT !.dels = nv.bo[b].dels]]

NvNext ==
  \/ \E o \in NvObjs : \/ nouveau_bo_new(o)
                       \/ nouveau_bo_name_ref(o)
                       \/ nouveau_bo_name_ref_fails(o)
                       \/ nouveau_bo_name_ref_unwrapped(o)
                       \/ nouveau_bo_prime_handle_ref(o)
                       \/ nouveau_bo_prime_handle_ref_fails(o)
  \/ \E h \in DOMAIN nv.k.open : nouveau_bo_wrap(h)
  \/ \E b \in NvBos : nouveau_bo_name_get(b) \/ nouveau_bo_set_prime(b)
  \/ \E b \in NvBos : nouveau_bo_ref(b) \/ nouveau_bo_unref(b)
  \/ \E b \in NvBos : nouveau_bo_del(b) \/ nouveau_bo_del_unlocked(b)

(* Handles are not counted by the kernel, so a buffer that anybody still   *)
(* refers to must never lose its handle: every structure finds the object  *)
(* it was made for behind its handle, and no two share a handle; whoever   *)
(* revives a buffer on the list included.  A handle is left open without a *)
(* structure by nothing but an import that failed after it had opened the  *)
(* handle (nouveau.c:436-451), and no longer than to the next import that  *)
(* finds it.                                                               *)
NvSound ==
  LET held == {b \in NvBos : nv.bo[b].state # "free"}
      handles == {nv.bo[b].handle : b \in held}
  IN  /\ DOMAIN nv.k.open = handles \cup nv.lost
      /\ handles \cap nv.lost = {}
      /\ \A b, c \in held : nv.bo[b].handle = nv.bo[c].handle => b = c
      /\ \A b \in held : nv.bo[b].obj = {nv.k.open[nv.bo[b].handle]}
      /\ \A b \in NvBos : nv.bo[b].refcnt > 0 => nv.bo[b].state = "listed"
=============================================================================
