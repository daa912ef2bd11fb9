------------------------------- MODULE OmapBo -------------------------------
(* omap/omap_drm.c: devices found again through a table of file            *)
(* descriptors, buffer objects through the device's handle table.  What    *)
(* runs under table_lock is one step; omap_bo_del and omap_device_del drop *)
(* their reference before they take the lock, and omap_bo_del drops the    *)
(* device's after it.  One descriptor is used.  Sizes, mappings and the    *)
(* parameter ioctls are left out.                                          *)
EXTENDS GemHandles

CONSTANTS
  OmapObjs, OmapForeign,  \* kernel objects; those of another process
  OmapBos,                \* structures
  OmapMaxRefs             \* bound: references to a structure or the device

ASSUME OmapAssumption == OmapForeign \subseteq OmapObjs /\ OmapMaxRefs \in Nat

VARIABLE om

NoOmapBo ==
  [state |-> "free", refcnt |-> 0, handle |-> NoHandle, obj |-> {}, named |-> FALSE, fd |-> FALSE]

(* device: none, open, or dying between the last reference and the lock;   *)
(* users: references to the device that the program holds.                 *)
OmapInit ==
  om = [k |-> Kernel(OmapForeign), bo |-> [b \in OmapBos |-> NoOmapBo],
        handle_table |-> [h \in {} |-> 0], dev_table |-> FALSE, device |-> "none",
        refcnt |-> 0, users |-> 0, odd |-> "no"]

OmapRunning == om.odd = "no"

Stray(s, why) == [s EXCEPT !.odd = why]

(* omap_device_new: the device in the table, or a new one.  A device whose *)
(* last reference is gone is still in the table until it gets the lock.    *)
omap_device_new ==
  /\ OmapRunning
  /\ om.users < OmapMaxRefs
  /\ om' = IF ~om.dev_table
           THEN [om EXCEPT !.device = "open", !.dev_table = TRUE, !.refcnt = 1, !.users = 1,
                           !.handle_table = [h \in {} |-> 0]]
           ELSE LET s == [om EXCEPT !.refcnt = @ + 1, !.users = @ + 1]
                IN  IF om.device = "dying" THEN Stray(s, "device revived") ELSE s

DropOmapDevice(s) ==
  [s EXCEPT !.refcnt = @ - 1, !.device = IF s.refcnt = 1 THEN "dying" ELSE @]

omap_device_ref ==
  /\ OmapRunning
  /\ om.users \in 1..(OmapMaxRefs - 1)
  /\ om' = [om EXCEPT !.refcnt = @ + 1, !.users = @ + 1]

omap_device_del ==
  /\ OmapRunning
  /\ om.users > 0
  /\ om' = DropOmapDevice([om EXCEPT !.users = @ - 1])

(* omap_device_del under the lock.                                         *)
omap_device_del_locked ==
  /\ OmapRunning
  /\ om.device = "dying"
  /\ om' = [om EXCEPT !.device = "none", !.dev_table = FALSE,
                      !.handle_table = [h \in {} |-> 0]]

-----------------------------------------------------------------------------
(* bo_from_handle.                                                         *)
OmapFromHandle(s, b, h) ==
  [s EXCEPT !.bo[b] = [NoOmapBo EXCEPT !.state = "live", !.refcnt = 1, !.handle = h,
                                       !.obj = {s.k.open[h]}],
            !.refcnt = @ + 1,
            !.handle_table = IF h \in DOMAIN @ THEN @ ELSE Bind(@, h, b)]

(* lookup_bo: a structure that omap_bo_del has given up may be found.      *)
OmapLookup(s, b) ==
  LET t == [s EXCEPT !.bo[b].refcnt = @ + 1]
  IN  IF s.bo[b].refcnt = 0 THEN Stray(t, "revived") ELSE t

FreshOmap ==
  LET unused == {b \in OmapBos : om.bo[b].state = "free"}
  IN  IF unused = {} THEN {} ELSE {CHOOSE b \in unused : TRUE}

OmapUsable == OmapRunning /\ om.users > 0

(* omap_bo_new, omap_bo_new_tiled and omap_bo_new_impl.                    *)
omap_bo_new(o) ==
  /\ OmapUsable
  /\ o \in OmapObjs \ om.k.born
  /\ \E b \in FreshOmap :
       LET r == GemCreate(om.k, o)
       IN  om' = OmapFromHandle([om EXCEPT !.k = r.k], b, r.handle)

(* calloc fails in bo_from_handle: the handle is closed, and every caller  *)
(* but omap_bo_from_dmabuf stores through the null pointer.                *)
omap_bo_nomem ==
  /\ OmapUsable
  /\ om' = Stray(om, "null buffer")

(* Opens first and looks in the table afterwards.                          *)
Imported(s, r, name, b) ==
  LET t == [s EXCEPT !.k = r.k]
  IN  IF r.handle \in DOMAIN s.handle_table THEN OmapLookup(t, s.handle_table[r.handle])
      ELSE [OmapFromHandle(t, b, r.handle) EXCEPT !.bo[b].named = name]

omap_bo_from_name(o) ==
  /\ OmapUsable
  /\ o \in om.k.shared
  /\ \E b \in FreshOmap : om' = Imported(om, GemOpen(om.k, o), TRUE, b)

omap_bo_from_dmabuf(o) ==
  /\ OmapUsable
  /\ o \in om.k.shared
  /\ \A b \in OmapBos : om.bo[b].refcnt < OmapMaxRefs
  /\ \E b \in FreshOmap : om' = Imported(om, PrimeOpen(om.k, o), FALSE, b)

omap_bo_ref(b) ==
  /\ OmapRunning
  /\ om.bo[b].refcnt \in 1..(OmapMaxRefs - 1)
  /\ om' = [om EXCEPT !.bo[b].refcnt = @ + 1]

omap_bo_get_name(b) ==
  /\ OmapRunning
  /\ om.bo[b].refcnt > 0
  /\ ~om.bo[b].named
  /\ om' = [om EXCEPT !.bo[b].named = TRUE, !.k = GemFlink(@, om.bo[b].handle)]

omap_bo_dmabuf(b) ==
  /\ OmapRunning
  /\ om.bo[b].refcnt > 0
  /\ ~om.bo[b].fd
  /\ om' = [om EXCEPT !.bo[b].fd = TRUE, !.k = PrimeExport(@, om.bo[b].handle)]

(* omap_bo_del, in three steps: to the lock, under it, and after it.       *)
omap_bo_del(b) ==
  /\ OmapRunning
  /\ om.bo[b].refcnt > 0
  /\ om' = [om EXCEPT !.bo[b].refcnt = @ - 1,
                      !.bo[b].state = IF om.bo[b].refcnt = 1 THEN "doomed" ELSE @]

OmapClose(s, b) ==
  [s EXCEPT !.handle_table = Unbind(@, s.bo[b].handle),
            !.k = GemClose(@, s.bo[b].handle), !.bo[b].state = "closed"]

omap_bo_del_locked(b) ==
  /\ OmapRunning
  /\ om.bo[b].state = "doomed"
  /\ om' = OmapClose(om, b)

omap_bo_del_end(b) ==
  /\ OmapRunning
  /\ om.bo[b].state = "closed"
  /\ om' = DropOmapDevice([om EXCEPT !.bo[b] = NoOmapBo])

OmapNext ==
  \/ omap_device_new \/ omap_device_ref \/ omap_device_del \/ omap_device_del_locked
  \/ omap_bo_nomem
  \/ \E o \in OmapObjs : omap_bo_new(o) \/ omap_bo_from_name(o) \/ omap_bo_from_dmabuf(o)
  \/ \E b \in OmapBos : omap_bo_ref(b) \/ omap_bo_get_name(b) \/ omap_bo_dmabuf(b)
  \/ \E b \in OmapBos : omap_bo_del(b) \/ omap_bo_del_locked(b) \/ omap_bo_del_end(b)

(* No two structures float around with one handle, so that closing one     *)
(* never pulls the handle from under another: every structure that can     *)
(* still use its handle finds its own object there, the table leads to     *)
(* such structures only, no handle is left open without one, and the       *)
(* device outlives its buffers.  What breaks this (odd) is a lookup that   *)
(* revives a structure or a device after its last reference was dropped,   *)
(* and a structure that calloc refused.                                    *)
OmapSound ==
  LET held == {b \in OmapBos : om.bo[b].state \in {"live", "doomed"}}
  IN  om.odd = "no" =>
        /\ DOMAIN om.k.open = {om.bo[b].handle : b \in held}
        /\ \A b, c \in held : om.bo[b].handle = om.bo[c].handle => b = c
        /\ \A b \in held : om.bo[b].obj = {om.k.open[om.bo[b].handle]}
        /\ \A h \in DOMAIN om.handle_table :
             LET b == om.handle_table[h] IN b \in held /\ om.bo[b].handle = h
        /\ om.refcnt = om.users + Cardinality({b \in OmapBos : om.bo[b].state # "free"})
        /\ om.device # "open" => om.refcnt = 0
=============================================================================
