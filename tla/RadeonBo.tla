------------------------------ MODULE RadeonBo ------------------------------
(* radeon/radeon_bo.c and radeon_bo_gem.c: buffer objects without a table, *)
(* one structure for every open, and their mappings.                       *)
EXTENDS GemHandles

CONSTANTS
  RadObjs, RadForeign,  \* kernel objects; those of another process
  RadStructs,           \* structures
  RadMaxRefs            \* bound: references and mappings of one structure

ASSUME RadeonBoAssumption == RadForeign \subseteq RadObjs /\ RadMaxRefs \in Nat

VARIABLE rad

(* name: the code keeps a flink name, or, for an imported buffer, its      *)
(* handle.  good counts the mappings that the program was given, map_count *)
(* the calls.                                                              *)
NoRadBo ==
  [cref |-> 0, handle |-> NoHandle, obj |-> {}, name |-> "none",
   map_count |-> 0, good |-> 0, priv |-> FALSE, ptr |-> FALSE]

RadBoInit ==
  rad = [k |-> Kernel(RadForeign), bo |-> [b \in RadStructs |-> NoRadBo], odd |-> "no"]

RadCalm == rad.odd = "no"

FreshRad ==
  LET unused == {b \in RadStructs : rad.bo[b].cref = 0}
  IN  IF unused = {} THEN {} ELSE {CHOOSE b \in unused : TRUE}

OpenedRad(k, b, h, name) ==
  [rad EXCEPT !.k = k, !.bo[b] = [NoRadBo EXCEPT !.cref = 1, !.handle = h,
                                                !.obj = {k.open[h]}, !.name = name]]

(* bo_open without a name creates an object, with one it opens it.         *)
bo_open_new(o) ==
  /\ RadCalm
  /\ o \in RadObjs \ rad.k.born
  /\ \E b \in FreshRad : LET r == GemCreate(rad.k, o) IN rad' = OpenedRad(r.k, b, r.handle, "none")

bo_open_name(o) ==
  /\ RadCalm
  /\ o \in rad.k.shared
  /\ \E b \in FreshRad : LET r == GemOpen(rad.k, o) IN rad' = OpenedRad(r.k, b, r.handle, "flink")

(* The kernel gives the same handle when the object is imported again: two *)
(* structures then share it.                                               *)
radeon_gem_bo_open_prime(o) ==
  /\ RadCalm
  /\ o \in rad.k.shared
  /\ \E b \in FreshRad :
       LET r == PrimeOpen(rad.k, o)
           s == OpenedRad(r.k, b, r.handle, "handle")
       IN  rad' = IF \E c \in RadStructs : rad.bo[c].cref > 0 /\ rad.bo[c].handle = r.handle
                  THEN [s EXCEPT !.odd = "twin"] ELSE s

radeon_bo_ref(b) ==
  /\ RadCalm
  /\ rad.bo[b].cref \in 1..(RadMaxRefs - 1)
  /\ rad' = [rad EXCEPT !.bo[b].cref = @ + 1]

\* mutation of bo_unref: the handle is closed whoever else refers to it
bo_unref_closes(b) ==
  [rad EXCEPT !.k = GemClose(@, rad.bo[b].handle),
              !.bo[b] = IF @.cref = 1 THEN NoRadBo ELSE [@ EXCEPT !.cref = @ - 1]]

(* radeon_bo_unref and bo_unref: the last reference unmaps and closes.     *)
bo_unref(b) ==
  IF rad.bo[b].cref > 1 THEN [rad EXCEPT !.bo[b].cref = @ - 1]
  ELSE [rad EXCEPT !.k = GemClose(@, rad.bo[b].handle), !.bo[b] = NoRadBo]

radeon_bo_unref(b) == RadCalm /\ rad.bo[b].cref > 0 /\ rad' = bo_unref(b)

(* bo_map counts the call first; only the first one maps, or takes the     *)
(* mapping kept from before, and waits.  err: the ioctl, mmap or the wait  *)
(* fails.  The count stays, so the next call reports success.              *)
bo_map(b, err) ==
  LET bo == rad.bo[b]
      counted == [bo EXCEPT !.map_count = @ + 1]
  IN  /\ RadCalm
      /\ bo.cref > 0
      /\ bo.map_count < RadMaxRefs
      /\ err \in {"none", "mmap", "wait"}
      /\ bo.map_count > 0 => err = "none"
      /\ bo.priv => err # "mmap"
      /\ rad' = [rad EXCEPT
           !.bo[b] = IF bo.map_count > 0 THEN [counted EXCEPT !.good = @ + 1]
                     ELSE IF err = "mmap" THEN [counted EXCEPT !.ptr = FALSE]
                     ELSE [counted EXCEPT !.priv = TRUE, !.ptr = TRUE,
                                          !.good = IF err = "none" THEN @ + 1 ELSE @],
           !.odd = IF bo.map_count > bo.good THEN "mapped after a failure" ELSE @]

(* bo_unmap keeps the mapping itself until the buffer is closed.           *)
bo_unmap(b) ==
  [rad.bo[b] EXCEPT !.map_count = @ - 1, !.good = @ - 1,
                    !.ptr = IF rad.bo[b].map_count > 1 THEN @ ELSE FALSE]

radeon_bo_unmap(b) ==
  /\ RadCalm
  /\ rad.bo[b].cref > 0
  /\ rad.bo[b].good > 0
  /\ rad' = [rad EXCEPT !.bo[b] = bo_unmap(b)]

(* An imported buffer hands out its handle as if it were a name.           *)
radeon_gem_get_kernel_name(b) ==
  /\ RadCalm
  /\ rad.bo[b].cref > 0
  /\ rad.bo[b].name # "flink"
  /\ rad' = IF rad.bo[b].name = "handle" THEN [rad EXCEPT !.odd = "handle for a name"]
            ELSE [rad EXCEPT !.k = GemFlink(@, rad.bo[b].handle), !.bo[b].name = "flink"]

radeon_gem_prime_share_bo(b) ==
  /\ RadCalm
  /\ rad.bo[b].cref > 0
  /\ rad' = [rad EXCEPT !.k = PrimeExport(@, rad.bo[b].handle)]

RadBoNext ==
  \/ \E o \in RadObjs : bo_open_new(o) \/ bo_open_name(o) \/ radeon_gem_bo_open_prime(o)
  \/ \E b \in RadStructs : radeon_bo_ref(b) \/ radeon_bo_unref(b)
  \/ \E b \in RadStructs, err \in {"none", "mmap", "wait"} : bo_map(b, err)
  \/ \E b \in RadStructs : radeon_bo_unmap(b)
  \/ \E b \in RadStructs : radeon_gem_get_kernel_name(b) \/ radeon_gem_prime_share_bo(b)

(* Every structure finds its object behind its handle and no handle is     *)
(* left open without one; a program that holds a mapping has a pointer to  *)
(* it, through nested maps and unmaps in any order; all until one of the   *)
(* hazards: the same object imported twice, a map after a failed one, a    *)
(* handle given away as a name.                                            *)
RadeonBoSound ==
  RadCalm =>
    LET held == {b \in RadStructs : rad.bo[b].cref > 0}
    IN  /\ DOMAIN rad.k.open = {rad.bo[b].handle : b \in held}
        /\ \A b \in held : rad.bo[b].obj = {rad.k.open[rad.bo[b].handle]}
        /\ \A b \in held : rad.bo[b].good > 0 => rad.bo[b].ptr /\ rad.bo[b].priv
=============================================================================
