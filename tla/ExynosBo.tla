------------------------------ MODULE ExynosBo ------------------------------
(* Buffers of the Exynos driver (exynos_drm.c).  There is no table of      *)
(* structures and no count of references: every create or open makes a     *)
(* structure with a handle of its own, and destroying it closes the handle.*)
EXTENDS GemHandles

CONSTANTS
  ExBos,      \* structures
  ExObjs,     \* kernel objects
  ExForeign,  \* those of other processes, known by name
  ExSize      \* the size of an object that is created here

VARIABLE ex
  (* k: the kernel's handles; bo: the live structures; raw: handles that   *)
  (* exynos_prime_fd_to_handle gave out without a structure; maps: the     *)
  (* structures that the kernel mapped and nobody unmapped.                *)

ExInit == ex = [k |-> Kernel(ExForeign), bo |-> << >>, raw |-> {}, maps |-> {}]

Live(b) == b \in DOMAIN ex.bo

exynos_bo_create(b, o) ==
  /\ ~Live(b)
  /\ o \notin ex.k.born
  /\ LET r == GemCreate(ex.k, o)
     IN  ex' = [ex EXCEPT !.k = r.k,
                  !.bo = Bind(@, b, [handle |-> r.handle, obj |-> o, size |-> ExSize, name |-> FALSE, vaddr |-> FALSE])]

(* The size is left zero.                                                  *)
exynos_bo_from_name(b, o) ==
  /\ ~Live(b)
  /\ o \in ex.k.shared
  /\ LET r == GemOpen(ex.k, o)
     IN  ex' = [ex EXCEPT !.k = r.k,
                  !.bo = Bind(@, b, [handle |-> r.handle, obj |-> o, size |-> 0, name |-> TRUE, vaddr |-> FALSE])]

exynos_bo_get_name(b) ==
  /\ Live(b)
  /\ ~ex.bo[b].name
  /\ ex' = [ex EXCEPT !.k = GemFlink(@, ex.bo[b].handle), !.bo[b].name = TRUE]

(* EXYNOS_GEM_MMAP is given the size of the structure; like mmap it        *)
(* refuses a size of zero (external), so an opened buffer is never mapped. *)
exynos_bo_map(b) ==
  /\ Live(b)
  /\ ~ex.bo[b].vaddr
  /\ ex.bo[b].size > 0
  /\ ex' = [ex EXCEPT !.bo[b].vaddr = TRUE, !.maps = @ \cup {b}]

Dropped(x, b) ==
  [x EXCEPT !.k = GemClose(@, x.bo[b].handle), !.bo = Unbind(@, b), !.maps = @ \ {b}]

exynos_bo_destroy(b) == Live(b) /\ ex' = Dropped(ex, b)

exynos_prime_handle_to_fd(b) ==
  /\ Live(b)
  /\ ex' = [ex EXCEPT !.k = PrimeExport(@, ex.bo[b].handle)]

(* The handle may be one that a structure owns; the caller keeps it.       *)
exynos_prime_fd_to_handle(o) ==
  /\ o \in ex.k.shared
  /\ LET r == PrimeOpen(ex.k, o)
     IN  ex' = [ex EXCEPT !.k = r.k, !.raw = @ \cup {r.handle}]

(* Once its structure is gone a raw handle is dead, though its owner keeps *)
(* the number; the owner forgets it.                                       *)
Forget(h) == h \in ex.raw /\ ex' = [ex EXCEPT !.raw = @ \ {h}]

ExNext ==
  \/ \E b \in ExBos :
       \/ \E o \in ExObjs : exynos_bo_create(b, o) \/ exynos_bo_from_name(b, o)
       \/ exynos_bo_get_name(b)
       \/ exynos_bo_map(b)
       \/ exynos_bo_destroy(b)
       \/ exynos_prime_handle_to_fd(b)
  \/ \E o \in ExObjs : exynos_prime_fd_to_handle(o)
  \/ \E h \in ex.raw : Forget(h)

(* Every structure has a handle of its own, open and of its object, and a  *)
(* mapping never outlives its structure, though an opened buffer has no    *)
(* size to unmap with.                                                     *)
ExynosBoSound ==
  /\ \A b \in DOMAIN ex.bo :
       /\ ex.bo[b].handle \in DOMAIN ex.k.open
       /\ ex.k.open[ex.bo[b].handle] = ex.bo[b].obj
       /\ \A c \in DOMAIN ex.bo \ {b} : ex.bo[c].handle # ex.bo[b].handle
  /\ ex.maps \subseteq DOMAIN ex.bo
=============================================================================
