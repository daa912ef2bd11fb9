--------------------------- MODULE DriverHandles ----------------------------
(* The libraries that keep structures for the handles of a device file:    *)
(* freedreno, omap, nouveau, radeon, exynos, libkms, and the Intel buffer  *)
(* managers, which keep one for the file itself.  A process uses one of    *)
(* them for a file; they share no state.                                   *)
EXTENDS FdBo, OmapBo, NvBo, RadeonBo, ExynosBo, Kms, GemManager

VARIABLE driver   \* the library in use

HandleLibraries == {"freedreno", "omap", "nouveau", "radeon", "exynos", "kms", "manager"}

handleVars == <<fd, om, nv, rad, ex, kms, gm>>

LibrariesInit == FdInit /\ OmapInit /\ NvInit /\ RadBoInit /\ ExInit /\ KmsInit /\ GmInit

HandlesInit == driver \in HandleLibraries /\ LibrariesInit

HandlesNext ==
  /\ UNCHANGED driver
  /\ \/ driver = "freedreno" /\ FdNext /\ UNCHANGED <<om, nv, rad, ex, kms, gm>>
     \/ driver = "omap" /\ OmapNext /\ UNCHANGED <<fd, nv, rad, ex, kms, gm>>
     \/ driver = "nouveau" /\ NvNext /\ UNCHANGED <<fd, om, rad, ex, kms, gm>>
     \/ driver = "radeon" /\ RadBoNext /\ UNCHANGED <<fd, om, nv, ex, kms, gm>>
     \/ driver = "exynos" /\ ExNext /\ UNCHANGED <<fd, om, nv, rad, kms, gm>>
     \/ driver = "kms" /\ KmsNext /\ UNCHANGED <<fd, om, nv, rad, ex, gm>>
     \/ driver = "manager" /\ GmNext /\ UNCHANGED <<fd, om, nv, rad, ex, kms>>

HandlesSpec == HandlesInit /\ [][HandlesNext]_<<driver, handleVars>>

(* The handles of the kernel, which it does not count, and the structures  *)
(* of every library correspond: no structure lost the object it was made   *)
(* for, no two share a handle, none is left open.  The same of the Intel   *)
(* managers and their descriptors.                                         *)
HandlesSound ==
  CASE driver = "freedreno" -> FdSound
    [] driver = "omap" -> OmapSound
    [] driver = "nouveau" -> NvSound
    [] driver = "radeon" -> RadeonBoSound
    [] driver = "exynos" -> ExynosBoSound
    [] driver = "kms" -> KmsHandlesMatch
    [] driver = "manager" -> ManagersShared
    [] OTHER -> TRUE
=============================================================================
