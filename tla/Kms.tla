-------------------------------- MODULE Kms ---------------------------------
(***************************************************************************)
(* libkms: one driver object per device file, chosen when it is created,   *)
(* and the scan-out and cursor buffers it makes.  The back ends compute    *)
(* the size of a buffer in C's unsigned arithmetic and keep a count of     *)
(* mappings; only radeon's unmaps when the count returns to zero.          *)
(***************************************************************************)
EXTENDS GemHandles, Sequences

CONSTANTS
  KmsBos,      \* structures
  KmsObjs,     \* kernel objects
  KmsBits,     \* the width of unsigned; 32 in the build
  KmsAlign,    \* the alignment of a pitch; 512 in the code
  KmsRows,     \* the alignment of a height; 4 in the code
  KmsCursor,   \* the edge of a cursor; 64 in the code
  KmsLists,    \* attribute lists, sequences of <<key, value>>
  KmsGmrs,     \* what vmwgfx may answer as cur_gmr_id
  KmsMaxMaps   \* bound: the mappings of a buffer that are counted

VARIABLE kms
  (* dev: what the device file is; drv: the back end, or "none";           *)
  (* k: the kernel's handles; bo: the live structures.                     *)

KmsNames == {"intel", "vmwgfx", "nouveau", "radeon", "exynos"}

(* dumb: DRM_CAP_DUMB_BUFFER; name: the driver's name in sysfs.            *)
KmsDevices == [dumb : BOOLEAN, name : KmsNames \cup {"other"}]

KmsInit ==
  kms \in {[dev |-> d, drv |-> "none", k |-> Kernel({}), bo |-> << >>] : d \in KmsDevices}

(* dumb first, then udev, which is compiled out, then the name in sysfs.   *)
linux_create(dev) ==
  IF dev.dumb THEN "dumb" ELSE IF dev.name \in KmsNames THEN dev.name ELSE "none"

kms_create ==
  /\ kms.drv = "none"
  /\ linux_create(kms.dev) # "none"
  /\ kms' = [kms EXCEPT !.drv = linux_create(kms.dev)]

(* The driver object is freed; the buffers must be gone, for they point    *)
(* to it.                                                                  *)
kms_destroy ==
  /\ kms.drv # "none"
  /\ DOMAIN kms.bo = {}
  /\ kms' = [kms EXCEPT !.drv = "none"]

-----------------------------------------------------------------------------
(* The loop over the attribute list: the last value of a key counts.       *)
Attribute(list, key, default) ==
  LET at == {i \in DOMAIN list : list[i][1] = key}
  IN  IF at = {} THEN default
      ELSE list[CHOOSE i \in at : \A j \in at : j <= i][2]

(* What kms_bo_create makes of a list before it calls the back end.        *)
Wanted(list) ==
  [width |-> Attribute(list, "width", 0), height |-> Attribute(list, "height", 0),
   type |-> Attribute(list, "type", "scanout"),
   known |-> \A i \in DOMAIN list : list[i][1] \in {"width", "height", "type"}]

Accepted(a) ==
  /\ a.known
  /\ a.width # 0 /\ a.height # 0
  /\ a.type = "cursor" => a.width = KmsCursor /\ a.height = KmsCursor

Unsigned(n) == n % (2 ^ KmsBits)

AlignUnwrapped(n, a) == ((n + a - 1) \div a) * a

AlignDown(n, a) == (Unsigned(n) \div a) * a   \* mutation of Align: rounds down

(* (n + a - 1) & ~(a - 1)                                                  *)
Align(n, a) == (Unsigned(n + a - 1) \div a) * a

(* bo_create of the back ends: the pitch and the size they ask for, none   *)
(* ({}) when they refuse the type.  A cursor needs no alignment.           *)
Cursor == [pitch |-> KmsCursor * 4, size |-> Unsigned(KmsCursor * KmsCursor * 4)]

Scanout(a, rows) ==
  LET pitch == Align(Unsigned(a.width * 4), KmsAlign)
  IN  [pitch |-> pitch, size |-> Unsigned(pitch * rows)]

OfType(a, scanout) ==
  CASE a.type = "cursor" -> {Cursor}
    [] a.type = "scanout" -> {scanout}
    [] OTHER -> {}

intel_bo_create(a) == OfType(a, Scanout(a, Align(a.height, KmsRows)))

exynos_kms_bo_create(a) == OfType(a, Scanout(a, Align(a.height, KmsRows)))

radeon_kms_bo_create(a) == OfType(a, Scanout(a, a.height))

nouveau_kms_bo_create(a) == OfType(a, Scanout(a, a.height))

(* Any type, and no alignment.                                             *)
vmwgfx_bo_create(a) == {[pitch |-> Unsigned(a.width * 4), size |-> Unsigned(a.width * a.height * 4)]}

(* The kernel computes both, and refuses what does not fit (external).     *)
dumb_bo_create(a) == {[pitch |-> a.width * 4, size |-> a.width * 4 * a.height]}

(* The functions of a driver object after bo_create, by how they differ:   *)
(* bo_map always keeps a pointer it has and else asks the kernel; bo_unmap *)
(* counts down and, if unmaps, drops the pointer at zero; bo_destroy gives *)
(* up when the kernel refuses to close the handle, or (deaf) never asks.   *)
DriverObject(unmaps, deaf) == [unmaps |-> unmaps, deaf |-> deaf]

dumb_create == DriverObject(FALSE, FALSE)
intel_create == DriverObject(FALSE, FALSE)
vmwgfx_create == DriverObject(FALSE, TRUE)
nouveau_create == DriverObject(FALSE, FALSE)
radeon_create == DriverObject(TRUE, FALSE)
exynos_create == DriverObject(FALSE, FALSE)

Geometries(drv, a) ==
  CASE drv = "dumb" -> dumb_bo_create(a)
    [] drv = "intel" -> intel_bo_create(a)
    [] drv = "vmwgfx" -> vmwgfx_bo_create(a)
    [] drv = "nouveau" -> nouveau_kms_bo_create(a)
    [] drv = "radeon" -> radeon_kms_bo_create(a)
    [] drv = "exynos" -> exynos_kms_bo_create(a)

DriverFunctions(drv) ==
  CASE drv = "dumb" -> dumb_create
    [] drv = "intel" -> intel_create
    [] drv = "vmwgfx" -> vmwgfx_create
    [] drv = "nouveau" -> nouveau_create
    [] drv = "radeon" -> radeon_create
    [] drv = "exynos" -> exynos_create

(* What the kernel may refuse, and must (external).                        *)
KernelTakes(drv, g) == g.size > 0 /\ (drv = "dumb" => g.size < 2 ^ KmsBits)

(* kms_bo_create with a back end's bo_create.  vmwgfx overwrites the       *)
(* handle with the id of the GMR.                                          *)
kms_bo_create(b, list) ==
  LET a == Wanted(list)
      o == CHOOSE x \in KmsObjs \ kms.k.born : TRUE
      r == GemCreate(kms.k, o)
  IN  /\ kms.drv # "none"
      /\ b \notin DOMAIN kms.bo
      /\ KmsObjs \ kms.k.born # {}
      /\ Accepted(a)
      /\ \E g \in Geometries(kms.drv, a), id \in IF kms.drv = "vmwgfx" THEN KmsGmrs ELSE {r.handle} :
           /\ KernelTakes(kms.drv, g)
           /\ kms' = [kms EXCEPT !.k = r.k,
                        !.bo = Bind(@, b, [handle |-> id, obj |-> o, size |-> g.size, pitch |-> g.pitch,
                                           want |-> a, ptr |-> FALSE, map_count |-> 0, held |-> 0])]

(* A buffer that has a pointer is only counted; otherwise the kernel maps  *)
(* it, or refuses and nothing changes.                                     *)
kms_bo_map(b) ==
  /\ b \in DOMAIN kms.bo
  /\ kms.bo[b].map_count < KmsMaxMaps
  /\ kms' = [kms EXCEPT !.bo[b].ptr = TRUE, !.bo[b].map_count = @ + 1, !.bo[b].held = @ + 1]

Unmapped(drv, x) ==
  [x EXCEPT !.map_count = @ - 1, !.ptr = @ /\ ~(DriverFunctions(drv).unmaps /\ x.map_count = 1)]

kms_bo_unmap(b) ==
  /\ b \in DOMAIN kms.bo
  /\ kms.bo[b].held > 0
  /\ kms' = [kms EXCEPT !.bo[b] = [Unmapped(kms.drv, kms.bo[b]) EXCEPT !.held = @ - 1]]

(* GEM_CLOSE, DESTROY_DUMB or UNREF_DMABUF; vmwgfx does not look at the    *)
(* answer, and its id need not be an open handle.                          *)
Destroyed(k, h) == IF h \in DOMAIN k.open THEN GemClose(k, h) ELSE k

(* The pointer goes, whatever the count says; if the kernel then refuses   *)
(* to close the handle the structure stays.                                *)
kms_bo_destroy(b) ==
  /\ b \in DOMAIN kms.bo
  /\ \/ kms' = [kms EXCEPT !.k = Destroyed(@, kms.bo[b].handle), !.bo = Unbind(@, b)]
     \/ /\ ~DriverFunctions(kms.drv).deaf
        /\ kms' = [kms EXCEPT !.bo[b].ptr = FALSE, !.bo[b].held = 0]

KmsNext ==
  \/ kms_create
  \/ kms_destroy
  \/ \E b \in KmsBos, list \in KmsLists : kms_bo_create(b, list)
  \/ \E b \in KmsBos : kms_bo_map(b) \/ kms_bo_unmap(b) \/ kms_bo_destroy(b)

-----------------------------------------------------------------------------
(* The pitch and size without the limits of unsigned.                      *)
TrueSize(drv, a) ==
  LET pitch == AlignUnwrapped(a.width * 4, KmsAlign)
      rows == IF drv \in {"intel", "exynos"} THEN AlignUnwrapped(a.height, KmsRows) ELSE a.height
  IN  IF drv \in {"dumb", "vmwgfx"} THEN a.width * 4 * a.height ELSE pitch * rows

(* A buffer holds the picture it was made for: a row fits in its pitch and *)
(* all the rows fit in its size, as long as the size itself fits in an     *)
(* unsigned (the back ends do not check that it does).                     *)
PictureFits ==
  \A b \in DOMAIN kms.bo :
    LET x == kms.bo[b]
    IN  TrueSize(kms.drv, x.want) < 2 ^ KmsBits
          => x.pitch >= x.want.width * 4 /\ x.size >= x.pitch * x.want.height

(* While a client holds a mapping its pointer is mapped, whoever else      *)
(* unmapped the buffer, and outside vmwgfx the structures and the open     *)
(* handles match one to one: no buffer is used after its handle was closed *)
(* and no handle outlives its buffer.                                      *)
KmsHandlesMatch ==
  /\ \A b \in DOMAIN kms.bo : kms.bo[b].held > 0 => kms.bo[b].ptr
  /\ linux_create(kms.dev) # "vmwgfx" =>
       /\ {kms.bo[b].handle : b \in DOMAIN kms.bo} = DOMAIN kms.k.open
       /\ \A b \in DOMAIN kms.bo : kms.k.open[kms.bo[b].handle] = kms.bo[b].obj
=============================================================================
