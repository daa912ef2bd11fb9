CONSTANTS
  NoThread = NoThread
  NoBo = NoBo
  NoObj = NoObj
  NoBucket = NoBucket
  BoReuse = TRUE
  CanReject = {FALSE}
  Bos = {b1, b2}
  VmaLimits = {}
  MaxMapCount = 0
  Threads = {t1}
  Objs = {o1, o2}
  NumHandles = 2
  Foreign = {}
  Buckets = {k1}
  Sizes = {k1}
  Ops = {"alloc", "alloc_for_render", "unreference", "reloc", "exec", "busy", "flink"}
  Fails = {}
  Events = {"purge", "render"}
  MaxRefs = 2
  MaxRelocs = 1
  MaxTime = 2
SYMMETRY Symmetry
SPECIFICATION GemSpec
INVARIANTS
  CacheIsClean
  InUseIsRetained
  IdleIsIdle
  CacheIsYoung
