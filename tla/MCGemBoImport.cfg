CONSTANTS
  NoThread = NoThread
  NoBo = NoBo
  NoObj = NoObj
  NoBucket = NoBucket
  BoReuse = TRUE
  CanReject = {FALSE}
  Bos = {b1, b2}
  VmaLimits = {1}
  MaxMapCount = 1
  Threads = {t1}
  Objs = {o1, o2}
  NumHandles = 2
  Foreign = {o1}
  Buckets = {k1}
  Sizes = {k1}
  Ops = {"alloc", "unreference", "disable_reuse", "export", "from_name", "from_prime", "map"}
  Fails = {"calloc", "fd_to_handle", "get_tiling"}
  Events = {}
  MaxRefs = 2
  MaxRelocs = 0
  MaxTime = 0
SYMMETRY BoSymmetry
SPECIFICATION GemSpec
INVARIANTS
  HandlesMatch
PROPERTIES
  MappingsImplemented
