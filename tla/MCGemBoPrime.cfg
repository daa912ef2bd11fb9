CONSTANTS
  NoThread = NoThread
  NoBo = NoBo
  NoObj = NoObj
  NoBucket = NoBucket
  BoReuse = TRUE
  CanReject = {FALSE}
  Bos = {b1, b2}
  VmaLimits = {}
  MaxMapCount = 0
  Threads = {t1, t2}
  Objs = {o1, o2}
  NumHandles = 2
  Foreign = {}
  Buckets = {k1}
  Sizes = {k1}
  Ops = {"alloc", "unreference", "export", "from_prime"}
  Fails = {}
  Events = {}
  MaxRefs = 2
  MaxRelocs = 1
  MaxTime = 0
SYMMETRY Symmetry
SPECIFICATION GemSpec
INVARIANT
  OneBoPerObject
