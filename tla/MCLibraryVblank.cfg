CONSTANTS
  HashNull = HashNull
  SLNull = SLNull
  va = va
  vb = vb
  HASH_SIZE = 4
  HashKeys = {2, 5, 9, 256}
  HashValues = {va, vb}
  SL_MAX_LEVEL = 2
  SLKeys = {1, 2, 3}
  SLValues = {va, vb}
  Seeds = {0, 1, 2147483647}
  MmOffset = 2
  MmSize = 6
  MmUnits = {1, 2, 4}
  MmStarts = {0, 5}
  Threads = {t1, t2, t3}
  NoThread = NoThread
  Build = "sync"
  MaxRefs = 3
  DRM_MAX_MINOR = 3
  DRM_MAX_FDS = 2
  DvFds = {0, 1, 2, 3}
  DvMachines <- Machines
  DvContexts = {1}
  DvMaxRefs = 2
  QMaxLen = 2
  QMaxChanges = 3
  EvRoom = 5
  EvMax = 4
  EvDepth = 2
  WTicks = 2
  WMaxTime = 8
  WMaxFrames = 2
  DRM_DMA_RETRY = 2
SPECIFICATION Spec
INVARIANTS
  TimesOutAfterASecond
CHECK_DEADLOCK FALSE
