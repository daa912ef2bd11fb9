CONSTANTS
  a1 = a1
  a2 = a2
  a3 = a3
  b1 = b1
  b2 = b2
  k1 = k1
  k2 = k2
  w1 = w1
  w2 = w2
  w3 = w3
  p1 = p1
  p2 = p2
  r1 = r1
  r2 = r2
  r3 = r3
  FdObjs = {o1, o2}
  FdForeign = {}
  FdBos = {b1, b2}
  FdMaxRefs = 2
  FdMaxTime = 3
  OmapObjs = {o1, x1}
  OmapForeign = {x1}
  OmapBos = {b1, b2}
  OmapMaxRefs = 2
  NvObjs = {o1, x1}
  NvForeign = {x1}
  NvBos = {b1, b2}
  NvMaxRefs = 2
  NvMaxDels = 2
  RadObjs = {o1, x1}
  RadForeign = {x1}
  RadStructs = {b1, b2}
  RadMaxRefs = 2
  ExBos = {b1, b2}
  ExObjs = {o1, x1}
  ExForeign = {x1}
  ExSize = 1
  KmsBos = {b1, b2}
  KmsObjs = {o1, o2}
  KmsBits = 6
  KmsAlign = 8
  KmsRows = 2
  KmsCursor = 2
  KmsLists <- AttributeLists
  KmsGmrs = {1, 7}
  KmsMaxMaps = 2
  MsmRings = {r1, r2, r3}
  MsmParent <- Parent
  MsmRingBo <- RingBo
  MsmBos = {b1, b2}
  MsmMaxWords = 2
  KgslBos = {k1, k2}
  KgslShared = {k1}
  KgslStamps = 2
  NvpPushes = {p1, p2}
  NvpOwn <- PushBo
  NvpBufs = {b1, b2}
  NvpSize <- UnitSize
  NvpLimit <- Limits
  NvpPrograms <- Programs
  NOUVEAU_GEM_MAX_BUFFERS = 3
  NOUVEAU_GEM_MAX_RELOCS = 3
  NOUVEAU_GEM_MAX_PUSH = 2
  RadBos = {b1, b2}
  RadCss = {c1}
  RadSize <- UnitSize
  RadReads = {{"vram", "gtt"}}
  RadWrites = {{"vram"}}
  VramLimit = 2
  GartLimit = 3
  IdBits = 1
  MAX_SPACE_BOS = 2
  MaxRelocs = 2
  SecDwords = 4
  SecGranule = 2
  SecPad = 2
  SecMaxDwords = 7
  G2dBits = 3
  G2D_MAX_CMD_NR = 16
  G2D_MAX_GEM_CMD_NR = 3
  G2D_MAX_CMD_LIST_NR = 1
  G2dCalls <- Calls
  SurfBits = 20
  SurfMaxPix = 512
  SurfConfigs <- Cards
  SurfAsks <- Asks
  BofIds = {1, 2, 3}
  BofLeaves <- Leaves
  BofKeyLen = 2
  BofMaxKids = 2
  GeoChips <- Chips
  GeoAsks <- Pictures
  GeoSizes = {1, 4096, 16385, 117440513}
  GeoMaxBos = 2
  GmThreads = {t1, t2}
  GmFds = {f1, f2}
  GmMgrs = {m1, m2, m3}
  GmMaxHeld = 1
  AubBos = {a1, a2, a3}
  AubSources = {a1, a2}
  AubSize <- Words
  AubNotes <- Notes
  AubBlock = 2
  AubStart = 4
  AubLimit = 10
  AubRing = 1
  AubMaxRelocs = 2
INIT Init
NEXT Next
INVARIANTS
  HandlesSound
  SubmissionsHold
  SpaceSuffices
  EverythingFits
CHECK_DEADLOCK FALSE
