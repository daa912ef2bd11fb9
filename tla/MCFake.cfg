CONSTANTS
  b1 = b1
  b2 = b2
  b3 = b3
  Bos = {b1, b2, b3}
  StaticBos = {b3}
  Batches = {b1}
  Shared = {b3}
  Rendered = {b3}
  Unbacked = {b3}
  BoSize <- Sizes
  Alignment = 1
  HeapSize = 3
  MAX_RELOCS = 2
  MAXFENCE = 31
  FenceWindow = 16
  FirstFence = 29
  MaxFences = 3
  MaxVersion <- Versions
  MaxRefs = 2
  MaxMaps <- Mappings
  Nothing = Nothing
  WaitMax = 9
  BusyLimit = 5
  InFlight = 3
INIT Init
NEXT Next
INVARIANTS
  FakeSound
  MappedIsCurrent
  CardReadsCurrent
  WaitIsHonestButLate
CHECK_DEADLOCK FALSE
