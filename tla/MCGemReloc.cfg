CONSTANTS
  Bos = {b1, b2, b3}
  VmaLimits <- MCVmaLimits
  MaxMapCount = 2
  CanReject = {FALSE}
  Buffers = {b1, b2, b3}
  NoBo = NoBo
  Sizes = {256}
  Devices <- MCDevices
  GttPages = 900
  MaxRelocs = 2
  MaxTree = 1024
  MaxFences = 2
SYMMETRY BoSymmetry
SPECIFICATION Spec
INVARIANTS
  NoVmaFault
  CountsExact
  VirtualIsMapped
  MappingsBounded
  ApertureIsJudged
  FencesCovered
  ValidationListIsOrdered
