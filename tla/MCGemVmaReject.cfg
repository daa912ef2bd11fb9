CONSTANTS
  Bos = {b1, b2}
  VmaLimits <- MCVmaLimits
  MaxMapCount = 2
  CanReject = {TRUE, FALSE}
SYMMETRY BoSymmetry
SPECIFICATION VmaSpec
INVARIANTS
  NoVmaFault
