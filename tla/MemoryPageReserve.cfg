SPECIFICATION Spec
CONSTANTS
  Descriptors = {d1, d2, d3, d4, d5}
  PageSize = 10
  Alignment = 2
  Sizes = {1, 3}
  MaxRefs = 2
SYMMETRY Perms
INVARIANTS
  PageInv
  NoOverlap
  AlignedOffsets
  HandleFindsSlice
  CoalesceKeepsBytes
PROPERTIES
  RegionStable
  RefinesAllocator
