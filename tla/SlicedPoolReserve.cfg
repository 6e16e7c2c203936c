SPECIFICATION Spec
CONSTANTS
  Descriptors = {d1, d2, d3, d4, d5}
  Storages = {s1, s2}
  PageSize = 4
  Alignment = 2
  MaxAllocSize = 2
  Sizes = {1, 2, 4, 5}
SYMMETRY Perms
INVARIANTS
  FindsSlice
  PoolInv
  AllocFits
PROPERTIES
  RefinesAllocator
