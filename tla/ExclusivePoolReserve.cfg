SPECIFICATION Spec
CONSTANTS
  Descriptors = {d1, d2, d3, d4, d5}
  Storages = {s1, s2}
  Alignment = 2
  MaxAllocSize = 4
  DeallocPeriod = 3
  AllocAfterFree = 3
  Sizes = {0, 1, 3, 5}
SYMMETRY Perms
INVARIANTS
  FindsPage
  PoolInv
  SliceFits
  GoneAfterPeriod
  ReusedIsKept
