SPECIFICATION Spec
CONSTANTS
  Descriptors = {d1, d2, d3, d4}
  Storages = {s1, s2, s3}
  Alignment = 4
  Sizes = {3, 4, 5, 8, 9}
SYMMETRY Perms
INVARIANTS
  IndexComplete
  FindsSlice
  PoolInv
  SizeFitsBuffer
