SPECIFICATION Spec
CONSTANTS
  Threads = {a, b}
  Offered <- SoundOps
  Races = FALSE
  MaxTensors = 3
  MaxUses = 3
  MaxCalls = 2
INVARIANTS
  NoMissingHandle
  ReachableMade
  NothingLeaks
SYMMETRY Perms
CHECK_DEADLOCK FALSE
