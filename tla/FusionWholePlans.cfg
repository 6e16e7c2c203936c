SPECIFICATION Spec
CONSTANTS
  Streams = {a, b, c}
  Tensors = {t1, t2, t3}
  NoStream = NoStream
  ContinueDropDrain = FALSE
  PartialPlans = FALSE
  Reads = FALSE
  Mixes = FALSE
  MaxInputs = 2
  MaxRefs = 2
  MaxCalls = 6
SYMMETRY Perms
INVARIANTS
  NoMissingHandle
PROPERTIES
  ReleaseWaits
CHECK_DEADLOCK FALSE
