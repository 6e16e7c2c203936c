SPECIFICATION Spec
CONSTANTS
  Streams = {a, b}
  Tensors = {t1, t2, t3}
  NoStream = NoStream
  ContinueDropDrain = TRUE
  PartialPlans = TRUE
  Reads = FALSE
  Mixes = TRUE
  MaxInputs = 1
  MaxRefs = 2
  MaxCalls = 6
SYMMETRY Perms
PROPERTIES
  ReleaseWaits
CHECK_DEADLOCK FALSE
