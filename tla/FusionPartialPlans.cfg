SPECIFICATION FairSpec
CONSTANTS
  Streams = {a, b}
  Tensors = {t1, t2, t3}
  NoStream = NoStream
  ContinueDropDrain = TRUE
  PartialPlans = TRUE
  Reads = TRUE
  Mixes = TRUE
  MaxInputs = 2
  MaxRefs = 2
  MaxCalls = 4
INVARIANTS
  HeldTensorsLive
  DropsExecuted
PROPERTIES
  NoLostOperation
  CallsReturn
CHECK_DEADLOCK FALSE
