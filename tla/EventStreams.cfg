SPECIFICATION FairSpec
CONSTANTS
  Ids <- ThreeIds
  MaxStreams = 2
  Capacity = 1
  MaxBytes = 1
  MaxCalled = 3
  MaxRefused = 1
  MaxHandles = 1
INVARIANTS
  StreamsInv
PROPERTIES
  ValidWhenRead
  CollectedAfterUse
  StreamsGoOn
CHECK_DEADLOCK FALSE
