SPECIFICATION Spec
CONSTANTS
  Streams = {1, 2}
  Fusers <- TwoFusers
  MaxBlocks = 2
  Offered <- OnesSumAdd
  Shapes <- OneShape
  Data = {0}
  MaxQueue = 4
  MaxForeign = 1
  MaxOps = 4
INVARIANTS
  PlanForProgram ExecutedOnce DependenciesKept NeverPanics
PROPERTIES SyncDrains ProcessReturns
CHECK_DEADLOCK FALSE
