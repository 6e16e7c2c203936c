SPECIFICATION Spec
CONSTANTS
  Streams = {1}
  Fusers <- RoundFuser
  MaxBlocks = 2
  Offered <- CeilTrunc
  Shapes <- OneShape
  Data = {0}
  MaxQueue = 4
  MaxForeign = 1
  MaxOps = 3
INVARIANT PlanForProgram
CHECK_DEADLOCK FALSE
