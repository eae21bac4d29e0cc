SPECIFICATION MCSpec
CONSTANTS
  w1 = w1
  w2 = w2
  k1 = k1
  k2 = k2
  k3 = k3
  Worker <- MCWorker
  Key <- MCKey
  Home <- MCHome
  HCap = 16
  Cap = 2
  Payload = {0, 5}
  None = None
  MaxCalls = 2
  Palette <- Palettes
  Raw <- Blocks
  MaxBlocks = 5
  Listed <- Known
  FullCube <- Full
  Query <- Queries
  Offset <- Fiddle
  CellSlot <- OneSlot
  Pool = 2
INVARIANT AnswersPure
PROPERTIES IsLog AllSettle
CHECK_DEADLOCK FALSE
