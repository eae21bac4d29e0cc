CONSTANTS
  MaxLight = 3
  MaxWrites = 3
  Width = 2
  Height = 2
  ChunkWidth = 1
  Kinds <- TwoSlabs
  Layouts <- OpenLayout
  Chunks = 6
  Sections = 3
  SecHeight = 2
  SkyKinds <- MCKinds
  Air <- MCAir
  Bedrock <- MCBedrock
  SkyLayouts <- MCLayouts
  Written <- LitColumns
SPECIFICATION BlockSpec
INVARIANT LfpAtRest
CHECK_DEADLOCK FALSE
