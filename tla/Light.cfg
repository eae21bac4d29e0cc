CONSTANTS
  MaxLight = 4
  MaxWrites = 2
  Width = 4
  Height = 2
  ChunkWidth = 2
  Kinds <- AllLamps
  Layouts <- BuiltLayout
  Chunks = 6
  Sections = 3
  SecHeight = 2
  SkyKinds <- MCKinds
  Air <- MCAir
  Bedrock <- MCBedrock
  SkyLayouts <- MCLayouts
  Written <- LitColumns
SPECIFICATION LightSpec
INVARIANTS LfpAtRest NeverTooBright SrcExact SkyAtRest
PROPERTY Settles
CHECK_DEADLOCK FALSE
