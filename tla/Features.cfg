SPECIFICATION Spec
CONSTANTS
  Tree <- MCTree
  Replaceable = {"water", "wetleaves", "leaves", "vine", "grass"}
  Window <- MCWindow
  Reach <- MCReach
  Few = 1
  LeafScene <- MCLeafScene
  Levels = 4
  Blocks <- MCBlocks
  Setting <- MCSetting
  Tag <- MCTag
  MarkScene <- MCMarkScene
  MarkCell <- MCMarkCell
  Bottom = 0
  Top = 2
  SectionHeight = 1
  MarkCap = 2
  LayerCap = 7
  StackCap = 40
  MaxSlope = 4
  Piece <- MCPiece
  Place <- MCPlace
  ChunkWidth = 3
  MinY <- MCMinY
  MaxY = 9
  Sea = 2
  SandCap = 2
  Loot <- MCLoot
  Default <- MCDefault
  Unlisted = {"nowhere"}
  Entities = {"chest", "suspicious_sand"}
  Containers = {"chest"}
  Full = {"planks", "stone", "sand", "stone_bricks", "netherrack", "magma", "obsidian"}
  CannotReplace = {"bedrock", "chest"}
  Radius = 3
  Sure = 2
  Huge = 8
  Luck <- MCLuck
  Joined <- MCShape
  EdgeTick <- MCEdgeTick
INVARIANTS TreesSound UpdatesSound PieceSound
PROPERTIES FacesSettle Settles TickOwed
CHECK_DEADLOCK FALSE
