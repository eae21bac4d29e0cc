CONSTANTS
  W = 13
  D = 5
  Manifest <- Strip
  Pieces <- OnePiece
  N = 78
  Cell <- CellSpace
  Inputs <- TheInput
SPECIFICATION Spec
INVARIANTS NoRace WindowExact LightSound
PROPERTY EveryChunkLit
