\* A mineshaft that is done, or for which there is no space, stops.
CHECK_DEADLOCK FALSE
CONSTANTS
  Period = 1000
  Site <- SmallSites
  MaxDepth = 8
  Far = 80
  MaxPieces = 150
  MaxEntrances = 16
SPECIFICATION Spec
INVARIANTS MineSound
