CONSTANTS
  Column = {c1}
  MinY = 0
  MaxY = 2
  Material = {air, caveAir, grass, water, leaves, stone, ore}
  Air = air
  AirLike = {air, caveAir}
  Motion = {leaves, stone, ore}
  Fluid = {water}
  Leaves = {leaves}
  OreTarget = {stone}
  Ore = ore
SPECIFICATION MCSpec
INVARIANTS MapsExact SubstanceExact RulesSound CavesSound
PROPERTY DecidedForGood
CHECK_DEADLOCK FALSE
