CONSTANTS
  Names = {"a", "b", "main"}
  Registries <- MCRegistries
  Main = "main"
  Outside = 4
  MaxEvals = 2
  IntMax = 12
  LongMax = 7
  Period = 32
  Span = 7
  W = 2
  Guard = 8
  LongGuard = 4
  Graphs <- MCGraphs
  Noises <- MCNoises
  Blends <- MCBlends
  RowCounts = {1, 7, 8}
  Requests <- MCRequests
SPECIFICATION MCSpec
INVARIANTS EvaluatesRight LanesAreScalar
CHECK_DEADLOCK FALSE
