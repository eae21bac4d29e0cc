CONSTANTS
  N = 3
  Cell = {0, 1}
  Pos = {0, 1}
  Inputs <- AscendingInputs
SPECIFICATION MCSpec
INVARIANTS FindsTheSame SameAsReplay RecordsExact
