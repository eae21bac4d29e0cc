CONSTANTS
  N = 3
  Cell = {0, 1}
  Inputs <- AllInputs
  Worker = {w1, w2}
  NoWorker = NoWorker
  MaxSpurious = 1
SPECIFICATION Spec
INVARIANTS IInv
PROPERTIES Contract Terminates
