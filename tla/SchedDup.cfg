\* A blocked pool is what the run is about.
CHECK_DEADLOCK FALSE
CONSTANTS
  N = 2
  Cell = {0}
  Inputs <- DuplicateInputs
  Worker = {w1, w2}
  NoWorker = NoWorker
  MaxSpurious = 1
SPECIFICATION Spec
PROPERTY StuckRunReported
