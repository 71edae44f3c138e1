\* Three workers on one source, pieces of two bytes, batches of two at most.
SPECIFICATION BatchSpec
CONSTANTS
  Worker = {w1, w2, w3}
  Source = {s1}
  N = 6
  Grid = 2
  LastSize = 1
  MaxBatch = 4
  Whole = TRUE
SYMMETRY Symmetry
INVARIANT BatchesGrowByAccident
CHECK_DEADLOCK FALSE
