SPECIFICATION Spec
CONSTANTS
  Worker = {w1, w2, w3}
  N = 4
  MinWorkers = 1
  MaxWorkers = 2
  MaxBatch = 1
  Options = {"ranged"}
  Faults = {}
  MaxTicks = 3
  NoData = NoData
INVARIANTS
  PoolFloor
