SPECIFICATION Spec
CONSTANTS
  Worker = {w1, w2, w3}
  N = 4
  MinWorkers = 1
  MaxWorkers = 2
  MaxBatch = 2
  Options = {"ranged"}
  Faults = {"disk"}
  MaxTicks = 3
  NoData = NoData
SYMMETRY WorkerSymmetry
INVARIANTS
  NoPieceLost
  WorkerCeiling
  InFlightHeld
  CrashLosesNoData
