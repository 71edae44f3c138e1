SPECIFICATION FairSpec
CONSTANTS
  Worker = {w1, w2}
  N = 2
  MinWorkers = 2
  MaxWorkers = 2
  MaxBatch = 2
  Options = {"swarm", "ranged", "sha"}
  Faults = {"request", "peer", "cancel", "fullbody"}
  MaxTicks = 1
  NoData = NoData
INVARIANTS
  ClaimsExclusive
  ErrorHasCause
PROPERTIES
  ImplementsDownload
  StoredOnce
  Terminates
