SPECIFICATION Spec
CONSTANTS
  Worker = {w1}
  N = 2
  MaxRetries = 1
  Options = {}
  Faults = {}
INVARIANTS
  UnrangedIsWhole
