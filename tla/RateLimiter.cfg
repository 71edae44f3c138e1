SPECIFICATION Spec
CONSTANTS
  IP = {a, b}
  Watched = a
  Rate = 2
  Unit = 3
  Burst = 7
  StaleAfter = 4
  Period = 2
  MaxTime = 12
INVARIANTS
  WindowBound
  BucketsExpire
