\* A race that is cancelled may hang, so the system may stop: both its goroutines
\* may drop their results while the worker waits for one.
CHECK_DEADLOCK FALSE
SPECIFICATION FairSpec
CONSTANTS
  Worker = {w1, w2}
  N = 2
  MaxRetries = 1
  Options = {"swarm", "ranged", "small", "sha"}
  Faults = {"request", "peer", "foreign", "disk", "cancel", "fullbody", "short"}
INVARIANTS
  RacesAreAnswered
  NothingDropped
  SharedIsOnDisk
  SurvivesRetries
PROPERTIES
  ImplementsDownload
  ReturnsUnlessRaceCancelled
