SPECIFICATION EngineFairSpec
CONSTANTS
  N = 3
  Capacity = 2
  LastFlush = TRUE
INVARIANTS
  OnlyTheLastOvertakes
PROPERTIES
  StreamEnds
  NeverBlocksOnCaller
