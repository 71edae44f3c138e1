SPECIFICATION Spec
CONSTANTS
  Sizes <- AnySize
  Asks <- SmallAsks
  DefaultPiece = 2
INVARIANTS
  CoversFile
  OnGrid
  CutsAtPieces
  NoPanic
