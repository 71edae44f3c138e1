\* Two downloads of a file of one piece; another program may have d1's address.
SPECIFICATION FairSpec
CONSTANTS
  d1 = d1  d2 = d2
  a1 = a1  a2 = a2
  f1 = f1
  g1 = g1
  Download = {d1, d2}
  File <- MCFile
  Grid <- MCGrid
  Addr <- MCAddr
  N = 1
  Adaptive = {d1}
  Squatted = {a1}
  Cutoff = 1
  Faults = {"lost", "peer", "abort", "kill", "tracker", "origin"}
  MaxFaults = 1
INVARIANT PiecesAreRight
PROPERTIES ListingsCatchUp DepartedAreForgotten AskedPiecesCome
