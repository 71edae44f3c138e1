\* A browser's download and a download of another client, with one fault.
SPECIFICATION FairSpec
CONSTANTS
  r1 = r1  r2 = r2  n1 = n1
  NoOutput = NoOutput
  Request = {r1, r2}
  Item = {r1}
  Name <- MCName
  Output <- MCOutput
  Watched = r1
  Poll = {1}
  MaxFaults = 1
INVARIANTS DoneIsUntouched ListsAreConsistent StatusMixesForward StatusIsOwn
PROPERTIES LostOnlyAfterHandover PopupCatchesUp
