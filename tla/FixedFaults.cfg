SPECIFICATION FairSpec
CONSTANTS
  Connections = 3
  MaxRetries = 1
  Options = {"ranged", "sha"}
  Faults = {"request", "disk", "cancel", "fullbody", "short"}
INVARIANTS
  TypeOK
  ErrorIsTheCause
  SurvivesRetries
PROPERTIES
  ImplementsDownload
  Returns
