\* References come and go while the workspace is edited and deleted.
CONSTANTS
  None = None
  Subjects = {u}
  Sandboxes = {s}
  Providers = {p}
  IsDefault = FALSE
  MaxEdits = 3
  MaxFaults = 1
  MaxStops = 1
  OutOfBand = FALSE
SPECIFICATION FairSpec
INVARIANTS TypeOK ReadyMeansMembers
PROPERTIES StandingReferencesBlock ReleaseLeavesNothing DeletionCompletes
CHECK_DEADLOCK FALSE
