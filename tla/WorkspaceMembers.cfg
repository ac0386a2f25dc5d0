\* Membership converges, with changes behind the operator.
CONSTANTS
  None = None
  Subjects = {u, v}
  Sandboxes = {}
  Providers = {}
  IsDefault = FALSE
  MaxEdits = 3
  MaxFaults = 1
  MaxStops = 0
  OutOfBand = TRUE
SPECIFICATION FairSpec
PROPERTIES MembersConverge
CHECK_DEADLOCK FALSE
