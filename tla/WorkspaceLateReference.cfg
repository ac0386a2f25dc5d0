\* A reference that arrives between the count and the delete.
CONSTANTS
  None = None
  Subjects = {u}
  Sandboxes = {s}
  Providers = {p}
  IsDefault = FALSE
  MaxEdits = 3
  MaxFaults = 0
  MaxStops = 0
  OutOfBand = FALSE
SPECIFICATION Spec
PROPERTIES RefusesWhileReferenced
CHECK_DEADLOCK FALSE
