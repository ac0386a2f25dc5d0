\* Two operators during a handover.
CONSTANTS
  None = None
  i1 = i1  i2 = i2  s1 = s1  n1 = n1  n2 = n2  p1 = p1  p2 = p2  v1 = v1
  Operators = {o1, o2}
  Images = {i1, i2}
  Secs = {s1}
  Nets = {n1, n2}
  Providers = {p1, p2}
  Volumes = {v1}
  Specs <- PlainSpecs
  PolicyDocs <- NoDocs
  NonAdditive <- NoPairs
  Settled = {"Ready"}
  MaxPolls = 2
  MaxEdits = 3
  MaxFaults = 0
  MaxStops = 0
  StaleReads = FALSE
  OutOfBand = FALSE
  Overlap = TRUE
SPECIFICATION Spec
INVARIANT SandboxHasFinalizedResource
CHECK_DEADLOCK FALSE
