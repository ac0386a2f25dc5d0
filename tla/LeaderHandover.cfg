\* Two replicas, and any two of a partition, a crash and a disturbed Lease.
CONSTANTS
  Replicas = {a, b}
  Absent = Absent  Unheld = Unheld
  LeaseDuration = 5
  RetryPeriod = 1
  MaxLatency = 1
  MaxTroubles = 2
SPECIFICATION FairSpec
INVARIANTS LeaseInv OverlapBounded
PROPERTIES LeaseIsHonoured OneLeaderSettles
