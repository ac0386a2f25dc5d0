\* Upgrades to another URL and back, failed runs and lost objects.
CONSTANTS
  None = None
  Urls = {old, new}
  MaxTroubles = 4
SPECIFICATION FairSpec
INVARIANTS TypeOK KeysMatch
PROPERTIES BearerVerifies
