\* Secret, provider and profile change and are deleted while both loops run.
CONSTANTS
  None = None
  id = id  token = token  v1 = v1  v2 = v2  adc = adc  sa = sa  sts = sts
  Garbled = garbled
  Keys = {id, token}
  Values = {v1, v2, garbled}
  Names = {adc, sa, sts}
  Configs = {c1}
  KeySets <- MCKeySets
  Secrets <- MCSecrets
  Documents <- MCDocuments
  MaxTroubles = 2
  OutOfBand = TRUE
SPECIFICATION FairSpec
INVARIANTS TypeOK GatewayObjectsOwned
PROPERTIES HashVouches UsersKeepProfile SyncConverges ProfileConverges DeletionsComplete
CHECK_DEADLOCK FALSE
