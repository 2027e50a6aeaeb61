SPECIFICATION FairSpec
CHECK_DEADLOCK FALSE
CONSTANTS
  k1 = k1
  k2 = k2
  Key = {k1, k2}
  RefusedKey = {k2}
  NoJob = NoJob
  maxAttempts = 2
  shutdownTimeout = 2
  configuredDrain = 2
  margin = 1
  MaxGrants = 2
  MaxBoots = 2
INVARIANTS
  JobsAccounted
PROPERTIES
  NoAttemptAfterAbort
  JobsSettle
  ShutdownEnds
