SPECIFICATION MCSpec
CHECK_DEADLOCK FALSE
CONSTANTS
  a1 = a1
  a2 = a2
  Address = {a1, a2}
  NoAddress = NoAddress
  Token = {t1}
  Wasm = {w1, w2}
  Nominee = {a1, a2}
  SignerLists <- Lists
  Weight = {0, 2}
  Threshold = {0, 1, 2}
  Ttl = {0}
  Amount = {1}
  Limit = {0, 1, 2}
  DEFAULT_SETTLEMENT_TTL_SECONDS = 1
  WINDOW_SECONDS = 2
  U64Max = 3
  InitialFunds = 3
  MaxSettlements = 1
  MaxInitialize = 2
  MaxOutflow = 2
  MaxTime = 3
INVARIANTS
  WeightHasVoters
  RollingOutflowBounded
PROPERTIES
  HoldFreezes
  ExecutionHasQuorum
