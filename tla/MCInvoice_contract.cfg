SPECIFICATION MCSpec
CHECK_DEADLOCK FALSE
CONSTANTS
  a1 = a1
  a2 = a2
  Address = {a1, a2}
  Absent = Absent
  Self = Self
  Compliance = Compliance
  ZeroAddress = ZeroAddress
  Treasury = Treasury
  Token = {t1}
  Wasm = {w1, w2}
  Nominee = {a1, a2}
  Parties <- BothWays
  Amount = {1, 2, 3}
  Expiry = {1, 2}
  Nonce = {1, 2}
  ReferenceLen = {1, 2}
  Batch <- Batches
  Window = {0, 3}
  Answers <- AllOrOne
  MIN_AMOUNT_USDC = 2
  MAX_REFERENCE_LEN = 1
  MAX_BATCH_SIZE = 2
  MAX_GRACE_WINDOW = 2
  DEFAULT_GRACE = 1
  U64Max = 4
  InitialFunds = 4
  MaxInvoices = 2
  MaxEarly = 0
  MaxTime = 2
INVARIANTS
  FundedXorDead
  EscrowAccounted
  CustomerIndexExact
  NonceCreatesOnce
PROPERTIES
  ImplementsLifecycle
