SPECIFICATION PaymentsSpec
CHECK_DEADLOCK FALSE
CONSTANTS
  a1 = a1
  a2 = a2
  Address = {a1, a2}
  Absent = Absent
  Wasm = {w1}
  Until = {1, 2}
  AddressList <- Lists
  MAX_BATCH_SIZE = 2
  MaxInitialize = 1
  MaxTime = 2
  Self = Self
  ComplianceContract = ComplianceContract
  ZeroAddress = ZeroAddress
  Treasury = Treasury
  Token = {t1}
  Nominee = {}
  Parties <- OnePair
  Amount = {1}
  Expiry = {2}
  Nonce = {1}
  ReferenceLen = {0}
  Batch <- OneId
  Window = {}
  MIN_AMOUNT_USDC = 1
  MAX_REFERENCE_LEN = 0
  MAX_GRACE_WINDOW = 1
  DEFAULT_GRACE = 1
  U64Max = 3
  InitialFunds = 1
  MaxInvoices = 1
  MaxEarly = 0
PROPERTIES
  ScreenedParties
