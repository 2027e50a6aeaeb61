SPECIFICATION PartsSpec
CHECK_DEADLOCK FALSE
CONSTANTS
  r1 = r1
  r2 = r2
  CreateRequest = {r1, r2}
  p1 = p1
  p2 = p2
  Process = {p1, p2}
  b1 = b1
  b2 = b2
  Body = {b1, b2}
  NoRequest = NoRequest
  NoEntry = NoEntry
  Traffic <- TwoRequests
  OldRows = {2}
  RedisModes = {TRUE, FALSE}
  MaxRedisFaults = 1
  MaxCrashes = 1
  Actor = {"act"}
  Reader = {"get1", "get2"}
  MaxReadFaults = 1
  Dispute = {"d1", "d2"}
  Voter = {"v1", "v2", "v3"}
  VoteWeight = {1, 2}
  VOTE_THRESHOLD = 2
  MaxRestarts = 1
  BalanceReader = {"b1", "b2"}
  low = low
  high = high
  Balance = {low, high}
  BALANCE_CACHE_TTL_MS = 2
  MaxMoves = 3
  KeyRequest = {"k1", "k2", "k3", "k4"}
  RowId = {1, 2, 3}
  PageSize = 1
  MaxMillis = 2
  MaxOthers = 1
INVARIANTS
  OncePerKey
  CreatedAsAsked
  ActionAnswerTrue
  OutcomeEarned
  RotationKeepsAccess
  WalkListsAll
PROPERTIES
  RequestsAnswered
  RowsSettle
  StaleBalanceExpires
