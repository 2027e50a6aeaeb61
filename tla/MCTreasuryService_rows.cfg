SPECIFICATION FairSpec
CHECK_DEADLOCK FALSE
CONSTANTS
  Settlement = {1}
  Slot = {"a", "b"}
  Request = {"r"}
  Published = {"settlement_proposed", "settlement_approved", "settlement_executed"}
  SignerWeight = {0}
  Threshold = 0
  MaxWeight = 0
  EVENT_LIMIT = 2
  KeptIds = 1
  MaxEvents = 2
  MaxFaults = 1
INVARIANTS
  RowsNeverAhead
  CursorCovers
PROPERTIES
  EventsCatchUp
