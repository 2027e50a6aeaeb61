SPECIFICATION Spec
CHECK_DEADLOCK FALSE
CONSTANTS
  i1 = i1
  Invoice = {i1}
  Unknown = Unknown
  NoToken = NoToken
  Published = {"invoice_created", "invoice_paid", "invoice_expired", "invoice_refund_req", "escrow_released"}
  IdTopics = {TRUE}
  StartLedgers = {0, 1}
  EVENT_LIMIT = 2
  MaxEvents = 3
  MaxLedger = 3
  MaxFaults = 1
INVARIANTS
  HookFires
