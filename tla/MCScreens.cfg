SPECIFICATION PartsSpec
CHECK_DEADLOCK FALSE
CONSTANTS
  MaxRequests = 5
  CheckoutInvoice = {"i1", "i2"}
  LoadSlot = {"a"}
  MaxSubmissions = 2
  Merchant = {"m1", "m2"}
  StatusFilter = {"all", "Paid"}
  LastPage = 2
  BatchInvoice = {"e1", "e2"}
  HoldPage <- TwoPages
  MaxPolls = 2
  Approval = {"first", "second"}
  SettlementOf <- OneSettlement
  MaxClicks = 2
  MaxHandlers = 3
  Tab = {"t1", "t2"}
  Account = {"a1", "a2"}
  NoAccount = "none"
  MaxAsked = 2
INVARIANTS
  DisconnectSticks
  ConnectingHasOwner
  ListMatchesControls
  DialogListsSelection
  SelectionShown
  OneWriteAtATime
  StepsEarned
PROPERTIES
  NoRepayment
  ApprovalsConverge
