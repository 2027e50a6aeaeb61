------------------------------ MODULE Payments ------------------------------
(***************************************************************************)
(* The compliance contract together with the invoice contract that calls    *)
(* it.  Invoice sees compliance as a changing set of allowed addresses;     *)
(* here that set is what is_allowed computes from the compliance contract's *)
(* own storage and from the ledger time both contracts read.                *)
(***************************************************************************)
EXTENDS Compliance

CONSTANTS
  Self, ComplianceContract, ZeroAddress, Treasury, Token, Nominee, Parties, Amount, Expiry,
  Nonce, ReferenceLen, Batch, Window, MIN_AMOUNT_USDC, MAX_REFERENCE_LEN, MAX_GRACE_WINDOW,
  DEFAULT_GRACE, U64Max, InitialFunds, MaxInvoices, MaxEarly

ASSUME PaymentsConstants ==
  /\ ComplianceContract # Absent /\ Self \notin Address
  /\ Parties \subseteq Address \X Address /\ MaxInvoices \in Nat

\* The invoice contract's storage, the token ledgers and Invoice's history.
VARIABLES
  invoiceAdmin, invoicePending, invoicePaused, invoiceWasm, invoice, invoiceCount,
  graceWindow, nonce, treasuryContract, complianceContract, customerInvoices, balance,
  nominatedBy, nonceOf, funding, fundedAt

invoiceVars ==
  <<invoiceAdmin, invoicePending, invoicePaused, invoiceWasm, invoice, invoiceCount,
    graceWindow, nonce, treasuryContract, complianceContract, customerInvoices, balance,
    nominatedBy, nonceOf, funding, fundedAt>>

paymentsVars == <<vars, invoiceVars>>

Inv == INSTANCE Invoice WITH
  admin <- invoiceAdmin, pendingAdmin <- invoicePending, paused <- invoicePaused,
  wasm <- invoiceWasm, Compliance <- ComplianceContract,
  allowed <- AllowedSet, Answers <- SUBSET Address

PaymentsInit == Init /\ Inv!Init

\* A call to either contract, in one ledger transaction, or a later ledger.
ComplianceCall == (AdminStep \/ StatusStep) /\ UNCHANGED invoiceVars

InvoiceCall == UNCHANGED vars /\ (Inv!AdminStep \/ Inv!CreateStep \/ Inv!InvoiceStep)

LedgerCloses == Tick /\ UNCHANGED invoiceVars

PaymentsNext == ComplianceCall \/ InvoiceCall \/ LedgerCloses

PaymentsSpec == PaymentsInit /\ [][PaymentsNext]_paymentsVars
-----------------------------------------------------------------------------
\* Steps on invoice id that rely on somebody's permission.
Billed(id)      == invoiceCount' # invoiceCount /\ invoiceCount' = id
Confirmed(id)   == funding[id] = "none" /\ funding'[id] = "marked"
PaidOnChain(id) == funding[id] = "none" /\ funding'[id] = "transferred"

\* Who must be allowed: both parties when the invoice is created or confirmed
\* as paid, the account that pays when it is paid on chain.
Relied(id) ==
  (IF Billed(id) \/ Confirmed(id) THEN {invoice'[id].merchant, invoice'[id].customer} ELSE {})
    \cup
  (IF PaidOnChain(id)
   THEN {a \in Address : balance'[invoice[id].token][a] # balance[invoice[id].token][a]} ELSE {})

\* Once the compliance contract is configured, an address that is blocked,
\* cleared or whose time-limited permission has run out since is not billed,
\* does not bill, is not confirmed as paid and does not pay, whatever was
\* allowed when the invoice was created.
ScreenedParties ==
  [][complianceContract = ComplianceContract =>
       \A id \in Inv!Id : \A a \in Relied(id) :
         /\ status[a].kind \in {"Allowed", "AllowedUntil"}
         /\ status[a].kind = "AllowedUntil" => now < status[a].until]_paymentsVars
=============================================================================
