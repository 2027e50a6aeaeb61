------------------------------- MODULE Invoice -------------------------------
(***************************************************************************)
(* The invoice contract                                                     *)
(* (COMEBACKHERE-contracts/contracts/invoice/src/lib.rs): invoices with     *)
(* per-merchant nonces, two payment paths, refunds behind a grace window,   *)
(* batch expiry, a customer index, the two-step admin handover and the      *)
(* pause switch.                                                            *)
(*                                                                          *)
(* An invocation is atomic and a failing one writes nothing, so an entry    *)
(* point is one action, enabled exactly when the call returns Ok.  A        *)
(* parameter "caller" or "payer" is the address the call is made for.       *)
(*                                                                          *)
(* The compliance contract is seen through the answers of its is_allowed:   *)
(* the variable "allowed", which may change whenever the clock does and     *)
(* between any two calls.  Payments replaces it by the real contract.       *)
(***************************************************************************)
EXTENDS Naturals, Sequences, FiniteSets, Functions

CONSTANTS
  Address,           \* accounts: admins, merchants, customers, payers
  Absent,            \* a storage key that holds nothing
  Self,              \* this contract's own account
  Compliance,        \* address of the deployed compliance contract
  ZeroAddress,       \* an address with no contract behind it
  Treasury,          \* address of the deployed treasury contract
  Token, Wasm,
  Nominee,           \* addresses passed to transfer_admin
  Parties,           \* pairs (merchant, customer) passed to create_invoice
  Amount,            \* amounts passed to create_invoice
  Expiry,            \* expires_at passed to create_invoice
  Nonce,
  ReferenceLen,      \* lengths of the reference passed to create_invoice, 0 for None
  Batch,             \* id lists passed to mark_paids and batch_expire
  Window,            \* windows passed to set_grace_window
  Answers,           \* sets of addresses the compliance contract may allow
  MIN_AMOUNT_USDC, MAX_REFERENCE_LEN, MAX_BATCH_SIZE, MAX_GRACE_WINDOW,
  DEFAULT_GRACE,     \* the window initialize stores
  U64Max,            \* largest value of the contract's u64 arithmetic
  InitialFunds,      \* what every account holds of every token at the start
  MaxInvoices,       \* bound: invoice ids handed out
  MaxEarly,          \* bound: invoices created before initialize
  MaxTime            \* bound: ledger timestamps

U64  == 0 .. U64Max
Id   == 1 .. MaxInvoices
Time == 0 .. MaxTime

ASSUME InvoiceConstants ==
  /\ Absent \notin Address \cup U64 \cup {Compliance, ZeroAddress, Treasury}
  /\ Self \notin Address
  /\ Compliance # ZeroAddress
  /\ Nominee \subseteq Address /\ Parties \subseteq Address \X Address
  /\ Amount \subseteq Nat /\ Expiry \subseteq U64 /\ Window \subseteq U64
  /\ ReferenceLen \subseteq Nat /\ Batch \subseteq Seq(Nat)
  /\ Answers \subseteq SUBSET Address /\ Answers # {}
  /\ U64Max \in Nat /\ InitialFunds \in Nat
  /\ MIN_AMOUNT_USDC \in Nat /\ MAX_REFERENCE_LEN \in Nat /\ MAX_BATCH_SIZE \in Nat
  /\ MAX_GRACE_WINDOW \in U64 /\ DEFAULT_GRACE \in 0 .. MAX_GRACE_WINDOW
  /\ MaxInvoices \in Nat /\ MaxEarly \in Nat
  /\ MaxTime \in Nat /\ MaxTime <= U64Max
  /\ Wasm # {}

VARIABLES
  admin, pendingAdmin, paused, wasm,
  invoice,             \* Invoice(id)
  invoiceCount,
  graceWindow,
  nonce,               \* the pairs (merchant, nonce) that are stored
  treasuryContract, complianceContract,
  customerInvoices,    \* CustomerInvoices(a)
  balance,             \* token contracts' ledgers (external)
  allowed,             \* addresses the compliance contract allows (external)
  now,                 \* ledger timestamp
  \* history, read by properties only
  nominatedBy,         \* the admin who made the nomination in pendingAdmin
  nonceOf,             \* nonceOf[id]: the nonce invoice id was created with
  funding,             \* funding[id]: how invoice id was paid
  fundedAt             \* fundedAt[id]: when

adminVars   == <<admin, pendingAdmin, nominatedBy>>
configVars  == <<graceWindow, treasuryContract, complianceContract>>
indexVars   == <<invoiceCount, nonce, customerInvoices, nonceOf>>
fundingVars == <<funding, fundedAt>>
worldVars   == <<now, allowed>>
vars == <<adminVars, paused, wasm, invoice, configVars, indexVars, fundingVars, balance,
          worldVars>>

InvoiceStatus == {"Pending", "Paid", "Expired", "Cancelled", "RefundRequested", "Released"}

InvoiceRecord ==
  [merchant : Address, customer : Address, amount : Nat, token : Token,
   status : InvoiceStatus, created_at : Time, expires_at : U64, reference : ReferenceLen]

\* A storage key that holds no invoice.
NoInvoice == [status |-> "None"]

Holder == Address \cup {Self}

TypeOK ==
  /\ admin \in Address \cup {Absent}
  /\ pendingAdmin \in Address \cup {Absent}
  /\ nominatedBy \in Address \cup {Absent}
  /\ paused \in BOOLEAN
  /\ wasm \in Wasm
  /\ invoice \in [Id -> InvoiceRecord \cup {NoInvoice}]
  /\ invoiceCount \in 0 .. MaxInvoices
  /\ graceWindow \in (0 .. MAX_GRACE_WINDOW) \cup {Absent}
  /\ nonce \in SUBSET (Address \X Nonce)
  /\ treasuryContract \in {Treasury, Absent}
  /\ complianceContract \in {Compliance, ZeroAddress, Absent}
  /\ customerInvoices \in [Address -> Seq(Id)]
  /\ balance \in [Token -> [Holder -> Nat]]
  /\ allowed \in SUBSET Address
  /\ now \in Time
  /\ nonceOf \in [Id -> Nonce \cup {Absent}]
  /\ funding \in [Id -> {"none", "transferred", "marked"}]
  /\ fundedAt \in [Id -> Time]

-----------------------------------------------------------------------------
(* Before initialize: storage is empty, and the defaults of unwrap_or stand  *)
(* for missing entries.                                                      *)
Init ==
  /\ admin = Absent /\ pendingAdmin = Absent /\ nominatedBy = Absent
  /\ paused = FALSE
  /\ wasm \in Wasm
  /\ invoice = [id \in Id |-> NoInvoice]
  /\ invoiceCount = 0
  /\ graceWindow = Absent
  /\ nonce = {}
  /\ treasuryContract = Absent /\ complianceContract = Absent
  /\ customerInvoices = [a \in Address |-> << >>]
  /\ balance = [t \in Token |-> [h \in Holder |-> IF h = Self THEN 0 ELSE InitialFunds]]
  /\ allowed \in Answers
  /\ now = 0
  /\ nonceOf = [id \in Id |-> Absent]
  /\ funding = [id \in Id |-> "none"]
  /\ fundedAt = [id \in Id |-> 0]

(* Mut_X is X with a bug one could plausibly write there; a run that checks a *)
(* property must fail when X is replaced by it.                               *)
\* The stored admin exists and is the caller.
check_admin(caller) == caller = admin

check_not_paused == ~paused

Exists(id) == id \in Id /\ invoice[id] # NoInvoice

Mut_IsPending(id) == Exists(id)

IsPending(id) == Exists(id) /\ invoice[id].status = "Pending"

Mut_NotExpired(id) == now <= invoice[id].expires_at

\* The boundary is exclusive: at expires_at the invoice can expire, not be paid.
NotExpired(id) == now < invoice[id].expires_at

Mut_CompliancePasses(a) == complianceContract # ZeroAddress

\* is_allowed of the configured compliance contract; no contract, no check.
\* A call to an address without that contract fails.
CompliancePasses(a) ==
  \/ complianceContract = Absent
  \/ complianceContract = Compliance /\ a \in allowed

SetStatus(S, st) ==
  invoice' = [id \in Id |-> IF id \in S THEN [invoice[id] EXCEPT !.status = st] ELSE invoice[id]]
-----------------------------------------------------------------------------
(* Deployment, admin, pause and configuration.                               *)

upgrade(caller, hash) ==
  /\ check_admin(caller)
  /\ wasm' = hash
  /\ UNCHANGED <<adminVars, paused, invoice, configVars, indexVars, fundingVars, balance,
                 worldVars>>

transfer_admin(caller, new_admin) ==
  /\ check_not_paused
  /\ check_admin(caller)
  /\ pendingAdmin' = new_admin
  /\ nominatedBy' = caller
  /\ UNCHANGED <<admin, paused, wasm, invoice, configVars, indexVars, fundingVars, balance,
                 worldVars>>

accept_admin(new_admin) ==
  /\ check_not_paused
  /\ new_admin = pendingAdmin
  /\ admin' = new_admin
  /\ pendingAdmin' = Absent
  /\ nominatedBy' = Absent
  /\ UNCHANGED <<paused, wasm, invoice, configVars, indexVars, fundingVars, balance, worldVars>>

\* Once only, for whoever calls first.  The id counter goes back to 0 although
\* create_invoice may have run before.
initialize(new_admin) ==
  /\ admin = Absent
  /\ admin' = new_admin
  /\ graceWindow' = DEFAULT_GRACE
  /\ invoiceCount' = 0
  /\ paused' = FALSE
  /\ UNCHANGED <<pendingAdmin, nominatedBy, wasm, invoice, treasuryContract, complianceContract,
                 nonce, customerInvoices, nonceOf, fundingVars, balance, worldVars>>

pause(caller) ==
  /\ check_admin(caller)
  /\ paused' = TRUE
  /\ UNCHANGED <<adminVars, wasm, invoice, configVars, indexVars, fundingVars, balance, worldVars>>

unpause(caller) ==
  /\ check_admin(caller)
  /\ paused' = FALSE
  /\ UNCHANGED <<adminVars, wasm, invoice, configVars, indexVars, fundingVars, balance, worldVars>>

ConfigFrame ==
  UNCHANGED <<adminVars, paused, wasm, invoice, indexVars, fundingVars, balance, worldVars>>

set_treasury(caller) ==
  /\ check_not_paused
  /\ check_admin(caller)
  /\ treasuryContract' = Treasury
  /\ UNCHANGED <<graceWindow, complianceContract>>
  /\ ConfigFrame

set_compliance(caller, compliance) ==
  /\ check_not_paused
  /\ check_admin(caller)
  /\ complianceContract' = compliance
  /\ UNCHANGED <<graceWindow, treasuryContract>>
  /\ ConfigFrame

ValidWindow(window) == window <= MAX_GRACE_WINDOW

set_grace_window(caller, window) ==
  /\ check_not_paused
  /\ check_admin(caller)
  /\ ValidWindow(window)
  /\ graceWindow' = window
  /\ UNCHANGED <<treasuryContract, complianceContract>>
  /\ ConfigFrame
-----------------------------------------------------------------------------
(* Invoices.                                                                 *)

NewInvoice(merchant, customer, amount, token, expires_at, reference) ==
  [merchant |-> merchant, customer |-> customer, amount |-> amount, token |-> token,
   status |-> "Pending", created_at |-> now, expires_at |-> expires_at,
   reference |-> reference]

Mut_FreshNonce(merchant, n) == TRUE

FreshNonce(merchant, n) == <<merchant, n>> \notin nonce

\* The id create_invoice stores a new invoice under.
NextId == invoiceCount + 1

Mut_Indexed(customer, id) == [customerInvoices EXCEPT ![customer] = <<id>>]

\* The customer's list is created on first use and appended to after that.
Indexed(customer, id) == [customerInvoices EXCEPT ![customer] = Append(@, id)]

create_invoice(merchant, customer, amount, token, expires_at, n, reference) ==
  /\ check_not_paused
  /\ admin = Absent => invoiceCount < MaxEarly
  /\ amount >= MIN_AMOUNT_USDC
  /\ reference <= MAX_REFERENCE_LEN
  /\ FreshNonce(merchant, n)
  /\ CompliancePasses(merchant) /\ CompliancePasses(customer)
  /\ NextId \in Id
  /\ nonce' = nonce \cup {<<merchant, n>>}
  /\ invoiceCount' = NextId
  /\ invoice' = [invoice EXCEPT ![NextId] =
                   NewInvoice(merchant, customer, amount, token, expires_at, reference)]
  /\ customerInvoices' = Indexed(customer, NextId)
  /\ nonceOf' = [nonceOf EXCEPT ![NextId] = n]
  /\ funding' = [funding EXCEPT ![NextId] = "none"]
  /\ fundedAt' = [fundedAt EXCEPT ![NextId] = 0]
  /\ UNCHANGED <<adminVars, paused, wasm, configVars, balance, worldVars>>

\* What every handler on stored invoices leaves alone.
InvoiceFrame == UNCHANGED <<adminVars, paused, wasm, configVars, indexVars, worldVars>>

\* The state guards that both payment paths share.
Payable(id) == IsPending(id) /\ NotExpired(id)

Fund(S, how) ==
  /\ funding' = [id \in Id |-> IF id \in S THEN how ELSE funding[id]]
  /\ fundedAt' = [id \in Id |-> IF id \in S THEN now ELSE fundedAt[id]]

\* A payment confirmed off chain: anybody may report it, and no token moves.
\* The loop fails on an id that occurs twice, because the first occurrence has
\* made the invoice Paid, and a failure undoes the whole batch.
mark_paids(ids) ==
  /\ check_not_paused
  /\ Len(ids) <= MAX_BATCH_SIZE
  /\ IsInjective(ids)
  /\ \A id \in Range(ids) :
       /\ Payable(id)
       /\ CompliancePasses(invoice[id].merchant)
       /\ CompliancePasses(invoice[id].customer)
  /\ SetStatus(Range(ids), "Paid")
  /\ Fund(Range(ids), "marked")
  /\ UNCHANGED balance
  /\ InvoiceFrame

\* A payment on chain, by any account; only the payer is screened.  The token
\* transfer fails on a short balance.
pay_invoice(payer, id) ==
  /\ check_not_paused
  /\ Payable(id)
  /\ CompliancePasses(payer)
  /\ balance[invoice[id].token][payer] >= invoice[id].amount
  /\ balance' = [balance EXCEPT ![invoice[id].token][payer] = @ - invoice[id].amount,
                                ![invoice[id].token][Self] = @ + invoice[id].amount]
  /\ SetStatus({id}, "Paid")
  /\ Fund({id}, "transferred")
  /\ InvoiceFrame

Mut_AfterCancel(id) == "Cancelled"

\* A pending invoice is cancelled; cancelling a paid one asks for a refund.
AfterCancel(id) == IF invoice[id].status = "Pending" THEN "Cancelled" ELSE "RefundRequested"

cancel_invoiced(id, caller) ==
  /\ check_not_paused
  /\ Exists(id)
  /\ caller \in {invoice[id].merchant, invoice[id].customer}
  /\ invoice[id].status \in {"Pending", "Paid"}
  /\ SetStatus({id}, AfterCancel(id))
  /\ UNCHANGED <<fundingVars, balance>>
  /\ InvoiceFrame

request_refund(id, caller) ==
  /\ check_not_paused
  /\ Exists(id)
  /\ caller = invoice[id].customer
  /\ invoice[id].status = "Paid"
  /\ SetStatus({id}, "RefundRequested")
  /\ UNCHANGED <<fundingVars, balance>>
  /\ InvoiceFrame

\* No token moves.  Without a stored window the unwrap panics.
release_escrow(id, caller) ==
  /\ check_not_paused
  /\ Exists(id)
  /\ caller = invoice[id].merchant
  /\ invoice[id].status = "RefundRequested"
  /\ graceWindow # Absent
  /\ invoice[id].created_at + graceWindow \in U64
  /\ now >= invoice[id].created_at + graceWindow
  /\ SetStatus({id}, "Released")
  /\ UNCHANGED <<fundingVars, balance>>
  /\ InvoiceFrame

\* Ids that are not pending or not due are skipped; an unknown id fails the
\* whole batch.
batch_expire(ids) ==
  /\ check_not_paused
  /\ Len(ids) <= MAX_BATCH_SIZE
  /\ \A id \in Range(ids) : Exists(id)
  /\ SetStatus({id \in Range(ids) : IsPending(id) /\ ~NotExpired(id)}, "Expired")
  /\ UNCHANGED <<fundingVars, balance>>
  /\ InvoiceFrame

\* raise_dispute changes no state of this contract: this is when it goes on to
\* call the treasury.
CallsTreasury(id, claimant) ==
  /\ check_not_paused
  /\ Exists(id)
  /\ claimant \in {invoice[id].merchant, invoice[id].customer}
  /\ treasuryContract # Absent

\* A later ledger closes; a permission of the compliance contract may lapse.
Tick ==
  /\ now < MaxTime
  /\ now' = now + 1
  /\ allowed' \in Answers
  /\ UNCHANGED <<adminVars, paused, wasm, invoice, configVars, indexVars, fundingVars, balance>>

\* The compliance contract changes its mind.
Screen ==
  /\ allowed' \in Answers
  /\ UNCHANGED <<adminVars, paused, wasm, invoice, configVars, indexVars, fundingVars, balance,
                 now>>
-----------------------------------------------------------------------------
AdminStep ==
  \E caller \in Address :
    \/ \E h \in Wasm : upgrade(caller, h)
    \/ \E a \in Nominee : transfer_admin(caller, a)
    \/ accept_admin(caller)
    \/ initialize(caller)
    \/ pause(caller)
    \/ unpause(caller)
    \/ set_treasury(caller)
    \/ \E c \in {Compliance, ZeroAddress} : set_compliance(caller, c)
    \/ \E w \in Window : set_grace_window(caller, w)

CreateStep ==
  \E p \in Parties, amount \in Amount, token \in Token, e \in Expiry, n \in Nonce,
     r \in ReferenceLen :
    create_invoice(p[1], p[2], amount, token, e, n, r)

InvoiceStep ==
  \/ \E ids \in Batch : mark_paids(ids) \/ batch_expire(ids)
  \/ \E id \in Id, caller \in Address :
       \/ pay_invoice(caller, id)
       \/ cancel_invoiced(id, caller)
       \/ request_refund(id, caller)
       \/ release_escrow(id, caller)

Next == AdminStep \/ CreateStep \/ InvoiceStep \/ Tick \/ Screen

Spec == Init /\ [][Next]_vars
-----------------------------------------------------------------------------
(* Properties that the contract has.                                         *)

Lifecycle == INSTANCE InvoiceLifecycle WITH
  Id <- Id, status <- [id \in Id |-> invoice[id].status]

\* When initialize comes before the first create_invoice, the contract
\* implements the published state diagram: whatever mix of payments, batches,
\* cancellations, refunds and expiries is submitted, an invoice moves along its
\* edges only, and a batch moves all of its invoices or none.
ImplementsLifecycle == Lifecycle!Spec

\* Admin handover: initialize runs once, so the nomination that accept_admin
\* would honour was made by the admin in office, never by a predecessor.
NominationIsCurrent ==
  pendingAdmin # Absent => nominatedBy = admin /\ admin # Absent

\* A (merchant, nonce) pair creates at most one invoice, so a resubmitted
\* create_invoice never bills twice: two invoices of one merchant differ in
\* their nonces, and every nonce in use is recorded.
NonceCreatesOnce ==
  \A i, j \in Id :
    Exists(i) =>
      /\ <<invoice[i].merchant, nonceOf[i]>> \in nonce
      /\ Exists(j) /\ i # j /\ invoice[i].merchant = invoice[j].merchant
           => nonceOf[i] # nonceOf[j]

\* get_invoices_by_customer reads an index that create_invoice maintains: with
\* initialize first, it lists exactly the customer's invoices, oldest first and
\* none twice.
CustomerIndexExact ==
  \A a \in Address :
    LET list == customerInvoices[a] IN
    /\ Range(list) = {id \in Id : Exists(id) /\ invoice[id].customer = a}
    /\ \A i, j \in DOMAIN list : i < j => list[i] < list[j]

\* Payment and expiry exclude each other to the second: an invoice is funded
\* in its lifetime and strictly before expires_at, and its status shows it; an
\* expired one has reached expires_at; an expired or cancelled one never took a
\* payment.
FundedXorDead ==
  \A id \in Id : Exists(id) =>
    LET i == invoice[id] IN
    /\ i.status \in {"Paid", "RefundRequested", "Released"} <=> funding[id] # "none"
    /\ i.created_at <= now
    /\ funding[id] # "none" => fundedAt[id] < i.expires_at /\ i.created_at <= fundedAt[id]
    /\ i.status = "Expired" => i.expires_at <= now

\* With initialize first, the tokens the contract holds are exactly the amounts
\* of the invoices paid through pay_invoice: none is paid in twice, and an
\* invoice confirmed by mark_paids claims none of them.
EscrowAccounted ==
  \A t \in Token :
    balance[t][Self] =
      SumFunction([id \in Id |-> IF funding[id] = "transferred" /\ invoice[id].token = t
                                 THEN invoice[id].amount ELSE 0])

\* With initialize first, only the status of a stored invoice ever changes.
InvoiceTermsFixed ==
  [][\A id \in Id : Exists(id) =>
       invoice'[id] = [invoice[id] EXCEPT !.status = invoice'[id].status]]_vars

\* While the contract stays paused nothing moves but the code hash and the
\* world around it.
PauseFreezes ==
  [][paused /\ paused' =>
       UNCHANGED <<adminVars, invoice, configVars, indexVars, fundingVars, balance>>]_vars
-----------------------------------------------------------------------------
(* What documents and comments say of the contract and the code does not do; *)
(* each is the property of a run that ends in a counterexample.              *)

\* docs/glossary.md: Released means escrow funds have been released to the
\* merchant.  release_escrow only sets the status.
ReleasedPaysMerchant ==
  [][\A id \in Id :
       /\ Exists(id) /\ funding[id] = "transferred"
       /\ invoice[id].status # "Released" /\ invoice'[id].status = "Released"
       => LET i == invoice[id] IN
          balance'[i.token][i.merchant] = balance[i.token][i.merchant] + i.amount]_vars
=============================================================================
