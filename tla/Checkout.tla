------------------------------ MODULE Checkout ------------------------------
(***************************************************************************)
(* The two screens of the canonical frontend that act on one invoice: paying *)
(* and cancelling (components/InvoicePayment.tsx) and asking for a refund    *)
(* (RefundTab in App.tsx, components/RefundRequest.tsx), over                *)
(* hooks/useInvoice.ts and utils/soroban.ts.  Loads of invoices answer late  *)
(* and in any order; a transaction is signed, sent, and lands later or not   *)
(* at all; the user goes on clicking, closes dialogs, reloads the page.  Of  *)
(* the invoice contract only what it does to the status is kept.             *)
(***************************************************************************)
EXTENDS Naturals, Sequences

CONSTANTS
  CheckoutInvoice,  \* the invoices the user looks at
  LoadSlot,         \* loads under way at the same time, besides an action's own
  MaxSubmissions    \* bound on transactions sent

ASSUME CheckoutAssumption == "op" \notin LoadSlot /\ MaxSubmissions \in Nat

VARIABLES
  screen,      \* "payment" or "refund"
  ledger,      \* ledger[i]: the invoice's status on chain
  sent,        \* the transactions sent: [kind, id, fate]
  invoice,     \* what is shown: [id, status], or Nothing
  load,        \* load[s]: an invoice load
  loading,     \* the load button is disabled
  op,          \* the payment, cancellation or refund under way
  submitting,
  dialogs,     \* the confirmation dialogs that are open
  reason,      \* a valid refund reason is typed
  result,      \* the outcome shown: [kind, id, success], or Nothing
  storageWorks,  \* sessionStorage can be read and written at the moment
  completed,   \* sessionStorage: invoices paid in this browser session
  reported,    \* history: payments the screen has reported as made
  unsaved      \* history: those it reported while sessionStorage did not work

checkoutVars == <<screen, ledger, sent, invoice, load, loading, op, submitting, dialogs,
                  reason, result, storageWorks, completed, reported, unsaved>>
paymentVars == <<storageWorks, completed, reported, unsaved>>

Nothing == [id |-> "none", status |-> "none"]
Idle == [kind |-> "none", id |-> "none", at |-> "none", previous |-> Nothing]
Free == [at |-> "free", id |-> "none", status |-> "none"]
Slots == LoadSlot \cup {"op"}

CheckoutInit ==
  /\ screen \in {"payment", "refund"}
  /\ ledger \in [CheckoutInvoice -> {"Pending", "Paid"}]
  /\ sent = << >> /\ invoice = Nothing /\ load = [s \in Slots |-> Free] /\ loading = FALSE
  /\ op = Idle /\ submitting = FALSE /\ dialogs = {} /\ reason = FALSE
  /\ result = Nothing
  /\ storageWorks \in BOOLEAN /\ completed = {} /\ reported = {} /\ unsaved = {}

-----------------------------------------------------------------------------
(* The contract's transitions (its mark_paid of one invoice, its             *)
(* cancel_invoiced and its request_refund).                                  *)

Allows(kind, status) ==
  status \in [pay |-> {"Pending"}, cancel |-> {"Pending", "Paid"}, refund |-> {"Paid"}][kind]

\* Cancelling a paid invoice asks for a refund.
After(kind, status) ==
  CASE kind = "pay" -> "Paid"
    [] kind = "cancel" /\ status = "Pending" -> "Cancelled"
    [] OTHER -> "RefundRequested"

\* A transaction reaches the ledger, or is never included.
Land(n) ==
  /\ sent[n].fate = "pending"
  /\ LET ok == Allows(sent[n].kind, ledger[sent[n].id]) IN
     \/ /\ sent' = [sent EXCEPT ![n].fate = IF ok THEN "success" ELSE "failed"]
        /\ ledger' = IF ok THEN [ledger EXCEPT ![sent[n].id] = After(sent[n].kind, @)] ELSE ledger
     \/ sent' = [sent EXCEPT ![n].fate = "lost"] /\ UNCHANGED ledger
  /\ UNCHANGED <<screen, invoice, load, loading, op, submitting, dialogs, reason, result,
                 paymentVars>>

-----------------------------------------------------------------------------
(* Loading (loadInvoice): the newest answer is shown, whatever was asked.  *)

BeginLoad(s, i) ==
  /\ load[s] = Free
  /\ load' = [load EXCEPT ![s] = [at |-> "asked", id |-> i, status |-> "none"]]
  /\ loading' = TRUE

LoadClick(i) ==
  /\ ~loading /\ dialogs = {} /\ \E s \in LoadSlot : BeginLoad(s, i)
  /\ UNCHANGED <<screen, ledger, sent, invoice, op, submitting, dialogs, reason, paymentVars>>

\* The load button, or ?invoiceId= when the screen opens.
handleLoadInvoice(i) == screen = "payment" /\ LoadClick(i) /\ result' = Nothing

\* The refund tab's load button leaves the last outcome on the screen.
RefundTab(i) == screen = "refund" /\ LoadClick(i) /\ UNCHANGED result

\* The countdown reached zero: reload the pending invoice every second.
updateTimer ==
  /\ screen = "payment" /\ invoice.status = "Pending"
  /\ \E s \in LoadSlot : BeginLoad(s, invoice.id)
  /\ UNCHANGED <<screen, ledger, sent, invoice, op, submitting, dialogs, reason, result,
                 paymentVars>>

\* get_invoice is simulated at some moment between question and answer.
fetchInvoice(s) ==
  /\ load[s].at = "asked"
  /\ load' = [load EXCEPT ![s].at = "read", ![s].status = ledger[load[s].id]]
  /\ UNCHANGED <<screen, ledger, sent, invoice, loading, op, submitting, dialogs, reason, result,
                 paymentVars>>

EndLoad(s) ==
  /\ load' = [load EXCEPT ![s] = Free] /\ loading' = FALSE
  /\ op' = IF s = "op" THEN [op EXCEPT !.at = "done"] ELSE op
  /\ UNCHANGED <<screen, ledger, sent, submitting, dialogs, reason, result, paymentVars>>

\* The answer is shown, however long ago it was asked for ...
LoadAnswered(s) ==
  /\ load[s].at = "read" /\ EndLoad(s)
  /\ invoice' = [id |-> load[s].id, status |-> load[s].status]

\* ... or an error, or the 30 s timeout.
LoadFails(s) == load[s] # Free /\ EndLoad(s) /\ UNCHANGED invoice

\* Another account in the wallet drops the invoice; the refund tab does not ask for it.
AccountChanges ==
  /\ screen = "payment" /\ invoice # Nothing
  /\ invoice' = Nothing
  /\ UNCHANGED <<screen, ledger, sent, load, loading, op, submitting, dialogs, reason, result,
                 paymentVars>>

-----------------------------------------------------------------------------
(* The dialogs and the actions they confirm.                               *)

\* The reason and the refund button, gone once a refund was requested.
RefundForm == screen = "refund" /\ invoice.status = "Paid" /\ (result # Nothing => ~result.success)

canPay == screen = "payment" /\ invoice.status = "Pending"
canCancel == screen = "payment" /\ invoice.status = "Pending"   \* for the merchant

\* A click opens a dialog, which covers the page, and clears the last outcome.
OpenDialog(kind) ==
  /\ dialogs = {} /\ dialogs' = {kind} /\ result' = Nothing
  /\ UNCHANGED <<screen, ledger, sent, invoice, load, loading, op, submitting, paymentVars>>

handlePayClick == canPay /\ ~submitting /\ OpenDialog("pay") /\ UNCHANGED reason
handleCancelClick == canCancel /\ OpenDialog("cancel") /\ UNCHANGED reason

\* The refund button is enabled by a reason, and its handler clears the reason.
handleRefundClick == RefundForm /\ reason /\ ~submitting /\ OpenDialog("refund") /\ reason' = FALSE

\* The overlay closes a dialog even while its action is under way.
CloseDialog(kind) ==
  /\ kind \in dialogs /\ dialogs' = dialogs \ {kind}
  /\ UNCHANGED <<screen, ledger, sent, invoice, load, loading, op, submitting, reason, result,
                 paymentVars>>

handleReasonChange ==
  /\ RefundForm /\ ~submitting /\ reason' = ~reason
  /\ UNCHANGED <<screen, ledger, sent, invoice, load, loading, op, submitting, dialogs, result,
                 paymentVars>>

\* The dialogs' Confirm buttons, disabled while submitting.
PayConfirmationModal == "pay" \in dialogs /\ invoice # Nothing /\ ~submitting
CancelConfirmationModal == "cancel" \in dialogs /\ invoice # Nothing /\ ~submitting
RefundConfirmationModal == "refund" \in dialogs /\ invoice # Nothing /\ ~submitting

\* The handler runs to its first await.
Begin(kind) ==
  /\ op' = [kind |-> kind, id |-> invoice.id, at |-> "signing", previous |-> invoice]
  /\ submitting' = TRUE
  /\ UNCHANGED <<screen, ledger, sent, load, loading, dialogs, reason, result, paymentVars>>

\* A storage that cannot be read knows of no payment.
isCompleted(i) == storageWorks /\ i \in completed

handleConfirmPayment ==
  PayConfirmationModal /\ ~isCompleted(invoice.id) /\ Begin("pay") /\ UNCHANGED invoice

\* "cancel" shows the invoice as cancelled before it is.
handleConfirmCancel ==
  CancelConfirmationModal /\ Begin("cancel") /\ invoice' = [invoice EXCEPT !.status = "Cancelled"]

handleConfirmRefund == RefundConfirmationModal /\ reason /\ Begin("refund") /\ UNCHANGED invoice

\* Simulated, signed and sent.
buildAndSend(kind) ==
  /\ op.at = "signing" /\ op.kind = kind /\ Allows(kind, ledger[op.id]) /\ Len(sent) < MaxSubmissions
  /\ sent' = Append(sent, [kind |-> kind, id |-> op.id, fate |-> "pending"])
  /\ UNCHANGED <<screen, ledger, invoice, submitting, dialogs, reason, result, paymentVars>>

\* A payment waits for the ledger; the others count as done and reload the invoice.
payInvoice == buildAndSend("pay") /\ op' = [op EXCEPT !.at = "waiting"] /\ UNCHANGED <<load, loading>>
cancelInvoice == buildAndSend("cancel") /\ op' = [op EXCEPT !.at = "reload"] /\ BeginLoad("op", op.id)
requestRefund == buildAndSend("refund") /\ op' = [op EXCEPT !.at = "reload"] /\ BeginLoad("op", op.id)

\* waitForLedgerConfirmation sees SUCCESS: the invoice is reloaded.
LedgerConfirms ==
  /\ op.at = "waiting" /\ sent[Len(sent)].fate = "success"
  /\ op' = [op EXCEPT !.at = "reload"] /\ BeginLoad("op", op.id)
  /\ UNCHANGED <<screen, ledger, sent, invoice, submitting, dialogs, reason, result, paymentVars>>

\* The outcome, and the end of the handler.
Settle(success) ==
  /\ submitting' = FALSE /\ dialogs' = dialogs \ {op.kind} /\ op' = Idle
  /\ result' = [kind |-> op.kind, id |-> op.id, success |-> success]
  /\ reason' = (reason /\ ~(op.kind = "refund" /\ success))

\* Simulation, signature or sending failed, or 30 s passed without confirmation: a
\* cancellation shows the invoice as it was before.
ActionFails ==
  /\ op.at \in {"signing", "waiting"}
  /\ Settle(FALSE)
  /\ invoice' = IF op.kind = "cancel" THEN op.previous ELSE invoice
  /\ UNCHANGED <<screen, ledger, sent, load, loading, paymentVars>>

\* A success; a payment is reported to the user.
Success ==
  /\ op.at = "done"
  /\ Settle(TRUE)
  /\ reported' = reported \cup (IF op.kind = "pay" THEN {op.id} ELSE {})
  /\ unsaved' = unsaved \cup (IF op.kind = "pay" /\ ~storageWorks THEN {op.id} ELSE {})
  /\ UNCHANGED <<screen, ledger, sent, invoice, load, loading, storageWorks>>

\* A payment that is not remembered.
Mut_ActionEnds == Success /\ UNCHANGED completed

\* The reload after a success is over: a payment is remembered (markCompleted), unless
\* the storage throws.
ActionEnds ==
  /\ Success
  /\ completed' = completed \cup (IF op.kind = "pay" /\ storageWorks THEN {op.id} ELSE {})

\* sessionStorage fills up or is blocked, or works again; it keeps what it holds.
StorageChanges ==
  /\ storageWorks' = ~storageWorks
  /\ UNCHANGED <<screen, ledger, sent, invoice, load, loading, op, submitting, dialogs, reason,
                 result, completed, reported, unsaved>>

\* The page is reloaded: only sessionStorage is left.
PageReloads ==
  /\ invoice' = Nothing /\ load' = [s \in Slots |-> Free] /\ loading' = FALSE
  /\ op' = Idle /\ submitting' = FALSE /\ dialogs' = {} /\ reason' = FALSE /\ result' = Nothing
  /\ UNCHANGED <<screen, ledger, sent, paymentVars>>

CheckoutNext ==
  \/ \E i \in CheckoutInvoice : handleLoadInvoice(i) \/ RefundTab(i)
  \/ updateTimer
  \/ \E s \in Slots : fetchInvoice(s) \/ LoadAnswered(s) \/ LoadFails(s)
  \/ AccountChanges
  \/ handlePayClick \/ handleCancelClick \/ handleRefundClick \/ handleReasonChange
  \/ \E kind \in dialogs : CloseDialog(kind)
  \/ handleConfirmPayment \/ handleConfirmCancel \/ handleConfirmRefund
  \/ payInvoice \/ cancelInvoice \/ requestRefund
  \/ LedgerConfirms \/ ActionFails \/ ActionEnds \/ StorageChanges
  \/ PageReloads
  \/ \E n \in DOMAIN sent : Land(n)

CheckoutSpec == CheckoutInit /\ [][CheckoutNext]_checkoutVars

-----------------------------------------------------------------------------
StartsPayment(i) == op' # op /\ op'.at = "signing" /\ op'.kind = "pay" /\ op'.id = i
SendsPayment(i) ==
  Len(sent') > Len(sent) /\ sent'[Len(sent')].kind = "pay" /\ sent'[Len(sent')].id = i

\* A payment the screen has reported as made is not made again in this browser
\* session, even though an answer from before it shows the invoice as pending, and
\* though the page was reloaded.  Where sessionStorage throws, when the payment is
\* reported or when it is confirmed again, the handler does start a second time, and
\* the simulation is the backstop: no second transaction is signed and sent
\* (useCompletedPaymentGuard, buildAndSend).
NoRepayment ==
  [][\A i \in reported :
       /\ StartsPayment(i) => i \in unsaved \/ ~storageWorks
       /\ ~SendsPayment(i)]_checkoutVars
=============================================================================
