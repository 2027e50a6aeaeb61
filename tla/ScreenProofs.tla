---------------------------- MODULE ScreenProofs ----------------------------
(***************************************************************************)
(* Proofs about the screens' state: the wallet store, the checkout, the      *)
(* merchant's list of invoices, the expiry batch, the queue of settlements   *)
(* on hold, the onboarding wizards and the forms.                            *)
(***************************************************************************)
EXTENDS WalletStore, Checkout, InvoiceList, ExpiryBatch, HoldQueue, Onboarding, AdminScreens,
        SequenceTheorems, TLAPS

-----------------------------------------------------------------------------
(* The wallet store (WalletStore).                                         *)

\* The wallet's invariant holds of the fresh store.
LEMMA WalletInvInit == WalletInit => WalletInv
<1> SUFFICES ASSUME WalletInit PROVE WalletInv
  OBVIOUS
<1>1. userDisconnected \in BOOLEAN /\ ~userDisconnected /\ watched \in BOOLEAN
  BY Zenon DEF WalletInit
<1> QED
  BY <1>1 DEF WalletInit, WalletInv, WalletTypeOK, WalletStatus, Answers, DisconnectSticks,
              ConnectingHasOwner

\* Every step of the store keeps it: a question gets the highest number, and only
\* that number's answer is shown.
LEMMA WalletInvStep == WalletInv /\ [WalletNext]_walletVars => WalletInv'
<1> SUFFICES ASSUME WalletInv, [WalletNext]_walletVars PROVE WalletInv'
  OBVIOUS
<1> USE DEF WalletInv, WalletTypeOK, WalletStatus, Answers, DisconnectSticks, ConnectingHasOwner
<1>1. CASE checkConnection
  BY <1>1 DEF checkConnection, PollNow, Ask, pollPaused
<1>2. CASE connectWallet
  <2>1. (userDisconnected \in BOOLEAN)' /\ ~userDisconnected'
    BY <1>2, Zenon DEF connectWallet
  <2> QED
    BY <1>2, <2>1 DEF connectWallet, CanConnect, Ask
<1>3. CASE disconnectWallet
  BY <1>3 DEF disconnectWallet
<1>4. CASE subscribe
  BY <1>4 DEF subscribe, PollNow, Ask, pollPaused
<1>5. CASE unsubscribe
  <2>1. (userDisconnected \in BOOLEAN)' /\ ~userDisconnected' /\ (watched \in BOOLEAN)'
    BY <1>5, Zenon DEF unsubscribe
  <2> QED
    BY <1>5, <2>1 DEF unsubscribe
<1>6. ASSUME NEW r \in reads, NEW answer \in Answers, PollAnswered(r, answer)
      PROVE  WalletInv'
  BY <1>6 DEF PollAnswered, pollPaused
<1>7. ASSUME NEW r \in reads, NEW answer \in Answers, ConnectAnswered(r, answer)
      PROVE  WalletInv'
  BY <1>7 DEF ConnectAnswered
<1>8. CASE ExtensionChanges
  BY <1>8 DEF ExtensionChanges
<1>9. CASE UNCHANGED walletVars
  BY <1>9 DEF walletVars
<1> QED
  BY <1>1, <1>2, <1>3, <1>4, <1>5, <1>6, <1>7, <1>8, <1>9 DEF WalletNext

\* An explicit disconnect sticks until the user connects again, however many answers
\* are on their way (pollPaused and requestSeq in hooks/useWallet.ts).
THEOREM DisconnectAlwaysSticks == WalletSpec => []DisconnectSticks
<1>1. WalletInv => DisconnectSticks
  BY DEF WalletInv
<1> QED
  BY <1>1, WalletInvInit, WalletInvStep, PTL DEF WalletSpec

\* While the wallet shows "connecting", the question whose answer ends that is still
\* in flight and still counts (connectWallet in hooks/useWallet.ts).
THEOREM ConnectingAlwaysHasOwner == WalletSpec => []ConnectingHasOwner
<1>1. WalletInv => ConnectingHasOwner
  BY DEF WalletInv
<1> QED
  BY <1>1, WalletInvInit, WalletInvStep, PTL DEF WalletSpec

-----------------------------------------------------------------------------
(* The checkout (Checkout).                                                *)

LedgerStatus == {"Pending", "Paid", "Cancelled", "RefundRequested"}
CheckoutShown == [id : CheckoutInvoice \cup {"none"}, status : LedgerStatus \cup {"none"}]
CheckoutOp ==
  [kind : {"none", "pay", "cancel", "refund"}, id : CheckoutInvoice \cup {"none"},
   at : {"none", "signing", "waiting", "reload", "done"}, previous : CheckoutShown]
CheckoutLoad ==
  [at : {"free", "asked", "read"}, id : CheckoutInvoice \cup {"none"}, status : LedgerStatus \cup {"none"}]

CheckoutTx ==
  [kind : {"pay", "cancel", "refund"}, id : CheckoutInvoice, fate : {"pending", "success", "failed", "lost"}]

CheckoutTypeOK ==
  /\ ledger \in [CheckoutInvoice -> LedgerStatus]
  /\ sent \in Seq(CheckoutTx)
  /\ load \in [Slots -> CheckoutLoad]
  /\ \A s \in Slots : load[s] # Free => load[s].at # "free" /\ load[s].id \in CheckoutInvoice
  /\ invoice \in CheckoutShown /\ (invoice # Nothing => invoice.id \in CheckoutInvoice)
  /\ op \in CheckoutOp /\ (op.at # "none" => op.id \in CheckoutInvoice)
  /\ op.previous # Nothing => op.previous.id \in CheckoutInvoice

\* One action at a time, and what it did is on the ledger before it says so.
ActionFollowsLedger ==
  /\ op.at # "none" => submitting
  /\ load["op"] # Free => op.at = "reload"
  /\ \A n \in DOMAIN sent : sent[n].fate = "success" => ledger[sent[n].id] # "Pending"
  /\ op.at = "waiting" => op.kind = "pay" /\ sent # << >> /\ sent[Len(sent)].id = op.id
  /\ op.kind = "pay" /\ op.at \in {"reload", "done"} => ledger[op.id] # "Pending"

\* A payment that was reported is on the ledger; sessionStorage remembers it, or did
\* not work when it was reported.
ReportedPaid ==
  /\ \A i \in reported : i \in CheckoutInvoice /\ ledger[i] # "Pending"
  /\ reported \subseteq completed \cup unsaved

CheckoutInv == CheckoutTypeOK /\ ActionFollowsLedger /\ ReportedPaid

\* What NoRepayment says of a step.
NoneRepaid ==
  \A i \in reported : (StartsPayment(i) => i \in unsaved \/ ~storageWorks) /\ ~SendsPayment(i)

LEMMA CheckoutInvInit == CheckoutInit => CheckoutInv
<1> SUFFICES ASSUME CheckoutInit PROVE CheckoutInv
  OBVIOUS
<1>1. /\ ledger \in [CheckoutInvoice -> {"Pending", "Paid"}] /\ sent = << >> /\ invoice = Nothing
      /\ load = [s \in Slots |-> Free] /\ op = Idle /\ completed = {} /\ reported = {}
  BY Zenon DEF CheckoutInit
<1> HIDE DEF CheckoutInit
<1>2. Nothing \in CheckoutShown /\ Free \in CheckoutLoad /\ Free.at = "free"
  BY DEF CheckoutShown, CheckoutLoad, Nothing, Free
<1>3. Idle \in CheckoutOp /\ Idle.at = "none" /\ Idle.previous = Nothing
  BY <1>2 DEF CheckoutOp, Idle
<1>4. CheckoutTypeOK
  <2>1. ledger \in [CheckoutInvoice -> LedgerStatus]
    BY <1>1 DEF LedgerStatus
  <2>2. sent \in Seq(CheckoutTx)
    BY <1>1
  <2>3. load \in [Slots -> CheckoutLoad] /\ \A s \in Slots : load[s] = Free
    BY <1>1, <1>2
  <2> QED
    BY <1>1, <1>2, <1>3, <2>1, <2>2, <2>3 DEF CheckoutTypeOK
<1>5. "op" \in Slots
  BY DEF Slots
<1>6. ActionFollowsLedger /\ ReportedPaid
  BY <1>1, <1>2, <1>3, <1>5 DEF ActionFollowsLedger, ReportedPaid
<1> QED
  BY <1>4, <1>6 DEF CheckoutInv

\* A load that begins or goes on touches neither the action nor the ledger.
LEMMA LoadGoesOn ==
  ASSUME CheckoutInv, NEW s \in Slots, NEW l \in CheckoutLoad, l.at # "free", l.id \in CheckoutInvoice,
         s # "op" \/ op.at = "reload",
         load' = [load EXCEPT ![s] = l],
         UNCHANGED <<ledger, sent, invoice, op, submitting, completed, reported, unsaved>>
  PROVE  CheckoutInv'
<1>1. CheckoutTypeOK'
  BY DEF CheckoutInv, CheckoutTypeOK
<1>2. ActionFollowsLedger'
  BY DEF CheckoutInv, CheckoutTypeOK, ActionFollowsLedger, Slots
<1>3. ReportedPaid'
  BY DEF CheckoutInv, ReportedPaid
<1> QED
  BY <1>1, <1>2, <1>3 DEF CheckoutInv

\* Nothing of the action, the ledger or the storage moves.
LEMMA SameAction ==
  ASSUME CheckoutInv, UNCHANGED <<ledger, sent, load, invoice, op, submitting, completed, reported, unsaved>>
  PROVE  CheckoutInv'
BY DEF CheckoutInv, CheckoutTypeOK, ActionFollowsLedger, ReportedPaid

\* An answer, or none: the action whose reload it was is done.
LEMMA LoadIsOver ==
  ASSUME CheckoutInv, NEW s \in Slots, LoadAnswered(s) \/ LoadFails(s)
  PROVE  CheckoutInv' /\ NoneRepaid
<1>1. /\ load[s] # Free /\ EndLoad(s)
      /\ invoice' = invoice \/ invoice' = [id |-> load[s].id, status |-> load[s].status]
  BY DEF LoadAnswered, LoadFails, Free
<1>2. /\ load' = [load EXCEPT ![s] = Free]
      /\ op' = IF s = "op" THEN [op EXCEPT !.at = "done"] ELSE op
      /\ UNCHANGED <<ledger, sent, submitting, storageWorks, completed, reported, unsaved>>
  BY <1>1 DEF EndLoad, paymentVars
<1>3. s = "op" => op.at = "reload"
  BY <1>1 DEF CheckoutInv, ActionFollowsLedger
<1>4. op'.kind = op.kind /\ op'.id = op.id /\ op'.previous = op.previous /\ op' \in CheckoutOp
  BY <1>2 DEF CheckoutInv, CheckoutTypeOK, CheckoutOp
<1>5. op'.at = IF s = "op" THEN "done" ELSE op.at
  BY <1>2 DEF CheckoutInv, CheckoutTypeOK, CheckoutOp
<1>6. CheckoutTypeOK'
  <2>1. Free \in CheckoutLoad
    BY DEF Free, CheckoutLoad
  <2>2. load' \in [Slots -> CheckoutLoad]
    BY <1>2, <2>1 DEF CheckoutInv, CheckoutTypeOK
  <2>3. \A r \in Slots : load'[r] # Free => load'[r] = load[r]
    BY <1>2 DEF CheckoutInv, CheckoutTypeOK
  <2>4. invoice' \in CheckoutShown /\ (invoice' # Nothing => invoice'.id \in CheckoutInvoice)
    BY <1>1 DEF CheckoutInv, CheckoutTypeOK, CheckoutShown, CheckoutLoad
  <2> QED
    BY <1>2, <1>3, <1>4, <1>5, <2>2, <2>3, <2>4 DEF CheckoutInv, CheckoutTypeOK
<1>7. ActionFollowsLedger'
  BY <1>2, <1>3, <1>4, <1>5 DEF CheckoutInv, CheckoutTypeOK, ActionFollowsLedger, Slots
<1>8. ReportedPaid'
  BY <1>2 DEF CheckoutInv, ReportedPaid
<1>9. NoneRepaid
  <2>1. op' = op \/ op'.at = "done"
    BY <1>2, <1>5
  <2>2. Len(sent') = Len(sent)
    BY <1>2
  <2> QED
    BY <2>1, <2>2 DEF NoneRepaid, StartsPayment, SendsPayment, CheckoutInv, CheckoutTypeOK
<1> QED
  BY <1>6, <1>7, <1>8, <1>9 DEF CheckoutInv

\* A handler begins: none was running, and a payment that is remembered does not begin.
LEMMA ActionBegins ==
  ASSUME CheckoutInv, handleConfirmPayment \/ handleConfirmCancel \/ handleConfirmRefund
  PROVE  CheckoutInv' /\ NoneRepaid
<1>1. PICK kind \in {"pay", "cancel", "refund"} :
        /\ op' = [kind |-> kind, id |-> invoice.id, at |-> "signing", previous |-> invoice]
        /\ kind = "pay" => ~isCompleted(invoice.id)
  BY DEF handleConfirmPayment, handleConfirmCancel, handleConfirmRefund, Begin
<1>2. /\ invoice # Nothing /\ ~submitting /\ submitting'
      /\ UNCHANGED <<ledger, sent, load, storageWorks, completed, reported, unsaved>>
      /\ invoice' = invoice \/ invoice' = [invoice EXCEPT !.status = "Cancelled"]
  BY DEF handleConfirmPayment, handleConfirmCancel, handleConfirmRefund, Begin, paymentVars,
         PayConfirmationModal, CancelConfirmationModal, RefundConfirmationModal
<1>3. op.at = "none" /\ load["op"] = Free
  BY <1>2 DEF CheckoutInv, ActionFollowsLedger
<1>4. op' \in CheckoutOp /\ op'.at = "signing" /\ op'.id = invoice.id /\ op'.kind = kind /\ op'.previous = invoice
  BY <1>1 DEF CheckoutInv, CheckoutTypeOK, CheckoutOp, CheckoutShown
<1>5. invoice.id \in CheckoutInvoice
  BY <1>2 DEF CheckoutInv, CheckoutTypeOK
<1>6. CheckoutTypeOK'
  <2>1. invoice' \in CheckoutShown /\ invoice'.id = invoice.id
    BY <1>2 DEF CheckoutInv, CheckoutTypeOK, CheckoutShown, LedgerStatus
  <2> QED
    BY <1>2, <1>4, <1>5, <2>1 DEF CheckoutInv, CheckoutTypeOK
<1>7. ActionFollowsLedger'
  BY <1>2, <1>3, <1>4 DEF CheckoutInv, ActionFollowsLedger
<1>8. ReportedPaid'
  BY <1>2 DEF CheckoutInv, ReportedPaid
<1>9. NoneRepaid
  <2>1. \A i \in reported : StartsPayment(i) => i \in unsaved \/ ~storageWorks
    BY <1>1, <1>4 DEF StartsPayment, isCompleted, CheckoutInv, ReportedPaid
  <2>2. \A i : ~SendsPayment(i)
    BY <1>2 DEF SendsPayment, CheckoutInv, CheckoutTypeOK
  <2> QED
    BY <2>1, <2>2 DEF NoneRepaid
<1> QED
  BY <1>6, <1>7, <1>8, <1>9 DEF CheckoutInv

\* A transaction is sent: its simulation found a status that allows it, so it pays no
\* invoice that was reported as paid.
LEMMA ActionSends ==
  ASSUME CheckoutInv, payInvoice \/ cancelInvoice \/ requestRefund
  PROVE  CheckoutInv' /\ NoneRepaid
<1>1. PICK kind \in {"pay", "cancel", "refund"} :
        /\ buildAndSend(kind)
        /\ IF kind = "pay" THEN op' = [op EXCEPT !.at = "waiting"] /\ load' = load
                           ELSE op' = [op EXCEPT !.at = "reload"] /\ BeginLoad("op", op.id)
  BY DEF payInvoice, cancelInvoice, requestRefund
<1> DEFINE tx == [kind |-> kind, id |-> op.id, fate |-> "pending"]
<1>2. /\ op.at = "signing" /\ op.kind = kind /\ Allows(kind, ledger[op.id])
      /\ sent' = Append(sent, tx)
      /\ UNCHANGED <<ledger, invoice, submitting, storageWorks, completed, reported, unsaved>>
  BY <1>1 DEF buildAndSend, paymentVars
<1>3. op.id \in CheckoutInvoice /\ submitting /\ load["op"] = Free
  BY <1>2 DEF CheckoutInv, CheckoutTypeOK, ActionFollowsLedger
<1>4. tx \in CheckoutTx /\ tx.fate = "pending" /\ tx.id = op.id /\ tx.kind = kind
  BY <1>3 DEF CheckoutTx
<1> HIDE DEF tx
<1>5. /\ sent' \in Seq(CheckoutTx) /\ Len(sent') = Len(sent) + 1 /\ sent'[Len(sent')] = tx
      /\ \A n \in 1 .. Len(sent) : sent'[n] = sent[n]
  BY <1>2, <1>4, AppendProperties DEF CheckoutInv, CheckoutTypeOK
<1>6. /\ op' \in CheckoutOp /\ op'.id = op.id /\ op'.kind = kind /\ op'.previous = op.previous
      /\ op'.at = IF kind = "pay" THEN "waiting" ELSE "reload"
  BY <1>1, <1>2 DEF CheckoutInv, CheckoutTypeOK, CheckoutOp
<1>7. /\ load' \in [Slots -> CheckoutLoad]
      /\ \A s \in Slots : load'[s] # load[s] => s = "op" /\ load'[s].at # "free" /\ load'[s].id = op.id
      /\ kind = "pay" => load' = load
  <2>1. CASE kind = "pay"
    BY <1>1, <2>1 DEF CheckoutInv, CheckoutTypeOK
  <2>2. CASE kind # "pay"
    <3>1. [at |-> "asked", id |-> op.id, status |-> "none"] \in CheckoutLoad
      BY <1>3 DEF CheckoutLoad
    <3> QED
      BY <1>1, <2>2, <3>1 DEF BeginLoad, CheckoutInv, CheckoutTypeOK
  <2> QED
    BY <2>1, <2>2
<1>8. CheckoutTypeOK'
  BY <1>2, <1>3, <1>5, <1>6, <1>7 DEF CheckoutInv, CheckoutTypeOK
<1>9. ActionFollowsLedger'
  <2>1. \A n \in DOMAIN sent' : sent'[n].fate = "success" => ledger'[sent'[n].id] # "Pending"
    <3> SUFFICES ASSUME NEW n \in DOMAIN sent', sent'[n].fate = "success"
                 PROVE  ledger'[sent'[n].id] # "Pending"
      OBVIOUS
    <3>1. n \in 1 .. Len(sent')
      BY <1>5
    <3>2. n \in 1 .. Len(sent)
      BY <1>4, <1>5, <3>1 DEF CheckoutInv, CheckoutTypeOK
    <3> QED
      BY <1>2, <1>5, <3>2 DEF CheckoutInv, CheckoutTypeOK, ActionFollowsLedger
  <2>2. sent' # << >> /\ sent'[Len(sent')].id = op.id
    BY <1>4, <1>5 DEF CheckoutInv, CheckoutTypeOK
  <2>3. op'.at = "waiting" => kind = "pay" /\ load'["op"] = Free
    BY <1>3, <1>6, <1>7
  <2> QED
    BY <1>2, <1>3, <1>6, <2>1, <2>2, <2>3 DEF ActionFollowsLedger
<1>10. ReportedPaid'
  BY <1>2 DEF CheckoutInv, ReportedPaid
<1>11. NoneRepaid
  <2>1. \A i : ~StartsPayment(i)
    BY <1>6 DEF StartsPayment
  <2>2. ASSUME NEW i \in reported, SendsPayment(i) PROVE FALSE
    <3>1. kind = "pay" /\ i = op.id
      BY <1>4, <1>5, <2>2 DEF SendsPayment
    <3>2. ledger[i] = "Pending"
      BY <1>2, <3>1 DEF Allows
    <3> QED
      BY <3>2 DEF CheckoutInv, ReportedPaid
  <2> QED
    BY <2>1, <2>2 DEF NoneRepaid
<1> QED
  BY <1>8, <1>9, <1>10, <1>11 DEF CheckoutInv

\* A transaction lands: no status becomes "Pending" again.
LEMMA TransactionLands ==
  ASSUME CheckoutInv, NEW n \in DOMAIN sent, Land(n)
  PROVE  CheckoutInv' /\ NoneRepaid
<1> DEFINE t == sent[n]
<1>1. PICK fate \in {"success", "failed", "lost"} :
        /\ sent' = [sent EXCEPT ![n].fate = fate]
        /\ IF fate = "success" THEN ledger' = [ledger EXCEPT ![t.id] = After(t.kind, @)]
                               ELSE ledger' = ledger
  BY DEF Land
<1>2. UNCHANGED <<load, invoice, op, submitting, storageWorks, completed, reported, unsaved>>
  BY DEF Land, paymentVars
<1>3. t \in CheckoutTx /\ sent \in Seq(CheckoutTx) /\ DOMAIN sent = 1 .. Len(sent) /\ Len(sent) \in Nat
  BY DEF CheckoutInv, CheckoutTypeOK
<1>4. /\ sent' \in Seq(CheckoutTx) /\ Len(sent') = Len(sent) /\ DOMAIN sent' = DOMAIN sent
      /\ \A m \in DOMAIN sent : sent'[m].id = sent[m].id /\ sent'[m].kind = sent[m].kind
      /\ \A m \in DOMAIN sent : m # n => sent'[m] = sent[m]
      /\ sent'[n].fate = fate
  <2>1. [t EXCEPT !.fate = fate] \in CheckoutTx
    BY <1>3 DEF CheckoutTx
  <2>2. sent' = [sent EXCEPT ![n] = [t EXCEPT !.fate = fate]]
    BY <1>1
  <2>3. sent' \in Seq(CheckoutTx) /\ Len(sent') = Len(sent)
    BY <1>3, <2>1, <2>2, ExceptSeq
  <2> QED
    BY <1>3, <2>1, <2>2, <2>3 DEF CheckoutTx
<1>5. /\ ledger' \in [CheckoutInvoice -> LedgerStatus]
      /\ \A i \in CheckoutInvoice : ledger[i] # "Pending" => ledger'[i] # "Pending"
      /\ fate = "success" => ledger'[t.id] # "Pending"
  <2>1. \A k, s : After(k, s) \in LedgerStatus /\ After(k, s) # "Pending"
    BY DEF After, LedgerStatus
  <2>2. t.id \in CheckoutInvoice
    BY <1>3 DEF CheckoutTx
  <2> HIDE DEF t
  <2> QED
    BY <1>1, <2>1, <2>2 DEF CheckoutInv, CheckoutTypeOK
<1>6. CheckoutTypeOK'
  BY <1>2, <1>4, <1>5 DEF CheckoutInv, CheckoutTypeOK
<1>7. ActionFollowsLedger'
  <2>1. \A m \in DOMAIN sent' : sent'[m].fate = "success" => ledger'[sent'[m].id] # "Pending"
    <3> SUFFICES ASSUME NEW m \in DOMAIN sent', sent'[m].fate = "success"
                 PROVE  ledger'[sent'[m].id] # "Pending"
      OBVIOUS
    <3>1. m \in DOMAIN sent /\ sent[m].id \in CheckoutInvoice /\ sent'[m].id = sent[m].id
      <4>1. m \in DOMAIN sent /\ sent'[m].id = sent[m].id
        BY <1>4
      <4>2. sent[m] \in CheckoutTx
        BY <1>3, <4>1
      <4> QED
        BY <4>1, <4>2 DEF CheckoutTx
    <3>2. CASE m = n
      BY <1>4, <1>5, <3>1, <3>2
    <3>3. CASE m # n
      BY <1>4, <1>5, <3>1, <3>3 DEF CheckoutInv, ActionFollowsLedger
    <3> QED
      BY <3>2, <3>3
  <2>2. op.at = "waiting" => sent' # << >> /\ sent'[Len(sent')].id = op.id
    BY <1>3, <1>4 DEF CheckoutInv, ActionFollowsLedger
  <2>3. op.kind = "pay" /\ op.at \in {"reload", "done"} => ledger'[op.id] # "Pending"
    BY <1>5 DEF CheckoutInv, CheckoutTypeOK, ActionFollowsLedger
  <2> QED
    BY <1>2, <2>1, <2>2, <2>3 DEF CheckoutInv, ActionFollowsLedger
<1>8. ReportedPaid'
  BY <1>2, <1>5 DEF CheckoutInv, ReportedPaid
<1>9. NoneRepaid
  BY <1>2, <1>3, <1>4 DEF NoneRepaid, StartsPayment, SendsPayment
<1> QED
  BY <1>6, <1>7, <1>8, <1>9 DEF CheckoutInv

\* The ledger confirms the payment; its reload begins.
LEMMA PaymentConfirmed == ASSUME CheckoutInv, LedgerConfirms PROVE CheckoutInv' /\ NoneRepaid
<1>1. /\ op.at = "waiting" /\ sent[Len(sent)].fate = "success"
      /\ op' = [op EXCEPT !.at = "reload"] /\ BeginLoad("op", op.id)
      /\ UNCHANGED <<ledger, sent, invoice, submitting, storageWorks, completed, reported, unsaved>>
  BY DEF LedgerConfirms, paymentVars
<1>2. op.id \in CheckoutInvoice /\ submitting /\ sent # << >> /\ sent[Len(sent)].id = op.id
  BY <1>1 DEF CheckoutInv, CheckoutTypeOK, ActionFollowsLedger
<1>3. ledger[op.id] # "Pending"
  <2>1. Len(sent) \in DOMAIN sent
    BY <1>2 DEF CheckoutInv, CheckoutTypeOK
  <2> QED
    BY <1>1, <1>2, <2>1 DEF CheckoutInv, ActionFollowsLedger
<1>4. /\ op' \in CheckoutOp /\ op'.id = op.id /\ op'.kind = op.kind /\ op'.previous = op.previous
      /\ op'.at = "reload"
  BY <1>1 DEF CheckoutInv, CheckoutTypeOK, CheckoutOp
<1>5. /\ load' \in [Slots -> CheckoutLoad]
      /\ \A s \in Slots : load'[s] # load[s] => load'[s].at # "free" /\ load'[s].id = op.id
  <2>1. [at |-> "asked", id |-> op.id, status |-> "none"] \in CheckoutLoad
    BY <1>2 DEF CheckoutLoad
  <2> QED
    BY <1>1, <2>1 DEF BeginLoad, CheckoutInv, CheckoutTypeOK
<1>6. CheckoutTypeOK'
  BY <1>1, <1>2, <1>4, <1>5 DEF CheckoutInv, CheckoutTypeOK
<1>7. ActionFollowsLedger'
  BY <1>1, <1>2, <1>3, <1>4 DEF CheckoutInv, ActionFollowsLedger
<1>8. ReportedPaid' /\ NoneRepaid
  BY <1>1, <1>4 DEF CheckoutInv, CheckoutTypeOK, ReportedPaid, NoneRepaid, StartsPayment, SendsPayment
<1> QED
  BY <1>6, <1>7, <1>8 DEF CheckoutInv

\* A handler ends, or the page that runs it is gone.
LEMMA ActionIsOver ==
  ASSUME CheckoutInv, ActionFails \/ ActionEnds \/ PageReloads
  PROVE  CheckoutInv' /\ NoneRepaid
<1>1. /\ op' = Idle /\ load' \in {load, [s \in Slots |-> Free]}
      /\ invoice' \in {invoice, op.previous, Nothing}
      /\ UNCHANGED <<ledger, sent, storageWorks>>
      /\ op.at = "reload" => load' = [s \in Slots |-> Free]
  BY DEF ActionFails, ActionEnds, Success, PageReloads, Settle, paymentVars
<1>2. /\ reported' = reported \/ (op.kind = "pay" /\ op.at = "done" /\ reported' = reported \cup {op.id})
      /\ completed \subseteq completed' /\ unsaved \subseteq unsaved'
      /\ reported' \subseteq reported \cup completed' \cup unsaved'
  BY DEF ActionFails, ActionEnds, Success, PageReloads, paymentVars
<1>3. Nothing \in CheckoutShown /\ Free \in CheckoutLoad
  BY DEF Nothing, CheckoutShown, Free, CheckoutLoad
<1>4. Idle \in CheckoutOp /\ Idle.at = "none" /\ Idle.previous = Nothing
  BY <1>3 DEF Idle, CheckoutOp
<1>5. load' \in [Slots -> CheckoutLoad] /\ \A s \in Slots : load'[s] \in {Free, load[s]}
  BY <1>1, <1>3 DEF CheckoutInv, CheckoutTypeOK
<1>6. op.previous \in CheckoutShown
  BY DEF CheckoutInv, CheckoutTypeOK, CheckoutOp
<1>7. CheckoutTypeOK'
  BY <1>1, <1>3, <1>4, <1>5, <1>6 DEF CheckoutInv, CheckoutTypeOK
<1>8. load'["op"] = Free
  BY <1>1, <1>5 DEF Slots, CheckoutInv, ActionFollowsLedger
<1>9. ActionFollowsLedger'
  BY <1>1, <1>4, <1>8 DEF CheckoutInv, ActionFollowsLedger
<1>10. ReportedPaid'
  <2>1. op.kind = "pay" /\ op.at = "done" => op.id \in CheckoutInvoice /\ ledger[op.id] # "Pending"
    BY DEF CheckoutInv, CheckoutTypeOK, ActionFollowsLedger
  <2> QED
    BY <1>1, <1>2, <2>1 DEF CheckoutInv, ReportedPaid
<1>11. NoneRepaid
  BY <1>1, <1>4 DEF CheckoutInv, CheckoutTypeOK, NoneRepaid, StartsPayment, SendsPayment
<1> QED
  BY <1>7, <1>9, <1>10, <1>11 DEF CheckoutInv

\* Every step keeps the invariant and repeats no payment.
LEMMA CheckoutStep ==
  ASSUME CheckoutInv, [CheckoutNext]_checkoutVars
  PROVE  CheckoutInv' /\ NoneRepaid
<1>1. ASSUME op' = op, sent' = sent PROVE NoneRepaid
  BY <1>1 DEF NoneRepaid, StartsPayment, SendsPayment, CheckoutInv, CheckoutTypeOK
<1>2. ASSUME NEW s \in LoadSlot, NEW i \in CheckoutInvoice, BeginLoad(s, i),
             UNCHANGED <<ledger, sent, invoice, op, submitting, completed, reported, unsaved>>
      PROVE  CheckoutInv' /\ NoneRepaid
  <2>1. [at |-> "asked", id |-> i, status |-> "none"] \in CheckoutLoad
    BY DEF CheckoutLoad
  <2>2. s \in Slots /\ s # "op"
    BY CheckoutAssumption DEF Slots
  <2>3. CheckoutInv'
    BY <1>2, <2>1, <2>2, LoadGoesOn DEF BeginLoad
  <2> QED
    BY <1>1, <1>2, <2>3
<1>3. ASSUME NEW i \in CheckoutInvoice, handleLoadInvoice(i) \/ RefundTab(i)
      PROVE  CheckoutInv' /\ NoneRepaid
  BY <1>2, <1>3 DEF handleLoadInvoice, RefundTab, LoadClick, paymentVars
<1>4. CASE updateTimer
  <2>1. invoice.id \in CheckoutInvoice
    BY <1>4 DEF updateTimer, Nothing, CheckoutInv, CheckoutTypeOK
  <2> QED
    BY <1>2, <1>4, <2>1 DEF updateTimer, paymentVars
<1>5. ASSUME NEW s \in Slots, fetchInvoice(s) PROVE CheckoutInv' /\ NoneRepaid
  <2> DEFINE l == [load[s] EXCEPT !.at = "read", !.status = ledger[load[s].id]]
  <2>1. load[s] # Free /\ load[s].id \in CheckoutInvoice
    BY <1>5 DEF fetchInvoice, Free, CheckoutInv, CheckoutTypeOK
  <2>2. l \in CheckoutLoad /\ l.at = "read" /\ l.id = load[s].id
    BY <2>1 DEF CheckoutInv, CheckoutTypeOK, CheckoutLoad
  <2>3. load' = [load EXCEPT ![s] = l]
    BY <1>5 DEF fetchInvoice, CheckoutInv, CheckoutTypeOK
  <2>4. UNCHANGED <<ledger, sent, invoice, op, submitting, completed, reported, unsaved>>
    BY <1>5 DEF fetchInvoice, paymentVars
  <2>5. s # "op" \/ op.at = "reload"
    BY <2>1 DEF CheckoutInv, ActionFollowsLedger
  <2> HIDE DEF l
  <2>6. CheckoutInv'
    BY <2>1, <2>2, <2>3, <2>4, <2>5, LoadGoesOn
  <2> QED
    BY <1>1, <2>4, <2>6
<1>6. ASSUME NEW s \in Slots, LoadAnswered(s) \/ LoadFails(s) PROVE CheckoutInv' /\ NoneRepaid
  BY <1>6, LoadIsOver
<1>7. CASE AccountChanges
  <2>1. Nothing \in CheckoutShown
    BY DEF Nothing, CheckoutShown
  <2>2. invoice' = Nothing /\ UNCHANGED <<ledger, sent, load, op, submitting, completed, reported, unsaved>>
    BY <1>7 DEF AccountChanges, paymentVars
  <2>3. CheckoutInv'
    BY <2>1, <2>2 DEF CheckoutInv, CheckoutTypeOK, ActionFollowsLedger, ReportedPaid
  <2> QED
    BY <1>1, <2>2, <2>3
<1>8. CASE \/ handlePayClick \/ handleCancelClick \/ handleRefundClick \/ handleReasonChange
           \/ \E kind \in dialogs : CloseDialog(kind)
           \/ StorageChanges \/ UNCHANGED checkoutVars
  <2>1. UNCHANGED <<ledger, sent, load, invoice, op, submitting, completed, reported, unsaved>>
    BY <1>8 DEF handlePayClick, handleCancelClick, handleRefundClick, OpenDialog, handleReasonChange,
                CloseDialog, StorageChanges, checkoutVars, paymentVars
  <2> QED
    BY <1>1, <2>1, SameAction
<1>9. CASE handleConfirmPayment \/ handleConfirmCancel \/ handleConfirmRefund
  BY <1>9, ActionBegins
<1>10. CASE payInvoice \/ cancelInvoice \/ requestRefund
  BY <1>10, ActionSends
<1>11. CASE LedgerConfirms
  BY <1>11, PaymentConfirmed
<1>12. CASE ActionFails \/ ActionEnds \/ PageReloads
  BY <1>12, ActionIsOver
<1>13. ASSUME NEW n \in DOMAIN sent, Land(n) PROVE CheckoutInv' /\ NoneRepaid
  BY <1>13, TransactionLands
<1> QED
  BY <1>3, <1>4, <1>5, <1>6, <1>7, <1>8, <1>9, <1>10, <1>11, <1>12, <1>13 DEF CheckoutNext

\* A payment that the screen has reported is not begun again while sessionStorage works,
\* and no second transaction is sent for it whatever the storage does
\* (useCompletedPaymentGuard.ts, handleConfirmPayment, buildAndSend).
THEOREM NoPaymentTwice == CheckoutSpec => NoRepayment
<1>1. CheckoutInv /\ [CheckoutNext]_checkoutVars
        => /\ CheckoutInv'
           /\ [\A i \in reported : /\ StartsPayment(i) => i \in unsaved \/ ~storageWorks
                                   /\ ~SendsPayment(i)]_checkoutVars
  BY CheckoutStep DEF NoneRepaid
<1> QED
  BY <1>1, CheckoutInvInit, PTL DEF CheckoutSpec, NoRepayment

-----------------------------------------------------------------------------
(* The merchant's list (InvoiceList).                                      *)

\* With the request that is not aborted being the one of the controls.
ListInv == ListMatchesControls /\ (current # NoRequest => current = query)

\* The effect behind every control keeps the list's invariant.
LEMMA RefetchKeepsListInv ==
  ASSUME NEW q, Refetch(q) PROVE ListInv'
BY DEF Refetch, ListInv, ListMatchesControls

\* Every step of the list keeps it.
LEMMA ListInvStep == ListInv /\ [ListNext]_listVars => ListInv'
<1> SUFFICES ASSUME ListInv, [ListNext]_listVars PROVE ListInv'
  OBVIOUS
<1>1. ASSUME NEW m, MerchantChanges(m) PROVE ListInv'
  BY <1>1, RefetchKeepsListInv DEF MerchantChanges
<1>2. ASSUME NEW s, handleFilter(s) PROVE ListInv'
  BY <1>2, RefetchKeepsListInv DEF handleFilter
<1>3. CASE PreviousPage
  BY <1>3, RefetchKeepsListInv DEF PreviousPage
<1>4. CASE NextPage
  BY <1>4, RefetchKeepsListInv DEF NextPage
<1>5. CASE Reload
  BY <1>5, RefetchKeepsListInv DEF Reload
<1>6. ASSUME NEW kind \in {"loaded", "error"},
             Answer(kind) \/ \E q \in aborted : AbortedAnswer(q, kind)
      PROVE  ListInv'
  BY <1>6 DEF Answer, AbortedAnswer, ListInv, ListMatchesControls
<1>7. CASE UNCHANGED listVars
  BY <1>7 DEF listVars, ListInv, ListMatchesControls
<1> QED
  BY <1>1, <1>2, <1>3, <1>4, <1>5, <1>6, <1>7 DEF ListNext

\* What the list shows is what its controls ask for, however late an aborted request
\* answers (the effect of components/InvoiceList.tsx).
THEOREM ListAlwaysMatchesControls == ListSpec => []ListMatchesControls
<1>1. ListInit => ListInv
  BY DEF ListInit, ListInv, ListMatchesControls, NoRequest
<1>2. ListInv => ListMatchesControls
  BY DEF ListInv
<1> QED
  BY <1>1, <1>2, ListInvStep, PTL DEF ListSpec

-----------------------------------------------------------------------------
(* The expiry batch (ExpiryBatch).                                         *)

\* Every step of the batch screen keeps its invariant.
LEMMA BatchInvStep == BatchInv /\ [BatchNext]_batchVars => BatchInv'
<1> SUFFICES ASSUME BatchInv, [BatchNext]_batchVars PROVE BatchInv'
  OBVIOUS
<1> USE DEF BatchInv, DialogListsSelection, submittingBatch
<1>1. ASSUME NEW ids \in SUBSET BatchInvoice, handleLoadInvoices(ids) PROVE BatchInv'
  BY <1>1 DEF handleLoadInvoices, LoadButton, NoDialog, NoLoad, NoRows
<1>2. ASSUME NEW i \in BatchInvoice, NEW found \in BOOLEAN, LoadOne(i, found) PROVE BatchInv'
  BY <1>2 DEF LoadOne
<1>3. ASSUME NEW i \in BatchInvoice, NEW found \in BOOLEAN, VerifyOne(i, found) PROVE BatchInv'
  BY <1>3 DEF VerifyOne
<1>4. ASSUME NEW i \in BatchInvoice, toggleSelect(i) PROVE BatchInv'
  BY <1>4 DEF toggleSelect, RowBox, pendingInvoices
<1>5. ASSUME NEW i \in BatchInvoice, LedgerMoves(i) PROVE BatchInv'
  BY <1>5 DEF LedgerMoves
<1>6. CASE BatchLoadEnds
  BY <1>6 DEF BatchLoadEnds, NoLoad
<1>7. CASE toggleSelectAll
  BY <1>7 DEF toggleSelectAll, SelectAllBox, pendingInvoices
<1>8. CASE handleShowConfirmation
  BY <1>8 DEF handleShowConfirmation, ExpireButton
<1>9. CASE handleCancelConfirmation
  BY <1>9 DEF handleCancelConfirmation, NoDialog
<1>10. CASE handleBatchExpire
  BY <1>10 DEF handleBatchExpire, ConfirmButton, NoDialog
<1>11. CASE BatchSent
  BY <1>11 DEF BatchSent
<1>12. CASE BatchFails
  BY <1>12 DEF BatchFails, NoBatch
<1>13. CASE BatchEnds
  BY <1>13 DEF BatchEnds, NoBatch
<1>14. CASE UNCHANGED batchVars
  BY <1>14 DEF batchVars
<1> QED
  BY <1>1, <1>2, <1>3, <1>4, <1>5, <1>6, <1>7, <1>8, <1>9, <1>10, <1>11, <1>12, <1>13, <1>14
     DEF BatchNext

\* The invoices a batch dialog lists are the ones it submits, whatever loads and
\* batches end behind it (components/BatchExpireInvoices.tsx).
THEOREM DialogAlwaysListsSelection == BatchSpec => []DialogListsSelection
<1>1. BatchInit => BatchInv
  BY DEF BatchInit, BatchInv, DialogListsSelection, submittingBatch, NoDialog, NoRows, NoLoad, NoBatch
<1>2. BatchInv => DialogListsSelection
  BY DEF BatchInv
<1> QED
  BY <1>1, <1>2, BatchInvStep, PTL DEF BatchSpec

-----------------------------------------------------------------------------
(* The queue of settlements on hold (HoldQueue).                           *)

\* Every step of the queue keeps the selection among its rows.
LEMMA SelectionShownStep == SelectionShown /\ [HoldNext]_holdVars => SelectionShown'
<1> SUFFICES ASSUME SelectionShown, [HoldNext]_holdVars PROVE SelectionShown'
  OBVIOUS
<1> USE DEF SelectionShown
<1>1. ASSUME NEW n \in DOMAIN polls,
             fetchOnHold(n) \/ ServerAnswers(n) \/ PollArrives(n) \/ PollFails(n)
      PROVE  SelectionShown'
  BY <1>1 DEF fetchOnHold, ServerAnswers, PollArrives, PollFails
<1>2. ASSUME NEW n \in DOMAIN polls, NEW p \in DOMAIN HoldPage, setPage(n, p)
      PROVE  SelectionShown'
  BY <1>2 DEF setPage
<1>3. CASE handleSelectAll \/ clearSelection
  BY <1>3 DEF handleSelectAll, clearSelection
<1>4. CASE showBulkConfirm \/ cancelBulkConfirm \/ handleBulkRelease
  BY <1>4 DEF showBulkConfirm, cancelBulkConfirm, handleBulkRelease
<1>5. ASSUME NEW s \in HeldSettlements,
             handleToggleRow(s) \/ handleAction(s) \/ bulkNext(s) \/ HoldChanges(s)
      PROVE  SelectionShown'
  BY <1>5 DEF RowEnabled, handleToggleRow, handleAction, bulkNext, HoldChanges
<1>6. ASSUME NEW s \in HeldSettlements, NEW action \in {"release", "escalate"},
             RequestSucceeds(s, action) \/ RequestFails(s, action)
      PROVE  SelectionShown'
  BY <1>6 DEF RequestSucceeds, RequestFails
<1>7. CASE UNCHANGED holdVars
  BY <1>7 DEF holdVars
<1> QED
  BY <1>1, <1>2, <1>3, <1>4, <1>5, <1>6, <1>7 DEF HoldNext

\* Nothing is selected that the administrator does not see, so a bulk release never
\* acts on a row a poll has taken away (components/OnHoldSettlements).
THEOREM SelectionAlwaysShown == HoldSpec => []SelectionShown
<1>1. HoldInit => SelectionShown
  BY DEF HoldInit, SelectionShown
<1> QED
  BY <1>1, SelectionShownStep, PTL DEF HoldSpec

-----------------------------------------------------------------------------
(* The onboarding wizard (Onboarding).                                     *)

\* With the types that make a state a record of its four fields.
WizardInv ==
  /\ stored \in WizardState /\ wizard \in [Tab -> WizardState]
  /\ connected \in [Tab -> Account \cup {NoAccount}]
  /\ StepsEarned

\* The initial state has passed nothing.
LEMMA InitialEarned ==
  ASSUME NEW without
  PROVE  INITIAL_WIZARD_STATE \in WizardState /\ Earned(INITIAL_WIZARD_STATE, without)
BY DEF INITIAL_WIZARD_STATE, WizardState, Earned

\* What the updates of the handlers leave: the fields they do not name, and the type.
LEMMA StepUpdate ==
  ASSUME NEW s \in WizardState, NEW k \in 0 .. 3, NEW without,
         k > 0 => s.wallet # NoAccount \/ without # {}, k > 1 => s.verified, k > 2 => s.created
  PROVE  [s EXCEPT !.step = k] \in WizardState /\ Earned([s EXCEPT !.step = k], without)
<1> DEFINE n == [s EXCEPT !.step = k]
<1>1. n \in WizardState
  BY DEF WizardState
<1>2. n.step = k /\ n.wallet = s.wallet /\ n.verified = s.verified /\ n.created = s.created
  BY DEF WizardState
<1> HIDE DEF n
<1>3. Earned(n, without)
  BY <1>2 DEF Earned
<1> QED
  BY <1>1, <1>3 DEF n

\* The same with a new address.
LEMMA WalletUpdate ==
  ASSUME NEW s \in WizardState, NEW k \in 0 .. 3, NEW a \in Account \cup {NoAccount}, NEW without,
         a # NoAccount \/ without # {}, k > 1 => s.verified, k > 2 => s.created
  PROVE  /\ [s EXCEPT !.wallet = a, !.step = k] \in WizardState
         /\ Earned([s EXCEPT !.wallet = a, !.step = k], without)
<1> DEFINE n == [s EXCEPT !.wallet = a, !.step = k]
<1>1. n \in WizardState
  BY DEF WizardState
<1>2. n.step = k /\ n.wallet = a /\ n.verified = s.verified /\ n.created = s.created
  BY DEF WizardState
<1> HIDE DEF n
<1>3. Earned(n, without)
  BY <1>2 DEF Earned
<1> QED
  BY <1>1, <1>3 DEF n

\* The effect on the wallet's address passes the first step only with an address.
LEMMA PickUpEarned ==
  ASSUME NEW s \in WizardState, NEW without, Earned(s, without), NEW a \in Account \cup {NoAccount}
  PROVE  PickUp(s, a) \in WizardState /\ Earned(PickUp(s, a), without)
<1>1. CASE a = NoAccount
  BY <1>1 DEF PickUp
<1>2. CASE a # NoAccount
  <2> DEFINE k == IF s.step = 0 THEN 1 ELSE s.step
  <2>1. PickUp(s, a) = [s EXCEPT !.wallet = a, !.step = k]
    BY <1>2 DEF PickUp, WizardState
  <2>2. k \in 0 .. 3 /\ (k > 1 => s.step > 1) /\ (k > 2 => s.step > 2)
    BY DEF WizardState
  <2>3. (k > 1 => s.verified) /\ (k > 2 => s.created)
    BY <2>2 DEF Earned
  <2> HIDE DEF k
  <2>4. Earned([s EXCEPT !.wallet = a, !.step = k], without)
    BY <1>2, <2>2, <2>3, WalletUpdate
  <2>5. [s EXCEPT !.wallet = a, !.step = k] \in WizardState
    BY <2>2 DEF WizardState
  <2> QED
    BY <2>1, <2>4, <2>5
<1> QED
  BY <1>1, <1>2

\* Setting a tab's state and storing it.
LEMMA SetStateKeeps ==
  ASSUME WizardInv, NEW t \in Tab, NEW s \in WizardState, Earned(s, keyless'), SetState(t, s),
         connected' \in [Tab -> Account \cup {NoAccount}],
         keyless \subseteq keyless', keyless' # {} => legacy
  PROVE  WizardInv'
BY DEF WizardInv, StepsEarned, SetState, saveWizardState, Earned

\* The same when no key was answered.
LEMMA SameKeysKeeps ==
  ASSUME WizardInv, NEW t \in Tab, NEW s \in WizardState, Earned(s, keyless), SetState(t, s),
         connected' \in [Tab -> Account \cup {NoAccount}], UNCHANGED keyless
  PROVE  WizardInv'
<1>1. Earned(s, keyless') /\ keyless \subseteq keyless' /\ (keyless' # {} => legacy)
  BY DEF WizardInv, StepsEarned
<1> QED
  BY <1>1, SetStateKeeps

\* Mounting a tab's wizard.
LEMMA MountKeeps ==
  ASSUME WizardInv, NEW t \in Tab, NEW a \in Account \cup {NoAccount}, Mount(t, a),
         connected' \in [Tab -> Account \cup {NoAccount}], UNCHANGED <<keyless, legacy>>
  PROVE  WizardInv'
<1> DEFINE s == IF legacy THEN loadWizardState ELSE PickUp(loadWizardState, a)
<1>0. loadWizardState \in WizardState /\ Earned(loadWizardState, keyless)
  BY InitialEarned DEF loadWizardState, WizardInv, StepsEarned
<1>1. s \in WizardState /\ Earned(s, keyless)
  BY <1>0, PickUpEarned
<1>2. wizard' = [wizard EXCEPT ![t] = s] /\ stored' \in {stored, s}
  BY DEF Mount, saveWizardState, WizardInv
<1> HIDE DEF s
<1> QED
  BY <1>1, <1>2 DEF WizardInv, StepsEarned, Earned

\* Every step of the wizard, in any tab, keeps the invariant.
LEMMA WizardInvStep == WizardInv /\ [WizardNext]_wizardVars => WizardInv'
<1> SUFFICES ASSUME WizardInv, [WizardNext]_wizardVars PROVE WizardInv'
  OBVIOUS
<1>1. ASSUME NEW t \in Tab, openWizard(t) PROVE WizardInv'
  <2>1. connected[t] \in Account \cup {NoAccount} /\ Mount(t, connected[t]) /\ UNCHANGED <<connected, keyless, legacy>>
    BY <1>1 DEF openWizard, WizardInv
  <2> QED
    BY <2>1, MountKeeps DEF WizardInv
<1>2. ASSUME NEW t \in Tab, LoadTab(t) PROVE WizardInv'
  <2>1. connected' \in [Tab -> Account \cup {NoAccount}]
    BY <1>2 DEF LoadTab, WizardInv
  <2>2. CASE legacy \/ ~isOnboardingComplete
    <3>1. Mount(t, NoAccount) /\ UNCHANGED <<keyless, legacy>>
      BY <1>2, <2>2 DEF LoadTab
    <3> QED
      BY <3>1, <2>1, MountKeeps
  <2>3. CASE ~(legacy \/ ~isOnboardingComplete)
    BY <1>2, <2>1, <2>3 DEF LoadTab, WizardInv, StepsEarned, Earned
  <2> QED
    BY <2>2, <2>3
<1>3. ASSUME NEW t \in Tab, NEW a \in Account \cup {NoAccount}, WalletChanges(t, a) PROVE WizardInv'
  <2>1. connected' \in [Tab -> Account \cup {NoAccount}]
    BY <1>3 DEF WalletChanges, WizardInv
  <2>2. CASE shown[t]
    <3>1. SetState(t, PickUp(wizard[t], a)) /\ UNCHANGED keyless
      BY <1>3, <2>2 DEF WalletChanges
    <3>2. wizard[t] \in WizardState /\ Earned(wizard[t], keyless)
      BY DEF WizardInv, StepsEarned
    <3>3. PickUp(wizard[t], a) \in WizardState /\ Earned(PickUp(wizard[t], a), keyless)
      BY <3>2, PickUpEarned
    <3> QED
      BY <2>1, <3>1, <3>3, SameKeysKeeps
  <2>3. CASE ~shown[t]
    BY <1>3, <2>1, <2>3 DEF WalletChanges, WizardInv, StepsEarned, Earned
  <2> QED
    BY <2>2, <2>3
<1>4. ASSUME NEW t \in Tab, NEW a \in Account \cup {NoAccount}, ConnectAnswers(t, a) PROVE WizardInv'
  <2> DEFINE s == [wizard[t] EXCEPT !.wallet = a, !.step = 1]
  <2>1. wizard[t] \in WizardState /\ 1 \in 0 .. 3 /\ ~(1 > 1) /\ ~(1 > 2)
    BY DEF WizardInv
  <2>2. a # NoAccount \/ keyless' # {}
    BY <1>4 DEF ConnectAnswers
  <2>3. s \in WizardState /\ Earned(s, keyless')
    BY <2>1, <2>2, WalletUpdate
  <2>4. SetState(t, s) /\ UNCHANGED connected /\ keyless \subseteq keyless' /\ legacy
    BY <1>4 DEF ConnectAnswers
  <2> HIDE DEF s
  <2> QED
    BY <2>3, <2>4, SetStateKeeps DEF WizardInv
<1>5. ASSUME NEW t \in Tab, handleVerifyAddress(t) PROVE WizardInv'
  <2> DEFINE s == [wizard[t] EXCEPT !.verified = TRUE, !.step = 2]
  <2>1. /\ wizard[t] \in WizardState /\ Earned(wizard[t], keyless)
        /\ 2 \in 0 .. 3 /\ wizard[t].step = 1 /\ wizard[t].wallet # NoAccount
    BY <1>5 DEF handleVerifyAddress, WizardInv, StepsEarned
  <2>2. s \in WizardState
    BY <2>1, Zenon DEF WizardState
  <2>3. /\ s.step = 2 /\ s.wallet = wizard[t].wallet /\ s.verified
        /\ s.created = wizard[t].created
    BY <2>1 DEF WizardState
  <2>4. SetState(t, s) /\ UNCHANGED <<connected, keyless>>
    BY <1>5 DEF handleVerifyAddress, Click
  <2> HIDE DEF s
  <2>5. Earned(s, keyless)
    BY <2>1, <2>3 DEF Earned
  <2> QED
    BY <2>2, <2>4, <2>5, SameKeysKeeps DEF WizardInv
<1>6. ASSUME NEW t \in Tab, handleCreateInvoice(t) PROVE WizardInv'
  <2> DEFINE s == [wizard[t] EXCEPT !.created = TRUE, !.step = 3]
  <2>1. /\ wizard[t] \in WizardState /\ Earned(wizard[t], keyless)
        /\ 3 \in 0 .. 3 /\ wizard[t].step = 2
    BY <1>6 DEF handleCreateInvoice, WizardInv, StepsEarned
  <2>2. s \in WizardState
    BY <2>1, Zenon DEF WizardState
  <2>3. /\ s.step = 3 /\ s.wallet = wizard[t].wallet /\ s.created
        /\ s.verified = wizard[t].verified
    BY <2>1 DEF WizardState
  <2>4. SetState(t, s) /\ UNCHANGED <<connected, keyless>>
    BY <1>6 DEF handleCreateInvoice, Click
  <2> HIDE DEF s
  <2>5. Earned(s, keyless)
    BY <2>1, <2>3 DEF Earned
  <2> QED
    BY <2>2, <2>4, <2>5, SameKeysKeeps DEF WizardInv
<1>7. ASSUME NEW t \in Tab, handleNext(t) PROVE WizardInv'
  <2> DEFINE k == wizard[t].step + 1
  <2>1. wizard[t] \in WizardState /\ Earned(wizard[t], keyless) /\ canProceedToNext(wizard[t])
    BY <1>7 DEF handleNext, WizardInv, StepsEarned
  <2>2. /\ k \in 0 .. 3
        /\ k > 0 => wizard[t].wallet # NoAccount \/ keyless # {}
    BY <2>1 DEF canProceedToNext, WizardState, Earned
  <2>3. (k > 1 => wizard[t].verified) /\ (k > 2 => wizard[t].created)
    BY <2>1 DEF canProceedToNext, WizardState, Earned
  <2>4. SetState(t, [wizard[t] EXCEPT !.step = k]) /\ UNCHANGED <<connected, keyless>>
    BY <1>7, <2>1 DEF handleNext, Click, WizardState
  <2> HIDE DEF k
  <2>5. [wizard[t] EXCEPT !.step = k] \in WizardState /\ Earned([wizard[t] EXCEPT !.step = k], keyless)
    BY <2>1, <2>2, <2>3, StepUpdate
  <2> QED
    BY <2>4, <2>5, SameKeysKeeps DEF WizardInv
<1>8. ASSUME NEW t \in Tab, handleBack(t) PROVE WizardInv'
  <2> DEFINE k == wizard[t].step - 1
  <2>1. wizard[t] \in WizardState /\ Earned(wizard[t], keyless) /\ wizard[t].step > 0
    BY <1>8 DEF handleBack, WizardInv, StepsEarned
  <2>2. /\ k \in 0 .. 3
        /\ k > 0 => wizard[t].wallet # NoAccount \/ keyless # {}
    BY <2>1 DEF WizardState, Earned
  <2>3. (k > 1 => wizard[t].verified) /\ (k > 2 => wizard[t].created)
    BY <2>1 DEF WizardState, Earned
  <2>4. SetState(t, [wizard[t] EXCEPT !.step = k]) /\ UNCHANGED <<connected, keyless>>
    BY <1>8, <2>1 DEF handleBack, Click, WizardState
  <2> HIDE DEF k
  <2>5. [wizard[t] EXCEPT !.step = k] \in WizardState /\ Earned([wizard[t] EXCEPT !.step = k], keyless)
    BY <2>1, <2>2, <2>3, StepUpdate
  <2> QED
    BY <2>4, <2>5, SameKeysKeeps DEF WizardInv
<1>9. ASSUME NEW t \in Tab, handleFinish(t) PROVE WizardInv'
  BY <1>9, InitialEarned DEF handleFinish, clearWizardState, saveWizardState, WizardInv, StepsEarned, Earned
<1>10. ASSUME NEW t \in Tab, closeWizard(t) \/ handleConnectWallet(t) \/ ConnectFails(t)
       PROVE  WizardInv'
  BY <1>10 DEF closeWizard, handleConnectWallet, ConnectFails, WizardInv, StepsEarned, Earned
<1>11. CASE UNCHANGED wizardVars
  BY <1>11 DEF wizardVars, WizardInv, StepsEarned, Earned
<1> QED
  BY <1>1, <1>2, <1>3, <1>4, <1>5, <1>6, <1>7, <1>8, <1>9, <1>10, <1>11 DEF WizardNext

\* No step of the wizard is skipped, for any number of tabs and accounts, but for the
\* first of a legacy wizard whose extension answered without an address (components/
\* OnboardingWizard of both frontends).
THEOREM StepsAlwaysEarned == WizardSpec => []StepsEarned
<1>1. WizardInit => WizardInv
  BY InitialEarned DEF WizardInit, WizardInv, StepsEarned
<1>2. WizardInv => StepsEarned
  BY DEF WizardInv
<1> QED
  BY <1>1, <1>2, WizardInvStep, PTL DEF WizardSpec

-----------------------------------------------------------------------------
(* The forms that write (AdminScreens).                                    *)

\* What a screen's table must say: every write sets a flag that disables every write,
\* and no load sets, and so clears, a flag of a write.
GuardedScreen(S) ==
  /\ \A w \in S.writes :
       /\ w.kind = "write" /\ w.closes # "card"
       /\ \A v \in S.writes : w.sets \cap v.disabledBy # {}
       /\ \A r \in S.reads \cup S.atMount : w.sets \cap r.sets = {}
  /\ \A r \in S.reads \cup S.atMount : r.kind = "read" /\ r.closes # "card"

\* While a write is under way its flags are set, and it is the only one.
FormInv ==
  /\ mounted \in DOMAIN Screen
  /\ mounted \notin Unguarded =>
       /\ \A h \in running :
            \/ h.b \in Here.writes /\ h.at \in {"writing", "reloading"} /\ h.b.sets \subseteq busy
            \/ h.b \in Here.reads \cup Here.atMount /\ h.at = "loading"
       /\ \A h1, h2 \in running : h1.b \in Here.writes /\ h2.b \in Here.writes => h1 = h2

\* The tables of the guarded screens, one by one.
LEMMA ScreensGuarded ==
  ASSUME NEW s \in DOMAIN Screen, s \notin Unguarded
  PROVE  GuardedScreen(Screen[s])
<1> USE DEF GuardedScreen, Write, Read
<1>1. GuardedScreen(TokenAllowlist)
  BY DEF TokenAllowlist, handleAddConfirmed, handleRemoveConfirmed, loadTokens, tokenBusy
<1>2. GuardedScreen(ComplianceManager)
  BY DEF ComplianceManager, submitAction, complianceBusy, handleFetchStatus
<1>3. GuardedScreen(ApiKeyManagement)
  BY DEF ApiKeyManagement, handleCreate, handleRotateConfirm, handleRevokeConfirm, keyBusy, loadKeys
<1>4. GuardedScreen(CreateInvoice) /\ GuardedScreen(RaiseDispute)
  BY DEF CreateInvoice, RaiseDispute, submitForm
<1>5. GuardedScreen(ThresholdConfig)
  BY DEF ThresholdConfig, handleThresholdSave
<1>6. GuardedScreen(TreasuryManagerPage)
  BY DEF TreasuryManagerPage, postTreasuryAction, handleLoadBalances
<1>7. GuardedScreen(DisputeCard)
  BY DEF DisputeCard, voteDispute, fetchDisputes
<1>8. s \in {"tokens", "compliance", "keys", "create", "dispute", "threshold",
             "treasuryPage", "disputes"}
  BY DEF Screen, Unguarded
<1> HIDE DEF GuardedScreen
<1> QED
  BY <1>1, <1>2, <1>3, <1>4, <1>5, <1>6, <1>7, <1>8 DEF Screen

\* A freshly mounted screen only loads.
LEMMA FormInvInit == ScreensInit => FormInv
<1> SUFFICES ASSUME ScreensInit PROVE FormInv
  OBVIOUS
<1>1. mounted \in DOMAIN Screen
  BY DEF ScreensInit
<1>2. ASSUME mounted \notin Unguarded
      PROVE  /\ \A h \in running : h.b \in Here.atMount /\ h.at = "loading"
             /\ \A h \in running : h.b \notin Here.writes
  <2>1. GuardedScreen(Here)
    BY <1>1, <1>2, ScreensGuarded DEF Here
  <2>2. \A h \in running : h.b \in Here.atMount /\ h.at = "loading"
    BY DEF ScreensInit
  <2> QED
    BY <2>1, <2>2 DEF GuardedScreen
<1> QED
  BY <1>1, <1>2 DEF FormInv

\* Starting a handler: a write only when no write's flag is set.
LEMMA StartKeepsForms ==
  ASSUME FormInv, NEW b, Start(b), mounted \notin Unguarded
  PROVE  FormInv'
<1> DEFINE g == [b |-> b, n |-> started + 1, at |-> IF b.kind = "write" THEN "writing" ELSE "loading"]
<1>1. GuardedScreen(Here) /\ Here' = Here /\ mounted' = mounted
  BY ScreensGuarded DEF FormInv, Here, Start
<1>2. /\ b \in Here.writes \cup Here.reads /\ b.disabledBy \cap busy = {}
      /\ running' = running \cup {g} /\ busy' = (busy \ Cleared(b)) \cup b.sets
  BY DEF Start
<1>3. b.closes # "card"
  BY <1>1, <1>2 DEF GuardedScreen
<1>4. busy \subseteq busy' /\ b.sets \subseteq busy'
  BY <1>2, <1>3 DEF Cleared
<1>5. /\ g.b = b
      /\ b \in Here.writes => g.at = "writing"
      /\ b \notin Here.writes => b \in Here.reads /\ g.at = "loading"
  BY <1>1, <1>2 DEF GuardedScreen
<1> HIDE DEF g
<1>6. b \in Here.writes => \A h \in running : h.b \notin Here.writes
  <2> SUFFICES ASSUME b \in Here.writes, NEW h \in running, h.b \in Here.writes PROVE FALSE
    OBVIOUS
  <2>1. h.b.sets \subseteq busy
    <3>1. h.b \notin Here.reads \cup Here.atMount
      BY <1>1 DEF GuardedScreen
    <3> QED
      BY <3>1 DEF FormInv
  <2>2. h.b.sets \cap b.disabledBy # {}
    BY <1>1 DEF GuardedScreen
  <2> QED
    BY <1>2, <2>1, <2>2
<1>7. \A h \in running' :
        \/ h.b \in Here.writes /\ h.at \in {"writing", "reloading"} /\ h.b.sets \subseteq busy'
        \/ h.b \in Here.reads \cup Here.atMount /\ h.at = "loading"
  BY <1>2, <1>4, <1>5 DEF FormInv
<1>8. \A h1, h2 \in running' : h1.b \in Here.writes /\ h2.b \in Here.writes => h1 = h2
  BY <1>2, <1>5, <1>6 DEF FormInv
<1> QED
  BY <1>1, <1>7, <1>8 DEF FormInv

\* A handler that returns takes its own flags down: a load none of a write's, and a
\* write is the only one.
LEMMA ReturnKeepsForms ==
  ASSUME FormInv, NEW h \in running, NEW flags, Return(h, flags), mounted \notin Unguarded,
         mounted' = mounted, h.at = "loading" => flags = h.b.sets
  PROVE  FormInv'
<1>1. GuardedScreen(Here) /\ Here' = Here
  BY ScreensGuarded DEF FormInv, Here
<1>2. running' = running \ {h} /\ busy' = busy \ flags
  BY DEF Return
<1>3. ASSUME NEW g \in running'
      PROVE  \/ g.b \in Here.writes /\ g.at \in {"writing", "reloading"} /\ g.b.sets \subseteq busy'
             \/ g.b \in Here.reads \cup Here.atMount /\ g.at = "loading"
  <2>1. g \in running /\ g # h
    BY <1>2
  <2>2. CASE g.b \in Here.writes
    <3>1. g.at \in {"writing", "reloading"} /\ g.b.sets \subseteq busy
      <4>1. g.b \notin Here.reads \cup Here.atMount
        BY <1>1, <2>2 DEF GuardedScreen
      <4> QED
        BY <2>1, <4>1 DEF FormInv
    <3>2. h.b \notin Here.writes
      BY <2>1, <2>2 DEF FormInv
    <3>3. h.b \in Here.reads \cup Here.atMount /\ flags = h.b.sets
      BY <3>2 DEF FormInv
    <3>4. g.b.sets \cap flags = {}
      BY <1>1, <2>2, <3>3 DEF GuardedScreen
    <3> QED
      BY <1>2, <2>2, <3>1, <3>4
  <2>3. CASE g.b \notin Here.writes
    BY <2>1, <2>3 DEF FormInv
  <2> QED
    BY <2>2, <2>3
<1>4. \A h1, h2 \in running' : h1.b \in Here.writes /\ h2.b \in Here.writes => h1 = h2
  BY <1>2 DEF FormInv
<1> QED
  BY <1>1, <1>3, <1>4 DEF FormInv

LEMMA FormInvStep == FormInv /\ [ScreensNext]_screenVars => FormInv'
<1> SUFFICES ASSUME FormInv, [ScreensNext]_screenVars PROVE FormInv'
  OBVIOUS
<1>0. mounted' = mounted
  BY DEF ScreensNext, ShowDialog, CancelDialog, Start, WriteThenReload, WriteSucceeds, WriteFails,
         ReloadEnds, LoadEnds, screenVars
<1>1. CASE mounted \in Unguarded
  BY <1>0, <1>1 DEF FormInv
<1>2. ASSUME mounted \notin Unguarded,
             (\E d \in Here.dialogs : ShowDialog(d) \/ CancelDialog(d)) \/ UNCHANGED screenVars
      PROVE  FormInv'
  <2>1. mounted' = mounted /\ running' = running /\ busy' = busy
    BY <1>2 DEF ShowDialog, CancelDialog, screenVars
  <2> QED
    BY <2>1 DEF FormInv, Here
<1>3. ASSUME mounted \notin Unguarded, NEW b \in Here.writes \cup Here.reads, Start(b) PROVE FormInv'
  BY <1>3, StartKeepsForms
<1>4. ASSUME mounted \notin Unguarded, NEW h \in running, WriteThenReload(h) PROVE FormInv'
  <2> DEFINE g == [h EXCEPT !.at = "reloading"]
  <2>1. GuardedScreen(Here) /\ Here' = Here
    BY <1>0, <1>4, ScreensGuarded DEF FormInv, Here
  <2>2. running' = (running \ {h}) \cup {g} /\ busy \subseteq busy' /\ h.at = "writing"
    BY <1>4 DEF WriteThenReload
  <2>3. h.b \in Here.writes /\ h.b.sets \subseteq busy
    BY <1>4, <2>2 DEF FormInv
  <2>4. g.b = h.b /\ g.at = "reloading"
    OBVIOUS
  <2> HIDE DEF g
  <2>5. \A k \in running : k # h => k.b \notin Here.writes
    BY <1>4, <2>3 DEF FormInv
  <2>6. \A k \in running' :
          \/ k.b \in Here.writes /\ k.at \in {"writing", "reloading"} /\ k.b.sets \subseteq busy'
          \/ k.b \in Here.reads \cup Here.atMount /\ k.at = "loading"
    BY <1>4, <2>2, <2>3, <2>4, <2>5 DEF FormInv
  <2>7. \A h1, h2 \in running' : h1.b \in Here.writes /\ h2.b \in Here.writes => h1 = h2
    BY <2>2, <2>5
  <2> QED
    BY <1>0, <2>1, <2>6, <2>7 DEF FormInv
<1>5. ASSUME mounted \notin Unguarded, NEW h \in running,
             WriteSucceeds(h) \/ WriteFails(h) \/ ReloadEnds(h) \/ LoadEnds(h)
      PROVE  FormInv'
  <2>1. \E flags : Return(h, flags) /\ (h.at = "loading" => flags = h.b.sets)
    BY <1>5 DEF WriteSucceeds, WriteFails, ReloadEnds, LoadEnds
  <2> QED
    BY <1>0, <1>5, <2>1, ReturnKeepsForms
<1> QED
  BY <1>1, <1>2, <1>3, <1>4, <1>5 DEF ScreensNext

\* On every screen but the treasury, the signers and the grace window, a second write
\* cannot be started while one is under way, for any number of handlers, loads and dialogs in between: a
\* write holds a flag that disables every write of its screen until its own "finally",
\* and no load clears that flag.
THEOREM WritesNeverOverlap == ScreensSpec => []OneWriteAtATime
<1>1. FormInv => OneWriteAtATime
  <2> SUFFICES ASSUME FormInv, mounted \notin Unguarded, NEW h1 \in running, NEW h2 \in running,
                      h1.b.kind = "write", h2.b.kind = "write"
               PROVE  h1 = h2
    BY DEF OneWriteAtATime
  <2>1. GuardedScreen(Here)
    BY ScreensGuarded DEF FormInv, Here
  <2>2. h1.b \in Here.writes /\ h2.b \in Here.writes
    BY <2>1 DEF FormInv, GuardedScreen
  <2> QED
    BY <2>2 DEF FormInv
<1> QED
  BY <1>1, FormInvInit, FormInvStep, PTL DEF ScreensSpec
=============================================================================
