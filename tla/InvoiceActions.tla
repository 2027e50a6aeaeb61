--------------------------- MODULE InvoiceActions ---------------------------
(***************************************************************************)
(* What the backend does to one existing invoice: POST cancel and refund     *)
(* (routes/invoice-actions.ts), POST release-escrow (routes/release-         *)
(* escrow.ts) and GET /invoices/:id, which copies the contract's status into *)
(* the row (syncInvoiceStatus, routes/invoices.ts), while the indexer writes *)
(* the same row and other clients use the same contract.                     *)
(*                                                                           *)
(* A status is read in one step and acted on in a later one.  The contract   *)
(* checks again when a transaction lands, so a transaction never does what   *)
(* the contract forbids; what the API answers, and what the row is left      *)
(* with, is another matter.                                                  *)
(***************************************************************************)
EXTENDS Naturals, Sequences

CONSTANTS
  Actor,          \* POST requests, each made once
  Reader,         \* GET requests, repeated
  MaxReadFaults   \* bound on failing contract reads

ASSUME ActionsAssumption == MaxReadFaults \in Nat

VARIABLES
  chainStatus,    \* get_invoice_status
  events,         \* the contract's events the indexer has not applied yet
  pastDue,        \* due_date lies in the past
  rowStatus,      \* the row's status
  actor,          \* actor[r]: its step, action, status read, tx's effect and answer
  reader,         \* reader[r]: its step and the status read
  readFaults

actionVars == <<chainStatus, events, pastDue, rowStatus, actor, reader, readFaults>>

Status == {"Pending", "Paid", "Expired", "Cancelled", "RefundRequested", "Released"}

\* The contract's edges (external): who asks for them is not told apart here.
ContractEdge ==
  {<<"pay", "Pending", "Paid">>, <<"expire", "Pending", "Expired">>,
   <<"cancel_invoiced", "Pending", "Cancelled">>, <<"cancel_invoiced", "Paid", "RefundRequested">>,
   <<"request_refund", "Paid", "RefundRequested">>,
   <<"release_escrow", "RefundRequested", "Released">>}

Accepts(action) == \E edge \in ContractEdge : edge[1] = action /\ edge[2] = chainStatus

\* The statuses that the indexer copies from the event that reports them.
IndexedStatus == {"Paid", "Expired", "Cancelled", "Released"}

ActionsInit ==
  /\ chainStatus = "Pending" /\ events = <<>> /\ pastDue = FALSE /\ rowStatus = "Pending"
  /\ actor = [r \in Actor |-> [at |-> "idle", action |-> "none", saw |-> "none", effect |-> "none",
                               answer |-> "none"]]
  /\ reader = [r \in Reader |-> [at |-> "idle", saw |-> "none"]]
  /\ readFaults = 0
-----------------------------------------------------------------------------
(* applyInvoiceAction and releaseEscrow.                                     *)

ActorOnly(r, record) ==
  /\ actor' = [actor EXCEPT ![r] = record]
  /\ UNCHANGED <<chainStatus, events, pastDue, rowStatus, reader>>

Answered(r, status) == [actor[r] EXCEPT !.at = "done", !.answer = status]

\* A request is accepted; release-escrow does not read the status first.
StartAction(r) ==
  /\ actor[r].at = "idle"
  /\ \E a \in {"cancel_invoiced", "request_refund", "release_escrow"} :
       ActorOnly(r, [actor[r] EXCEPT !.action = a,
                       !.at = IF a = "release_escrow" THEN "submit" ELSE "read"])
  /\ UNCHANGED readFaults

\* getInvoiceStatus, and the checks on what it returned: a paid invoice is not
\* cancelled, a cancelled one not refunded.
ReadStatus(r) ==
  /\ actor[r].at = "read"
  /\ \/ /\ ActorOnly(r,
             IF \/ actor[r].action = "cancel_invoiced" /\ chainStatus = "Paid"
                \/ actor[r].action = "request_refund" /\ chainStatus = "Cancelled"
               THEN Answered(r, "error")
               ELSE [actor[r] EXCEPT !.saw = chainStatus,
                       !.at = IF actor[r].action = "request_refund" THEN "due" ELSE "submit"])
        /\ UNCHANGED readFaults
     \/ /\ readFaults < MaxReadFaults /\ readFaults' = readFaults + 1
        /\ ActorOnly(r, Answered(r, "error"))

\* isInvoiceExpired reads the row's due date; then only a Paid invoice goes on.
CheckDue(r) ==
  /\ actor[r].at = "due"
  /\ ActorOnly(r, IF pastDue \/ actor[r].saw # "Paid" THEN Answered(r, "error")
                  ELSE [actor[r] EXCEPT !.at = "submit"])
  /\ UNCHANGED readFaults

\* submitContractCall: the simulation refuses what the contract would refuse now.
SubmitAction(r) ==
  /\ actor[r].at = "submit"
  /\ ActorOnly(r, IF Accepts(actor[r].action) THEN [actor[r] EXCEPT !.at = "sent"]
                  ELSE Answered(r, "error"))
  /\ UNCHANGED readFaults

\* The transaction lands, or fails because the contract no longer accepts it.
ApplyAction(r) ==
  /\ actor[r].at \in {"sent", "done"} /\ actor[r].effect = "none" /\ actor[r].answer # "error"
  /\ \/ \E edge \in ContractEdge :
          /\ edge[1] = actor[r].action /\ edge[2] = chainStatus
          /\ chainStatus' = edge[3] /\ events' = Append(events, edge[3])
          /\ actor' = [actor EXCEPT ![r].effect = edge[3]]
     \/ /\ ~Accepts(actor[r].action)
        /\ actor' = [actor EXCEPT ![r].effect = "failed"] /\ UNCHANGED <<chainStatus, events>>
  /\ UNCHANGED <<pastDue, rowStatus, reader, readFaults>>

\* A handler that takes "not found yet" for success.
Mut_ConfirmAction(r) ==
  /\ actor[r].at = "sent"
  /\ ActorOnly(r, Answered(r, IF actor[r].action = "cancel_invoiced" THEN "Cancelled"
                              ELSE IF actor[r].action = "request_refund" THEN "RefundRequested"
                              ELSE "Released"))
  /\ UNCHANGED readFaults

\* The poll finds the outcome, or gives up after ten attempts.  The status it
\* answers comes from what was read before the transaction was sent.
ConfirmAction(r) ==
  /\ actor[r].at = "sent"
  /\ \/ /\ actor[r].effect \notin {"none", "failed"}
        /\ ActorOnly(r, Answered(r,
             CASE actor[r].action = "release_escrow" -> "Released"
               [] actor[r].action = "request_refund" \/ actor[r].saw = "Paid" -> "RefundRequested"
               [] OTHER -> "Cancelled"))
     \/ actor[r].effect \in {"none", "failed"} /\ ActorOnly(r, Answered(r, "error"))
  /\ UNCHANGED readFaults
-----------------------------------------------------------------------------
(* GET /invoices/:id.                                                        *)

ReaderOnly(r, record) ==
  /\ reader' = [reader EXCEPT ![r] = record]
  /\ UNCHANGED <<chainStatus, events, pastDue, actor>>

\* findOne finds the row.
StartGet(r) ==
  /\ reader[r].at = "idle"
  /\ ReaderOnly(r, [at |-> "read", saw |-> "none"])
  /\ UNCHANGED <<rowStatus, readFaults>>

\* syncInvoiceStatus reads the contract; when that fails the row's status is the
\* answer.
ReadForSync(r) ==
  /\ reader[r].at = "read"
  /\ \/ ReaderOnly(r, [at |-> "write", saw |-> chainStatus]) /\ UNCHANGED readFaults
     \/ /\ readFaults < MaxReadFaults /\ readFaults' = readFaults + 1
        /\ ReaderOnly(r, [at |-> "idle", saw |-> "none"])
  /\ UNCHANGED rowStatus

\* A GET that answers the contract's status without storing it.
Mut_SyncWrite(r) ==
  /\ reader[r].at = "write"
  /\ ReaderOnly(r, [at |-> "idle", saw |-> "none"])
  /\ UNCHANGED <<rowStatus, readFaults>>

\* updateOne with the status read earlier, whatever the row says by now.
SyncWrite(r) ==
  /\ reader[r].at = "write"
  /\ rowStatus' = reader[r].saw
  /\ ReaderOnly(r, [at |-> "idle", saw |-> "none"])
  /\ UNCHANGED readFaults
-----------------------------------------------------------------------------
(* The environment: other clients, the clock, the indexer.                   *)

OtherClient ==
  /\ \E edge \in ContractEdge :
       /\ edge[2] = chainStatus
       /\ chainStatus' = edge[3] /\ events' = Append(events, edge[3])
  /\ UNCHANGED <<pastDue, rowStatus, actor, reader, readFaults>>

DuePasses ==
  /\ ~pastDue /\ pastDue' = TRUE
  /\ UNCHANGED <<chainStatus, events, rowStatus, actor, reader, readFaults>>

\* The indexer applies the oldest event (external here, see InvoiceIndexer).
IndexEvent ==
  /\ events # <<>>
  /\ events' = Tail(events)
  /\ rowStatus' = IF Head(events) \in IndexedStatus THEN Head(events) ELSE rowStatus
  /\ UNCHANGED <<chainStatus, pastDue, actor, reader, readFaults>>

ActorStep(r) ==
  StartAction(r) \/ ReadStatus(r) \/ CheckDue(r) \/ SubmitAction(r) \/ ApplyAction(r) \/ ConfirmAction(r)
ReaderStep(r) == StartGet(r) \/ ReadForSync(r) \/ SyncWrite(r)

ActionsNext ==
  \/ \E r \in Actor : ActorStep(r)
  \/ \E r \in Reader : ReaderStep(r)
  \/ OtherClient \/ DuePasses \/ IndexEvent

\* A GET that was started comes to its end, the page that shows the invoice asks
\* again (usePolling of the frontend), and the indexer keeps up.
ActionsFairness ==
  /\ \A r \in Reader : WF_actionVars(ReaderStep(r))
  /\ WF_actionVars(IndexEvent)

ActionsSpec == ActionsInit /\ [][ActionsNext]_actionVars /\ ActionsFairness
-----------------------------------------------------------------------------
(* Properties.                                                               *)

\* An action answered with a status really moved the invoice there, through the
\* very transaction whose hash is returned - with one exception that the code
\* allows: a cancellation that read Pending and lost the race with a payment is
\* answered Cancelled while the contract started a refund
\* (invoice-actions.ts:64,104).
ActionAnswerTrue ==
  \A r \in Actor : actor[r].answer \in Status =>
    \/ actor[r].effect = actor[r].answer
    \/ /\ actor[r].action = "cancel_invoiced" /\ actor[r].answer = "Cancelled"
       /\ actor[r].effect = "RefundRequested"

\* Two writers of one row, each with a status it read earlier, can leave it behind
\* the contract, and no event reports a refund request: yet while somebody keeps
\* looking at the invoice, the row ends up with the contract's status and stays
\* there (syncInvoiceStatus, routes/invoices.ts:543-568).
RowsSettle == <>[](rowStatus = chainStatus)
=============================================================================
