---------------------------- MODULE ExpiryBatch ----------------------------
(***************************************************************************)
(* The screen that expires several invoices in one transaction               *)
(* (components/BatchExpireInvoices.tsx).  Loading fetches the typed ids one   *)
(* after the other; a confirmed batch is sent, then every invoice is read    *)
(* again.  Both go on while the user clicks.  The ledger is external.        *)
(***************************************************************************)
EXTENDS Naturals

CONSTANT BatchInvoice   \* the invoices whose ids the user may type

VARIABLES
  onLedger,   \* onLedger[i]: "Pending", or "Other" when it can no longer expire
  rows,       \* invoices: the rows shown, a function from ids to statuses
  ticked,     \* selected
  confirming, \* confirmation: [show, ids]
  loadRun,    \* the load under way: ids left to fetch, rows fetched, busy (loadingIds)
  batchRun    \* the batch under way: its ids, the ids left to verify and the stage

batchVars == <<onLedger, rows, ticked, confirming, loadRun, batchRun>>

NoRows == [i \in {} |-> "Pending"]
NoDialog == [show |-> FALSE, ids |-> {}]
NoLoad == [busy |-> FALSE, left |-> {}, rows |-> NoRows]
NoBatch == [at |-> "none", ids |-> {}, left |-> {}]

BatchInit ==
  /\ onLedger = [i \in BatchInvoice |-> "Pending"]
  /\ rows = NoRows /\ ticked = {} /\ confirming = NoDialog
  /\ loadRun = NoLoad /\ batchRun = NoBatch

submittingBatch == batchRun.at # "none"

pendingInvoices == {i \in DOMAIN rows : rows[i] = "Pending"}

\* The buttons and checkboxes that can be used.  The dialog covers the others.
LoadButton == ~loadRun.busy /\ ~confirming.show
SelectAllBox == DOMAIN rows # {} /\ ~confirming.show
RowBox(i) == i \in pendingInvoices /\ ~confirming.show
ExpireButton == DOMAIN rows # {} /\ ticked # {} /\ ~submittingBatch /\ ~confirming.show
ConfirmButton == confirming.show /\ ~submittingBatch

\* The Load button clears the screen and starts fetching; it does not ask whether a
\* batch is being submitted.  No valid id ends it at once.
handleLoadInvoices(ids) ==
  /\ LoadButton
  /\ rows' = NoRows /\ ticked' = {} /\ confirming' = NoDialog
  /\ loadRun' = IF ids = {} THEN NoLoad ELSE [busy |-> TRUE, left |-> ids, rows |-> NoRows]
  /\ UNCHANGED <<onLedger, batchRun>>

\* One fetchInvoice of the load answers, or fails and the id is skipped.
LoadOne(i, found) ==
  /\ i \in loadRun.left
  /\ loadRun' = [loadRun EXCEPT !.left = @ \ {i},
       !.rows = IF found THEN [j \in DOMAIN @ \cup {i} |-> IF j = i THEN onLedger[i] ELSE @[j]] ELSE @]
  /\ UNCHANGED <<onLedger, rows, ticked, confirming, batchRun>>

BatchLoadEnds ==
  /\ loadRun.busy /\ loadRun.left = {}
  /\ rows' = loadRun.rows /\ loadRun' = NoLoad
  /\ UNCHANGED <<onLedger, ticked, confirming, batchRun>>

toggleSelectAll ==
  /\ SelectAllBox
  /\ ticked' = IF pendingInvoices # {} /\ pendingInvoices \subseteq ticked THEN {} ELSE pendingInvoices
  /\ UNCHANGED <<onLedger, rows, confirming, loadRun, batchRun>>

toggleSelect(i) ==
  /\ RowBox(i)
  /\ ticked' = IF i \in ticked THEN ticked \ {i} ELSE ticked \cup {i}
  /\ UNCHANGED <<onLedger, rows, confirming, loadRun, batchRun>>

\* A button that stays enabled while a batch is being submitted.
Mut_handleShowConfirmation ==
  /\ DOMAIN rows # {} /\ ticked # {} /\ ~confirming.show
  /\ confirming' = [show |-> TRUE, ids |-> ticked]
  /\ UNCHANGED <<onLedger, rows, ticked, loadRun, batchRun>>

handleShowConfirmation ==
  /\ ExpireButton
  /\ confirming' = [show |-> TRUE, ids |-> ticked]
  /\ UNCHANGED <<onLedger, rows, ticked, loadRun, batchRun>>

handleCancelConfirmation ==
  /\ confirming.show /\ confirming' = NoDialog
  /\ UNCHANGED <<onLedger, rows, ticked, loadRun, batchRun>>

\* What is submitted is the selection, not the list in the dialog.
handleBatchExpire ==
  /\ ConfirmButton /\ ticked # {}
  /\ batchRun' = [at |-> "sending", ids |-> ticked, left |-> {}]
  /\ confirming' = NoDialog
  /\ UNCHANGED <<onLedger, rows, ticked, loadRun>>

\* batchExpireInvoices returns once the transaction is sent, or with an error.
BatchSent ==
  /\ batchRun.at = "sending"
  /\ batchRun' = [batchRun EXCEPT !.at = "verifying", !.left = batchRun.ids]
  /\ UNCHANGED <<onLedger, rows, ticked, confirming, loadRun>>

BatchFails ==
  /\ batchRun.at = "sending" /\ batchRun' = NoBatch
  /\ UNCHANGED <<onLedger, rows, ticked, confirming, loadRun>>

\* One invoice of the batch is read again and its row, if there still is one, updated.
VerifyOne(i, found) ==
  /\ i \in batchRun.left
  /\ batchRun' = [batchRun EXCEPT !.left = @ \ {i}]
  /\ rows' = IF found /\ i \in DOMAIN rows THEN [rows EXCEPT ![i] = onLedger[i]] ELSE rows
  /\ UNCHANGED <<onLedger, ticked, confirming, loadRun>>

BatchEnds ==
  /\ batchRun.at = "verifying" /\ batchRun.left = {}
  /\ batchRun' = NoBatch /\ ticked' = {}
  /\ UNCHANGED <<onLedger, rows, confirming, loadRun>>

\* External: the batch lands, or someone else pays, cancels or expires the invoice.
LedgerMoves(i) ==
  /\ onLedger[i] = "Pending" /\ onLedger' = [onLedger EXCEPT ![i] = "Other"]
  /\ UNCHANGED <<rows, ticked, confirming, loadRun, batchRun>>

BatchNext ==
  \/ \E ids \in SUBSET BatchInvoice : handleLoadInvoices(ids)
  \/ \E i \in BatchInvoice :
       \/ \E found \in BOOLEAN : LoadOne(i, found) \/ VerifyOne(i, found)
       \/ toggleSelect(i) \/ LedgerMoves(i)
  \/ BatchLoadEnds \/ toggleSelectAll
  \/ handleShowConfirmation \/ handleCancelConfirmation \/ handleBatchExpire
  \/ BatchSent \/ BatchFails \/ BatchEnds

BatchSpec == BatchInit /\ [][BatchNext]_batchVars

-----------------------------------------------------------------------------
\* What the user confirms is what is submitted: while the dialog lists invoices, no
\* load, and no end of a batch that is still being verified, changes the selection
\* under it, and every invoice listed still has its row on the screen.
DialogListsSelection ==
  confirming.show => confirming.ids = ticked /\ ticked # {} /\ ticked \subseteq DOMAIN rows

\* With what keeps it so: a dialog excludes a batch and a load, a load empties the screen.
BatchInv ==
  /\ DialogListsSelection
  /\ ticked \subseteq DOMAIN rows
  /\ confirming.show => ~submittingBatch
  /\ loadRun.busy => DOMAIN rows = {}
=============================================================================
