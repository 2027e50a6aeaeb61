---------------------------- MODULE AdminScreens ----------------------------
(***************************************************************************)
(* The forms of both frontends that write to the API or to a contract.  They *)
(* follow one pattern: a button, on the page or in a confirmation dialog,    *)
(* starts a handler; the handler sets a busy flag, awaits the write, reloads *)
(* what the screen lists and clears the flag in a "finally"; flags disable   *)
(* buttons.  Every screen is a table of its buttons, translated from its     *)
(* handlers and from the conditions in its markup; the actions below         *)
(* interpret the tables.  App.tsx keeps every tab's screen mounted and hides  *)
(* the others; no two screens share a flag, a dialog or a list, so each is   *)
(* explored alone.                                                           *)
(***************************************************************************)
EXTENDS Naturals

CONSTANT MaxHandlers   \* bound on the handlers started

ASSUME AdminScreensAssumption == MaxHandlers \in Nat

VARIABLES
  mounted,  \* the screen that is looked at
  busy,     \* the flags that are set
  openDialogs,  \* the dialogs that are open; they cover the page
  running,  \* the handlers that have not returned: their button and stage
  started   \* the number of handlers started

screenVars == <<mounted, busy, openDialogs, running, started>>

NoReload == {"none"}

\* A button whose handler writes: the flags the handler sets, the flags that disable
\* the button, the dialog it stands in, the flags of the reload that follows (or
\* NoReload), and when its dialog closes: with the success, before the reload; or at
\* the end, whatever the outcome.
Write(name, sets, disabledBy, dialog, reload, closes) ==
  [name |-> name, kind |-> "write", sets |-> sets, disabledBy |-> disabledBy,
   dialog |-> dialog, reload |-> reload, closes |-> closes]

\* A button whose handler only loads.
Read(sets, disabledBy) ==
  [name |-> "load", kind |-> "read", sets |-> sets, disabledBy |-> disabledBy,
   dialog |-> "page", reload |-> NoReload, closes |-> "end"]

\* A confirmation dialog: the flags that disable the button that opens it, and those
\* that disable its Cancel.
Dialog(name, opening, cancelling) == [name |-> name, opening |-> opening, cancelling |-> cancelling]

-----------------------------------------------------------------------------
(* The canonical frontend.                                                 *)

loadTokens == Read({"loading"}, {"loading"})

\* Add and Remove stand in one dialog, which neither leaves while either is running.
tokenBusy == {"adding", "removing"}
handleAddConfirmed == Write("add", {"adding"}, tokenBusy, "add", {"loading"}, "success")
handleRemoveConfirmed == Write("remove", {"removing"}, tokenBusy, "remove", {"loading"}, "success")

TokenAllowlist ==
  [writes |-> {handleAddConfirmed, handleRemoveConfirmed}, reads |-> {loadTokens}, atMount |-> {},
   dialogs |-> {Dialog("add", {"adding"}, tokenBusy), Dialog("remove", {}, tokenBusy)}]

complianceBusy == {"loading", "actionSubmitting"}
handleFetchStatus == Read({"loading"}, complianceBusy)

\* handleAllow, handleBlock and handleClear: sign, send, ask for the status again.
submitAction(name, disabledBy) ==
  Write(name, {"actionSubmitting"}, disabledBy, "page", {"loading"}, "end")

\* Buttons that stay enabled while an action is being submitted.
Mut_ComplianceManager ==
  [writes |-> {submitAction(name, {"loading"}) : name \in {"allow", "block", "clear"}},
   reads |-> {handleFetchStatus}, atMount |-> {}, dialogs |-> {}]

ComplianceManager ==
  [writes |-> {submitAction(name, complianceBusy) : name \in {"allow", "block", "clear"}},
   reads |-> {handleFetchStatus}, atMount |-> {}, dialogs |-> {}]

\* The list is loaded when the merchant changes and by Apply, whatever is busy.
loadKeys == Read({"loading"}, {})

\* handleCreate, handleRotateConfirm and handleRevokeConfirm share one flag.
keyBusy == {"actionPending"}
handleCreate == Write("create", keyBusy, keyBusy, "page", {"loading"}, "end")
handleRotateConfirm == Write("rotate", keyBusy, keyBusy, "rotate", {"loading"}, "success")
handleRevokeConfirm == Write("revoke", keyBusy, keyBusy, "revoke", {"loading"}, "success")
ApiKeyDialogs == {Dialog("rotate", keyBusy, keyBusy), Dialog("revoke", keyBusy, keyBusy)}

ApiKeyManagement ==
  [writes |-> {handleCreate, handleRotateConfirm, handleRevokeConfirm},
   reads |-> {loadKeys}, atMount |-> {loadKeys}, dialogs |-> ApiKeyDialogs]

\* A form whose success takes it off the screen until the user starts another.
submitForm(name) == Write(name, {"submitting"}, {"submitting"}, "page", NoReload, "result")
ResultShown == Dialog("result", {"unopened"}, {})

CreateInvoice ==
  [writes |-> {submitForm("create")}, reads |-> {}, atMount |-> {}, dialogs |-> {ResultShown}]

RaiseDispute ==
  [writes |-> {submitForm("raise")}, reads |-> {}, atMount |-> {}, dialogs |-> {ResultShown}]

\* The balances, without a flag of their own: at mount, by a timer and when the tab is
\* shown again, whatever is busy; and by Refresh.
usePolling == Read({"polling"}, {})
handleManualRefresh == Read({}, {"polling"})

\* At mount and when the wallet connects or disconnects.
loadSettlements == Read({}, {})

\* The form: deposits and withdrawals.
handleTreasurySubmit == Write("submit", {"submitting"}, {"submitting"}, "page", {}, "end")

\* Approve or execute a settlement: its cards have one settlementSubmitting for all,
\* which a second card takes over and whichever handler ends first clears.
handleSettlement(card) == Write(card, {card}, {card}, "page", {}, "card")

\* The form and the cards stand on one page and know nothing of each other's flags.
TreasuryManager ==
  [writes |-> {handleTreasurySubmit, handleSettlement("settlement 1"), handleSettlement("settlement 2")},
   reads |-> {usePolling, handleManualRefresh, loadSettlements},
   atMount |-> {usePolling, loadSettlements}, dialogs |-> {}]

fetchSigners == Read({"loading"}, {})
addSigner == Write("add", {"submitting"}, {"submitting"}, "page", NoReload, "end")
rotateSigners == Write("rotate", {"rotatePending"}, {"rotatePending"}, "rotate", {"loading"}, "end")

\* The Remove dialog has no pending state: its buttons stay enabled.
removeSigner == Write("remove", {}, {}, "remove", NoReload, "end")
ConfirmModal == Dialog("remove", {}, {})
RotateConfirmModal == Dialog("rotate", {}, {"rotatePending"})

SignerManagement ==
  [writes |-> {addSigner, removeSigner, rotateSigners},
   reads |-> {}, atMount |-> {fetchSigners}, dialogs |-> {ConfirmModal, RotateConfirmModal}]

(* The dashboard.                                                          *)

handleThresholdSave == Write("save", {"saving"}, {"loading", "saving"}, "page", NoReload, "end")

ThresholdConfig ==
  [writes |-> {handleThresholdSave}, reads |-> {},
   atMount |-> {Read({"loading"}, {}), Read({"signersLoading"}, {})}, dialogs |-> {}]

\* Apply change, in the dialog, stays enabled while the change is being saved.
handleGraceSave == Write("save", {"saving"}, {}, "confirm", NoReload, "end")

GraceWindowSettings ==
  [writes |-> {handleGraceSave}, reads |-> {}, atMount |-> {Read({"loading"}, {})},
   dialogs |-> {Dialog("confirm", {"loading", "saving"}, {})}]

handleLoadBalances == Read({"balLoading"}, {"balLoading"})
postTreasuryAction == Write("submit", {"submitting"}, {"submitting"}, "page", {"balLoading"}, "end")

TreasuryManagerPage ==
  [writes |-> {postTreasuryAction}, reads |-> {handleLoadBalances}, atMount |-> {}, dialogs |-> {}]

\* The disputes are fetched at mount and by a timer, whatever the votes are doing.
fetchDisputes == Read({"loading"}, {})

\* A vote puts the dispute it is answered with into the list: no reload.
voteDispute(side) == Write(side, {"voting"}, {"voting"}, "page", NoReload, "end")

\* One card: both its buttons are disabled while either vote is under way.
DisputeCard ==
  [writes |-> {voteDispute("claimant"), voteDispute("counterparty")},
   reads |-> {fetchDisputes}, atMount |-> {fetchDisputes}, dialogs |-> {}]

Screen ==
  [tokens |-> TokenAllowlist, compliance |-> ComplianceManager, keys |-> ApiKeyManagement,
   create |-> CreateInvoice, dispute |-> RaiseDispute, treasury |-> TreasuryManager,
   signers |-> SignerManagement, threshold |-> ThresholdConfig, grace |-> GraceWindowSettings,
   treasuryPage |-> TreasuryManagerPage, disputes |-> DisputeCard]

-----------------------------------------------------------------------------
Here == Screen[mounted]

\* The cards' flags: one state, the settlement it names.
settlementSubmitting == {w.name : w \in {v \in Here.writes : v.closes = "card"}}

\* The flags a handler clears when it ends.
Cleared(b) == IF b.closes = "card" THEN settlementSubmitting ELSE b.sets

ScreensInit ==
  /\ mounted \in DOMAIN Screen
  /\ running = {[b |-> b, n |-> 0, at |-> "loading"] : b \in Here.atMount}
  /\ busy = UNION {b.sets : b \in Here.atMount}
  /\ openDialogs = {} /\ started = 0

\* The dialog a button stands in is open and nothing covers it.
Reachable(b) == openDialogs = IF b.dialog = "page" THEN {} ELSE {b.dialog}

ShowDialog(d) ==
  /\ d \in Here.dialogs /\ openDialogs = {} /\ d.opening \cap busy = {} /\ d.opening # {"unopened"}
  /\ openDialogs' = {d.name}
  /\ UNCHANGED <<mounted, busy, running, started>>

CancelDialog(d) ==
  /\ d \in Here.dialogs /\ d.name \in openDialogs /\ d.cancelling \cap busy = {}
  /\ openDialogs' = openDialogs \ {d.name}
  /\ UNCHANGED <<mounted, busy, running, started>>

\* A click on an enabled button, or for a load also the effect or timer that calls it.
\* The handler runs to its first await: a request to the API, or a transaction that is
\* simulated, signed in the wallet and sent.
Start(b) ==
  /\ b \in Here.writes \cup Here.reads
  /\ started < MaxHandlers /\ started' = started + 1
  /\ b.kind = "write" => Reachable(b)
  /\ b.disabledBy \cap busy = {}
  /\ running' = running \cup
       {[b |-> b, n |-> started + 1, at |-> IF b.kind = "write" THEN "writing" ELSE "loading"]}
  /\ busy' = (busy \ Cleared(b)) \cup b.sets
  /\ UNCHANGED <<mounted, openDialogs>>

\* The handler returns: "finally" clears its flags.
Return(h, flags) == running' = running \ {h} /\ busy' = busy \ flags

\* The write succeeded and the handler goes on to reload.
WriteThenReload(h) ==
  /\ h \in running /\ h.at = "writing" /\ h.b.reload # NoReload
  /\ running' = (running \ {h}) \cup {[h EXCEPT !.at = "reloading"]}
  /\ busy' = busy \cup h.b.reload
  /\ openDialogs' = IF h.b.closes = "success" THEN openDialogs \ {h.b.dialog} ELSE openDialogs
  /\ UNCHANGED <<mounted, started>>

\* The write succeeded and there is nothing to reload.
WriteSucceeds(h) ==
  /\ h \in running /\ h.at = "writing" /\ h.b.reload = NoReload
  /\ Return(h, Cleared(h.b))
  /\ openDialogs' = IF h.b.closes = "result" THEN {"result"} ELSE openDialogs \ {h.b.dialog}
  /\ UNCHANGED <<mounted, started>>

\* Signing or sending failed, the API answered with an error, the network failed.
WriteFails(h) ==
  /\ h \in running /\ h.at = "writing"
  /\ Return(h, Cleared(h.b))
  /\ openDialogs' = IF h.b.closes = "end" THEN openDialogs \ {h.b.dialog} ELSE openDialogs
  /\ UNCHANGED <<mounted, started>>

\* The reload after a write ended, one way or the other: it has its own "finally".
ReloadEnds(h) ==
  /\ h \in running /\ h.at = "reloading"
  /\ Return(h, Cleared(h.b) \cup h.b.reload)
  /\ openDialogs' = IF h.b.closes = "end" THEN openDialogs \ {h.b.dialog} ELSE openDialogs
  /\ UNCHANGED <<mounted, started>>

LoadEnds(h) ==
  /\ h \in running /\ h.at = "loading"
  /\ Return(h, h.b.sets)
  /\ UNCHANGED <<mounted, openDialogs, started>>

ScreensNext ==
  \/ \E d \in Here.dialogs : ShowDialog(d) \/ CancelDialog(d)
  \/ \E b \in Here.writes \cup Here.reads : Start(b)
  \/ \E h \in running :
       WriteThenReload(h) \/ WriteSucceeds(h) \/ WriteFails(h) \/ ReloadEnds(h) \/ LoadEnds(h)

ScreensSpec == ScreensInit /\ [][ScreensNext]_screenVars

-----------------------------------------------------------------------------
\* The screens on which two writes can be under way: a form beside cards that share
\* one flag (two cards, or a card and a deposit, run side by side), a form beside a
\* dialog without a pending state, and a dialog that stays enabled.
Unguarded == {"treasury", "signers", "grace"}

\* No double submission: on every other screen a write is started only when the last
\* one, its reload included, is over, although flags of loads, dialogs and other
\* buttons are set and cleared in between.
OneWriteAtATime ==
  mounted \notin Unguarded =>
    \A h1, h2 \in running : h1.b.kind = "write" /\ h2.b.kind = "write" => h1 = h2
=============================================================================
