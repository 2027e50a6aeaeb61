------------------------------ MODULE MCScreens ------------------------------
(***************************************************************************)
(* Eight parts of the two frontends that share no state with one another,    *)
(* for TLC.  A behaviour of all of them, seen through the variables of one   *)
(* part, is a behaviour of that part with stuttering, so it is enough to let *)
(* one part move at a time: "part" is chosen once, in the initial state.     *)
(***************************************************************************)
EXTENDS WalletStore, Checkout, InvoiceList, ExpiryBatch, HoldQueue, ApprovalList, AdminScreens,
        Onboarding

VARIABLE part

\* Two settlements on the first page, one on the second.
TwoPages == <<{"h1", "h2"}, {"h3"}>>

\* Two signers' buttons of one settlement.
OneSettlement == [first |-> "s1", second |-> "s1"]

screensVars ==
  <<part, walletVars, checkoutVars, listVars, batchVars, holdVars, approvalVars, screenVars,
    wizardVars>>

PartsInit ==
  /\ part \in {"wallet", "checkout", "list", "batch", "holds", "approvals", "admin", "wizard"}
  /\ WalletInit /\ CheckoutInit /\ ListInit /\ BatchInit /\ HoldInit /\ ApprovalInit /\ ScreensInit
  /\ WizardInit
  /\ part # "wallet" => ~installed
  /\ part = "checkout" => (ledger["i2"] = "Pending" => ledger["i1"] = "Pending")  \* they are alike
  /\ part # "checkout" => screen = "payment" /\ storageWorks /\ \A i \in CheckoutInvoice : ledger[i] = "Paid"
  /\ part # "holds" => onHold = {}
  /\ part # "admin" => mounted = "tokens"
  /\ part # "wizard" => ~legacy /\ ~blocked

PartsNext ==
  /\ \/ /\ part = "wallet" /\ WalletNext
        /\ UNCHANGED <<checkoutVars, listVars, batchVars, holdVars, approvalVars, screenVars, wizardVars>>
     \/ /\ part = "checkout" /\ CheckoutNext
        /\ UNCHANGED <<walletVars, listVars, batchVars, holdVars, approvalVars, screenVars, wizardVars>>
     \/ /\ part = "list" /\ ListNext
        /\ UNCHANGED <<walletVars, checkoutVars, batchVars, holdVars, approvalVars, screenVars, wizardVars>>
     \/ /\ part = "batch" /\ BatchNext
        /\ UNCHANGED <<walletVars, checkoutVars, listVars, holdVars, approvalVars, screenVars, wizardVars>>
     \/ /\ part = "holds" /\ HoldNext
        /\ UNCHANGED <<walletVars, checkoutVars, listVars, batchVars, approvalVars, screenVars, wizardVars>>
     \/ /\ part = "approvals" /\ ApprovalNext
        /\ UNCHANGED <<walletVars, checkoutVars, listVars, batchVars, holdVars, screenVars, wizardVars>>
     \/ /\ part = "admin" /\ ScreensNext
        /\ UNCHANGED <<walletVars, checkoutVars, listVars, batchVars, holdVars, approvalVars, wizardVars>>
     \/ /\ part = "wizard" /\ WizardNext
        /\ UNCHANGED <<walletVars, checkoutVars, listVars, batchVars, holdVars, approvalVars, screenVars>>
  /\ UNCHANGED part

PartsSpec ==
  /\ PartsInit /\ [][PartsNext]_screensVars
  /\ part = "approvals" => ApprovalFairness

-----------------------------------------------------------------------------
\* The list of approvals shows the server's weights in the end (see ApprovalList).
ApprovalsConverge == part = "approvals" => ListConverges
=============================================================================
