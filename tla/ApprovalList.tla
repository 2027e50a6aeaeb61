---------------------------- MODULE ApprovalList ----------------------------
(***************************************************************************)
(* The dashboard's list of settlements to approve                            *)
(* (hooks/useSettlements.ts, components/SettlementApproval.tsx).  A click    *)
(* raises the shown weight before the server has answered; a failure puts    *)
(* back the whole list as it was at the click; a poll every 15 s replaces it.*)
(* The server is external.                                                   *)
(***************************************************************************)
EXTENDS Naturals

CONSTANTS
  Approval,      \* the approve buttons: a settlement and a signer
  SettlementOf,  \* SettlementOf[a]: the settlement a button approves
  MaxClicks      \* bound on clicks

ASSUME ApprovalListAssumption == MaxClicks \in Nat

VARIABLES
  serverWeight,  \* serverWeight[s]: what the server would answer
  listed,        \* a poll has answered: there are rows, with buttons
  shownWeight,   \* shownWeight[s]: what the list shows
  approving,     \* approving[a]: the click under way: its stage, the list at the click,
                 \* the answer
  fetches,       \* fetches[n]: polls under way, with their answers
  clicks

approvalVars == <<serverWeight, listed, shownWeight, approving, fetches, clicks>>

ApprovedSettlement == {SettlementOf[a] : a \in Approval}
NoWeights == [s \in ApprovedSettlement |-> 0]
NoClick == [at |-> "free", before |-> NoWeights, answer |-> 0]
NoFetch == [at |-> "free", weights |-> NoWeights]

ApprovalInit ==
  /\ serverWeight = NoWeights /\ listed = FALSE /\ shownWeight = NoWeights
  /\ approving = [a \in Approval |-> NoClick]
  /\ fetches = [n \in {1, 2} |-> NoFetch] /\ clicks = 0

\* setInterval does not wait for the last poll's answer: two may be under way.
fetchSettlements(n) ==
  /\ fetches[n] = NoFetch
  /\ fetches' = [fetches EXCEPT ![n].at = "asked"]
  /\ UNCHANGED <<serverWeight, listed, shownWeight, approving, clicks>>

FetchRead(n) ==
  /\ fetches[n].at = "asked"
  /\ fetches' = [fetches EXCEPT ![n] = [at |-> "read", weights |-> serverWeight]]
  /\ UNCHANGED <<serverWeight, listed, shownWeight, approving, clicks>>

\* A poll whose answer counts only while nothing is shown.
Mut_FetchArrives(n) ==
  /\ fetches[n].at = "read"
  /\ listed' = TRUE
  /\ shownWeight' = IF ~listed THEN fetches[n].weights ELSE shownWeight
  /\ fetches' = [fetches EXCEPT ![n] = NoFetch]
  /\ UNCHANGED <<serverWeight, approving, clicks>>

FetchArrives(n) ==
  /\ fetches[n].at = "read"
  /\ shownWeight' = fetches[n].weights /\ listed' = TRUE
  /\ fetches' = [fetches EXCEPT ![n] = NoFetch]
  /\ UNCHANGED <<serverWeight, approving, clicks>>

FetchFails(n) ==
  /\ fetches[n] # NoFetch /\ fetches' = [fetches EXCEPT ![n] = NoFetch]
  /\ UNCHANGED <<serverWeight, listed, shownWeight, approving, clicks>>

\* handleApprove and the optimistic half of approveSettlement.  A button is disabled
\* while its own request is under way; that it also is once its signer is listed as an
\* approver only takes clicks away.
handleApprove(a) ==
  /\ listed /\ approving[a] = NoClick /\ clicks < MaxClicks
  /\ approving' = [approving EXCEPT ![a] = [at |-> "sent", before |-> shownWeight, answer |-> 0]]
  /\ shownWeight' = [shownWeight EXCEPT ![SettlementOf[a]] = @ + 1]
  /\ clicks' = clicks + 1
  /\ UNCHANGED <<serverWeight, listed, fetches>>

\* The server approves and answers with the settlement as it is now.
ServerApproves(a) ==
  /\ approving[a].at = "sent"
  /\ serverWeight' = [serverWeight EXCEPT ![SettlementOf[a]] = @ + 1]
  /\ approving' = [approving EXCEPT ![a].at = "approved", ![a].answer = serverWeight[SettlementOf[a]] + 1]
  /\ UNCHANGED <<listed, shownWeight, fetches, clicks>>

ApprovalArrives(a) ==
  /\ approving[a].at = "approved"
  /\ shownWeight' = [shownWeight EXCEPT ![SettlementOf[a]] = approving[a].answer]
  /\ approving' = [approving EXCEPT ![a] = NoClick]
  /\ UNCHANGED <<serverWeight, listed, fetches, clicks>>

\* Refused, or the answer is lost: the list of the click comes back, whole.
ApprovalFails(a) ==
  /\ approving[a] # NoClick
  /\ shownWeight' = approving[a].before
  /\ approving' = [approving EXCEPT ![a] = NoClick]
  /\ UNCHANGED <<serverWeight, listed, fetches, clicks>>

ApprovalNext ==
  \/ \E n \in DOMAIN fetches :
       fetchSettlements(n) \/ FetchRead(n) \/ FetchArrives(n) \/ FetchFails(n)
  \/ \E a \in Approval :
       handleApprove(a) \/ ServerApproves(a) \/ ApprovalArrives(a) \/ ApprovalFails(a)

\* The interval keeps firing; a request ends one way or the other; polls do not all fail.
ApprovalFairness ==
  /\ \A n \in {1, 2} :
       /\ WF_approvalVars(fetchSettlements(n))
       /\ WF_approvalVars(FetchRead(n) \/ FetchArrives(n) \/ FetchFails(n))
       /\ SF_approvalVars(FetchRead(n)) /\ SF_approvalVars(FetchArrives(n))
  /\ \A a \in Approval : WF_approvalVars(ApprovalArrives(a) \/ ApprovalFails(a))

ApprovalSpec == ApprovalInit /\ [][ApprovalNext]_approvalVars /\ ApprovalFairness

-----------------------------------------------------------------------------
\* The list shows the server's weights in the end: neither the optimistic weight of a
\* click, nor the rollback of one of two clicks that undoes the other's, nor a poll
\* that was overtaken, stays on the screen.
ListConverges == <>[](shownWeight = serverWeight)
=============================================================================
