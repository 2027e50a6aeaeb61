------------------------------ MODULE HoldQueue ------------------------------
(***************************************************************************)
(* The list of settlements on hold                                           *)
(* (OnHoldSettlements.tsx of the dashboard): a poll every 15 s and after a   *)
(* change of page replaces the rows, releases and escalations of one row or  *)
(* of all selected rows change them.  Answers come in any order.  The server *)
(* is external: a page is a part of the settlements on hold.                 *)
(***************************************************************************)
EXTENDS Naturals

CONSTANTS
  HoldPage,   \* HoldPage[p]: the settlements that page p lists while they are on hold
  MaxPolls    \* polls in flight at the same time

ASSUME HoldQueueAssumption == 1 \in DOMAIN HoldPage /\ MaxPolls \in Nat

VARIABLES
  onHold,      \* the server's settlements on hold
  page,
  polls,       \* polls[n]: a poll in flight: the page asked for, and its answer
  settlements, \* the rows shown
  selectedIds,
  acting,      \* ids with a request of their own, or of the bulk release, under way
  bulk         \* the bulk release: "off", "confirm" or "on", and the ids left

holdVars == <<onHold, page, polls, settlements, selectedIds, acting, bulk>>

HeldSettlements == UNION {HoldPage[p] : p \in DOMAIN HoldPage}
NoPoll == [at |-> "free", page |-> 1, rows |-> {}]
NoBulk == [at |-> "off", left |-> {}]

HoldInit ==
  /\ onHold \in SUBSET HeldSettlements
  /\ page = 1 /\ polls = [n \in 1..MaxPolls |-> NoPoll]
  /\ settlements = {} /\ selectedIds = {} /\ acting = {} /\ bulk = NoBulk

bulkReleasing == bulk.at = "on"
isActing == bulkReleasing \/ acting # {}
Covered == bulk.at = "confirm"   \* the dialog covers the page

\* A row's checkbox and buttons, and the toolbar over the table.
RowEnabled(s) == s \in settlements \ acting /\ ~bulkReleasing /\ ~Covered
bulkToolbar == selectedIds \cap settlements # {} /\ ~isActing /\ ~Covered

-----------------------------------------------------------------------------
(* Polling (fetchOnHold).                                                  *)

Poll(n, p) == polls[n] = NoPoll /\ polls' = [polls EXCEPT ![n] = [at |-> "asked", page |-> p, rows |-> {}]]

\* The interval, and the first render.
fetchOnHold(n) ==
  /\ Poll(n, page)
  /\ UNCHANGED <<onHold, page, settlements, selectedIds, acting, bulk>>

\* Previous and Next: the effect polls the new page; polls of the old one go on.
setPage(n, p) ==
  /\ settlements # {} /\ ~Covered /\ p \in {page - 1, page + 1} \cap DOMAIN HoldPage
  /\ page' = p /\ Poll(n, p)
  /\ UNCHANGED <<onHold, settlements, selectedIds, acting, bulk>>

ServerAnswers(n) ==
  /\ polls[n].at = "asked"
  /\ polls' = [polls EXCEPT ![n].at = "answered", ![n].rows = onHold \cap HoldPage[polls[n].page]]
  /\ UNCHANGED <<onHold, page, settlements, selectedIds, acting, bulk>>

\* A reload that keeps the selection.
Mut_PollArrives(n) ==
  /\ polls[n].at = "answered"
  /\ settlements' = polls[n].rows
  /\ polls' = [polls EXCEPT ![n] = NoPoll]
  /\ UNCHANGED <<onHold, page, selectedIds, acting, bulk>>

\* "Clear selection when the list reloads."
PollArrives(n) ==
  /\ polls[n].at = "answered"
  /\ settlements' = polls[n].rows /\ selectedIds' = {}
  /\ polls' = [polls EXCEPT ![n] = NoPoll]
  /\ UNCHANGED <<onHold, page, acting, bulk>>

PollFails(n) ==
  /\ polls[n] # NoPoll /\ polls' = [polls EXCEPT ![n] = NoPoll]
  /\ UNCHANGED <<onHold, page, settlements, selectedIds, acting, bulk>>

-----------------------------------------------------------------------------
(* Selecting.                                                              *)

handleSelectAll ==
  /\ settlements # {} /\ ~isActing /\ ~Covered
  /\ selectedIds' = IF settlements \subseteq selectedIds
                    THEN selectedIds \ settlements ELSE selectedIds \cup settlements
  /\ UNCHANGED <<onHold, page, polls, settlements, acting, bulk>>

handleToggleRow(s) ==
  /\ RowEnabled(s)
  /\ selectedIds' = IF s \in selectedIds THEN selectedIds \ {s} ELSE selectedIds \cup {s}
  /\ UNCHANGED <<onHold, page, polls, settlements, acting, bulk>>

clearSelection ==
  /\ bulkToolbar
  /\ selectedIds' = {}
  /\ UNCHANGED <<onHold, page, polls, settlements, acting, bulk>>

-----------------------------------------------------------------------------
(* Releasing and escalating (performAdminAction).                          *)

handleAction(s) ==
  /\ RowEnabled(s)
  /\ acting' = acting \cup {s}
  /\ UNCHANGED <<onHold, page, polls, settlements, selectedIds, bulk>>

showBulkConfirm ==
  /\ bulkToolbar
  /\ bulk' = [NoBulk EXCEPT !.at = "confirm"]
  /\ UNCHANGED <<onHold, page, polls, settlements, selectedIds, acting>>

cancelBulkConfirm ==
  /\ Covered /\ bulk' = NoBulk
  /\ UNCHANGED <<onHold, page, polls, settlements, selectedIds, acting>>

\* The ids are those selected now, one request after the other; none ends it at once.
handleBulkRelease ==
  /\ Covered
  /\ bulk' = IF selectedIds = {} THEN NoBulk ELSE [at |-> "on", left |-> selectedIds]
  /\ UNCHANGED <<onHold, page, polls, settlements, selectedIds, acting>>

bulkNext(s) ==
  /\ bulkReleasing /\ s \in bulk.left /\ bulk.left \cap acting = {}
  /\ acting' = acting \cup {s}
  /\ UNCHANGED <<onHold, page, polls, settlements, selectedIds, bulk>>

\* A request ends, the bulk release moves on; nothing left ends it.
RequestEnds(s) ==
  /\ acting' = acting \ {s}
  /\ bulk' = IF bulk.left = {s} THEN NoBulk ELSE [bulk EXCEPT !.left = @ \ {s}]

\* The routes refuse a settlement that is not on hold.
releaseHold(s) == s \in onHold /\ onHold' = onHold \ {s}
escalateHold(s) == s \in onHold /\ UNCHANGED onHold
performAdminAction(s, action) == IF action = "release" THEN releaseHold(s) ELSE escalateHold(s)

\* A released row goes from the list; an escalated one stays.
RequestSucceeds(s, action) ==
  /\ s \in acting /\ RequestEnds(s) /\ performAdminAction(s, action)
  /\ settlements' = IF action = "release" THEN settlements \ {s} ELSE settlements
  /\ selectedIds' = selectedIds \ {s}
  /\ UNCHANGED <<page, polls>>

\* The server refused, or its answer was lost after it did its work.
RequestFails(s, action) ==
  /\ s \in acting /\ RequestEnds(s)
  /\ performAdminAction(s, action) \/ UNCHANGED onHold
  /\ UNCHANGED <<page, polls, settlements, selectedIds>>

\* External: another administrator, or a new dispute.
HoldChanges(s) ==
  /\ onHold' = IF s \in onHold THEN onHold \ {s} ELSE onHold \cup {s}
  /\ UNCHANGED <<page, polls, settlements, selectedIds, acting, bulk>>

HoldNext ==
  \/ \E n \in DOMAIN polls :
       \/ fetchOnHold(n) \/ ServerAnswers(n) \/ PollArrives(n) \/ PollFails(n)
       \/ \E p \in DOMAIN HoldPage : setPage(n, p)
  \/ handleSelectAll \/ clearSelection
  \/ showBulkConfirm \/ cancelBulkConfirm \/ handleBulkRelease
  \/ \E s \in HeldSettlements :
       \/ handleToggleRow(s) \/ handleAction(s) \/ bulkNext(s) \/ HoldChanges(s)
       \/ \E action \in {"release", "escalate"} : RequestSucceeds(s, action) \/ RequestFails(s, action)

HoldSpec == HoldInit /\ [][HoldNext]_holdVars

-----------------------------------------------------------------------------
\* A bulk release acts on rows the administrator sees: whatever poll, change of page
\* or single release answered in between, nothing is selected that is not shown.
SelectionShown == selectedIds \subseteq settlements
=============================================================================
