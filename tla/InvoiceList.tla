----------------------------- MODULE InvoiceList -----------------------------
(***************************************************************************)
(* The merchant's list of invoices (components/InvoiceList.tsx over          *)
(* listInvoices in utils/api.ts).  Every change of merchant, status filter,  *)
(* page or reload key aborts the request under way and starts a new one; an  *)
(* aborted request may still answer.                                         *)
(***************************************************************************)
EXTENDS Naturals

CONSTANTS
  Merchant,      \* wallet addresses
  StatusFilter,  \* the filter chips, "All" included
  LastPage       \* totalPages

ASSUME InvoiceListAssumption == LastPage \in Nat \ {0}

VARIABLES
  query,     \* what the controls ask for: [merchant, status, page]
  current,   \* the query of the request under way that is not aborted, or NoRequest
  aborted,   \* the queries of the aborted requests that have no answer yet
  view       \* what is shown: loading, an error or a page, with its query

listVars == <<query, current, aborted, view>>

NoMerchant == "none"
AllStatuses == "all"
NoRequest == [merchant |-> NoMerchant, status |-> AllStatuses, page |-> 1]

ListInit ==
  /\ query = NoRequest /\ current = NoRequest /\ aborted = {}
  /\ view = [kind |-> "loading", for |-> NoRequest]

\* The effect that follows a change: abort, then ask again if there is a merchant.
Refetch(q) ==
  /\ query' = q
  /\ aborted' = aborted \cup ({current} \ {NoRequest})
  /\ IF q.merchant = NoMerchant
     THEN current' = NoRequest /\ UNCHANGED view
     ELSE current' = q /\ view' = [kind |-> "loading", for |-> q]

MerchantChanges(m) == m # query.merchant /\ Refetch([query EXCEPT !.merchant = m])

\* The chip that is active changes nothing on the first page.
handleFilter(s) ==
  LET q == [query EXCEPT !.status = s, !.page = 1]
  IN  query.merchant # NoMerchant /\ q # query /\ Refetch(q)

\* Previous and Next, shown under a loaded page.
PreviousPage ==
  /\ view.kind = "loaded" /\ query.merchant # NoMerchant /\ query.page > 1
  /\ Refetch([query EXCEPT !.page = @ - 1])

NextPage ==
  /\ view.kind = "loaded" /\ query.merchant # NoMerchant /\ view.for.page < LastPage
  /\ Refetch([query EXCEPT !.page = @ + 1])

\* Retry, or the event that a payment completed elsewhere in the app: a new reload key.
Reload == Refetch(query)

\* An answer that does not ask whether its request was aborted.
Mut_AbortedAnswer(q, kind) ==
  /\ q \in aborted /\ aborted' = aborted \ {q}
  /\ view' = [kind |-> kind, for |-> q]
  /\ UNCHANGED <<query, current>>

\* The server answers the request under way, or it fails.
Answer(kind) ==
  /\ current # NoRequest /\ current' = NoRequest
  /\ view' = [kind |-> kind, for |-> current]
  /\ UNCHANGED <<query, aborted>>

\* So does an aborted request: nothing of it is shown.
AbortedAnswer(q, kind) ==
  /\ q \in aborted /\ aborted' = aborted \ {q}
  /\ UNCHANGED <<query, current, view>>

ListNext ==
  \/ \E m \in Merchant \cup {NoMerchant} : MerchantChanges(m)
  \/ \E s \in StatusFilter : handleFilter(s)
  \/ PreviousPage \/ NextPage \/ Reload
  \/ \E kind \in {"loaded", "error"} : Answer(kind) \/ \E q \in aborted : AbortedAnswer(q, kind)

ListSpec == ListInit /\ [][ListNext]_listVars

-----------------------------------------------------------------------------
\* The invoices on the screen are the ones the controls ask for, as of the last
\* reload: an answer for another merchant, filter or page, or from before the reload,
\* however late, never takes their place.
ListMatchesControls ==
  query.merchant # NoMerchant =>
    view.for = query /\ (current # NoRequest => view.kind = "loading")
=============================================================================
