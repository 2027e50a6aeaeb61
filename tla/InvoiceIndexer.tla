--------------------------- MODULE InvoiceIndexer ---------------------------
(***************************************************************************)
(* The invoice event indexer (comebackhere-backend/src/indexer.ts): one      *)
(* process that polls a Soroban RPC node for the invoice contract's events,  *)
(* stores each in Mongo under its unique id, applies it to the invoice's row *)
(* and saves a cursor after the batch.  Every await of pollOnce and          *)
(* recordTransition ends a step, and a step may be the last of its poll: an  *)
(* await throws and the loop starts the next poll, or the process dies and   *)
(* is restarted - either way only what Mongo holds survives.                 *)
(*                                                                           *)
(* The chain, the RPC node and the rows that POST /api/invoices inserts are  *)
(* the indexer's environment.  The node forgets old ledgers, and a lagging   *)
(* replica of it may answer from an earlier ledger.                          *)
(***************************************************************************)
EXTENDS Naturals, Sequences, FiniteSets

CONSTANTS
  Invoice,        \* invoice ids of the contract
  Unknown,        \* parseInvoiceId's "unknown"
  Published,      \* the event types to explore
  NoToken,        \* a missing paging token
  IdTopics,       \* values of env.idTopic to explore
  StartLedgers,   \* values of INDEXER_START_LEDGER to explore, 0 for unset
  EVENT_LIMIT,
  MaxEvents, MaxLedger,   \* bounds of the chain
  MaxFaults               \* bound on abandoned polls and lagging answers

ASSUME IndexerAssumption ==
  /\ IdTopics \subseteq BOOLEAN
  /\ StartLedgers \subseteq Nat
  /\ EVENT_LIMIT \in Nat \ {0}
  /\ MaxEvents \in Nat /\ MaxLedger \in Nat \ {0} /\ MaxFaults \in Nat
  /\ Unknown \notin Invoice

VARIABLES
  \* The chain and the RPC node.
  log,            \* the contract's events in chain order; an event's id is its place
  chainStatus,    \* what get_invoice answers
  latest, oldest, \* the ledgers the node retains
  env,            \* idTopic: the id is the events' second topic; startLedger
  \* Mongo.
  record,         \* invoice_events: record[e], "stored" is applied: false
  row,            \* invoices: row[i].status, "none" without a row
  cursor,         \* indexer_cursors, ledger 0 before the first save
  gaps, resolved, \* indexer_gaps, and those with status "backfilled"
  \* The poll in progress.
  pc,             \* the await it is at
  from,           \* where it resumes
  retained,       \* the oldest ledger, as the retention error names it
  todo, resume,   \* events still to record, and the cursor to save after them
  \* The one-off run on an archive node that closes a gap: the gap, or {}.
  backfill,
  \* History: firings of persistTransition, rows that came too late for an
  \* update, whether a backfill ever ran, where indexing began, faults so far.
  fired, missed, rewound, origin, faults

chainVars   == <<log, chainStatus, latest, oldest, env>>
mongoVars   == <<record, row, cursor, gaps, resolved>>
pollVars    == <<pc, from, retained, todo, resume>>
historyVars == <<fired, missed, rewound, origin, faults>>
vars        == <<chainVars, mongoVars, pollVars, backfill, historyVars>>

EventId == 1 .. MaxEvents
Ledger  == 1 .. MaxLedger + 1

\* The edges of the contract's state diagram and the events they publish.
Edge ==
  {<<"None", "Pending", "invoice_created">>, <<"Pending", "Paid", "invoice_paid">>,
   <<"Pending", "Expired", "invoice_expired">>, <<"Pending", "Cancelled", "invoice_cancelled">>,
   <<"Paid", "RefundRequested", "invoice_refund_req">>,
   <<"RefundRequested", "Released", "escrow_released">>}

TRACKED_EVENTS ==
  {"invoice_created", "invoice_paid", "invoice_expired", "invoice_cancelled", "escrow_released"}

\* The events that set a status, and the status they set.
STATUS_BY_EVENT ==
  [invoice_paid |-> "Paid", invoice_expired |-> "Expired",
   invoice_cancelled |-> "Cancelled", escrow_released |-> "Released"]

RowStatus == {"none", "Pending", "Paid", "Expired", "Cancelled", "Released"}

\* A paging token names a place in the log and the ledger it lies in; a resume
\* point is a token or, without one, a ledger to scan from its beginning.
Token  == [ledger : Ledger, after : 0 .. MaxEvents]
Cursor == [token : Token \cup {NoToken}, ledger : 0 .. MaxLedger + 1]

NoCursor == [token |-> NoToken, ledger |-> 0]

ResumeLedger(c) == IF c.token # NoToken THEN c.token.ledger ELSE c.ledger

\* Some invoices exist before the first ledger the indexer can see.
Init ==
  /\ log = <<>> /\ chainStatus \in [Invoice -> {"None", "Pending"}]
  /\ latest = 1 /\ oldest = 1
  /\ env \in [idTopic : IdTopics, startLedger : StartLedgers]
  /\ record = [e \in EventId |-> "none"]
  /\ row = [i \in Invoice |-> IF chainStatus[i] = "None" THEN "none" ELSE "Pending"]
  /\ cursor = NoCursor /\ gaps = {} /\ resolved = {}
  /\ pc = "load" /\ from = NoCursor /\ retained = 0 /\ todo = <<>> /\ resume = NoCursor
  /\ backfill = {}
  /\ fired = [e \in EventId |-> 0] /\ missed = {} /\ rewound = FALSE
  /\ origin = 0 /\ faults = 0
-----------------------------------------------------------------------------
(* The environment.                                                          *)

Tracked(e) == log[e].event \in TRACKED_EVENTS

\* The contract publishes an event; it belongs to the ledger that closes next.
Publish ==
  /\ Len(log) < MaxEvents /\ latest < MaxLedger
  /\ \E i \in Invoice, edge \in Edge :
       /\ chainStatus[i] = edge[1] /\ edge[3] \in Published
       /\ chainStatus' = [chainStatus EXCEPT ![i] = edge[2]]
       /\ log' = Append(log, [event |-> edge[3], invoice |-> i, ledger |-> latest + 1])
  /\ UNCHANGED <<latest, oldest, env, mongoVars, pollVars, backfill, historyVars>>

CloseLedger ==
  /\ latest < MaxLedger
  /\ latest' = latest + 1
  /\ UNCHANGED <<log, chainStatus, oldest, env, mongoVars, pollVars, backfill, historyVars>>

\* The retention window moves on.
Forget ==
  /\ oldest < latest
  /\ oldest' = oldest + 1
  /\ UNCHANGED <<log, chainStatus, latest, env, mongoVars, pollVars, backfill, historyVars>>

\* POST /api/invoices inserts the row once create_invoice is confirmed.
InsertRow ==
  /\ \E i \in Invoice :
       /\ row[i] = "none"
       /\ \E e \in DOMAIN log : log[e].invoice = i /\ log[e].ledger <= latest
       /\ row' = [row EXCEPT ![i] = "Pending"]
  /\ UNCHANGED <<chainVars, record, cursor, gaps, resolved, pollVars, backfill, historyVars>>

\* The recovery procedure of docs/troubleshooting.md, while the main indexer is
\* stopped: point the saved cursor at an open gap and index from an archive node
\* (the update matches nothing before the first save of a cursor) ...
StartBackfill ==
  /\ pc = "load" /\ backfill = {} /\ cursor # NoCursor
  /\ \E g \in gaps \ resolved :
       /\ g[1] <= g[2]
       /\ backfill' = {g}
       /\ cursor' = [token |-> NoToken, ledger |-> g[1]]
  /\ rewound' = TRUE
  /\ UNCHANGED <<chainVars, record, row, gaps, resolved, pollVars, fired, missed, origin, faults>>

\* ... until the cursor is past the gap.
EndBackfill ==
  /\ pc = "load"
  /\ \E g \in backfill : ResumeLedger(cursor) > g[2]
  /\ resolved' = resolved \cup backfill /\ backfill' = {}
  /\ UNCHANGED <<chainVars, record, row, cursor, gaps, pollVars, historyVars>>

\* The loop waits for its next poll; nothing in memory outlives this one.
PollEnds ==
  pc' = "load" /\ from' = NoCursor /\ retained' = 0 /\ todo' = <<>> /\ resume' = NoCursor

\* An await throws, or the process dies and is restarted.
Abandon ==
  /\ pc # "load" /\ faults < MaxFaults
  /\ faults' = faults + 1
  /\ PollEnds
  /\ UNCHANGED <<chainVars, mongoVars, backfill, fired, missed, rewound, origin>>
-----------------------------------------------------------------------------
(* pollOnce.                                                                 *)

\* The saved cursor; without one INDEXER_START_LEDGER, or else the newest
\* ledger there is.
load ==
  /\ pc = "load"
  /\ from' = IF cursor # NoCursor THEN cursor
             ELSE [token |-> NoToken,
                   ledger |-> IF env.startLedger > 0 THEN env.startLedger ELSE latest]
  /\ pc' = "fetch"
  /\ UNCHANGED <<chainVars, mongoVars, retained, todo, resume, backfill, historyVars>>

\* The oldest ledger of the node polled: an archive node has them all.
Oldest == IF backfill = {} THEN oldest ELSE 1

\* The node answers as of ledger `upTo`: the newest one, or an earlier one when
\* the request reaches a lagging replica.
Answers(upTo) ==
  \/ upTo = latest /\ UNCHANGED faults
  \/ upTo \in Oldest .. latest - 1 /\ faults < MaxFaults /\ faults' = faults + 1

\* getEvents refuses a resume ledger outside what the node retains.
Refused(upTo) == ResumeLedger(from) < Oldest \/ ResumeLedger(from) > upTo

\* Ids of the events getEvents returns: the first EVENT_LIMIT after the token,
\* or from the start ledger on.
Fetched(upTo) ==
  LET rest == {e \in DOMAIN log :
                 /\ log[e].ledger <= upTo
                 /\ IF from.token # NoToken THEN e > from.token.after
                                            ELSE log[e].ledger >= from.ledger}
  IN  {e \in rest : Cardinality({d \in rest : d < e}) < EVENT_LIMIT}

\* The events with ids first .. last, in order.
Run(first, last) == [k \in 1 .. (last + 1) - first |-> first + k - 1]

\* The newest place of the log as of ledger upTo.
EndOf(upTo) == Cardinality({e \in DOMAIN log : log[e].ledger <= upTo})

Mut_NextCursor(batch, upTo) ==
  {[token |-> NoToken, ledger |-> IF from.ledger > upTo THEN from.ledger ELSE upTo]}

\* The cursor that is saved once the batch is done: the last event's token, or,
\* when there was none, the answer's own cursor if the node sends one.
NextCursor(batch, upTo) ==
  IF batch # {}
  THEN LET last == CHOOSE e \in batch : \A d \in batch : d <= e
       IN  {[token |-> [ledger |-> log[last].ledger, after |-> last], ledger |-> log[last].ledger]}
  ELSE LET ledger == IF from.ledger > upTo THEN from.ledger ELSE upTo
       IN  {[token |-> t, ledger |-> ledger] :
              t \in {NoToken, [ledger |-> upTo, after |-> EndOf(upTo)]}}

\* A batch arrives.
fetchEvents ==
  /\ pc \in {"fetch", "refetch"}
  /\ \E upTo \in Ledger :
       /\ Answers(upTo) /\ ~Refused(upTo)
       /\ LET batch == Fetched(upTo) IN
          /\ resume' \in NextCursor(batch, upTo)
          /\ IF batch = {} THEN todo' = <<>> /\ pc' = "save"
             ELSE /\ pc' = "store"
                  /\ \E first, last \in batch :
                       /\ \A e \in batch : first <= e /\ e <= last
                       /\ todo' = Run(first, last)
  /\ UNCHANGED <<chainVars, mongoVars, from, retained, backfill, fired, missed, rewound, origin>>

Mut_fetchRefused ==
  /\ pc \in {"fetch", "refetch"}
  /\ \E upTo \in Ledger : Answers(upTo) /\ Refused(upTo)
  /\ PollEnds
  /\ UNCHANGED <<chainVars, mongoVars, backfill, fired, missed, rewound, origin>>

\* The node refuses.  The first time the gap is recorded before the cursor
\* skips it; a second refusal in one poll is thrown.
fetchRefused ==
  /\ pc \in {"fetch", "refetch"}
  /\ \E upTo \in Ledger : Answers(upTo) /\ Refused(upTo)
  /\ \/ /\ pc = "fetch" /\ pc' = "gap" /\ retained' = Oldest
        /\ UNCHANGED <<from, todo, resume>>
     \/ pc = "refetch" /\ PollEnds
  /\ UNCHANGED <<chainVars, mongoVars, backfill, fired, missed, rewound, origin>>

\* Gaps are keyed by their range, so finding one again changes nothing.
recordRetentionGap ==
  /\ pc = "gap"
  /\ gaps' = gaps \cup {<<ResumeLedger(from), retained - 1>>}
  /\ pc' = "skip"
  /\ UNCHANGED <<chainVars, record, row, cursor, resolved, from, retained, todo, resume,
                 backfill, historyVars>>

\* Every save of a cursor; the first one fixes where indexing began.
saveMongoCursor(c) ==
  /\ cursor' = c
  /\ origin' = IF origin = 0 THEN ResumeLedger(from) ELSE origin
  /\ UNCHANGED <<chainVars, record, row, gaps, resolved, backfill, fired, missed, rewound, faults>>

skipGap ==
  /\ pc = "skip"
  /\ from' = [token |-> NoToken, ledger |-> retained]
  /\ saveMongoCursor(from')
  /\ pc' = "refetch"
  /\ UNCHANGED <<retained, todo, resume>>

saveCursor ==
  /\ pc = "save"
  /\ saveMongoCursor(resume)
  /\ PollEnds
-----------------------------------------------------------------------------
(* recordTransition, for the first event to do.                              *)

e1 == Head(todo)

\* The loop goes on to the next event, or to saving the cursor.
NextEvent ==
  /\ todo' = Tail(todo)
  /\ pc' = IF Tail(todo) = <<>> THEN "save" ELSE "store"

Mut_AlreadyApplied(e) == FALSE

Mut_AlreadyStored(e) == record[e] # "none"

AlreadyApplied(e) == record[e] = "applied"

\* The upsert of the event; one that is not tracked is not stored, one that was
\* applied before is left at that.
storeEvent ==
  /\ pc = "store"
  /\ \/ ~Tracked(e1) /\ NextEvent /\ UNCHANGED record
     \/ Tracked(e1) /\ AlreadyApplied(e1) /\ NextEvent /\ UNCHANGED record
     \/ /\ Tracked(e1) /\ ~AlreadyApplied(e1)
        /\ record' = [record EXCEPT ![e1] = "stored"]
        /\ pc' = "status" /\ UNCHANGED todo
  /\ UNCHANGED <<chainVars, row, cursor, gaps, resolved, from, retained, resume, backfill,
                 historyVars>>

\* The invoice an event is about, as far as the indexer can tell: it reads the
\* second topic.
parseInvoiceId(e) == IF env.idTopic THEN log[e].invoice ELSE Unknown

Mut_RowsWith(i, status) ==
  [j \in Invoice |-> IF j = i /\ row[j] = "Pending" THEN status ELSE row[j]]

\* The rows after the update of invoice i, which matches at most one of them.
RowsWith(i, status) ==
  [j \in Invoice |-> IF j = i /\ row[j] # "none" THEN status ELSE row[j]]

\* The event's status goes to the invoice's row, if there is such a row.
updateStatus ==
  /\ pc = "status"
  /\ LET i == parseInvoiceId(e1)  type == log[e1].event IN
     IF type \notin DOMAIN STATUS_BY_EVENT THEN UNCHANGED <<row, missed>>
     ELSE /\ row' = RowsWith(i, STATUS_BY_EVENT[type])
          /\ missed' = missed \cup {j \in Invoice : j = log[e1].invoice /\ row[j] = "none"}
  /\ pc' = "mark"
  /\ UNCHANGED <<chainVars, record, cursor, gaps, resolved, from, retained, todo, resume,
                 backfill, fired, rewound, origin, faults>>

markApplied ==
  /\ pc = "mark"
  /\ record' = [record EXCEPT ![e1] = "applied"]
  /\ pc' = "hook"
  /\ UNCHANGED <<chainVars, row, cursor, gaps, resolved, from, retained, todo, resume,
                 backfill, historyVars>>

\* The side-effect hook, after the event is marked.
persistTransition ==
  /\ pc = "hook"
  /\ fired' = [fired EXCEPT ![e1] = @ + 1]
  /\ NextEvent
  /\ UNCHANGED <<chainVars, mongoVars, from, retained, resume, backfill, missed, rewound,
                 origin, faults>>
-----------------------------------------------------------------------------
Environment == Publish \/ CloseLedger \/ Forget \/ InsertRow \/ StartBackfill \/ EndBackfill

pollOnce ==
  \/ load \/ fetchEvents \/ fetchRefused \/ recordRetentionGap \/ skipGap
  \/ storeEvent \/ updateStatus \/ markApplied \/ persistTransition \/ saveCursor

Next == Environment \/ Abandon \/ pollOnce

\* startIndexer's loop schedules another poll after every poll, failed or not,
\* and a dead process is restarted, so the indexer never stops for good.
Fairness == WF_vars(pollOnce)

Spec == Init /\ [][Next]_vars /\ Fairness
-----------------------------------------------------------------------------
(* Properties.                                                               *)

TypeOK ==
  /\ log \in Seq([event : {edge[3] : edge \in Edge}, invoice : Invoice, ledger : Ledger])
  /\ Len(log) <= MaxEvents
  /\ chainStatus \in [Invoice -> {edge[1] : edge \in Edge} \cup {edge[2] : edge \in Edge}]
  /\ latest \in 1 .. MaxLedger /\ oldest \in 1 .. latest
  /\ env \in [idTopic : IdTopics, startLedger : StartLedgers]
  /\ record \in [EventId -> {"none", "stored", "applied"}]
  /\ row \in [Invoice -> RowStatus]
  /\ cursor \in Cursor
  /\ gaps \subseteq Ledger \X (0 .. MaxLedger) /\ resolved \subseteq gaps
  /\ pc \in {"load", "fetch", "refetch", "gap", "skip", "store", "status", "mark", "hook", "save"}
  /\ from \in Cursor /\ retained \in 0 .. MaxLedger
  /\ todo \in Seq(EventId) /\ resume \in Cursor
  /\ pc \in {"store", "status", "mark", "hook"} => todo # <<>>
  /\ backfill \subseteq gaps /\ Cardinality(backfill) <= 1
  /\ fired \in [EventId -> Nat] /\ missed \subseteq Invoice /\ rewound \in BOOLEAN
  /\ origin \in 0 .. MaxLedger + 1 /\ faults \in 0 .. MaxFaults

Applied(e) == record[e] = "applied"
InGap(e)   == \E g \in gaps \ resolved : g[1] <= log[e].ledger /\ log[e].ledger <= g[2]

\* Events the saved cursor has left behind.
Behind(e) ==
  IF cursor.token # NoToken THEN e <= cursor.token.after ELSE log[e].ledger < cursor.ledger

\* No event is lost without a trace: whatever crashes, refusals, lagging
\* answers and backfills came before, an event behind the saved cursor is
\* applied or lies in a gap that indexer_gaps still lists as open.
NothingSkipped ==
  \A e \in DOMAIN log :
    Tracked(e) /\ Behind(e) /\ origin # 0 /\ log[e].ledger >= origin => Applied(e) \/ InGap(e)

\* A replayed batch does not fire the hook of an event again.
HookAtMostOnce == \A e \in EventId : fired[e] <= 1

\* The events of invoice i that set a status.
StatusEvents(i) ==
  {e \in DOMAIN log : log[e].invoice = i /\ log[e].event \in DOMAIN STATUS_BY_EVENT}

\* The row shows an event no older than any that was applied to its invoice.
StatusShown(i) ==
  \A e \in StatusEvents(i) : Applied(e) =>
    \E d \in StatusEvents(i) :
      d >= e /\ record[d] # "none" /\ row[i] = STATUS_BY_EVENT[log[d].event]

RowsShown == \A i \in Invoice \ missed : row[i] # "none" => StatusShown(i)

\* The cursor never went back behind where indexing began: no backfill ran,
\* and no lagging replica's refusal was taken for a gap and made the indexer
\* start over from the oldest ledger retained.
StayedAhead == ~rewound /\ \A e \in DOMAIN log : record[e] # "none" => log[e].ledger >= origin

\* A row never falls back to an older status through replays, when the events
\* carry the id as their second topic and the row was there in time.
RowsFollowChain == env.idTopic /\ StayedAhead => RowsShown

\* A gap that was backfilled is closed: all its events are applied.
BackfillCloses ==
  \A g \in resolved, e \in DOMAIN log :
    Tracked(e) /\ g[1] <= log[e].ledger /\ log[e].ledger <= g[2] => Applied(e)

\* The indexer catches up: an event of a closed ledger, from where indexing
\* began, is eventually applied or reported in a gap, however often polls die.
Due(e) ==
  /\ e \in DOMAIN log /\ Tracked(e) /\ origin # 0 /\ log[e].ledger >= origin
  /\ log[e].ledger <= latest

EventuallyIndexed ==
  \A e \in EventId : Due(e) ~> (Applied(e) \/ (Due(e) /\ InGap(e)))
-----------------------------------------------------------------------------
(* What comments say of the indexer and the code does not do; each is the    *)
(* property of a run that ends in a counterexample.                          *)

\* recordTransition's comment: when the process dies after the database write
\* and before the side effect, a replay fires the side effect again.  The
\* replay finds the event applied and skips it.
HookFires == \A e \in DOMAIN log : Applied(e) /\ Behind(e) => fired[e] > 0

\* recordTransition's comment: it stores the event and applies it to the
\* invoice.  The contract publishes the id as the event's value, the indexer
\* looks for it among the topics, and no row changes.
AppliedToInvoice == StayedAhead => RowsShown
=============================================================================
