--------------------------- MODULE IndexerProofs ----------------------------
(***************************************************************************)
(* What holds of InvoiceIndexer for any number of invoices, events, ledgers, *)
(* page sizes and faults.                                                    *)
(***************************************************************************)
EXTENDS InvoiceIndexer, Integers, FiniteSetTheorems, TLAPS

\* The types the argument below needs: the batch in hand names events of the
\* log, and while one is being recorded there is a batch.
Recording == {"store", "status", "mark", "hook"}

IndexerTypes ==
  /\ log \in Seq([event : {edge[3] : edge \in Edge}, invoice : Invoice, ledger : Nat])
  /\ Len(log) <= MaxEvents /\ latest \in Nat
  /\ record \in [EventId -> {"none", "stored", "applied"}]
  /\ fired \in [EventId -> Nat]
  /\ todo \in Seq(EventId)
  /\ pc \in Recording => todo # <<>>

\* Why the hook cannot fire twice: it fires only for an applied event, and the
\* one event on its way to it was not applied when recordTransition looked, so
\* it has not fired before.
HookInv ==
  /\ \A e \in EventId : fired[e] <= 1 /\ (fired[e] > 0 => record[e] = "applied")
  /\ pc \in {"status", "mark"} => record[Head(todo)] # "applied"
  /\ pc = "hook" => record[Head(todo)] = "applied" /\ fired[Head(todo)] = 0

IndexerInv == IndexerTypes /\ HookInv
-----------------------------------------------------------------------------
\* A page of events is a non-empty sequence of event ids.
LEMMA RunIsBatch ==
  ASSUME NEW first \in EventId, NEW last \in EventId, first <= last
  PROVE  Run(first, last) \in Seq(EventId) /\ Run(first, last) # <<>>
<1> USE IndexerAssumption
<1> DEFINE n == (last + 1) - first
<1>1. n \in Nat /\ n >= 1
  BY DEF EventId
<1>2. \A k \in 1 .. n : first + k - 1 \in EventId
  BY DEF EventId
<1>3. Run(first, last) = [k \in 1 .. n |-> first + k - 1]
  BY DEF Run
<1> HIDE DEF n
<1>4. Run(first, last) \in Seq(EventId) /\ Len(Run(first, last)) = n
  BY <1>1, <1>2, <1>3
<1> QED
  BY <1>1, <1>4

\* Dropping the first event of a batch leaves a batch or nothing.
LEMMA TailIsBatch ==
  ASSUME NEW s \in Seq(EventId), s # <<>>
  PROVE  Head(s) \in EventId /\ Tail(s) \in Seq(EventId)
OBVIOUS

\* What the steps of the environment and of the poll outside recordTransition
\* leave alone.
Quiet == UNCHANGED <<record, fired>>

LEMMA QuietKeeps ==
  ASSUME IndexerInv, Quiet, pc' \notin {"status", "mark", "hook"}
  PROVE  HookInv'
  BY DEF IndexerInv, HookInv, Quiet

\* The hook of an event has not fired when the event starts on its way there.
LEMMA StepKeepsInv == IndexerInv /\ [Next]_vars => IndexerInv'
<1> SUFFICES ASSUME IndexerInv, [Next]_vars PROVE IndexerInv'
  OBVIOUS
<1> USE IndexerAssumption
<1>1. CASE UNCHANGED vars
  BY <1>1 DEF vars, chainVars, mongoVars, pollVars, historyVars, IndexerInv, IndexerTypes, HookInv
<1>2. CASE Publish
  <2>1. Quiet /\ UNCHANGED <<pc, todo, latest>>
    BY <1>2 DEF Publish, mongoVars, pollVars, historyVars, Quiet
  <2>2. log' \in Seq([event : {edge[3] : edge \in Edge}, invoice : Invoice, ledger : Nat])
        /\ Len(log') <= MaxEvents
    <3>1. PICK i \in Invoice, edge \in Edge :
            log' = Append(log, [event |-> edge[3], invoice |-> i, ledger |-> latest + 1])
      BY <1>2 DEF Publish
    <3>2. [event |-> edge[3], invoice |-> i, ledger |-> latest + 1]
            \in [event : {x[3] : x \in Edge}, invoice : Invoice, ledger : Nat]
      BY DEF IndexerInv, IndexerTypes
    <3>3. Len(log) < MaxEvents
      BY <1>2 DEF Publish
    <3> HIDE DEF Edge
    <3> QED
      BY <3>1, <3>2, <3>3 DEF IndexerInv, IndexerTypes
  <2> QED
    BY <2>1, <2>2 DEF Quiet, IndexerInv, IndexerTypes, HookInv
<1>3. CASE CloseLedger \/ Forget \/ InsertRow \/ StartBackfill \/ EndBackfill
  BY <1>3 DEF CloseLedger, Forget, InsertRow, StartBackfill, EndBackfill, chainVars, mongoVars,
              pollVars, historyVars, IndexerInv, IndexerTypes, HookInv
<1>4. CASE Abandon
  <2>1. Quiet /\ UNCHANGED <<log, latest>> /\ pc' = "load" /\ todo' = <<>>
    BY <1>4 DEF Abandon, PollEnds, chainVars, mongoVars, Quiet
  <2> QED
    BY <2>1, QuietKeeps DEF IndexerInv, IndexerTypes, Quiet, Recording
<1>5. CASE pollOnce
  <2>1. CASE load
    <3>1. Quiet /\ UNCHANGED <<log, latest, todo>> /\ pc' = "fetch"
      BY <2>1 DEF load, chainVars, mongoVars, historyVars, Quiet
    <3> QED
      BY <3>1, QuietKeeps DEF IndexerInv, IndexerTypes, Quiet, Recording
  <2>2. CASE fetchEvents
    <3>1. Quiet /\ UNCHANGED <<log, latest>>
      BY <2>2 DEF fetchEvents, chainVars, mongoVars, Quiet
    <3>2. \/ todo' = <<>> /\ pc' = "save"
          \/ pc' = "store" /\ \E first, last \in EventId : first <= last /\ todo' = Run(first, last)
      <4>1. PICK upTo \in Ledger :
              LET batch == Fetched(upTo) IN
              IF batch = {} THEN todo' = <<>> /\ pc' = "save"
              ELSE /\ pc' = "store"
                   /\ \E first, last \in batch :
                        /\ \A e \in batch : first <= e /\ e <= last
                        /\ todo' = Run(first, last)
        BY <2>2 DEF fetchEvents
      <4>2. Fetched(upTo) \subseteq EventId
        <5>1. DOMAIN log \subseteq EventId
          BY DEF IndexerInv, IndexerTypes, EventId
        <5> QED
          BY <5>1 DEF Fetched
      <4> QED
        BY <4>1, <4>2
    <3>3. todo' \in Seq(EventId) /\ (pc' = "store" => todo' # <<>>) /\ pc' \in {"save", "store"}
      <4>1. CASE todo' = <<>> /\ pc' = "save"
        <5>1. <<>> \in Seq(EventId)
          OBVIOUS
        <5> QED
          BY <4>1, <5>1
      <4>2. CASE pc' = "store"
                 /\ \E first, last \in EventId : first <= last /\ todo' = Run(first, last)
        <5>1. PICK first \in EventId, last \in EventId : first <= last /\ todo' = Run(first, last)
          BY <4>2
        <5>2. Run(first, last) \in Seq(EventId) /\ Run(first, last) # <<>>
          BY <5>1, RunIsBatch
        <5> QED
          BY <4>2, <5>1, <5>2
      <4> QED
        BY <3>2, <4>1, <4>2
    <3> QED
      BY <3>1, <3>3, QuietKeeps DEF IndexerInv, IndexerTypes, Quiet, Recording
  <2>3. CASE fetchRefused
    <3>1. /\ Quiet /\ UNCHANGED <<log, latest>>
          /\ \/ pc' = "gap" /\ UNCHANGED todo
             \/ pc' = "load" /\ todo' = <<>>
      BY <2>3 DEF fetchRefused, PollEnds, chainVars, mongoVars, Quiet
    <3>2. HookInv'
      BY <3>1, QuietKeeps
    <3>3. CASE pc' = "gap" /\ UNCHANGED todo
      BY <3>1, <3>2, <3>3 DEF IndexerInv, IndexerTypes, Quiet, Recording
    <3>4. CASE pc' = "load" /\ todo' = <<>>
      BY <3>1, <3>2, <3>4 DEF IndexerInv, IndexerTypes, Quiet, Recording
    <3> QED
      BY <3>1, <3>3, <3>4
  <2>4. CASE recordRetentionGap \/ skipGap
    <3>1. Quiet /\ UNCHANGED <<log, latest, todo>> /\ pc' \in {"skip", "refetch"}
      BY <2>4 DEF recordRetentionGap, skipGap, saveMongoCursor, chainVars, historyVars, Quiet
    <3> QED
      BY <3>1, QuietKeeps DEF IndexerInv, IndexerTypes, Quiet, Recording
  <2>5. CASE saveCursor
    <3>1. Quiet /\ UNCHANGED <<log, latest>> /\ pc' = "load" /\ todo' = <<>>
      BY <2>5 DEF saveCursor, saveMongoCursor, PollEnds, chainVars, Quiet
    <3> QED
      BY <3>1, QuietKeeps DEF IndexerInv, IndexerTypes, Quiet, Recording
  <2>6. CASE storeEvent
    <3>1. Head(todo) \in EventId /\ Tail(todo) \in Seq(EventId)
      BY <2>6, TailIsBatch DEF storeEvent, IndexerInv, IndexerTypes, Recording
    <3>2. UNCHANGED <<log, latest, fired>>
      BY <2>6 DEF storeEvent, chainVars, historyVars
    <3>3. CASE NextEvent /\ UNCHANGED record
      BY <3>1, <3>2, <3>3, QuietKeeps DEF NextEvent, Quiet, IndexerInv, IndexerTypes, Recording
    <3>4. CASE /\ ~AlreadyApplied(e1) /\ record' = [record EXCEPT ![e1] = "stored"]
               /\ pc' = "status" /\ UNCHANGED todo
      BY <2>6, <3>1, <3>2, <3>4
      DEF storeEvent, AlreadyApplied, e1, IndexerInv, IndexerTypes, HookInv, Recording
    <3> QED
      BY <2>6, <3>3, <3>4 DEF storeEvent
  <2>7. CASE updateStatus
    <3>1. Quiet /\ UNCHANGED <<log, latest, todo>> /\ pc = "status" /\ pc' = "mark"
      BY <2>7 DEF updateStatus, chainVars, Quiet
    <3> QED
      BY <3>1 DEF Quiet, IndexerInv, IndexerTypes, HookInv, Recording
  <2>8. CASE markApplied
    <3>1. Head(todo) \in EventId
      BY <2>8, TailIsBatch DEF markApplied, IndexerInv, IndexerTypes, Recording
    <3>2. /\ UNCHANGED <<log, latest, todo, fired>> /\ pc = "mark" /\ pc' = "hook"
          /\ record' = [record EXCEPT ![Head(todo)] = "applied"]
      BY <2>8 DEF markApplied, chainVars, historyVars, e1
    <3>3. fired[Head(todo)] = 0
      BY <3>1, <3>2 DEF IndexerInv, IndexerTypes, HookInv
    <3> QED
      BY <3>1, <3>2, <3>3 DEF IndexerInv, IndexerTypes, HookInv, Recording
  <2>9. CASE persistTransition
    <3>1. Head(todo) \in EventId /\ Tail(todo) \in Seq(EventId)
      BY <2>9, TailIsBatch DEF persistTransition, IndexerInv, IndexerTypes, Recording
    <3>2. /\ UNCHANGED <<log, latest, record>> /\ pc = "hook" /\ NextEvent
          /\ fired' = [fired EXCEPT ![Head(todo)] = fired[Head(todo)] + 1]
      BY <2>9 DEF persistTransition, chainVars, mongoVars, e1
    <3> QED
      BY <3>1, <3>2 DEF NextEvent, IndexerInv, IndexerTypes, HookInv, Recording
  <2> QED
    BY <1>5, <2>1, <2>2, <2>3, <2>4, <2>5, <2>6, <2>7, <2>8, <2>9 DEF pollOnce
<1> QED
  BY <1>1, <1>2, <1>3, <1>4, <1>5 DEF Next, Environment

\* However often polls die, cursors are lost behind, batches replayed and gaps
\* backfilled, no event's hook runs twice.
THEOREM HookStaysAtMostOnce == Spec => []HookAtMostOnce
<1>1. Init => IndexerInv
  BY IndexerAssumption DEF Init, IndexerInv, IndexerTypes, HookInv, Recording, EventId
<1>2. IndexerInv => HookAtMostOnce
  BY DEF IndexerInv, HookInv, HookAtMostOnce
<1> QED
  BY <1>1, <1>2, StepKeepsInv, PTL DEF Spec
-----------------------------------------------------------------------------
(* Nothing is skipped.  The events a resume point has left behind: *)
Passed(c, e) ==
  IF c.token # NoToken THEN e <= c.token.after ELSE log[e].ledger < c.ledger

\* An event the indexer answers for, from ledger `begin` on, is accounted for.
Kept(e, begin) == Tracked(e) /\ log[e].ledger >= begin => Applied(e) \/ InGap(e)

\* Where indexing began, or will have begun if this poll saves a cursor.
Begin == IF origin # 0 THEN origin ELSE from.ledger

\* Where a poll without a saved cursor begins.
FirstLedger == IF env.startLedger > 0 THEN env.startLedger ELSE latest

ResumePoint == [token : [ledger : Nat, after : Nat] \cup {NoToken}, ledger : Nat]

SkipTypes ==
  /\ oldest \in Nat /\ 1 <= oldest /\ oldest <= latest
  /\ env.startLedger \in Nat /\ origin \in Nat /\ retained \in Nat
  /\ cursor \in ResumePoint /\ from \in ResumePoint /\ resume \in ResumePoint
  /\ gaps \subseteq Nat \X Int /\ resolved \subseteq gaps /\ backfill \subseteq gaps
  /\ \A g, h \in backfill : g = h

\* The log is in ledger order.
LogInv ==
  /\ \A e \in DOMAIN log : 1 <= log[e].ledger /\ log[e].ledger <= latest + 1
  /\ \A d, e \in DOMAIN log : d <= e => log[d].ledger <= log[e].ledger

\* A token's ledger and place agree: what lies before its ledger is behind it.
Sound(c) ==
  c.token # NoToken =>
    /\ c.token.ledger = c.ledger /\ c.ledger <= latest /\ c.token.after <= Len(log)
    /\ \A e \in DOMAIN log : log[e].ledger < c.ledger => e <= c.token.after

CursorInv ==
  /\ Sound(cursor) /\ cursor.ledger <= latest
  /\ origin = 0 <=> cursor = NoCursor
  /\ origin # 0 => 1 <= cursor.ledger
  /\ origin # 0 => \A e \in DOMAIN log : Passed(cursor, e) => Kept(e, origin)

\* Every gap ends before the newest ledger.  One that is not empty begins where
\* everything before it is accounted for, and before the first save of a cursor
\* no later than indexing will begin.
GapInv ==
  \A g \in gaps :
    /\ g[2] < latest
    /\ g[1] <= g[2] =>
         /\ 1 <= g[1]
         /\ origin # 0 => \A e \in DOMAIN log : log[e].ledger < g[1] => Kept(e, origin)
         /\ origin = 0 => g[1] <= FirstLedger

\* While a gap is backfilled, its events behind the cursor are applied, and not
\* merely listed in some gap.
Filled(e, g) == Tracked(e) /\ g[1] <= log[e].ledger /\ log[e].ledger <= g[2] => Applied(e)

FillInv ==
  /\ BackfillCloses
  /\ \A g \in backfill : origin # 0 /\ \A e \in DOMAIN log : Passed(cursor, e) => Filled(e, g)

\* A poll resumes where everything before is accounted for.
FromInv ==
  /\ Sound(from) /\ 1 <= from.ledger
  /\ origin # 0 => from.ledger <= latest
  /\ origin = 0 => /\ from.token = NoToken /\ pc # "refetch"
                   /\ env.startLedger > 0 => from.ledger = env.startLedger
                   /\ env.startLedger = 0 => from.ledger <= latest
                   /\ \A g \in gaps : g[1] <= g[2] => g[1] <= from.ledger
  /\ \A e \in DOMAIN log : Passed(from, e) => Kept(e, Begin)
  /\ \A g \in backfill, e \in DOMAIN log : Passed(from, e) => Filled(e, g)

RefusedInv ==
  /\ 1 <= retained /\ retained <= latest
  /\ backfill # {} => retained = 1
  /\ pc = "skip" => <<from.ledger, retained - 1>> \in gaps

\* The cursor it will save leaves behind that and what is in the batch.
ToDo(e) == \E k \in DOMAIN todo : todo[k] = e

ResumeInv ==
  /\ Sound(resume) /\ 1 <= resume.ledger /\ resume.ledger <= latest
  /\ \A k \in DOMAIN todo : todo[k] \in DOMAIN log
  /\ pc = "save" => todo = <<>>
  /\ \A e \in DOMAIN log : Passed(resume, e) => Kept(e, Begin) \/ ToDo(e)
  /\ \A g \in backfill, e \in DOMAIN log : Passed(resume, e) => Filled(e, g) \/ ToDo(e)

HasBatch == {"store", "status", "mark", "hook", "save"}

PollInv ==
  pc # "load" => /\ FromInv
                 /\ pc \in {"gap", "skip"} => RefusedInv
                 /\ pc \in HasBatch => ResumeInv

BaseInv == LogInv /\ CursorInv /\ GapInv /\ FillInv

SkipInv == IndexerInv /\ SkipTypes /\ BaseInv /\ PollInv
-----------------------------------------------------------------------------
(* Facts about the log, places in it and the batch. *)

LEMMA LogTypes ==
  ASSUME IndexerTypes
  PROVE  /\ DOMAIN log = 1 .. Len(log) /\ Len(log) \in Nat /\ DOMAIN log \subseteq EventId
         /\ \A e \in DOMAIN log : log[e].ledger \in Nat
<1> USE IndexerAssumption
<1> DEFINE R == [event : {edge[3] : edge \in Edge}, invoice : Invoice, ledger : Nat]
<1>1. log \in Seq(R) /\ \A x \in R : x.ledger \in Nat
  BY DEF IndexerTypes
<1> HIDE DEF R
<1> QED
  BY <1>1 DEF IndexerTypes, EventId

\* A resume point without a token, or with one.
LEMMA PointTypes ==
  ASSUME NEW c \in ResumePoint
  PROVE  /\ c.ledger \in Nat
         /\ c.token # NoToken => c.token.ledger \in Nat /\ c.token.after \in Nat
  BY DEF ResumePoint

\* What lies before a sound resume point's ledger is behind it.
LEMMA BeforeIsPassed ==
  ASSUME IndexerTypes, NEW c \in ResumePoint, Sound(c),
         NEW e \in DOMAIN log, log[e].ledger < c.ledger
  PROVE  Passed(c, e)
  BY DEF Sound, Passed

LEMMA SoundLedger ==
  ASSUME NEW c \in ResumePoint, Sound(c)
  PROVE  ResumeLedger(c) = c.ledger
  BY DEF Sound, ResumeLedger

\* Some event is the first of any set of events.
LEMMA FirstOf ==
  ASSUME NEW n \in Nat, NEW S \in SUBSET (1 .. n), S # {}
  PROVE  \E m \in S : \A d \in S : m <= d
<1> DEFINE Below(e) == {d \in S : d < e}
           T == {Below(e) : e \in S}
<1>1. IsFiniteSet(1 .. n)
  BY FS_Interval
<1>2. \A e \in S : Below(e) \in FiniteSubsetsOf(1 .. n)
  <2>1. \A e \in S : Below(e) \in SUBSET (1 .. n)
    OBVIOUS
  <2> QED
    BY <1>1, <2>1, FS_FiniteSubsetsOfFinite
<1>3. T \subseteq FiniteSubsetsOf(1 .. n) /\ T # {}
  BY <1>2
<1>4. PICK x \in T : \A y \in T : ~(<<y, x>> \in StrictSubsetOrdering(1 .. n))
  <2> HIDE DEF T
  <2> QED
    BY <1>3, WFMin, FS_StrictSubsetOrderingWellFounded
<1>5. PICK m \in S : x = Below(m)
  BY <1>4
<1>6. ASSUME NEW d \in S, d < m PROVE FALSE
  <2>0. \A i \in S : i \in Int
    OBVIOUS
  <2>1. Below(d) \subseteq Below(m) /\ d \in Below(m) /\ d \notin Below(d)
    <3>1. m \in Int /\ d \in Int
      BY <2>0
    <3>2. \A i \in S : i < d => i < m
      BY <1>6, <2>0, <3>1
    <3>3. ~(d < d)
      BY <3>1
    <3> QED
      BY <1>6, <3>2, <3>3, Zenon
  <2>2. Below(d) # Below(m) /\ Below(d) \in T
    BY <2>1
  <2>3. Below(d) \in SUBSET (1 .. n) /\ Below(m) \in SUBSET (1 .. n)
    OBVIOUS
  <2>4. <<Below(d), Below(m)>> \in StrictSubsetOrdering(1 .. n)
    <3> HIDE DEF Below
    <3> QED
      BY <2>1, <2>2, <2>3 DEF StrictSubsetOrdering
  <2> QED
    BY <1>4, <1>5, <2>2, <2>4
<1>7. \A d \in S : m <= d
  BY <1>6
<1> QED
  BY <1>7

\* The log as of a ledger is a prefix of it, as long as EndOf says.
LEMMA EndOfLog ==
  ASSUME IndexerTypes, LogInv, NEW upTo \in Nat
  PROVE  /\ EndOf(upTo) \in Nat /\ EndOf(upTo) <= Len(log)
         /\ \A e \in DOMAIN log : e <= EndOf(upTo) <=> log[e].ledger <= upTo
<1> DEFINE S == {e \in DOMAIN log : log[e].ledger <= upTo}
<1>0. DOMAIN log = 1 .. Len(log) /\ Len(log) \in Nat /\ \A e \in DOMAIN log : log[e].ledger \in Nat
  BY LogTypes
<1>1. IsFiniteSet(1 .. Len(log)) /\ Cardinality(1 .. Len(log)) = Len(log)
  BY <1>0, FS_Interval
<1>2. S \in SUBSET (1 .. Len(log))
  BY <1>0
<1>3. IsFiniteSet(S) /\ Cardinality(S) \in Nat /\ Cardinality(S) <= Len(log)
  BY <1>1, <1>2, FS_Subset, FS_CardinalityType
<1>4. ASSUME NEW e \in DOMAIN log, log[e].ledger <= upTo PROVE e <= Cardinality(S)
  <2>1. 1 .. e \in SUBSET S
    BY <1>0, <1>4 DEF LogInv
  <2>2. Cardinality(1 .. e) = e
    BY <1>0, FS_Interval
  <2> QED
    BY <1>3, <2>1, <2>2, FS_Subset
<1>5. ASSUME NEW e \in DOMAIN log, ~(log[e].ledger <= upTo) PROVE ~(e <= Cardinality(S))
  <2>1. S \in SUBSET (1 .. e - 1)
    BY <1>0, <1>5 DEF LogInv
  <2>2. IsFiniteSet(1 .. e - 1) /\ Cardinality(1 .. e - 1) = e - 1
    <3>1. e \in Int /\ e - 1 \in Int /\ e >= 1
      BY <1>0
    <3>2. \A b \in Int : IsFiniteSet(1 .. b) /\ Cardinality(1 .. b) = IF 1 > b THEN 0 ELSE b - 1 + 1
      BY FS_Interval
    <3>3. IsFiniteSet(1 .. e - 1) /\ Cardinality(1 .. e - 1) = IF 1 > e - 1 THEN 0 ELSE (e - 1) - 1 + 1
      BY <3>1, <3>2
    <3> QED
      BY <3>1, <3>3
  <2>3. Cardinality(S) <= e - 1
    <3> HIDE DEF S
    <3> QED
      BY <2>1, <2>2, FS_Subset
  <2> QED
    BY <1>0, <1>3, <2>3
<1>6. EndOf(upTo) = Cardinality(S)
  BY DEF EndOf
<1> QED
  BY <1>3, <1>4, <1>5, <1>6

\* What getEvents returns: everything from the resume point up to the last event
\* of the batch is in it, and an empty batch means there is nothing more.
LEMMA BatchComplete ==
  ASSUME IndexerTypes, LogInv, from \in ResumePoint, NEW upTo \in Nat,
         NEW e \in DOMAIN log, log[e].ledger <= upTo, ~Passed(from, e)
  PROVE  /\ Fetched(upTo) # {}
         /\ \A last \in Fetched(upTo) : e <= last => e \in Fetched(upTo)
<1> DEFINE rest == {d \in DOMAIN log :
                      /\ log[d].ledger <= upTo
                      /\ IF from.token # NoToken THEN d > from.token.after
                                                 ELSE log[d].ledger >= from.ledger}
           Below(d) == {c \in rest : c < d}
<1>0. DOMAIN log = 1 .. Len(log) /\ Len(log) \in Nat /\ \A d \in DOMAIN log : log[d].ledger \in Nat
  BY LogTypes
<1>1. e \in rest /\ rest \in SUBSET (1 .. Len(log))
  <2>1. e \in Nat /\ log[e].ledger \in Nat /\ from.ledger \in Nat
        /\ (from.token # NoToken => from.token.after \in Nat)
    BY <1>0, PointTypes
  <2> QED
    BY <1>0, <2>1 DEF Passed
<1>2. Fetched(upTo) = {d \in rest : Cardinality(Below(d)) < EVENT_LIMIT}
  BY DEF Fetched
<1>3. \A d \in rest : d \in Int /\ IsFiniteSet(Below(d)) /\ Cardinality(Below(d)) \in Nat
  <2>1. IsFiniteSet(1 .. Len(log))
    BY <1>0, FS_Interval
  <2>2. \A d \in rest : Below(d) \in SUBSET (1 .. Len(log))
    BY <1>1
  <2> HIDE DEF rest
  <2>3. \A d \in rest : d \in Int
    BY <1>0, <1>1
  <2> HIDE DEF Below
  <2> QED
    BY <2>1, <2>2, <2>3, FS_Subset, FS_CardinalityType
<1>4. EVENT_LIMIT \in Nat /\ EVENT_LIMIT > 0
  BY IndexerAssumption
<1> HIDE DEF rest
<1>5. Fetched(upTo) # {}
  <2>1. PICK m \in rest : \A d \in rest : m <= d
    BY <1>0, <1>1, FirstOf
  <2>2. Below(m) = {}
    <3>1. \A d \in rest : ~(d < m)
      <4>1. \A d \in rest : d \in Int
        BY <1>3
      <4> QED
        BY <2>1, <4>1
    <3> QED
      BY <3>1
  <2>3. Cardinality(Below(m)) = 0
    BY <2>2, FS_EmptySet
  <2> HIDE DEF Below
  <2> QED
    BY <1>2, <1>4, <2>1, <2>3
<1>6. ASSUME NEW last \in Fetched(upTo), e <= last PROVE e \in Fetched(upTo)
  <2>1. last \in rest /\ Cardinality(Below(last)) < EVENT_LIMIT
    BY <1>2
  <2>2. Below(e) \in SUBSET Below(last)
    <3>1. \A c \in rest : c < e => c < last
      BY <1>1, <1>3, <1>6, <2>1
    <3> QED
      BY <3>1
  <2> HIDE DEF Below
  <2>3. Cardinality(Below(e)) <= Cardinality(Below(last))
    BY <1>3, <2>1, <2>2, FS_Subset
  <2>4. Cardinality(Below(e)) < EVENT_LIMIT
    BY <1>1, <1>3, <1>4, <2>1, <2>3
  <2> QED
    BY <1>1, <1>2, <2>4
<1> QED
  BY <1>5, <1>6

\* The batch is as the node answers: events of closed ledgers.
LEMMA BatchTypes ==
  ASSUME NEW upTo
  PROVE  Fetched(upTo) \subseteq {d \in DOMAIN log : log[d].ledger <= upTo}
  BY DEF Fetched

\* Its events, in order, are what there is to do.
LEMMA RunHolds ==
  ASSUME NEW first \in Nat, NEW last \in Nat, NEW e \in Nat
  PROVE  /\ first <= e /\ e <= last => \E k \in DOMAIN Run(first, last) : Run(first, last)[k] = e
         /\ \A k \in DOMAIN Run(first, last) : first <= Run(first, last)[k] /\ Run(first, last)[k] <= last
                                               /\ Run(first, last)[k] \in Nat
<1>1. DOMAIN Run(first, last) = 1 .. (last + 1) - first
      /\ \A k \in 1 .. (last + 1) - first : Run(first, last)[k] = first + k - 1
  BY DEF Run
<1>2. ASSUME first <= e, e <= last PROVE \E k \in DOMAIN Run(first, last) : Run(first, last)[k] = e
  <2>1. (e + 1) - first \in 1 .. (last + 1) - first
    BY <1>2
  <2>2. Run(first, last)[(e + 1) - first] = e
    BY <1>1, <2>1
  <2> QED
    BY <1>1, <2>1, <2>2
<1> QED
  BY <1>1, <1>2

\* What is left after the first event is done.
LEMMA TailHolds ==
  ASSUME NEW s \in Seq(EventId), s # <<>>
  PROVE  /\ \A k \in DOMAIN s : s[k] = Head(s) \/ \E j \in DOMAIN Tail(s) : Tail(s)[j] = s[k]
         /\ \A j \in DOMAIN Tail(s) : \E k \in DOMAIN s : Tail(s)[j] = s[k]
<1>1. DOMAIN s = 1 .. Len(s) /\ Len(s) \in Nat /\ DOMAIN Tail(s) = 1 .. Len(s) - 1
      /\ \A j \in 1 .. Len(s) - 1 : Tail(s)[j] = s[j + 1]
  OBVIOUS
<1>2. ASSUME NEW k \in DOMAIN s
      PROVE  s[k] = Head(s) \/ \E j \in DOMAIN Tail(s) : Tail(s)[j] = s[k]
  <2>1. CASE k = 1
    BY <2>1
  <2>2. CASE k # 1
    <3>1. k - 1 \in DOMAIN Tail(s) /\ Tail(s)[k - 1] = s[k]
      BY <1>1, <2>2
    <3> QED
      BY <3>1
  <2> QED
    BY <2>1, <2>2
<1>3. ASSUME NEW j \in DOMAIN Tail(s) PROVE \E k \in DOMAIN s : Tail(s)[j] = s[k]
  <2>1. j + 1 \in DOMAIN s /\ Tail(s)[j] = s[j + 1]
    BY <1>1
  <2> QED
    BY <2>1
<1> QED
  BY <1>2, <1>3
-----------------------------------------------------------------------------
(* Every step keeps the invariant. *)

LEMMA SkipInit == Init => SkipInv
<1> SUFFICES ASSUME Init PROVE SkipInv
  OBVIOUS
<1> USE IndexerAssumption
<1>1. IndexerInv
  BY DEF Init, IndexerInv, IndexerTypes, HookInv, Recording, EventId
<1>2. NoCursor \in ResumePoint /\ NoCursor.token = NoToken /\ NoCursor.ledger = 0
  BY DEF NoCursor, ResumePoint
<1>3. log = <<>> /\ DOMAIN log = {} /\ latest = 1 /\ oldest = 1 /\ env.startLedger \in Nat
  <2>1. env.startLedger \in StartLedgers
    BY DEF Init
  <2>2. env.startLedger \in Nat
    BY <2>1
  <2>3. log = <<>> /\ latest = 1 /\ oldest = 1
    BY DEF Init
  <2> QED
    BY <2>2, <2>3
<1>4. SkipTypes
  BY <1>2, <1>3 DEF Init, SkipTypes
<1>5. BaseInv
  BY <1>2, <1>3 DEF Init, BaseInv, LogInv, CursorInv, Sound, GapInv, FillInv, BackfillCloses
<1>6. PollInv
  BY DEF Init, PollInv
<1> QED
  BY <1>1, <1>4, <1>5, <1>6 DEF SkipInv

\* What is not forgotten: an applied event stays applied.
Grown == \A e \in EventId : Applied(e) => Applied(e)'

LEMMA AppliedStays == ASSUME IndexerInv, Next PROVE Grown
<1>1. UNCHANGED record \/ storeEvent \/ markApplied
  BY DEF Next, Environment, Publish, CloseLedger, Forget, InsertRow, StartBackfill, EndBackfill, Abandon,
         pollOnce, load, fetchEvents, fetchRefused, recordRetentionGap, skipGap, saveMongoCursor, saveCursor,
         updateStatus, persistTransition, mongoVars
<1>2. CASE UNCHANGED record
  BY <1>2 DEF Grown, Applied
<1>3. CASE storeEvent
  BY <1>3 DEF storeEvent, AlreadyApplied, Grown, Applied, IndexerInv, IndexerTypes
<1>4. CASE markApplied
  BY <1>4 DEF markApplied, Grown, Applied, IndexerInv, IndexerTypes
<1> QED
  BY <1>1, <1>2, <1>3, <1>4

\* Steps that leave the log, the cursor and the gaps alone.
Idle == UNCHANGED <<log, latest, env, cursor, origin, gaps, resolved, backfill>>

LEMMA AccountsStay ==
  ASSUME IndexerTypes, Grown, UNCHANGED <<log, gaps, resolved>>
  PROVE  /\ \A e \in DOMAIN log, b \in Nat : Kept(e, b) => Kept(e, b)'
         /\ \A e \in DOMAIN log, g \in Nat \X Int : Filled(e, g) => Filled(e, g)'
<1>1. DOMAIN log \subseteq EventId
  BY LogTypes
<1> QED
  BY <1>1 DEF Grown, Kept, Filled, Tracked, InGap

LEMMA BaseStays ==
  ASSUME IndexerTypes, SkipTypes, BaseInv, Idle, Grown
  PROVE  BaseInv'
<1>0. /\ \A e \in DOMAIN log, b \in Nat : Kept(e, b) => Kept(e, b)'
      /\ \A e \in DOMAIN log, g \in Nat \X Int : Filled(e, g) => Filled(e, g)'
  BY AccountsStay DEF Idle
<1>1. LogInv'
  BY DEF BaseInv, LogInv, Idle
<1>2. CursorInv'
  <2>1. \A e \in DOMAIN log : Passed(cursor, e)' => Passed(cursor, e)
    BY DEF Passed, Idle
  <2>2. origin # 0 => \A e \in DOMAIN log : Passed(cursor, e)' => Kept(e, origin)'
    BY <1>0, <2>1 DEF BaseInv, CursorInv, SkipTypes, Kept, Idle
  <2> QED
    BY <2>2 DEF BaseInv, CursorInv, Sound, Idle
<1>3. GapInv'
  BY <1>0 DEF BaseInv, GapInv, FirstLedger, SkipTypes, Idle, Kept
<1>4. FillInv'
  <2>1. DOMAIN log \subseteq EventId
    BY LogTypes
  <2>2. BackfillCloses'
    BY <2>1 DEF BaseInv, FillInv, BackfillCloses, Tracked, Grown, Idle
  <2>3. \A g \in backfill, e \in DOMAIN log : Passed(cursor, e)' => Filled(e, g)'
    BY <1>0 DEF BaseInv, FillInv, Passed, SkipTypes, Idle
  <2> QED
    BY <2>2, <2>3 DEF BaseInv, FillInv, Idle
<1> QED
  BY <1>1, <1>2, <1>3, <1>4 DEF BaseInv

LEMMA FromStays ==
  ASSUME IndexerTypes, SkipTypes, FromInv, Idle, Grown, UNCHANGED from,
         pc' = "refetch" => origin # 0
  PROVE  FromInv'
<1>0. /\ \A e \in DOMAIN log, b \in Nat : Kept(e, b) => Kept(e, b)'
      /\ \A e \in DOMAIN log, g \in Nat \X Int : Filled(e, g) => Filled(e, g)'
  BY AccountsStay DEF Idle
<1>1. Begin \in Nat /\ Begin' = Begin
  BY PointTypes DEF Begin, SkipTypes, Idle
<1>2. \A e \in DOMAIN log : Passed(from, e)' => Passed(from, e)
  BY DEF Passed, Idle
<1>3. \A e \in DOMAIN log' : Passed(from, e)' => Kept(e, Begin)'
  <2>1. \A e \in DOMAIN log : Kept(e, Begin) => Kept(e, Begin)'
    BY <1>0, <1>1 DEF Kept
  <2> QED
    BY <1>2, <2>1 DEF FromInv, Idle
<1>4. \A g \in backfill', e \in DOMAIN log' : Passed(from, e)' => Filled(e, g)'
  BY <1>0, <1>2 DEF FromInv, Idle, SkipTypes
<1>5. Sound(from)'
  BY DEF FromInv, Sound, Idle
<1> QED
  BY <1>3, <1>4, <1>5 DEF FromInv, Idle

LEMMA ResumeStays ==
  ASSUME IndexerTypes, SkipTypes, ResumeInv, Idle, Grown, UNCHANGED <<from, resume>>,
         pc' = "save" => todo' = <<>>,
         \A k \in DOMAIN todo' : todo'[k] \in DOMAIN log,
         \A e \in DOMAIN log : ToDo(e) => ToDo(e)' \/ ~Tracked(e) \/ Applied(e)'
  PROVE  ResumeInv'
<1>0. /\ \A e \in DOMAIN log, b \in Nat : Kept(e, b) => Kept(e, b)'
      /\ \A e \in DOMAIN log, g \in Nat \X Int : Filled(e, g) => Filled(e, g)'
  BY AccountsStay DEF Idle
<1>1. Begin \in Nat /\ Begin' = Begin
  BY PointTypes DEF Begin, SkipTypes, Idle
<1>2. \A e \in DOMAIN log : Passed(resume, e)' => Passed(resume, e)
  BY DEF Passed, Idle
<1>4. ASSUME NEW e \in DOMAIN log', Passed(resume, e)' PROVE Kept(e, Begin)' \/ ToDo(e)'
  <2>1. e \in DOMAIN log /\ Passed(resume, e)
    BY <1>2, <1>4 DEF Idle
  <2>2. CASE Kept(e, Begin)
    <3>1. Kept(e, Begin) => Kept(e, Begin)'
      BY <1>0, <1>1, <2>1 DEF Kept
    <3> QED
      BY <2>2, <3>1
  <2>3. CASE ToDo(e)
    BY <2>1, <2>3 DEF Kept, Tracked, Idle
  <2> QED
    BY <2>1, <2>2, <2>3 DEF ResumeInv
<1>5. ASSUME NEW g \in backfill', NEW e \in DOMAIN log', Passed(resume, e)'
      PROVE  Filled(e, g)' \/ ToDo(e)'
  <2>1. e \in DOMAIN log /\ Passed(resume, e) /\ g \in backfill /\ g \in Nat \X Int
    BY <1>2, <1>5 DEF Idle, SkipTypes
  <2>2. CASE Filled(e, g)
    BY <1>0, <2>1, <2>2
  <2>3. CASE ToDo(e)
    BY <2>1, <2>3 DEF Filled, Tracked, Idle
  <2> QED
    BY <2>1, <2>2, <2>3 DEF ResumeInv
<1>6. Sound(resume)'
  BY DEF ResumeInv, Sound, Idle
<1> QED
  BY <1>4, <1>5, <1>6 DEF ResumeInv, Idle

\* A new event lies ahead of every resume point and after every gap.
LEMMA PublishKeeps ==
  ASSUME SkipInv, Publish, IndexerTypes'
  PROVE  SkipTypes' /\ BaseInv' /\ PollInv'
<1> USE DEF mongoVars, pollVars, historyVars
<1>0. IndexerTypes /\ SkipTypes /\ LogInv /\ CursorInv /\ GapInv /\ FillInv /\ PollInv
  BY DEF SkipInv, IndexerInv, BaseInv
<1>1. /\ DOMAIN log = 1 .. Len(log) /\ Len(log) \in Nat /\ latest \in Nat
      /\ \A e \in DOMAIN log : log[e].ledger \in Nat
  BY <1>0, LogTypes DEF IndexerTypes
<1>n. PICK n \in Nat : n = Len(log) + 1
  BY <1>1
<1>2. UNCHANGED <<latest, oldest, env, record, cursor, gaps, resolved, pc, from, retained, todo, resume,
                  backfill, origin>>
  BY DEF Publish
<1>3. /\ DOMAIN log' = DOMAIN log \cup {n} /\ n \notin DOMAIN log /\ n \in Nat /\ Len(log') = n
      /\ \A e \in DOMAIN log : log'[e] = log[e]
      /\ log'[n].ledger = latest + 1
  <2>1. PICK i, v : log' = Append(log, [event |-> v, invoice |-> i, ledger |-> latest + 1])
    BY DEF Publish
  <2>2. DOMAIN log' = 1 .. Len(log') /\ Len(log') = n /\ log'[n] = [event |-> v, invoice |-> i, ledger |-> latest + 1]
        /\ \A e \in 1 .. Len(log) : log'[e] = log[e]
    <3> HIDE DEF Edge
    <3> QED
      BY <1>0, <1>n, <2>1 DEF IndexerTypes
  <2> QED
    BY <1>1, <1>n, <2>2
<1>4. \A e \in DOMAIN log : /\ \A b : Kept(e, b)' <=> Kept(e, b)
                            /\ \A g : Filled(e, g)' <=> Filled(e, g)
  BY <1>2, <1>3 DEF Kept, Filled, Tracked, Applied, InGap
<1>5. \A c \in ResumePoint : \A e \in DOMAIN log : Passed(c, e)' <=> Passed(c, e)
  BY <1>3 DEF Passed
<1>6. ASSUME NEW c \in ResumePoint, Sound(c), c.ledger <= latest PROVE ~Passed(c, n)' /\ Sound(c)'
  <2>1. c.ledger \in Nat /\ (c.token # NoToken => c.token.after \in Nat)
    BY PointTypes
  <2>2. ~Passed(c, n)'
    BY <1>n, <1>1, <1>3, <1>6, <2>1 DEF Passed, Sound
  <2>3. Sound(c)'
    BY <1>n, <1>1, <1>2, <1>3, <1>6, <2>1 DEF Sound
  <2> QED
    BY <2>2, <2>3
<1>7. SkipTypes'
  BY <1>0, <1>2 DEF SkipTypes
<1>8. LogInv'
  BY <1>0, <1>n, <1>1, <1>2, <1>3 DEF LogInv
<1>9. CursorInv'
  <2>1. cursor \in ResumePoint /\ Sound(cursor) /\ cursor.ledger <= latest
    BY <1>0 DEF CursorInv, SkipTypes
  <2>2. Sound(cursor)' /\ \A e \in DOMAIN log' : Passed(cursor, e)' => e \in DOMAIN log /\ Passed(cursor, e)
    BY <1>2, <1>3, <1>5, <1>6, <2>1 DEF Sound, Passed
  <2>3. origin # 0 => \A e \in DOMAIN log' : Passed(cursor, e)' => Kept(e, origin)'
    BY <1>0, <1>2, <1>4, <2>2 DEF CursorInv, Kept
  <2> QED
    BY <1>0, <1>2, <2>2, <2>3 DEF CursorInv
<1>10. GapInv'
  <2>1. ASSUME NEW g \in gaps, g[1] <= g[2], origin # 0, NEW e \in DOMAIN log', log'[e].ledger < g[1]
        PROVE  Kept(e, origin)'
    <3>1. e # n
      BY <1>0, <1>1, <1>3, <2>1 DEF GapInv, SkipTypes
    <3>2. e \in DOMAIN log /\ log[e].ledger < g[1]
      BY <1>3, <2>1, <3>1
    <3>3. Kept(e, origin)
      BY <1>0, <2>1, <3>2 DEF GapInv
    <3> QED
      BY <1>2, <1>4, <3>2, <3>3 DEF Kept
  <2> QED
    BY <1>0, <1>2, <2>1 DEF GapInv, FirstLedger
<1>11. FillInv'
  <2>1. BackfillCloses'
    <3> SUFFICES ASSUME NEW g \in resolved', NEW e \in DOMAIN log', Tracked(e)',
                        g[1] <= log'[e].ledger, log'[e].ledger <= g[2]
                 PROVE  Applied(e)'
      BY DEF BackfillCloses
    <3>1. e # n
      BY <1>0, <1>1, <1>2, <1>3 DEF GapInv, SkipTypes
    <3>2. e \in DOMAIN log /\ log'[e] = log[e]
      BY <1>3, <3>1
    <3> QED
      BY <1>0, <1>2, <3>2 DEF FillInv, BackfillCloses, Tracked, Applied
  <2>2. cursor \in ResumePoint /\ Sound(cursor) /\ cursor.ledger <= latest
    BY <1>0 DEF CursorInv, SkipTypes
  <2>3. \A e \in DOMAIN log' : Passed(cursor, e)' => e \in DOMAIN log /\ Passed(cursor, e)
    BY <1>2, <1>3, <1>5, <1>6, <2>2 DEF Passed
  <2> QED
    BY <1>0, <1>2, <1>4, <2>1, <2>3 DEF FillInv
<1>12. PollInv'
  <2> SUFFICES ASSUME pc # "load"
               PROVE  FromInv' /\ (pc \in {"gap", "skip"} => RefusedInv') /\ (pc \in HasBatch => ResumeInv')
    BY <1>2 DEF PollInv
  <2>0. FromInv /\ (pc \in {"gap", "skip"} => RefusedInv) /\ (pc \in HasBatch => ResumeInv)
    BY <1>0 DEF PollInv
  <2>1. FromInv'
    <3>1. from \in ResumePoint /\ Sound(from) /\ Begin \in Nat /\ Begin' = Begin
      BY <1>0, <1>2, <2>0, PointTypes DEF FromInv, SkipTypes, Begin
    <3>2. CASE origin # 0
      <4>1. Sound(from)' /\ \A e \in DOMAIN log' : Passed(from, e)' => e \in DOMAIN log /\ Passed(from, e)
        BY <1>2, <1>3, <1>5, <1>6, <2>0, <3>1, <3>2 DEF Sound, Passed, FromInv
      <4>2. \A e \in DOMAIN log' : Passed(from, e)' => Kept(e, Begin)'
        BY <1>4, <2>0, <3>1, <4>1 DEF FromInv, Kept
      <4>3. \A g \in backfill', e \in DOMAIN log' : Passed(from, e)' => Filled(e, g)'
        BY <1>2, <1>4, <2>0, <4>1 DEF FromInv
      <4> QED
        BY <1>2, <2>0, <3>2, <4>1, <4>2, <4>3 DEF FromInv
    <3>3. CASE origin = 0
      <4>1. from.token = NoToken /\ Begin = from.ledger /\ backfill = {} /\ from.ledger \in Nat
        BY <1>0, <2>0, <3>1, <3>3, PointTypes DEF FromInv, FillInv, Begin
      <4>2. Sound(from)'
        BY <1>2, <4>1 DEF Sound
      <4>3. ASSUME NEW e \in DOMAIN log', Passed(from, e)' PROVE Kept(e, Begin)'
        <5>1. log'[e].ledger < from.ledger /\ log'[e].ledger \in Nat
          BY <1>1, <1>2, <1>3, <4>1, <4>3 DEF Passed
        <5> QED
          BY <3>1, <4>1, <5>1 DEF Kept
      <4> QED
        BY <1>2, <2>0, <3>3, <4>1, <4>2, <4>3 DEF FromInv
    <3> QED
      BY <3>2, <3>3
  <2>2. pc \in {"gap", "skip"} => RefusedInv'
    BY <1>2, <2>0 DEF RefusedInv
  <2>3. ASSUME pc \in HasBatch PROVE ResumeInv'
    <3>0. ResumeInv
      BY <2>0, <2>3
    <3>1. resume \in ResumePoint /\ Sound(resume) /\ resume.ledger <= latest /\ Begin' = Begin
      BY <1>0, <1>2, <3>0 DEF ResumeInv, SkipTypes, Begin
    <3>2. Sound(resume)' /\ \A e \in DOMAIN log' : Passed(resume, e)' => e \in DOMAIN log /\ Passed(resume, e)
      BY <1>2, <1>3, <1>5, <1>6, <3>1 DEF Sound, Passed
    <3>3. \A e \in DOMAIN log : ToDo(e)' <=> ToDo(e)
      BY <1>2 DEF ToDo
    <3>4. \A e \in DOMAIN log' : Passed(resume, e)' => Kept(e, Begin)' \/ ToDo(e)'
      BY <1>4, <3>0, <3>1, <3>2, <3>3 DEF ResumeInv, Kept
    <3>5. \A g \in backfill', e \in DOMAIN log' : Passed(resume, e)' => Filled(e, g)' \/ ToDo(e)'
      BY <1>2, <1>4, <3>0, <3>2, <3>3 DEF ResumeInv
    <3> QED
      BY <1>2, <1>3, <3>0, <3>2, <3>4, <3>5 DEF ResumeInv
  <2> QED
    BY <2>1, <2>2, <2>3
<1> QED
  BY <1>7, <1>8, <1>9, <1>10, <1>11, <1>12 DEF BaseInv

\* A ledger closes: the bounds only move up.
LEMMA CloseLedgerKeeps ==
  ASSUME SkipInv, CloseLedger
  PROVE  SkipTypes' /\ BaseInv' /\ PollInv'
<1> USE DEF mongoVars, pollVars, historyVars
<1>0. IndexerTypes /\ SkipTypes /\ LogInv /\ CursorInv /\ GapInv /\ FillInv /\ PollInv
  BY DEF SkipInv, IndexerInv, BaseInv
<1>1. /\ UNCHANGED <<log, oldest, env, record, cursor, gaps, resolved, pc, from, retained, todo, resume,
                     backfill, origin>>
      /\ latest \in Nat /\ latest' = latest + 1
      /\ \A e \in DOMAIN log : log[e].ledger \in Nat
  BY <1>0, LogTypes DEF CloseLedger, IndexerTypes
<1>2. \A e \in DOMAIN log : /\ \A b : Kept(e, b)' <=> Kept(e, b)
                            /\ \A g : Filled(e, g)' <=> Filled(e, g)
                            /\ \A c : Passed(c, e)' <=> Passed(c, e)
  BY <1>1 DEF Kept, Filled, Tracked, Applied, InGap, Passed
<1>3. \A c \in ResumePoint : Sound(c) => Sound(c)'
  BY <1>1, PointTypes DEF Sound
<1>4. SkipTypes'
  BY <1>0, <1>1 DEF SkipTypes
<1>5. LogInv'
  BY <1>0, <1>1 DEF LogInv
<1>6. CursorInv'
  <2>1. cursor.ledger \in Nat /\ Sound(cursor)'
    BY <1>0, <1>1, <1>3, PointTypes DEF CursorInv, SkipTypes, Sound
  <2>2. \A e \in DOMAIN log' : Passed(cursor, e)' => Passed(cursor, e)
    BY <1>1 DEF Passed
  <2>3. origin # 0 => \A e \in DOMAIN log' : Passed(cursor, e)' => Kept(e, origin)'
    BY <1>0, <1>1, <1>2, <2>2 DEF CursorInv, Kept
  <2> QED
    BY <1>0, <1>1, <2>1, <2>3 DEF CursorInv
<1>7. GapInv'
  <2>1. FirstLedger <= FirstLedger' /\ FirstLedger \in Nat /\ FirstLedger' \in Nat
    BY <1>0, <1>1 DEF FirstLedger, SkipTypes
  <2>2. \A g \in gaps : g[1] \in Nat /\ g[2] \in Int
    BY <1>0 DEF SkipTypes
  <2>3. \A g \in gaps : g[1] <= g[2] /\ origin # 0 =>
          \A e \in DOMAIN log : log[e].ledger < g[1] => Kept(e, origin)'
    BY <1>0, <1>1, <1>2 DEF GapInv, Kept
  <2>4. \A g \in gaps : g[1] <= g[2] /\ origin = 0 => g[1] <= FirstLedger'
    BY <1>0, <2>1, <2>2 DEF GapInv
  <2> QED
    BY <1>0, <1>1, <2>2, <2>3, <2>4 DEF GapInv
<1>8. FillInv'
  BY <1>0, <1>1 DEF FillInv, BackfillCloses, Tracked, Applied, Passed, Filled
<1>9. PollInv'
  <2> SUFFICES ASSUME pc # "load"
               PROVE  FromInv' /\ (pc \in {"gap", "skip"} => RefusedInv') /\ (pc \in HasBatch => ResumeInv')
    BY <1>1 DEF PollInv
  <2>0. FromInv /\ (pc \in {"gap", "skip"} => RefusedInv) /\ (pc \in HasBatch => ResumeInv)
    BY <1>0 DEF PollInv
  <2>b. Begin' = Begin
    BY <1>1 DEF Begin
  <2>1. FromInv'
    <3>1. from.ledger \in Nat /\ Sound(from)'
      BY <1>0, <1>1, <1>3, <2>0, PointTypes DEF FromInv, SkipTypes, Sound
    <3>2. \A e \in DOMAIN log' : Passed(from, e)' => Passed(from, e)
      BY <1>1 DEF Passed
    <3>3. \A e \in DOMAIN log' : Passed(from, e)' => Kept(e, Begin)'
      BY <1>1, <1>2, <2>0, <2>b, <3>2 DEF FromInv, Kept
    <3>4. \A g \in backfill', e \in DOMAIN log' : Passed(from, e)' => Filled(e, g)'
      BY <1>1, <1>2, <2>0, <3>2 DEF FromInv
    <3> QED
      BY <1>1, <2>0, <3>1, <3>3, <3>4 DEF FromInv
  <2>2. pc \in {"gap", "skip"} => RefusedInv'
    BY <1>0, <1>1, <2>0 DEF RefusedInv, SkipTypes
  <2>3. ASSUME pc \in HasBatch PROVE ResumeInv'
    <3>0. ResumeInv
      BY <2>0, <2>3
    <3>1. resume.ledger \in Nat /\ Sound(resume)'
      BY <1>0, <1>1, <1>3, <3>0, PointTypes DEF ResumeInv, SkipTypes, Sound
    <3>2. \A e \in DOMAIN log' : /\ Passed(resume, e)' => Passed(resume, e)
                                 /\ ToDo(e) => ToDo(e)'
      BY <1>1 DEF Passed, ToDo
    <3>3. \A e \in DOMAIN log' : Passed(resume, e)' => Kept(e, Begin)' \/ ToDo(e)'
      BY <1>1, <1>2, <2>b, <3>0, <3>2 DEF ResumeInv, Kept
    <3>4. \A g \in backfill', e \in DOMAIN log' : Passed(resume, e)' => Filled(e, g)' \/ ToDo(e)'
      BY <1>1, <1>2, <3>0, <3>2 DEF ResumeInv
    <3> QED
      BY <1>1, <3>0, <3>1, <3>3, <3>4 DEF ResumeInv
  <2> QED
    BY <2>1, <2>2, <2>3
<1> QED
  BY <1>4, <1>5, <1>6, <1>7, <1>8, <1>9 DEF BaseInv

\* Steps after which the poll is as it was, or over.
LEMMA SameKeeps ==
  ASSUME SkipInv, Grown, Idle, UNCHANGED <<pc, from, retained, todo, resume>>
  PROVE  BaseInv' /\ PollInv'
<1>0. IndexerTypes /\ SkipTypes /\ BaseInv /\ PollInv
  BY DEF SkipInv, IndexerInv
<1>1. BaseInv'
  BY <1>0, BaseStays
<1>2. ASSUME pc # "load" PROVE FromInv'
  BY <1>0, <1>2, FromStays DEF PollInv, FromInv
<1>3. ASSUME pc \in {"gap", "skip"} PROVE RefusedInv'
  BY <1>0, <1>3 DEF PollInv, RefusedInv, Idle
<1>4. ASSUME pc \in HasBatch PROVE ResumeInv'
  <2>1. ResumeInv
    BY <1>0, <1>4 DEF PollInv, HasBatch
  <2>2. \A e \in DOMAIN log : ToDo(e) => ToDo(e)'
    BY DEF ToDo
  <2>3. (pc' = "save" => todo' = <<>>) /\ \A k \in DOMAIN todo' : todo'[k] \in DOMAIN log
    BY <2>1 DEF ResumeInv
  <2> QED
    BY <1>0, <2>1, <2>2, <2>3, ResumeStays
<1>5. PollInv'
  BY <1>2, <1>3, <1>4 DEF PollInv
<1> QED
  BY <1>1, <1>5

LEMMA OverKeeps ==
  ASSUME SkipInv, Grown, Idle, pc' = "load"
  PROVE  BaseInv' /\ PollInv'
  BY BaseStays DEF SkipInv, IndexerInv, PollInv

LEMMA NoCursorFacts ==
  /\ NoCursor \in ResumePoint /\ NoCursor.token = NoToken /\ NoCursor.ledger = 0
  /\ \A l \in Nat : LET c == [token |-> NoToken, ledger |-> l]
                    IN  c \in ResumePoint /\ c.token = NoToken /\ c.ledger = l /\ Sound(c)
  BY DEF NoCursor, ResumePoint, Sound

\* A backfill starts where everything before is accounted for.
LEMMA StartBackfillKeeps ==
  ASSUME SkipInv, StartBackfill
  PROVE  SkipTypes' /\ BaseInv' /\ PollInv'
<1> USE DEF chainVars, pollVars
<1>0. IndexerTypes /\ SkipTypes /\ LogInv /\ CursorInv /\ GapInv /\ FillInv
  BY DEF SkipInv, IndexerInv, BaseInv
<1>1. /\ UNCHANGED <<log, latest, oldest, env, record, gaps, resolved, pc, from, retained, resume, origin>>
      /\ pc = "load" /\ cursor # NoCursor
  BY DEF StartBackfill
<1>2. PICK g \in gaps \ resolved : /\ g[1] <= g[2] /\ backfill' = {g}
                                   /\ cursor' = [token |-> NoToken, ledger |-> g[1]]
  BY DEF StartBackfill
<1>3. g[1] \in Nat /\ g[2] \in Int /\ 1 <= g[1] /\ g[2] < latest /\ latest \in Nat /\ origin # 0
  BY <1>0, <1>1, <1>2 DEF GapInv, SkipTypes, CursorInv, IndexerTypes
<1>4. cursor' \in ResumePoint /\ cursor'.token = NoToken /\ cursor'.ledger = g[1]
  BY <1>2, <1>3, NoCursorFacts
<1>5. SkipTypes'
  BY <1>0, <1>1, <1>2, <1>4 DEF SkipTypes
<1>6. \A e \in DOMAIN log : /\ \A b : Kept(e, b)' <=> Kept(e, b)
                            /\ \A h : Filled(e, h)' <=> Filled(e, h)
                            /\ Passed(cursor, e)' => log[e].ledger < g[1]
  BY <1>1, <1>4 DEF Kept, Filled, Tracked, Applied, InGap, Passed
<1>7. LogInv' /\ GapInv'
  <2>1. GapInv'
    BY <1>0, <1>1, <1>3 DEF GapInv, Kept, Tracked, Applied, InGap
  <2> QED
    BY <1>0, <1>1, <2>1 DEF LogInv
<1>8. CursorInv'
  <2>1. \A e \in DOMAIN log' : Passed(cursor, e)' => Kept(e, origin)'
    BY <1>0, <1>1, <1>2, <1>3, <1>6 DEF GapInv, Kept
  <2>2. cursor' # NoCursor
    BY <1>3, <1>4, NoCursorFacts
  <2>3. Sound(cursor)' /\ cursor'.ledger <= latest'
    BY <1>1, <1>2, <1>3, <1>4 DEF Sound
  <2> QED
    BY <1>1, <1>3, <1>4, <2>1, <2>2, <2>3 DEF CursorInv
<1>9. FillInv'
  <2>1. BackfillCloses'
    BY <1>0, <1>1 DEF FillInv, BackfillCloses, Tracked, Applied
  <2>2. ASSUME NEW e \in DOMAIN log, Passed(cursor, e)' PROVE Filled(e, g)'
    <3>1. log[e].ledger < g[1] /\ log[e].ledger \in Nat
      BY <1>0, <1>6, <2>2, LogTypes
    <3>2. Filled(e, g)
      BY <1>3, <3>1 DEF Filled
    <3> QED
      BY <1>6, <3>2
  <2>3. \A h \in backfill' : h = g
    BY <1>2
  <2> QED
    BY <1>1, <1>3, <2>1, <2>2, <2>3 DEF FillInv
<1>10. PollInv'
  BY <1>1 DEF PollInv
<1> QED
  BY <1>5, <1>7, <1>8, <1>9, <1>10 DEF BaseInv

\* It ends with everything in the gap applied.
LEMMA EndBackfillKeeps ==
  ASSUME SkipInv, EndBackfill
  PROVE  SkipTypes' /\ BaseInv' /\ PollInv'
<1> USE DEF chainVars, pollVars, historyVars
<1>0. IndexerTypes /\ SkipTypes /\ LogInv /\ CursorInv /\ GapInv /\ FillInv
  BY DEF SkipInv, IndexerInv, BaseInv
<1>1. /\ UNCHANGED <<log, latest, oldest, env, record, gaps, cursor, pc, from, retained, resume, origin>>
      /\ pc = "load" /\ resolved' = resolved \cup backfill /\ backfill' = {}
  BY DEF EndBackfill
<1>2. PICK g \in backfill : ResumeLedger(cursor) > g[2]
  BY DEF EndBackfill
<1>3. backfill = {g} /\ g \in gaps /\ g[1] \in Nat /\ g[2] \in Int
  BY <1>0 DEF SkipTypes
<1>4. ASSUME NEW e \in DOMAIN log PROVE Filled(e, g)
  <2>1. CASE log[e].ledger <= g[2]
    <3>1. cursor \in ResumePoint /\ Sound(cursor) /\ cursor.ledger \in Nat /\ log[e].ledger \in Nat
      BY <1>0, LogTypes, PointTypes DEF SkipTypes, CursorInv
    <3>2. log[e].ledger < cursor.ledger
      BY <1>2, <1>3, <2>1, <3>1, SoundLedger
    <3>3. Passed(cursor, e)
      BY <1>0, <3>1, <3>2, BeforeIsPassed
    <3> QED
      BY <1>0, <3>3 DEF FillInv
  <2>2. CASE ~(log[e].ledger <= g[2])
    BY <2>2 DEF Filled
  <2> QED
    BY <2>1, <2>2
<1>5. ASSUME NEW e \in DOMAIN log, NEW b, Kept(e, b) PROVE Kept(e, b)'
  <2>1. CASE Tracked(e) /\ log[e].ledger >= b /\ InGap(e)
    <3>1. PICK h \in gaps \ resolved : h[1] <= log[e].ledger /\ log[e].ledger <= h[2]
      BY <2>1 DEF InGap
    <3>2. CASE h = g
      <4>1. Applied(e)
        BY <1>4, <2>1, <3>1, <3>2 DEF Filled
      <4> QED
        BY <1>1, <4>1 DEF Kept, Applied
    <3>3. CASE h # g
      <4>1. h \in gaps' \ resolved'
        BY <1>1, <1>3, <3>3
      <4> QED
        BY <1>1, <3>1, <4>1 DEF Kept, InGap
    <3> QED
      BY <3>2, <3>3
  <2>2. CASE ~(Tracked(e) /\ log[e].ledger >= b /\ InGap(e))
    BY <1>1, <1>5, <2>2 DEF Kept, Tracked, Applied
  <2> QED
    BY <2>1, <2>2
<1>6. SkipTypes'
  BY <1>0, <1>1 DEF SkipTypes
<1>7. LogInv' /\ CursorInv'
  <2>1. origin # 0 => \A e \in DOMAIN log' : Passed(cursor, e)' => Kept(e, origin)'
    <3>1. \A e \in DOMAIN log' : Passed(cursor, e)' => e \in DOMAIN log /\ Passed(cursor, e)
      BY <1>1 DEF Passed
    <3>2. \A e \in DOMAIN log : Kept(e, origin) => Kept(e, origin)'
      BY <1>1, <1>5 DEF Kept
    <3> QED
      BY <1>0, <3>1, <3>2 DEF CursorInv
  <2> QED
    BY <1>0, <1>1, <2>1 DEF LogInv, CursorInv, Sound
<1>8. GapInv'
  <2>1. \A e \in DOMAIN log : Kept(e, origin) => Kept(e, origin)'
    BY <1>1, <1>5 DEF Kept
  <2> QED
    BY <1>0, <1>1, <2>1 DEF GapInv, FirstLedger
<1>9. FillInv'
  <2>1. BackfillCloses'
    BY <1>0, <1>1, <1>3, <1>4 DEF FillInv, BackfillCloses, Filled, Tracked, Applied
  <2> QED
    BY <1>1, <2>1 DEF FillInv
<1>10. PollInv'
  BY <1>1 DEF PollInv
<1> QED
  BY <1>6, <1>7, <1>8, <1>9, <1>10 DEF BaseInv

\* pollOnce reads the saved cursor, or begins.
LEMMA LoadKeeps ==
  ASSUME SkipInv, load, Grown
  PROVE  SkipTypes' /\ BaseInv' /\ PollInv'
<1> USE DEF chainVars, mongoVars, historyVars
<1>0. IndexerTypes /\ SkipTypes /\ BaseInv
  BY DEF SkipInv, IndexerInv
<1>1. Idle /\ UNCHANGED <<oldest, record, retained, resume>> /\ pc' = "fetch"
  BY DEF load, Idle
<1>2. BaseInv'
  BY <1>0, <1>1, BaseStays
<1>3. CASE cursor # NoCursor
  <2>1. from' = cursor /\ cursor' = cursor /\ origin' = origin /\ origin # 0
    BY <1>0, <1>1, <1>3 DEF load, BaseInv, CursorInv, Idle
  <2>2. FromInv'
    BY <1>1, <1>2, <2>1 DEF FromInv, BaseInv, CursorInv, FillInv, Sound, Passed, Begin
  <2> QED
    BY <1>0, <1>1, <1>2, <2>1, <2>2 DEF SkipTypes, PollInv, HasBatch, Idle
<1>4. CASE cursor = NoCursor
  <2>1. from' = [token |-> NoToken, ledger |-> FirstLedger] /\ origin = 0 /\ backfill = {}
    BY <1>0, <1>4 DEF load, FirstLedger, BaseInv, CursorInv, FillInv
  <2>2. FirstLedger \in Nat /\ 1 <= FirstLedger /\ latest \in Nat
    BY <1>0 DEF FirstLedger, SkipTypes, IndexerTypes
  <2>3. from' \in ResumePoint /\ from'.token = NoToken /\ from'.ledger = FirstLedger
    BY <2>1, <2>2, NoCursorFacts
  <2>4. FromInv'
    <3>1. ASSUME NEW e \in DOMAIN log', Passed(from, e)' PROVE Kept(e, Begin)'
      <4>1. log'[e].ledger < FirstLedger /\ log'[e].ledger \in Nat /\ Begin' = FirstLedger
        BY <1>0, <1>1, <2>1, <2>3, <3>1, LogTypes DEF Passed, Begin, Idle
      <4> QED
        BY <2>2, <4>1 DEF Kept
    <3>2. \A g \in gaps' : g[1] <= g[2] => g[1] <= from'.ledger
      BY <1>0, <1>1, <2>1, <2>3 DEF BaseInv, GapInv, Idle
    <3>3. /\ env'.startLedger > 0 => from'.ledger = env'.startLedger
          /\ env'.startLedger = 0 => from'.ledger <= latest'
      BY <1>0, <1>1, <2>2, <2>3 DEF FirstLedger, SkipTypes, Idle
    <3> QED
      BY <1>1, <2>1, <2>2, <2>3, <3>1, <3>2, <3>3 DEF FromInv, Sound, Idle
  <2> QED
    BY <1>0, <1>1, <1>2, <2>3, <2>4 DEF SkipTypes, PollInv, HasBatch, Idle
<1> QED
  BY <1>3, <1>4

\* The node refuses: the gap is still to be recorded, or the poll is over.
LEMMA RefusedKeeps ==
  ASSUME SkipInv, fetchRefused, Grown
  PROVE  SkipTypes' /\ BaseInv' /\ PollInv'
<1> USE DEF chainVars, mongoVars
<1>0. IndexerTypes /\ SkipTypes /\ BaseInv /\ PollInv
  BY DEF SkipInv, IndexerInv
<1>1. Idle /\ UNCHANGED <<oldest, record>>
  BY DEF fetchRefused, Idle
<1>2. CASE PollEnds
  <2>1. SkipTypes'
    BY <1>0, <1>1, <1>2, NoCursorFacts DEF SkipTypes, PollEnds, Idle
  <2> QED
    BY <1>0, <1>1, <1>2, <2>1, OverKeeps DEF PollEnds
<1>3. CASE pc = "fetch" /\ pc' = "gap" /\ retained' = Oldest /\ UNCHANGED <<from, todo, resume>>
  <2>1. Oldest \in Nat /\ 1 <= Oldest /\ Oldest <= latest /\ (backfill # {} => Oldest = 1)
    BY <1>0 DEF Oldest, SkipTypes, IndexerTypes
  <2>2. SkipTypes'
    BY <1>0, <1>1, <1>3, <2>1 DEF SkipTypes, Idle
  <2>3. BaseInv'
    BY <1>0, <1>1, BaseStays
  <2>4. FromInv'
    BY <1>0, <1>1, <1>3, FromStays DEF PollInv
  <2>5. RefusedInv'
    BY <1>1, <1>3, <2>1 DEF RefusedInv, Idle
  <2> QED
    BY <1>3, <2>2, <2>3, <2>4, <2>5 DEF PollInv, HasBatch
<1> QED
  BY <1>2, <1>3 DEF fetchRefused

\* The gap begins where the poll resumed and ends before the oldest ledger.
LEMMA RecordGapKeeps ==
  ASSUME SkipInv, recordRetentionGap
  PROVE  SkipTypes' /\ BaseInv' /\ PollInv'
<1> USE DEF chainVars, historyVars
<1> DEFINE g == <<from.ledger, retained - 1>>
<1>0. IndexerTypes /\ SkipTypes /\ LogInv /\ CursorInv /\ GapInv /\ FillInv /\ FromInv /\ RefusedInv
  BY DEF SkipInv, IndexerInv, BaseInv, PollInv, recordRetentionGap
<1>1. /\ UNCHANGED <<log, latest, oldest, env, record, cursor, resolved, from, retained, todo, resume,
                     backfill, origin>>
      /\ pc' = "skip"
  BY DEF recordRetentionGap
<1>2. gaps' = gaps \cup {g} /\ g[1] = from.ledger /\ g[2] = retained - 1
  BY <1>0, SoundLedger DEF recordRetentionGap, FromInv, SkipTypes
<1>3. from.ledger \in Nat /\ retained \in Nat /\ latest \in Nat /\ 1 <= retained /\ retained <= latest
  BY <1>0, PointTypes DEF RefusedInv, SkipTypes, IndexerTypes
<1>4. g \in Nat \X Int
  BY <1>3
<1> HIDE DEF g
<1>5. SkipTypes'
  BY <1>0, <1>1, <1>2, <1>4 DEF SkipTypes
<1>6. \A e \in DOMAIN log : /\ \A b : Kept(e, b) => Kept(e, b)'
                            /\ \A h : Filled(e, h)' <=> Filled(e, h)
                            /\ \A c : Passed(c, e)' <=> Passed(c, e)
  BY <1>1, <1>2 DEF Kept, Filled, Tracked, Applied, InGap, Passed
<1>7. LogInv' /\ CursorInv'
  <2>1. \A e \in DOMAIN log' : Passed(cursor, e)' => e \in DOMAIN log /\ Passed(cursor, e)
    BY <1>1 DEF Passed
  <2>2. \A e \in DOMAIN log : Kept(e, origin) => Kept(e, origin)'
    BY <1>1, <1>6 DEF Kept
  <2> QED
    BY <1>0, <1>1, <2>1, <2>2 DEF LogInv, CursorInv, Sound
<1>8. GapInv'
  <2>1. g[2] < latest
    BY <1>2, <1>3
  <2>2. 1 <= from.ledger
    BY <1>0 DEF FromInv
  <2>3. origin = 0 => from.ledger <= FirstLedger
    BY <1>0, <1>3 DEF FromInv, FirstLedger, SkipTypes
  <2>4. ASSUME origin # 0, NEW e \in DOMAIN log, log[e].ledger < from.ledger PROVE Kept(e, origin)
    <3>1. Passed(from, e)
      BY <1>0, <2>4, BeforeIsPassed DEF FromInv, SkipTypes
    <3> QED
      BY <1>0, <2>4, <3>1 DEF FromInv, Begin
  <2>5. \A e \in DOMAIN log : Kept(e, origin) => Kept(e, origin)'
    BY <1>1, <1>6 DEF Kept
  <2>6. FirstLedger' = FirstLedger
    BY <1>1 DEF FirstLedger
  <2>7. ASSUME NEW h \in gaps'
        PROVE  /\ h[2] < latest
               /\ h[1] <= h[2] =>
                    /\ 1 <= h[1]
                    /\ origin # 0 => \A e \in DOMAIN log : log[e].ledger < h[1] => Kept(e, origin)
                    /\ origin = 0 => h[1] <= FirstLedger
    <3>1. CASE h \in gaps
      BY <1>0, <3>1 DEF GapInv
    <3>2. CASE h = g
      BY <1>2, <2>1, <2>2, <2>3, <2>4, <3>2
    <3> QED
      BY <1>2, <3>1, <3>2
  <2> QED
    BY <1>1, <2>5, <2>6, <2>7 DEF GapInv
<1>9. FillInv'
  BY <1>0, <1>1, <1>6 DEF FillInv, BackfillCloses, Tracked, Applied, Passed, Filled
<1>10. PollInv'
  <2>1. Begin' = Begin
    BY <1>1 DEF Begin
  <2>2. \A e \in DOMAIN log' : Passed(from, e)' => e \in DOMAIN log /\ Passed(from, e)
    BY <1>1 DEF Passed
  <2>3. \A e \in DOMAIN log' : Passed(from, e)' => Kept(e, Begin)'
    BY <1>0, <1>6, <2>1, <2>2 DEF FromInv, Kept
  <2>4. \A h \in backfill', e \in DOMAIN log' : Passed(from, e)' => Filled(e, h)'
    BY <1>0, <1>1, <1>6, <2>2 DEF FromInv
  <2>5. origin = 0 => \A h \in gaps' : h[1] <= h[2] => h[1] <= from.ledger
    BY <1>0, <1>2, <1>3 DEF FromInv
  <2>6. FromInv'
    BY <1>0, <1>1, <2>3, <2>4, <2>5 DEF FromInv, Sound
  <2>7. RefusedInv'
    BY <1>0, <1>1, <1>2 DEF RefusedInv, g
  <2> QED
    BY <1>1, <2>6, <2>7 DEF PollInv, HasBatch
<1> QED
  BY <1>5, <1>7, <1>8, <1>9, <1>10 DEF BaseInv

\* The cursor skips the gap: what it now leaves behind was behind it before, or
\* lies in the gap just recorded.
LEMMA SkipGapKeeps ==
  ASSUME SkipInv, skipGap
  PROVE  SkipTypes' /\ BaseInv' /\ PollInv'
<1> USE DEF chainVars
<1>0. IndexerTypes /\ SkipTypes /\ LogInv /\ CursorInv /\ GapInv /\ FillInv /\ FromInv /\ RefusedInv
  BY DEF SkipInv, IndexerInv, BaseInv, PollInv, skipGap
<1>1. /\ UNCHANGED <<log, latest, oldest, env, record, gaps, resolved, backfill, retained, todo, resume>>
      /\ pc = "skip" /\ pc' = "refetch"
      /\ from' = [token |-> NoToken, ledger |-> retained] /\ cursor' = from'
  BY DEF skipGap, saveMongoCursor
<1>2. /\ from.ledger \in Nat /\ retained \in Nat /\ latest \in Nat /\ 1 <= retained /\ retained <= latest
      /\ 1 <= from.ledger /\ origin \in Nat
  BY <1>0, PointTypes DEF RefusedInv, SkipTypes, IndexerTypes, FromInv
<1>3. origin' = Begin /\ Begin' = Begin /\ Begin \in Nat /\ Begin # 0
  BY <1>0, <1>2, SoundLedger DEF skipGap, saveMongoCursor, Begin, FromInv, SkipTypes
<1>4. /\ from' \in ResumePoint /\ from'.token = NoToken /\ from'.ledger = retained
      /\ cursor'.token = NoToken /\ cursor'.ledger = retained
  BY <1>1, <1>2, NoCursorFacts
<1>5. SkipTypes'
  BY <1>0, <1>1, <1>3, <1>4 DEF SkipTypes
<1>6. \A e \in DOMAIN log : /\ \A b : Kept(e, b)' <=> Kept(e, b)
                            /\ \A h : Filled(e, h)' <=> Filled(e, h)
                            /\ Passed(from, e)' => log[e].ledger < retained
                            /\ Passed(cursor, e)' => log[e].ledger < retained
  BY <1>1, <1>4 DEF Kept, Filled, Tracked, Applied, InGap, Passed
<1>7. ASSUME NEW e \in DOMAIN log, log[e].ledger < retained PROVE Kept(e, Begin)
  <2>0. log[e].ledger \in Nat
    BY <1>0, LogTypes
  <2>1. CASE log[e].ledger < from.ledger
    <3>1. Passed(from, e)
      BY <1>0, <2>1, BeforeIsPassed DEF FromInv, SkipTypes
    <3> QED
      BY <1>0, <3>1 DEF FromInv
  <2>2. CASE from.ledger <= log[e].ledger
    <3>1. PICK g \in gaps : g[1] = from.ledger /\ g[2] = retained - 1
      BY <1>0, <1>1 DEF RefusedInv
    <3>2. g[1] <= log[e].ledger /\ log[e].ledger <= g[2]
      BY <1>2, <1>7, <2>0, <2>2, <3>1
    <3>3. Tracked(e) => Applied(e) \/ InGap(e)
      BY <1>0, <3>2 DEF FillInv, BackfillCloses, InGap
    <3> QED
      BY <3>3 DEF Kept
  <2> QED
    BY <1>2, <2>0, <2>1, <2>2
<1>8. ASSUME NEW g \in backfill, NEW e \in DOMAIN log, log[e].ledger < retained PROVE FALSE
  BY <1>0, <1>8, LogTypes DEF RefusedInv, LogInv
<1>9. \A e \in DOMAIN log : Kept(e, Begin) => Kept(e, Begin)'
  BY <1>3, <1>6 DEF Kept
<1>10. LogInv'
  BY <1>0, <1>1 DEF LogInv
<1>11. CursorInv'
  <2>1. \A e \in DOMAIN log' : Passed(cursor, e)' => Kept(e, Begin)'
    BY <1>1, <1>6, <1>7, <1>9
  <2>2. \A e \in DOMAIN log' : Passed(cursor, e)' => Kept(e, origin)'
    BY <1>3, <2>1 DEF Kept
  <2>3. cursor' # NoCursor
    BY <1>2, <1>4, NoCursorFacts
  <2> QED
    BY <1>1, <1>2, <1>3, <1>4, <2>2, <2>3 DEF CursorInv, Sound
<1>12. GapInv'
  <2>1. ASSUME NEW g \in gaps, g[1] <= g[2], NEW e \in DOMAIN log, log[e].ledger < g[1]
        PROVE  Kept(e, Begin)
    <3>1. CASE origin # 0
      BY <1>0, <2>1, <3>1 DEF GapInv, Begin
    <3>2. CASE origin = 0
      <4>1. g[1] <= from.ledger /\ Begin = from.ledger /\ g[1] \in Nat
        BY <1>0, <2>1, <3>2 DEF FromInv, Begin, SkipTypes
      <4>2. log[e].ledger \in Nat
        BY <1>0, LogTypes
      <4>3. log[e].ledger < Begin
        BY <1>2, <2>1, <4>1, <4>2
      <4> QED
        BY <1>3, <4>2, <4>3 DEF Kept
    <3> QED
      BY <3>1, <3>2
  <2>2. \A g \in gaps : g[1] <= g[2] => \A e \in DOMAIN log : log[e].ledger < g[1] => Kept(e, origin)'
    BY <1>3, <1>9, <2>1 DEF Kept
  <2> QED
    BY <1>0, <1>1, <1>3, <2>2 DEF GapInv
<1>13. FillInv'
  <2>1. BackfillCloses'
    BY <1>0, <1>1 DEF FillInv, BackfillCloses, Tracked, Applied
  <2> QED
    BY <1>1, <1>3, <1>6, <1>8, <2>1 DEF FillInv
<1>14. FromInv'
  <2>1. \A e \in DOMAIN log' : Passed(from, e)' => Kept(e, Begin)'
    BY <1>1, <1>6, <1>7, <1>9
  <2> QED
    BY <1>1, <1>2, <1>3, <1>4, <1>6, <1>8, <2>1 DEF FromInv, Sound
<1> QED
  BY <1>1, <1>5, <1>10, <1>11, <1>12, <1>13, <1>14 DEF BaseInv, PollInv, HasBatch

\* The batch is done when its cursor is saved.
LEMMA SaveCursorKeeps ==
  ASSUME SkipInv, saveCursor
  PROVE  SkipTypes' /\ BaseInv' /\ PollInv'
<1> USE DEF chainVars
<1>0. IndexerTypes /\ SkipTypes /\ LogInv /\ CursorInv /\ GapInv /\ FillInv /\ FromInv /\ ResumeInv
  BY DEF SkipInv, IndexerInv, BaseInv, PollInv, saveCursor, HasBatch
<1>1. /\ UNCHANGED <<log, latest, oldest, env, record, gaps, resolved, backfill>>
      /\ pc = "save" /\ todo = <<>> /\ PollEnds /\ cursor' = resume
  BY <1>0 DEF saveCursor, saveMongoCursor, ResumeInv
<1>2. /\ from.ledger \in Nat /\ latest \in Nat /\ 1 <= from.ledger /\ origin \in Nat
      /\ 1 <= resume.ledger /\ resume.ledger <= latest
  BY <1>0, PointTypes DEF SkipTypes, IndexerTypes, FromInv, ResumeInv
<1>3. origin' = Begin /\ Begin \in Nat /\ Begin # 0
  BY <1>0, <1>2, SoundLedger DEF saveCursor, saveMongoCursor, Begin, FromInv, SkipTypes
<1>4. SkipTypes'
  BY <1>0, <1>1, <1>3, NoCursorFacts DEF SkipTypes, PollEnds
<1>5. \A e \in DOMAIN log : /\ \A b : Kept(e, b)' <=> Kept(e, b)
                            /\ \A h : Filled(e, h)' <=> Filled(e, h)
                            /\ Passed(cursor, e)' => Passed(resume, e)
  BY <1>1 DEF Kept, Filled, Tracked, Applied, InGap, Passed
<1>6. \A e \in DOMAIN log : ~ToDo(e)
  BY <1>1 DEF ToDo
<1>7. \A e \in DOMAIN log : Kept(e, Begin) => Kept(e, origin)'
  BY <1>3, <1>5 DEF Kept
<1>8. LogInv'
  BY <1>0, <1>1 DEF LogInv
<1>9. CursorInv'
  <2>1. \A e \in DOMAIN log' : Passed(cursor, e)' => Kept(e, origin)'
    BY <1>0, <1>1, <1>5, <1>6, <1>7 DEF ResumeInv
  <2>2. cursor' # NoCursor
    BY <1>1, <1>2, NoCursorFacts
  <2> QED
    BY <1>0, <1>1, <1>2, <1>3, <2>1, <2>2 DEF CursorInv, Sound, ResumeInv
<1>10. GapInv'
  <2>1. ASSUME NEW g \in gaps, g[1] <= g[2], NEW e \in DOMAIN log, log[e].ledger < g[1]
        PROVE  Kept(e, Begin)
    <3>1. CASE origin # 0
      BY <1>0, <2>1, <3>1 DEF GapInv, Begin
    <3>2. CASE origin = 0
      <4>1. g[1] <= from.ledger /\ Begin = from.ledger /\ g[1] \in Nat
        BY <1>0, <2>1, <3>2 DEF FromInv, Begin, SkipTypes
      <4>2. log[e].ledger \in Nat
        BY <1>0, LogTypes
      <4>3. log[e].ledger < Begin
        BY <1>2, <2>1, <4>1, <4>2
      <4> QED
        BY <1>3, <4>2, <4>3 DEF Kept
    <3> QED
      BY <3>1, <3>2
  <2>2. \A g \in gaps : g[1] <= g[2] => \A e \in DOMAIN log : log[e].ledger < g[1] => Kept(e, origin)'
    BY <1>7, <2>1
  <2> QED
    BY <1>0, <1>1, <1>3, <2>2 DEF GapInv
<1>11. FillInv'
  <2>1. BackfillCloses'
    BY <1>0, <1>1 DEF FillInv, BackfillCloses, Tracked, Applied
  <2> QED
    BY <1>0, <1>1, <1>3, <1>5, <1>6, <2>1 DEF FillInv, ResumeInv
<1> QED
  BY <1>1, <1>4, <1>8, <1>9, <1>10, <1>11 DEF BaseInv, PollInv, PollEnds

\* A poll that dies leaves what Mongo holds.
LEMMA AbandonKeeps ==
  ASSUME SkipInv, Abandon, Grown
  PROVE  SkipTypes' /\ BaseInv' /\ PollInv'
<1> USE DEF chainVars, mongoVars
<1>1. Idle /\ UNCHANGED oldest /\ PollEnds
  BY DEF Abandon, Idle
<1>2. SkipTypes'
  BY <1>1, NoCursorFacts DEF SkipInv, SkipTypes, PollEnds, Idle
<1> QED
  BY <1>1, <1>2, OverKeeps DEF PollEnds

LEMMA ForgetKeeps ==
  ASSUME SkipInv, Forget \/ InsertRow, Grown
  PROVE  SkipTypes' /\ BaseInv' /\ PollInv'
<1> USE DEF chainVars, mongoVars, pollVars, historyVars
<1>1. Idle /\ UNCHANGED <<pc, from, retained, todo, resume>>
  BY DEF Forget, InsertRow, Idle
<1>2. oldest' \in Nat /\ 1 <= oldest' /\ oldest' <= latest'
  BY DEF SkipInv, SkipTypes, IndexerInv, IndexerTypes, Forget, InsertRow
<1>3. SkipTypes'
  BY <1>1, <1>2 DEF SkipInv, SkipTypes, Idle
<1> QED
  BY <1>1, <1>3, SameKeeps

\* A step of recordTransition: the event in hand stays, or is not tracked or
\* applied when the next one is taken.
LEMMA BatchStepKeeps ==
  ASSUME SkipInv, Grown, Idle, UNCHANGED <<oldest, from, retained, resume>>, pc \in Recording,
         \/ UNCHANGED todo /\ pc' \in Recording
         \/ NextEvent /\ (~Tracked(Head(todo)) \/ record'[Head(todo)] = "applied")
  PROVE  SkipTypes' /\ BaseInv' /\ PollInv'
<1>0. IndexerTypes /\ SkipTypes /\ BaseInv /\ FromInv /\ ResumeInv /\ todo \in Seq(EventId) /\ todo # <<>>
  BY DEF SkipInv, IndexerInv, IndexerTypes, PollInv, Recording, HasBatch
<1>1. SkipTypes'
  BY <1>0 DEF SkipTypes, Idle
<1>2. BaseInv'
  BY <1>0, BaseStays
<1>3. pc' \in HasBatch
  BY DEF NextEvent, Recording, HasBatch
<1>4. FromInv'
  BY <1>0, <1>3, FromStays DEF HasBatch
<1>5. CASE UNCHANGED todo /\ pc' \in Recording
  <2>1. \A e \in DOMAIN log : ToDo(e) => ToDo(e)'
    BY <1>5 DEF ToDo
  <2>2. (pc' = "save" => todo' = <<>>) /\ \A k \in DOMAIN todo' : todo'[k] \in DOMAIN log
    BY <1>0, <1>5 DEF ResumeInv, Recording
  <2>3. ResumeInv'
    BY <1>0, <2>1, <2>2, ResumeStays
  <2> QED
    BY <1>1, <1>2, <1>3, <1>4, <2>3 DEF PollInv, HasBatch
<1>6. CASE NextEvent /\ (~Tracked(Head(todo)) \/ record'[Head(todo)] = "applied")
  <2>0. todo' = Tail(todo) /\ (pc' = "save" => todo' = <<>>)
    BY <1>6 DEF NextEvent
  <2>1. /\ \A k \in DOMAIN todo : todo[k] = Head(todo) \/ \E j \in DOMAIN todo' : todo'[j] = todo[k]
        /\ \A j \in DOMAIN todo' : \E k \in DOMAIN todo : todo'[j] = todo[k]
    BY <1>0, <2>0, TailHolds
  <2>2. \A e \in DOMAIN log : ToDo(e) => ToDo(e)' \/ e = Head(todo)
    BY <2>1 DEF ToDo
  <2>3. \A e \in DOMAIN log : ToDo(e) => ToDo(e)' \/ ~Tracked(e) \/ Applied(e)'
    BY <1>6, <2>2 DEF Applied
  <2>4. \A k \in DOMAIN todo' : todo'[k] \in DOMAIN log
    BY <1>0, <2>1 DEF ResumeInv
  <2>5. ResumeInv'
    BY <1>0, <2>0, <2>3, <2>4, ResumeStays
  <2> QED
    BY <1>1, <1>2, <1>3, <1>4, <2>5 DEF PollInv, HasBatch
<1> QED
  BY <1>5, <1>6

LEMMA RecordKeeps ==
  ASSUME SkipInv, Grown, storeEvent \/ updateStatus \/ markApplied \/ persistTransition
  PROVE  SkipTypes' /\ BaseInv' /\ PollInv'
<1> USE DEF chainVars, mongoVars, historyVars
<1>1. Idle /\ UNCHANGED <<oldest, from, retained, resume>> /\ pc \in Recording
  BY DEF storeEvent, updateStatus, markApplied, persistTransition, Idle, Recording
<1>2. CASE storeEvent
  <2>1. CASE NextEvent /\ UNCHANGED record /\ (~Tracked(e1) \/ AlreadyApplied(e1))
    BY <1>1, <2>1, BatchStepKeeps DEF e1, AlreadyApplied, Applied
  <2>2. CASE pc' = "status" /\ UNCHANGED todo
    BY <1>1, <2>2, BatchStepKeeps DEF Recording
  <2> QED
    BY <1>2, <2>1, <2>2 DEF storeEvent
<1>3. CASE updateStatus \/ markApplied
  <2>1. UNCHANGED todo /\ pc' \in Recording
    BY <1>3 DEF updateStatus, markApplied, Recording
  <2> QED
    BY <1>1, <2>1, BatchStepKeeps
<1>4. CASE persistTransition
  <2>1. NextEvent /\ UNCHANGED record /\ record[Head(todo)] = "applied"
    BY <1>4 DEF persistTransition, SkipInv, IndexerInv, HookInv
  <2> QED
    BY <1>1, <2>1, BatchStepKeeps DEF Applied
<1> QED
  BY <1>2, <1>3, <1>4

\* What a page's cursor leaves behind is behind the resume point or in the page.
LEMMA PageKeeps ==
  ASSUME SkipInv, Grown, Idle, UNCHANGED <<oldest, from, retained>>, pc # "load",
         pc' \in HasBatch, pc' = "save" => todo' = <<>>,
         \A k \in DOMAIN todo' : todo'[k] \in DOMAIN log,
         resume' \in ResumePoint, Sound(resume)', 1 <= resume'.ledger, resume'.ledger <= latest,
         \A e \in DOMAIN log : Passed(resume, e)' => Passed(from, e) \/ ToDo(e)'
  PROVE  SkipTypes' /\ BaseInv' /\ PollInv'
<1>0. IndexerTypes /\ SkipTypes /\ BaseInv /\ FromInv
  BY DEF SkipInv, IndexerInv, PollInv
<1>1. SkipTypes'
  BY <1>0 DEF SkipTypes, Idle
<1>2. BaseInv'
  BY <1>0, BaseStays
<1>3. FromInv'
  BY <1>0, FromStays DEF HasBatch
<1>4. \A e \in DOMAIN log : Passed(from, e) => Passed(from, e)'
  BY DEF Passed, Idle
<1>5. ResumeInv'
  BY <1>3, <1>4 DEF ResumeInv, FromInv, Idle
<1> QED
  BY <1>1, <1>2, <1>3, <1>5 DEF PollInv, HasBatch

LEMMA FetchKeeps ==
  ASSUME SkipInv, Grown, fetchEvents
  PROVE  SkipTypes' /\ BaseInv' /\ PollInv'
<1> USE DEF chainVars, mongoVars
<1>0. IndexerTypes /\ SkipTypes /\ LogInv /\ FromInv
  BY DEF SkipInv, IndexerInv, BaseInv, PollInv, fetchEvents
<1>1. Idle /\ UNCHANGED <<oldest, from, retained, record>> /\ pc # "load"
  BY DEF fetchEvents, Idle
<1>2. PICK upTo \in Ledger :
        /\ Answers(upTo) /\ ~Refused(upTo)
        /\ resume' \in NextCursor(Fetched(upTo), upTo)
        /\ IF Fetched(upTo) = {} THEN todo' = <<>> /\ pc' = "save"
           ELSE /\ pc' = "store"
                /\ \E first, last \in Fetched(upTo) :
                     /\ \A e \in Fetched(upTo) : first <= e /\ e <= last
                     /\ todo' = Run(first, last)
  BY DEF fetchEvents
<1>3. upTo \in Nat /\ 1 <= upTo /\ upTo <= latest /\ latest \in Nat
  <2>1. Oldest \in Nat /\ latest \in Nat
    BY <1>0 DEF Oldest, SkipTypes, IndexerTypes
  <2>2. upTo \in Nat /\ 1 <= upTo
    BY IndexerAssumption DEF Ledger
  <2>3. upTo = latest \/ upTo \in Oldest .. latest - 1
    BY <1>2 DEF Answers
  <2> QED
    BY <2>1, <2>2, <2>3
<1>4. from \in ResumePoint /\ from.ledger \in Nat /\ 1 <= from.ledger /\ from.ledger <= upTo
  <2>1. from \in ResumePoint /\ from.ledger \in Nat /\ 1 <= from.ledger /\ ResumeLedger(from) = from.ledger
    BY <1>0, PointTypes, SoundLedger DEF SkipTypes, FromInv
  <2>2. ~(from.ledger > upTo)
    BY <1>2, <2>1 DEF Refused
  <2> QED
    BY <1>3, <2>1, <2>2
<1>5. /\ DOMAIN log = 1 .. Len(log) /\ Len(log) \in Nat
      /\ \A e \in DOMAIN log : e \in Nat /\ log[e].ledger \in Nat /\ 1 <= log[e].ledger
  BY <1>0, LogTypes DEF LogInv
<1>6. \A e \in DOMAIN log : log[e].ledger <= upTo /\ ~Passed(from, e) =>
        Fetched(upTo) # {} /\ \A last \in Fetched(upTo) : e <= last => e \in Fetched(upTo)
  BY <1>0, <1>3, <1>4, BatchComplete
<1>7. CASE Fetched(upTo) = {}
  <2>0. todo' = <<>> /\ pc' = "save"
    BY <1>2, <1>7
  <2>1. /\ EndOf(upTo) \in Nat /\ EndOf(upTo) <= Len(log)
        /\ \A e \in DOMAIN log : e <= EndOf(upTo) <=> log[e].ledger <= upTo
    BY <1>0, <1>3, EndOfLog
  <2>2. PICK t \in {NoToken, [ledger |-> upTo, after |-> EndOf(upTo)]} :
          resume' = [token |-> t, ledger |-> upTo]
    <3>1. ~(from.ledger > upTo)
      BY <1>3, <1>4
    <3> QED
      BY <1>2, <1>7, <3>1 DEF NextCursor
  <2>3. resume' \in ResumePoint /\ resume'.ledger = upTo /\ resume'.token = t
    BY <1>3, <2>1, <2>2 DEF ResumePoint
  <2>4. t # NoToken => t.ledger = upTo /\ t.after = EndOf(upTo)
    BY <2>2
  <2>5. Sound(resume)'
    BY <1>1, <1>3, <1>5, <2>1, <2>3, <2>4 DEF Sound, Idle
  <2>6. \A e \in DOMAIN log : Passed(resume, e)' => log[e].ledger <= upTo
    BY <1>1, <1>3, <1>5, <2>1, <2>3, <2>4 DEF Passed, Idle
  <2>7. \A e \in DOMAIN log : Passed(resume, e)' => Passed(from, e)
    BY <1>6, <1>7, <2>6
  <2> QED
    BY <1>1, <1>3, <2>0, <2>3, <2>5, <2>7, PageKeeps DEF HasBatch
<1>8. CASE Fetched(upTo) # {}
  <2>1. PICK first \in Fetched(upTo), last \in Fetched(upTo) :
          (\A e \in Fetched(upTo) : first <= e /\ e <= last) /\ todo' = Run(first, last)
    BY <1>2, <1>8
  <2>2. /\ first \in DOMAIN log /\ last \in DOMAIN log /\ log[last].ledger <= upTo
        /\ \A e \in Fetched(upTo) : e \in Nat
    BY <1>5, BatchTypes
  <2>3. last = CHOOSE e \in Fetched(upTo) : \A d \in Fetched(upTo) : d <= e
    <3>1. \A l \in Fetched(upTo) : (\A d \in Fetched(upTo) : d <= l) => l = last
      <4>1. ASSUME NEW l \in Fetched(upTo), \A d \in Fetched(upTo) : d <= l PROVE l = last
        <5>1. last <= l /\ l <= last /\ l \in Nat /\ last \in Nat
          BY <2>1, <2>2, <4>1
        <5> QED
          BY <5>1
      <4> QED
        BY <4>1
    <3>2. \A d \in Fetched(upTo) : d <= last
      BY <2>1
    <3> QED
      BY <3>1, <3>2
  <2>4. resume' = [token |-> [ledger |-> log[last].ledger, after |-> last], ledger |-> log[last].ledger]
    BY <1>2, <1>8, <2>3 DEF NextCursor
  <2>5. /\ resume' \in ResumePoint /\ resume'.ledger = log[last].ledger
        /\ resume'.token.ledger = log[last].ledger /\ resume'.token.after = last
    BY <1>5, <2>2, <2>4 DEF ResumePoint
  <2>6. \A e \in DOMAIN log : log[e].ledger < log[last].ledger => e <= last
    BY <1>0, <1>5, <2>2 DEF LogInv
  <2>7. Sound(resume)'
    BY <1>1, <1>3, <1>5, <2>2, <2>5, <2>6 DEF Sound, Idle
  <2>8. \A e \in DOMAIN log : Passed(resume, e)' => e <= last
    BY <1>1, <2>5, <2>6 DEF Passed, Idle
  <2>9. ASSUME NEW e \in DOMAIN log, e <= last, ~Passed(from, e) PROVE ToDo(e)'
    <3>1. log[e].ledger <= upTo
      BY <1>0, <1>3, <1>5, <2>2, <2>9 DEF LogInv
    <3>2. e \in Fetched(upTo)
      BY <1>6, <2>9, <3>1
    <3>3. first <= e /\ e <= last /\ first \in Nat /\ last \in Nat /\ e \in Nat
      BY <1>5, <2>1, <2>2, <3>2
    <3> QED
      BY <2>1, <3>3, RunHolds DEF ToDo
  <2>10. \A k \in DOMAIN todo' : todo'[k] \in DOMAIN log
    <3>1. first \in Nat /\ last \in Nat /\ 1 <= first /\ last <= Len(log)
      BY <1>5, <2>2
    <3>2. \A k \in DOMAIN todo' : first <= todo'[k] /\ todo'[k] <= last /\ todo'[k] \in Nat
      BY <2>1, <3>1, RunHolds
    <3> QED
      BY <1>5, <3>1, <3>2
  <2>11. pc' = "store"
    BY <1>2, <1>8
  <2>12. 1 <= resume'.ledger /\ resume'.ledger <= latest
    BY <1>3, <1>5, <2>2, <2>5
  <2>13. \A e \in DOMAIN log : Passed(resume, e)' => Passed(from, e) \/ ToDo(e)'
    BY <2>8, <2>9
  <2> QED
    BY <1>1, <2>5, <2>7, <2>10, <2>11, <2>12, <2>13, PageKeeps DEF HasBatch
<1> QED
  BY <1>7, <1>8
-----------------------------------------------------------------------------
LEMMA StepKeepsSkip == SkipInv /\ [Next]_vars => SkipInv'
<1> SUFFICES ASSUME SkipInv, [Next]_vars PROVE SkipInv'
  OBVIOUS
<1>0. IndexerInv /\ IndexerInv'
  BY StepKeepsInv DEF SkipInv
<1>1. CASE UNCHANGED vars
  BY <1>0, <1>1 DEF vars, chainVars, mongoVars, pollVars, historyVars, SkipInv, SkipTypes, BaseInv,
     LogInv, CursorInv, GapInv, FillInv, PollInv, FromInv, RefusedInv, ResumeInv, Sound, Passed, Kept,
     Filled, Begin, FirstLedger, ToDo, BackfillCloses, Tracked, Applied, InGap
<1>2. CASE Next
  <2>1. Grown
    BY <1>0, <1>2, AppliedStays
  <2>2. SkipTypes' /\ BaseInv' /\ PollInv'
    BY <1>0, <1>2, <2>1, PublishKeeps, CloseLedgerKeeps, ForgetKeeps, StartBackfillKeeps,
       EndBackfillKeeps, AbandonKeeps, LoadKeeps, FetchKeeps, RefusedKeeps, RecordGapKeeps,
       SkipGapKeeps, SaveCursorKeeps, RecordKeeps
    DEF Next, Environment, pollOnce, IndexerInv
  <2> QED
    BY <1>0, <2>2 DEF SkipInv
<1> QED
  BY <1>1, <1>2

\* Whatever polls die, answers lag, ledgers are forgotten and gaps backfilled,
\* in any order and however large the chain and the pages: an event behind the
\* cursor that indexer.ts saves is applied, or lies in a gap listed as open.
THEOREM SkipsAreListed == Spec => []NothingSkipped
<1>1. SkipInv => NothingSkipped
  BY DEF SkipInv, BaseInv, CursorInv, NothingSkipped, Behind, Passed, Kept
<1> QED
  BY <1>1, SkipInit, StepKeepsSkip, PTL DEF Spec

\* A gap that the operator marked as backfilled holds no event that was not
\* applied, even when the backfilling indexer died and resumed in between.
THEOREM BackfillsAreComplete == Spec => []BackfillCloses
<1>1. SkipInv => BackfillCloses
  BY DEF SkipInv, BaseInv, FillInv
<1> QED
  BY <1>1, SkipInit, StepKeepsSkip, PTL DEF Spec
-----------------------------------------------------------------------------
(* Rows do not fall back.  Events are recorded in chain order, as long as no *)
(* backfill moves the cursor back, except those that were passed over: *)
PassedOver(e) == Tracked(e) /\ ~Applied(e) /\ \E d \in DOMAIN log : d > e /\ record[d] # "none"

\* The batch in hand is in chain order and leaves nothing out.
BatchInv ==
  /\ \A j, k \in DOMAIN todo : j < k => todo[j] < todo[k]
  /\ \A k \in DOMAIN todo, e \in DOMAIN log : e < todo[k] => Kept(e, Begin) \/ ToDo(e)

\* Gaps end before the ledgers the node retains.
PageInv ==
  /\ \A e \in EventId : record[e] # "none" => e \in DOMAIN log
  /\ \A g \in gaps : g[2] < oldest
  /\ pc \in {"gap", "skip"} => retained <= oldest
  /\ pc \in {"status", "mark"} => record[Head(todo)] = "stored"
  /\ pc \in HasBatch => BatchInv

\* So an event passed over is one the node has forgotten, or one from before
\* indexing began, and the batch in hand holds no other.
OrderInv ==
  ~rewound =>
    /\ backfill = {}
    /\ pc \in HasBatch => \A g \in gaps : g[2] < from.ledger
    /\ \A e \in DOMAIN log : PassedOver(e) =>
         /\ origin # 0 /\ log[e].ledger >= origin => log[e].ledger < oldest
         /\ origin = 0 => log[e].ledger < FirstLedger /\ (pc # "load" => log[e].ledger < from.ledger)
    /\ pc \in HasBatch => \A k \in DOMAIN todo : PassedOver(todo[k]) => log[todo[k]].ledger < origin

\* A row shows the newest event applied to it; one that is not there yet missed
\* none; and the event about to be marked is shown.
RowInv ==
  env.idTopic /\ StayedAhead =>
    \A i \in Invoice \ missed :
      /\ row[i] # "none" => StatusShown(i)
      /\ row[i] = "none" => \A e \in StatusEvents(i) : ~Applied(e)
      /\ pc = "mark" /\ Head(todo) \in StatusEvents(i) =>
           row[i] = STATUS_BY_EVENT[log[Head(todo)].event]

RowTypes == row \in [Invoice -> RowStatus] /\ rewound \in BOOLEAN

FollowInv == SkipInv /\ RowTypes /\ PageInv /\ OrderInv /\ RowInv

LEMMA FollowInit == Init => FollowInv
<1> SUFFICES ASSUME Init PROVE FollowInv
  OBVIOUS
<1>1. log = <<>> /\ DOMAIN log = {} /\ gaps = {} /\ backfill = {} /\ pc = "load" /\ rewound = FALSE
  BY DEF Init
<1>2. RowTypes
  BY DEF Init, RowTypes, RowStatus
<1>3. PageInv /\ OrderInv
  BY <1>1 DEF Init, PageInv, OrderInv, HasBatch
<1>4. RowInv
  BY <1>1 DEF RowInv, StatusShown, StatusEvents
<1> QED
  BY <1>2, <1>3, <1>4, SkipInit DEF FollowInv

\* The events to do are events of the log, the first of them first.
LEMMA ToDoTypes ==
  ASSUME SkipInv, pc \in HasBatch
  PROVE  /\ todo \in Seq(EventId) /\ DOMAIN todo = 1 .. Len(todo) /\ Len(todo) \in Nat
         /\ \A k \in DOMAIN todo : todo[k] \in DOMAIN log /\ todo[k] \in Nat
         /\ pc \in Recording => 1 \in DOMAIN todo /\ Head(todo) = todo[1] /\ Head(todo) \in DOMAIN log
<1>1. /\ todo \in Seq(EventId) /\ (pc \in Recording => todo # <<>>)
      /\ \A k \in DOMAIN todo : todo[k] \in DOMAIN log
  BY DEF SkipInv, IndexerInv, IndexerTypes, PollInv, ResumeInv, HasBatch
<1>2. \A e \in DOMAIN log : e \in Nat
  BY LogTypes DEF SkipInv, IndexerInv
<1> QED
  BY <1>1, <1>2

LEMMA BatchStays ==
  ASSUME SkipInv, BatchInv, Grown, UNCHANGED <<log, gaps, resolved, origin, from, todo>>
  PROVE  BatchInv'
<1>0. IndexerTypes /\ SkipTypes
  BY DEF SkipInv, IndexerInv
<1>1. Begin \in Nat /\ Begin' = Begin
  BY <1>0, PointTypes DEF Begin, SkipTypes
<1>2. \A e \in DOMAIN log : Kept(e, Begin) => Kept(e, Begin)'
  BY <1>0, <1>1, AccountsStay DEF Kept
<1>3. \A e \in DOMAIN log : ToDo(e) => ToDo(e)'
  BY DEF ToDo
<1> QED
  BY <1>2, <1>3 DEF BatchInv

LEMMA BatchPublish ==
  ASSUME SkipInv, BatchInv, pc \in HasBatch, Publish
  PROVE  BatchInv'
<1> USE DEF mongoVars, pollVars, historyVars
<1>1. UNCHANGED <<record, gaps, resolved, origin, from, todo>>
  BY DEF Publish
<1>2. /\ DOMAIN log \subseteq DOMAIN log' /\ \A e \in DOMAIN log : log'[e] = log[e] /\ e \in Nat
      /\ \A e \in DOMAIN log' \ DOMAIN log, d \in DOMAIN log : e \in Nat /\ d < e
  <2>1. PICK x : log' = Append(log, x)
    BY DEF Publish
  <2>2. \E R : log \in Seq(R)
    <3> HIDE DEF Edge
    <3> QED
      BY DEF SkipInv, IndexerInv, IndexerTypes
  <2> QED
    BY <2>1, <2>2
<1>3. \A k \in DOMAIN todo : todo[k] \in DOMAIN log /\ todo[k] \in Nat
  BY ToDoTypes
<1>4. \A k \in DOMAIN todo, e \in DOMAIN log' : e < todo[k] => e \in DOMAIN log
  BY <1>2, <1>3
<1>5. Begin' = Begin
  BY <1>1 DEF Begin
<1>6. \A e \in DOMAIN log : (Kept(e, Begin) => Kept(e, Begin)') /\ (ToDo(e) => ToDo(e)')
  BY <1>1, <1>2, <1>5 DEF Kept, Tracked, Applied, InGap, ToDo
<1> QED
  BY <1>1, <1>4, <1>6 DEF BatchInv

LEMMA BatchTail ==
  ASSUME SkipInv, BatchInv, Grown, UNCHANGED <<log, gaps, resolved, origin, from>>,
         pc \in Recording, todo' = Tail(todo),
         ~Tracked(Head(todo)) \/ record'[Head(todo)] = "applied"
  PROVE  BatchInv'
<1>0. IndexerTypes /\ SkipTypes /\ todo \in Seq(EventId) /\ todo # <<>>
  BY DEF SkipInv, IndexerInv, IndexerTypes
<1>1. Begin \in Nat /\ Begin' = Begin
  BY <1>0, PointTypes DEF Begin, SkipTypes
<1>2. \A e \in DOMAIN log : Kept(e, Begin) => Kept(e, Begin)'
  BY <1>0, <1>1, AccountsStay DEF Kept
<1>3. \A e \in DOMAIN log : ToDo(e) => ToDo(e)' \/ Kept(e, Begin)'
  <2>1. \A e \in DOMAIN log : ToDo(e) => ToDo(e)' \/ e = Head(todo)
    BY <1>0, TailHolds DEF ToDo
  <2>2. ASSUME NEW e \in DOMAIN log, e = Head(todo) PROVE Kept(e, Begin)'
    BY <2>2 DEF Kept, Tracked, Applied
  <2> QED
    BY <2>1, <2>2
<1>4. /\ Len(todo) \in Nat /\ DOMAIN todo = 1 .. Len(todo) /\ DOMAIN todo' = 1 .. Len(todo) - 1
      /\ \A k \in DOMAIN todo' : todo'[k] = todo[k + 1] /\ k + 1 \in DOMAIN todo
  BY <1>0
<1>5. \A j, k \in DOMAIN todo' : j < k => todo'[j] < todo'[k]
  <2>1. \A j, k \in DOMAIN todo' : j < k => j + 1 < k + 1
    BY <1>4
  <2> QED
    BY <1>4, <2>1 DEF BatchInv
<1>6. \A k \in DOMAIN todo', e \in DOMAIN log : e < todo'[k] => Kept(e, Begin) \/ ToDo(e)
  BY <1>4 DEF BatchInv
<1> QED
  BY <1>2, <1>3, <1>5, <1>6 DEF BatchInv

\* What the node answers, in order, from the resume point on.
LEMMA FetchedPage ==
  ASSUME SkipInv, fetchEvents
  PROVE  \/ pc' = "save" /\ todo' = <<>> /\ from.ledger >= Oldest
         \/ /\ pc' = "store" /\ from.ledger >= Oldest
            /\ \A j, k \in DOMAIN todo' : j < k => todo'[j] < todo'[k]
            /\ \A k \in DOMAIN todo' : todo'[k] \in DOMAIN log /\ log[todo'[k]].ledger >= from.ledger
            /\ \A k \in DOMAIN todo', e \in DOMAIN log : e < todo'[k] => Passed(from, e) \/ ToDo(e)'
<1>0. IndexerTypes /\ SkipTypes /\ LogInv /\ FromInv
  BY DEF SkipInv, IndexerInv, BaseInv, PollInv, fetchEvents
<1>2. PICK upTo \in Ledger :
        /\ ~Refused(upTo)
        /\ IF Fetched(upTo) = {} THEN todo' = <<>> /\ pc' = "save"
           ELSE /\ pc' = "store"
                /\ \E first, last \in Fetched(upTo) :
                     /\ \A e \in Fetched(upTo) : first <= e /\ e <= last
                     /\ todo' = Run(first, last)
  BY DEF fetchEvents
<1>3. upTo \in Nat
  BY IndexerAssumption DEF Ledger
<1>4. from \in ResumePoint /\ from.ledger \in Nat /\ from.ledger >= Oldest
  <2>1. from \in ResumePoint /\ from.ledger \in Nat /\ ResumeLedger(from) = from.ledger
    BY <1>0, PointTypes, SoundLedger DEF SkipTypes, FromInv
  <2>2. Oldest \in Nat
    BY <1>0 DEF SkipTypes, Oldest
  <2> QED
    BY <1>2, <2>1, <2>2 DEF Refused
<1>5. CASE Fetched(upTo) = {}
  BY <1>2, <1>4, <1>5
<1>6. CASE Fetched(upTo) # {}
  <2>1. PICK first \in Fetched(upTo), last \in Fetched(upTo) :
          (\A e \in Fetched(upTo) : first <= e /\ e <= last) /\ todo' = Run(first, last)
    BY <1>2, <1>6
  <2>2. /\ DOMAIN log = 1 .. Len(log) /\ Len(log) \in Nat
        /\ \A e \in DOMAIN log : e \in Nat /\ log[e].ledger \in Nat
    BY <1>0, LogTypes
  <2>3. /\ first \in DOMAIN log /\ last \in DOMAIN log /\ log[last].ledger <= upTo
        /\ \A e \in Fetched(upTo) : e \in Nat
    BY <2>2, BatchTypes
  <2>4. log[first].ledger >= from.ledger
    <3>1. CASE from.token # NoToken
      <4>1. first > from.token.after /\ from.token.after \in Nat
        BY <1>4, <3>1, PointTypes DEF Fetched
      <4>2. ~(log[first].ledger < from.ledger)
        BY <1>0, <2>2, <2>3, <3>1, <4>1 DEF FromInv, Sound
      <4> QED
        BY <1>4, <2>2, <2>3, <4>2
    <3>2. CASE from.token = NoToken
      BY <3>2 DEF Fetched
    <3> QED
      BY <3>1, <3>2
  <2>5. \A k \in DOMAIN todo' : first <= todo'[k] /\ todo'[k] <= last /\ todo'[k] \in Nat
    BY <2>1, <2>2, <2>3, RunHolds
  <2>6. \A k \in DOMAIN todo' : todo'[k] \in DOMAIN log
    BY <2>2, <2>3, <2>5
  <2>7. \A k \in DOMAIN todo' : log[todo'[k]].ledger >= from.ledger
    BY <1>0, <1>4, <2>2, <2>3, <2>4, <2>5, <2>6 DEF LogInv
  <2>8. \A j, k \in DOMAIN todo' : j < k => todo'[j] < todo'[k]
    BY <2>1, <2>2, <2>3 DEF Run
  <2>9. ASSUME NEW e \in DOMAIN log, e <= last, ~Passed(from, e) PROVE ToDo(e)'
    <3>1. log[e].ledger <= upTo
      BY <1>0, <1>3, <2>2, <2>3, <2>9 DEF LogInv
    <3>2. e \in Fetched(upTo)
      BY <1>0, <1>3, <1>4, <2>9, <3>1, BatchComplete
    <3>3. first <= e /\ e <= last /\ first \in Nat /\ last \in Nat /\ e \in Nat
      BY <2>1, <2>2, <2>3, <3>2
    <3> QED
      BY <2>1, <3>3, RunHolds DEF ToDo
  <2>10. \A k \in DOMAIN todo', e \in DOMAIN log : e < todo'[k] => e <= last
    BY <2>2, <2>3, <2>5
  <2> QED
    BY <1>2, <1>4, <1>6, <2>6, <2>7, <2>8, <2>9, <2>10
<1> QED
  BY <1>5, <1>6

\* Ledgers are only ever forgotten.
LEMMA OldestGrows ==
  ASSUME SkipInv, SkipInv', Next
  PROVE  oldest \in Nat /\ oldest' \in Nat /\ oldest <= oldest'
<1>1. oldest \in Nat /\ oldest' \in Nat
  BY DEF SkipInv, SkipTypes
<1>2. oldest' = oldest \/ oldest' = oldest + 1
  BY DEF Next, Environment, Publish, CloseLedger, Forget, InsertRow, StartBackfill, EndBackfill, Abandon,
         pollOnce, load, fetchEvents, fetchRefused, recordRetentionGap, skipGap, saveMongoCursor, saveCursor,
         storeEvent, updateStatus, markApplied, persistTransition, chainVars
<1> QED
  BY <1>1, <1>2

\* What each step does to the batch in hand.
LEMMA BatchKeeps ==
  ASSUME SkipInv, PageInv, Next, Grown, pc' \in HasBatch
  PROVE  BatchInv'
<1> USE DEF chainVars, mongoVars, pollVars, historyVars
<1>1. CASE Publish
  <2>1. pc \in HasBatch
    BY <1>1 DEF Publish
  <2> QED
    BY <1>1, <2>1, BatchPublish DEF PageInv
<1>2. CASE CloseLedger \/ Forget \/ InsertRow
  <2>1. pc' = pc /\ UNCHANGED <<log, gaps, resolved, origin, from, todo>>
    BY <1>2 DEF CloseLedger, Forget, InsertRow
  <2> QED
    BY <2>1, BatchStays DEF PageInv
<1>3. CASE StartBackfill \/ EndBackfill \/ Abandon \/ load \/ fetchRefused \/ recordRetentionGap
           \/ skipGap \/ saveCursor
  BY <1>3 DEF StartBackfill, EndBackfill, Abandon, PollEnds, load, fetchRefused, recordRetentionGap,
              skipGap, saveCursor, HasBatch
<1>4. CASE fetchEvents
  <2>1. UNCHANGED <<log, gaps, resolved, record, origin, from>> /\ FromInv
    BY <1>4 DEF fetchEvents, SkipInv, PollInv
  <2>2. CASE todo' = <<>>
    BY <2>2 DEF BatchInv
  <2>3. CASE /\ \A j, k \in DOMAIN todo' : j < k => todo'[j] < todo'[k]
             /\ \A k \in DOMAIN todo', e \in DOMAIN log : e < todo'[k] => Passed(from, e) \/ ToDo(e)'
    <3>1. \A e \in DOMAIN log : Passed(from, e) => Kept(e, Begin)'
      <4>1. \A e \in DOMAIN log : Kept(e, Begin) => Kept(e, Begin)'
        BY <2>1 DEF Kept, Begin, Tracked, Applied, InGap
      <4> QED
        BY <2>1, <4>1 DEF FromInv
    <3> QED
      BY <2>1, <2>3, <3>1 DEF BatchInv
  <2> QED
    BY <1>4, <2>2, <2>3, FetchedPage
<1>5. CASE storeEvent \/ updateStatus \/ markApplied \/ persistTransition
  <2>1. UNCHANGED <<log, gaps, resolved, origin, from>> /\ pc \in Recording /\ BatchInv
    BY <1>5 DEF storeEvent, updateStatus, markApplied, persistTransition, Recording, PageInv, HasBatch
  <2>2. CASE UNCHANGED todo
    BY <2>1, <2>2, BatchStays
  <2>3. CASE NextEvent /\ UNCHANGED record /\ (~Tracked(Head(todo)) \/ record[Head(todo)] = "applied")
    BY <2>1, <2>3, BatchTail DEF NextEvent
  <2>4. \/ UNCHANGED todo
        \/ NextEvent /\ UNCHANGED record /\ (~Tracked(Head(todo)) \/ record[Head(todo)] = "applied")
    BY <1>5 DEF storeEvent, AlreadyApplied, e1, updateStatus, markApplied, persistTransition,
                SkipInv, IndexerInv, HookInv
  <2> QED
    BY <2>2, <2>3, <2>4
<1> QED
  BY <1>1, <1>2, <1>3, <1>4, <1>5 DEF Next, Environment, pollOnce

LEMMA PageInvKeeps ==
  ASSUME SkipInv, SkipInv', PageInv, Next, Grown
  PROVE  PageInv'
<1> USE DEF chainVars, mongoVars, pollVars, historyVars
<1>0. /\ oldest \in Nat /\ oldest' \in Nat /\ oldest <= oldest'
      /\ gaps \subseteq Nat \X Int /\ retained \in Nat /\ 1 <= oldest
  BY OldestGrows DEF SkipInv, SkipTypes
<1>1. \A e \in EventId : record'[e] # "none" => e \in DOMAIN log'
  <2>1. DOMAIN log \subseteq DOMAIN log'
    <3>1. UNCHANGED log \/ \E x : log' = Append(log, x)
      BY DEF Next, Environment, Publish, CloseLedger, Forget, InsertRow, StartBackfill, EndBackfill,
             Abandon, pollOnce, load, fetchEvents, fetchRefused, recordRetentionGap, skipGap,
             saveMongoCursor, saveCursor, storeEvent, updateStatus, markApplied, persistTransition
    <3>2. \E R : log \in Seq(R)
      <4> HIDE DEF Edge
      <4> QED
        BY DEF SkipInv, IndexerInv, IndexerTypes
    <3> QED
      BY <3>1, <3>2
  <2>2. CASE UNCHANGED record
    BY <2>1, <2>2 DEF PageInv
  <2>3. CASE storeEvent \/ markApplied
    <3>1. Head(todo) \in DOMAIN log
      BY <2>3, ToDoTypes DEF storeEvent, markApplied, HasBatch, Recording
    <3>2. \A e \in EventId : record'[e] # "none" => record[e] # "none" \/ e = Head(todo)
      BY <2>3 DEF storeEvent, markApplied, e1, SkipInv, IndexerInv, IndexerTypes
    <3> QED
      BY <2>1, <3>1, <3>2 DEF PageInv
  <2> QED
    BY <2>2, <2>3
    DEF Next, Environment, Publish, CloseLedger, Forget, InsertRow, StartBackfill, EndBackfill, Abandon,
        pollOnce, load, fetchEvents, fetchRefused, recordRetentionGap, skipGap, saveMongoCursor,
        saveCursor, updateStatus, persistTransition
<1>2. \A g \in gaps' : g[2] < oldest'
  <2>1. CASE UNCHANGED gaps
    BY <1>0, <2>1 DEF PageInv
  <2>2. CASE recordRetentionGap
    <3>1. retained <= oldest /\ \A g \in gaps' : g \in gaps \/ g[2] = retained - 1
      BY <2>2 DEF recordRetentionGap, PageInv
    <3> QED
      BY <1>0, <3>1 DEF PageInv
  <2> QED
    BY <2>1, <2>2
    DEF Next, Environment, Publish, CloseLedger, Forget, InsertRow, StartBackfill, EndBackfill, Abandon,
        pollOnce, load, fetchEvents, fetchRefused, skipGap, saveMongoCursor, saveCursor, storeEvent,
        updateStatus, markApplied, persistTransition
<1>3. pc' \in {"gap", "skip"} => retained' <= oldest'
  <2>1. CASE fetchRefused
    <3>1. pc' \in {"gap", "skip"} => retained' = Oldest
      BY <2>1 DEF fetchRefused, PollEnds
    <3>2. Oldest \in Nat /\ Oldest <= oldest
      BY <1>0 DEF Oldest
    <3> QED
      BY <1>0, <3>1, <3>2
  <2>2. CASE pc' \in {"gap", "skip"} => pc \in {"gap", "skip"} /\ UNCHANGED retained
    BY <1>0, <2>2 DEF PageInv
  <2> QED
    BY <2>1, <2>2
    DEF Next, Environment, Publish, CloseLedger, Forget, InsertRow, StartBackfill, EndBackfill, Abandon,
        PollEnds, pollOnce, load, fetchEvents, recordRetentionGap, skipGap, saveMongoCursor, saveCursor,
        storeEvent, NextEvent, updateStatus, markApplied, persistTransition
<1>4. pc' \in {"status", "mark"} => record'[Head(todo')] = "stored"
  <2>1. CASE storeEvent
    <3>1. Head(todo) \in EventId
      BY <2>1, TailIsBatch DEF storeEvent, SkipInv, IndexerInv, IndexerTypes, Recording
    <3> QED
      BY <2>1, <3>1 DEF storeEvent, NextEvent, e1, SkipInv, IndexerInv, IndexerTypes
  <2>2. CASE pc' \in {"status", "mark"} => pc \in {"status", "mark"} /\ UNCHANGED <<record, todo>>
    BY <2>2 DEF PageInv
  <2> QED
    BY <2>1, <2>2
    DEF Next, Environment, Publish, CloseLedger, Forget, InsertRow, StartBackfill, EndBackfill, Abandon,
        PollEnds, pollOnce, load, fetchEvents, fetchRefused, recordRetentionGap, skipGap, saveMongoCursor,
        saveCursor, NextEvent, updateStatus, markApplied, persistTransition
<1>5. pc' \in HasBatch => BatchInv'
  BY BatchKeeps
<1> QED
  BY <1>1, <1>2, <1>3, <1>4, <1>5 DEF PageInv

\* Steps that record no event pass none over.
LEMMA SameOver ==
  ASSUME UNCHANGED <<log, record>>
  PROVE  \A e \in DOMAIN log : PassedOver(e)' <=> PassedOver(e)
  BY DEF PassedOver, Tracked, Applied

LEMMA OrderPublish ==
  ASSUME SkipInv, PageInv, OrderInv, Publish
  PROVE  OrderInv'
<1> USE DEF mongoVars, pollVars, historyVars
<1>1. UNCHANGED <<latest, oldest, env, record, gaps, backfill, pc, from, todo, rewound, origin>>
  BY DEF Publish
<1>2. PICK n \in Nat :
        /\ n \notin DOMAIN log /\ DOMAIN log' = DOMAIN log \cup {n} /\ DOMAIN log' \subseteq EventId
        /\ \A e \in DOMAIN log : log'[e] = log[e] /\ e < n /\ e \in Nat
  <2>1. PICK x : log' = Append(log, x)
    BY DEF Publish
  <2>2. PICK R : log \in Seq(R)
    <3> HIDE DEF Edge
    <3> QED
      BY DEF SkipInv, IndexerInv, IndexerTypes
  <2>3. Len(log) < MaxEvents /\ MaxEvents \in Nat
    BY IndexerAssumption DEF Publish
  <2>4. /\ DOMAIN log = 1 .. Len(log) /\ DOMAIN log' = 1 .. Len(log) + 1 /\ Len(log) \in Nat
        /\ \A e \in DOMAIN log : log'[e] = log[e]
    BY <2>1, <2>2
  <2>5. Len(log) + 1 \in Nat /\ DOMAIN log' = DOMAIN log \cup {Len(log) + 1}
    BY <2>4
  <2> QED
    BY <2>3, <2>4, <2>5 DEF EventId
<1>3. record[n] = "none"
  BY <1>2 DEF PageInv
<1>4. \A e \in DOMAIN log' : PassedOver(e)' => e \in DOMAIN log /\ PassedOver(e)
  <2>1. ~PassedOver(n)'
    BY <1>2 DEF PassedOver
  <2>2. \A e \in DOMAIN log : PassedOver(e)' => PassedOver(e)
    BY <1>1, <1>2, <1>3 DEF PassedOver, Tracked, Applied
  <2> QED
    BY <1>2, <2>1, <2>2
<1>5. \A k \in DOMAIN todo : pc \in HasBatch => todo[k] \in DOMAIN log
  BY ToDoTypes
<1>6. FirstLedger' = FirstLedger
  BY <1>1 DEF FirstLedger
<1> SUFFICES ASSUME ~rewound PROVE OrderInv'
  BY <1>1 DEF OrderInv
<1>7. /\ backfill = {}
      /\ pc \in HasBatch => \A g \in gaps : g[2] < from.ledger
      /\ \A e \in DOMAIN log : PassedOver(e) =>
           /\ origin # 0 /\ log[e].ledger >= origin => log[e].ledger < oldest
           /\ origin = 0 => log[e].ledger < FirstLedger /\ (pc # "load" => log[e].ledger < from.ledger)
      /\ pc \in HasBatch => \A k \in DOMAIN todo : PassedOver(todo[k]) => log[todo[k]].ledger < origin
  BY DEF OrderInv
<1>8. \A e \in DOMAIN log' : PassedOver(e)' =>
         /\ origin # 0 /\ log'[e].ledger >= origin => log'[e].ledger < oldest
         /\ origin = 0 => log'[e].ledger < FirstLedger /\ (pc # "load" => log'[e].ledger < from.ledger)
  BY <1>2, <1>4, <1>7
<1>9. pc \in HasBatch => \A k \in DOMAIN todo : PassedOver(todo[k])' => log'[todo[k]].ledger < origin
  <2> SUFFICES ASSUME pc \in HasBatch, NEW k \in DOMAIN todo, NEW x, x = todo[k], PassedOver(x)'
               PROVE  log'[x].ledger < origin
    BY <1>1 DEF PassedOver, Tracked, Applied
  <2>1. x \in DOMAIN log
    BY <1>5
  <2>2. PassedOver(x) /\ log'[x] = log[x]
    BY <1>2, <1>4, <2>1
  <2> QED
    BY <1>7, <2>2
<1> QED
  BY <1>1, <1>6, <1>7, <1>8, <1>9 DEF OrderInv

\* Steps outside recordTransition: the ledgers may move on, a poll may begin or
\* end, and the first save of a cursor fixes where indexing began.
LEMMA OrderQuiet ==
  ASSUME SkipInv, SkipInv', OrderInv, UNCHANGED <<log, record, rewound, env>>, backfill' \subseteq backfill,
         oldest <= oldest', latest <= latest',
         \/ UNCHANGED origin
         \/ origin = 0 /\ pc # "load" /\ origin' = from.ledger /\ origin' # 0,
         pc' \in HasBatch => pc \in HasBatch /\ UNCHANGED <<gaps, from, todo, origin>>,
         pc' # "load" /\ origin' = 0 =>
           \/ pc = "load" /\ from'.ledger = FirstLedger
           \/ pc # "load" /\ UNCHANGED from
  PROVE  OrderInv'
<1> SUFFICES ASSUME ~rewound PROVE OrderInv'
  BY DEF OrderInv
<1>0. /\ oldest \in Nat /\ oldest' \in Nat /\ origin \in Nat /\ from.ledger \in Nat /\ latest \in Nat
      /\ latest' \in Nat /\ env.startLedger \in Nat /\ \A e \in DOMAIN log : log[e].ledger \in Nat
  BY PointTypes, LogTypes DEF SkipInv, IndexerInv, IndexerTypes, SkipTypes
<1>1. /\ backfill = {}
      /\ pc \in HasBatch => \A g \in gaps : g[2] < from.ledger
      /\ \A e \in DOMAIN log : PassedOver(e) =>
           /\ origin # 0 /\ log[e].ledger >= origin => log[e].ledger < oldest
           /\ origin = 0 => log[e].ledger < FirstLedger /\ (pc # "load" => log[e].ledger < from.ledger)
      /\ pc \in HasBatch => \A k \in DOMAIN todo : PassedOver(todo[k]) => log[todo[k]].ledger < origin
  BY DEF OrderInv
<1>2. FirstLedger \in Nat /\ FirstLedger' \in Nat /\ FirstLedger <= FirstLedger'
  BY <1>0 DEF FirstLedger
<1>3. \A e \in DOMAIN log : PassedOver(e)' <=> PassedOver(e)
  BY SameOver
<1>4. ASSUME NEW e \in DOMAIN log, PassedOver(e)
      PROVE  /\ origin' # 0 /\ log[e].ledger >= origin' => log[e].ledger < oldest'
             /\ origin' = 0 => /\ log[e].ledger < FirstLedger'
                               /\ pc' # "load" => log[e].ledger < from'.ledger
  <2>0. log[e].ledger \in Nat
    BY <1>0
  <2>1. CASE UNCHANGED origin
    <3>1. origin # 0 /\ log[e].ledger >= origin => log[e].ledger < oldest'
      BY <1>0, <1>1, <1>4, <2>0
    <3>2. ASSUME origin = 0 PROVE log[e].ledger < FirstLedger'
      BY <1>1, <1>2, <1>4, <2>0, <3>2
    <3>3. ASSUME origin = 0, pc' # "load" PROVE log[e].ledger < from'.ledger
      BY <1>1, <1>4, <2>1, <3>3
    <3> QED
      BY <2>1, <3>1, <3>2, <3>3
  <2>2. CASE origin = 0 /\ pc # "load" /\ origin' = from.ledger /\ origin' # 0
    <3>1. log[e].ledger < from.ledger
      BY <1>1, <1>4, <2>2
    <3> QED
      BY <1>0, <2>0, <2>2, <3>1
  <2> QED
    BY <2>1, <2>2
<1>5. pc' \in HasBatch => \A k \in DOMAIN todo' : PassedOver(todo[k])' => log'[todo'[k]].ledger < origin'
  <2> SUFFICES ASSUME pc' \in HasBatch, NEW k \in DOMAIN todo, NEW x, x = todo[k], PassedOver(x)'
               PROVE  log[x].ledger < origin
    BY DEF PassedOver, Tracked, Applied
  <2>1. x \in DOMAIN log
    BY ToDoTypes
  <2> QED
    BY <1>1, <1>3, <2>1
<1>6. pc' \in HasBatch => \A g \in gaps' : g[2] < from'.ledger
  BY <1>1
<1>7. \A e \in DOMAIN log' : PassedOver(e)' =>
           /\ origin' # 0 /\ log'[e].ledger >= origin' => log'[e].ledger < oldest'
           /\ origin' = 0 => log'[e].ledger < FirstLedger' /\ (pc' # "load" => log'[e].ledger < from'.ledger)
  BY <1>3, <1>4
<1>8. backfill' = {}
  BY <1>1
<1> QED
  BY <1>5, <1>6, <1>7, <1>8 DEF OrderInv

\* A page holds no event that was passed over, but for those from before
\* indexing began.
LEMMA OrderFetch ==
  ASSUME SkipInv, PageInv, OrderInv, fetchEvents
  PROVE  OrderInv'
<1> USE DEF chainVars, mongoVars
<1>1. /\ UNCHANGED <<log, latest, oldest, env, record, gaps, backfill, from, rewound, origin>>
      /\ pc # "load"
  BY DEF fetchEvents
<1> SUFFICES ASSUME ~rewound PROVE OrderInv'
  BY <1>1 DEF OrderInv
<1>2. /\ backfill = {}
      /\ \A e \in DOMAIN log : PassedOver(e) =>
           /\ origin # 0 /\ log[e].ledger >= origin => log[e].ledger < oldest
           /\ origin = 0 => log[e].ledger < FirstLedger /\ log[e].ledger < from.ledger
  BY <1>1 DEF OrderInv
<1>3. /\ oldest \in Nat /\ origin \in Nat /\ from.ledger \in Nat
      /\ \A e \in DOMAIN log : log[e].ledger \in Nat
      /\ gaps \subseteq Nat \X Int
  BY PointTypes, LogTypes DEF SkipInv, IndexerInv, SkipTypes
<1>4. from.ledger >= oldest
  BY <1>2, FetchedPage DEF Oldest
<1>5. \A g \in gaps : g[2] < from.ledger
  BY <1>3, <1>4 DEF PageInv
<1>6. \A e \in DOMAIN log : PassedOver(e)' <=> PassedOver(e)
  BY <1>1, SameOver
<1>7. \A k \in DOMAIN todo' : todo'[k] \in DOMAIN log /\ log[todo'[k]].ledger >= from.ledger
  BY FetchedPage
<1>8. ASSUME NEW x \in DOMAIN log, PassedOver(x), log[x].ledger >= from.ledger
      PROVE  log[x].ledger < origin
  <2>0. log[x].ledger \in Nat
    BY <1>3
  <2>1. origin # 0
    BY <1>2, <1>3, <1>8, <2>0
  <2> QED
    BY <1>2, <1>3, <1>4, <1>8, <2>0, <2>1
<1>9. \A k \in DOMAIN todo' : PassedOver(todo[k])' => log'[todo'[k]].ledger < origin'
  <2> SUFFICES ASSUME NEW k \in DOMAIN todo', NEW x, x = todo'[k], PassedOver(x)'
               PROVE  log[x].ledger < origin
    BY <1>1 DEF PassedOver, Tracked, Applied
  <2> QED
    BY <1>6, <1>7, <1>8
<1>10. FirstLedger' = FirstLedger
  BY <1>1 DEF FirstLedger
<1> QED
  BY <1>1, <1>2, <1>5, <1>6, <1>9, <1>10 DEF OrderInv

\* recordTransition records the events in order.
LEMMA OrderRecord ==
  ASSUME SkipInv, PageInv, OrderInv, storeEvent \/ updateStatus \/ markApplied \/ persistTransition
  PROVE  OrderInv'
<1> USE DEF chainVars, mongoVars, historyVars
<1>1. /\ UNCHANGED <<log, latest, oldest, env, gaps, resolved, backfill, from, rewound, origin>>
      /\ pc \in Recording /\ pc \in HasBatch /\ pc # "load" /\ pc' # "load"
  BY DEF storeEvent, updateStatus, markApplied, persistTransition, NextEvent, Recording, HasBatch
<1> SUFFICES ASSUME ~rewound PROVE OrderInv'
  BY <1>1 DEF OrderInv
<1>2. /\ backfill = {} /\ \A g \in gaps : g[2] < from.ledger
      /\ \A e \in DOMAIN log : PassedOver(e) =>
           /\ origin # 0 /\ log[e].ledger >= origin => log[e].ledger < oldest
           /\ origin = 0 => log[e].ledger < FirstLedger /\ log[e].ledger < from.ledger
      /\ \A k \in DOMAIN todo : PassedOver(todo[k]) => log[todo[k]].ledger < origin
  BY <1>1 DEF OrderInv
<1>3. PICK h \in DOMAIN log : h = Head(todo) /\ h = todo[1] /\ 1 \in DOMAIN todo
  BY <1>1, ToDoTypes
<1>4. /\ DOMAIN todo = 1 .. Len(todo) /\ Len(todo) \in Nat /\ todo \in Seq(EventId)
      /\ \A k \in DOMAIN todo : todo[k] \in DOMAIN log /\ todo[k] \in Nat
      /\ \A e \in DOMAIN log : e \in EventId /\ e \in Nat /\ log[e].ledger \in Nat
  BY <1>1, ToDoTypes, LogTypes DEF SkipInv, IndexerInv
<1>5. /\ oldest \in Nat /\ origin \in Nat /\ from.ledger \in Nat /\ latest \in Nat
      /\ env.startLedger \in Nat /\ gaps \subseteq Nat \X Int /\ BatchInv /\ FromInv
      /\ record \in [EventId -> {"none", "stored", "applied"}]
  BY <1>1, PointTypes DEF SkipInv, IndexerInv, IndexerTypes, SkipTypes, PageInv, PollInv
<1>6. \A k \in DOMAIN todo : h <= todo[k]
  <2>1. ASSUME NEW k \in DOMAIN todo PROVE h <= todo[k]
    <3>1. CASE k = 1
      BY <1>3, <1>4, <3>1
    <3>2. CASE k # 1
      <4>1. 1 < k
        BY <1>4, <3>2
      <4> QED
        BY <1>3, <1>4, <1>5, <4>1 DEF BatchInv
    <3> QED
      BY <3>1, <3>2
  <2> QED
    BY <2>1
<1>7. ASSUME NEW e \in DOMAIN log, PassedOver(e)' PROVE PassedOver(e) \/ (e < h /\ Tracked(e) /\ ~Applied(e))
  <2>1. PICK d \in DOMAIN log : d > e /\ record'[d] # "none"
    BY <1>1, <1>7 DEF PassedOver
  <2>2. record[d] # "none" \/ d = h
    BY <1>3, <1>4, <1>5 , <2>1 DEF storeEvent, updateStatus, markApplied, persistTransition, e1
  <2>3. Tracked(e) /\ ~Applied(e)
    <3>1. Applied(e) => record'[e] = "applied"
      BY <1>4, <1>5 DEF storeEvent, updateStatus, markApplied, persistTransition, AlreadyApplied, Applied
    <3> QED
      BY <1>1, <1>7, <3>1 DEF PassedOver, Tracked, Applied
  <2> QED
    BY <1>4, <2>1, <2>2, <2>3 DEF PassedOver
<1>8. ASSUME NEW e \in DOMAIN log, e < h, Tracked(e), ~Applied(e)
      PROVE  /\ origin # 0 /\ log[e].ledger >= origin => log[e].ledger < oldest
             /\ origin = 0 => log[e].ledger < FirstLedger /\ log[e].ledger < from.ledger
  <2>1. ~ToDo(e)
    BY <1>4, <1>6, <1>8 DEF ToDo
  <2>2. log[e].ledger < Begin \/ InGap(e)
    <3>1. Kept(e, Begin)
      BY <1>3, <1>5, <1>8, <2>1 DEF BatchInv
    <3>2. Begin \in Nat
      BY <1>5 DEF Begin
    <3> QED
      BY <1>4, <1>8, <3>1, <3>2 DEF Kept
  <2>3. ASSUME InGap(e) PROVE log[e].ledger < oldest /\ log[e].ledger < from.ledger
    <3>1. PICK g \in gaps : log[e].ledger <= g[2]
      BY <2>3 DEF InGap
    <3>2. g[2] < oldest /\ g[2] < from.ledger /\ g[2] \in Int
      BY <1>2, <1>5 DEF PageInv
    <3> QED
      BY <1>4, <1>5, <3>1, <3>2
  <2>4. origin = 0 => from.ledger <= FirstLedger /\ FirstLedger \in Nat
    BY <1>5 DEF FromInv, FirstLedger
  <2>5. CASE origin # 0
    BY <1>4, <1>5, <2>2, <2>3, <2>5 DEF Begin
  <2>6. CASE origin = 0
    <3>1. log[e].ledger < from.ledger
      BY <2>2, <2>3, <2>6 DEF Begin
    <3> QED
      BY <1>4, <1>5, <2>4, <2>6, <3>1
  <2> QED
    BY <2>5, <2>6
<1>9. \A k \in DOMAIN todo' : \E j \in DOMAIN todo : todo'[k] = todo[j]
  <2>1. todo' = todo \/ todo' = Tail(todo)
    BY DEF storeEvent, updateStatus, markApplied, persistTransition, NextEvent
  <2>2. todo # <<>>
    BY <1>1 DEF SkipInv, IndexerInv, IndexerTypes
  <2>3. \A j \in DOMAIN Tail(todo) : \E k \in DOMAIN todo : Tail(todo)[j] = todo[k]
    BY <1>4, <2>2, TailHolds
  <2>4. CASE todo' = todo
    BY <2>4
  <2>5. CASE todo' = Tail(todo)
    BY <2>3, <2>5
  <2> QED
    BY <2>1, <2>4, <2>5
<1>10. \A k \in DOMAIN todo' : PassedOver(todo[k])' => log'[todo'[k]].ledger < origin'
  <2> SUFFICES ASSUME NEW k \in DOMAIN todo', NEW x, x = todo'[k], PassedOver(x)'
               PROVE  log[x].ledger < origin
    BY <1>1 DEF PassedOver, Tracked, Applied
  <2>1. PICK j \in DOMAIN todo : x = todo[j]
    BY <1>9
  <2>2. x \in DOMAIN log /\ ~(x < h)
    BY <1>4, <1>6, <2>1
  <2> QED
    BY <1>2, <1>7, <2>1, <2>2
<1>11. FirstLedger' = FirstLedger
  BY <1>1 DEF FirstLedger
<1>12. \A e \in DOMAIN log' : PassedOver(e)' =>
         /\ origin' # 0 /\ log'[e].ledger >= origin' => log'[e].ledger < oldest'
         /\ origin' = 0 => log'[e].ledger < FirstLedger' /\ (pc' # "load" => log'[e].ledger < from'.ledger)
  <2> SUFFICES ASSUME NEW e \in DOMAIN log, PassedOver(e)'
               PROVE  /\ origin # 0 /\ log[e].ledger >= origin => log[e].ledger < oldest
                      /\ origin = 0 => log[e].ledger < FirstLedger /\ log[e].ledger < from.ledger
    BY <1>1, <1>11
  <2> QED
    BY <1>2, <1>7, <1>8
<1> QED
  BY <1>1, <1>2, <1>10, <1>12 DEF OrderInv

LEMMA OrderKeeps ==
  ASSUME SkipInv, SkipInv', PageInv, OrderInv, Next
  PROVE  OrderInv'
<1> USE DEF chainVars, mongoVars, pollVars, historyVars
<1>0. /\ oldest <= oldest' /\ latest \in Nat /\ from.ledger \in Nat /\ origin \in Nat
      /\ pc # "load" => 1 <= from.ledger /\ ResumeLedger(from) = from.ledger
  BY OldestGrows, PointTypes, SoundLedger
  DEF SkipInv, IndexerInv, IndexerTypes, SkipTypes, PollInv, FromInv
<1>1. CASE Publish
  BY <1>1, OrderPublish
<1>2. CASE CloseLedger \/ Forget \/ InsertRow
  <2>1. latest <= latest'
    BY <1>0, <1>2 DEF CloseLedger, Forget, InsertRow
  <2> QED
    BY <1>0, <1>2, <2>1, OrderQuiet DEF CloseLedger, Forget, InsertRow
<1>3. CASE StartBackfill
  BY <1>3 DEF StartBackfill, OrderInv
<1>4. CASE EndBackfill \/ Abandon \/ fetchRefused \/ recordRetentionGap
  <2>1. latest <= latest' /\ UNCHANGED <<log, record, rewound, env, origin>> /\ backfill' \subseteq backfill
    BY <1>0, <1>4 DEF EndBackfill, Abandon, fetchRefused, recordRetentionGap
  <2>2. pc' \notin HasBatch /\ (pc' # "load" => pc # "load" /\ UNCHANGED from)
    BY <1>4 DEF EndBackfill, Abandon, fetchRefused, recordRetentionGap, PollEnds, HasBatch
  <2> QED
    BY <1>0, <2>1, <2>2, OrderQuiet
<1>5. CASE load
  <2>1. latest <= latest' /\ UNCHANGED <<log, record, rewound, env, origin, backfill>>
    BY <1>0, <1>5 DEF load
  <2>2. pc = "load" /\ pc' \notin HasBatch
    BY <1>5 DEF load, HasBatch
  <2>3. origin = 0 => from'.ledger = FirstLedger
    BY <1>5 DEF load, FirstLedger, SkipInv, BaseInv, CursorInv
  <2> QED
    BY <1>0, <2>1, <2>2, <2>3, OrderQuiet
<1>6. CASE skipGap \/ saveCursor
  <2>1. latest <= latest' /\ UNCHANGED <<log, record, rewound, env, backfill>> /\ pc # "load"
    BY <1>0, <1>6 DEF skipGap, saveCursor, saveMongoCursor
  <2>2. pc' \notin HasBatch
    BY <1>6 DEF skipGap, saveCursor, PollEnds, HasBatch
  <2>3. /\ origin' # 0
        /\ \/ UNCHANGED origin
           \/ origin = 0 /\ origin' = from.ledger
    BY <1>0, <1>6, <2>1 DEF skipGap, saveCursor, saveMongoCursor
  <2> QED
    BY <1>0, <2>1, <2>2, <2>3, OrderQuiet
<1>7. CASE fetchEvents
  BY <1>7, OrderFetch
<1>8. CASE storeEvent \/ updateStatus \/ markApplied \/ persistTransition
  BY <1>8, OrderRecord
<1> QED
  BY <1>1, <1>2, <1>3, <1>4, <1>5, <1>6, <1>7, <1>8 DEF Next, Environment, pollOnce

\* Once it has fallen behind, StayedAhead never holds again.
LEMMA AheadBefore ==
  ASSUME SkipInv, SkipInv', PageInv, RowTypes, Next, StayedAhead'
  PROVE  StayedAhead
<1> USE DEF chainVars, mongoVars, pollVars, historyVars
<1>0. /\ origin \in Nat /\ \A e \in DOMAIN log : log[e].ledger \in Nat /\ e \in EventId
      /\ record \in [EventId -> {"none", "stored", "applied"}]
  BY LogTypes DEF SkipInv, IndexerInv, IndexerTypes, SkipTypes
<1>1. rewound => rewound'
  BY DEF Next, Environment, Publish, CloseLedger, Forget, InsertRow, StartBackfill, EndBackfill, Abandon,
         pollOnce, load, fetchEvents, fetchRefused, recordRetentionGap, skipGap, saveMongoCursor, saveCursor,
         storeEvent, updateStatus, markApplied, persistTransition
<1>2. origin' = origin \/ origin = 0
  BY DEF Next, Environment, Publish, CloseLedger, Forget, InsertRow, StartBackfill, EndBackfill, Abandon,
         pollOnce, load, fetchEvents, fetchRefused, recordRetentionGap, skipGap, saveMongoCursor, saveCursor,
         storeEvent, updateStatus, markApplied, persistTransition
<1>3. \A e \in EventId : record[e] # "none" => record'[e] # "none"
  BY <1>0 DEF Next, Environment, Publish, CloseLedger, Forget, InsertRow, StartBackfill, EndBackfill, Abandon,
         pollOnce, load, fetchEvents, fetchRefused, recordRetentionGap, skipGap, saveMongoCursor, saveCursor,
         storeEvent, updateStatus, markApplied, persistTransition
<1>4. \A e \in DOMAIN log : e \in DOMAIN log' /\ log'[e] = log[e]
  <2>1. UNCHANGED log \/ \E x : log' = Append(log, x)
    BY DEF Next, Environment, Publish, CloseLedger, Forget, InsertRow, StartBackfill, EndBackfill,
           Abandon, pollOnce, load, fetchEvents, fetchRefused, recordRetentionGap, skipGap,
           saveMongoCursor, saveCursor, storeEvent, updateStatus, markApplied, persistTransition
  <2>2. \E R : log \in Seq(R)
    <3> HIDE DEF Edge
    <3> QED
      BY DEF SkipInv, IndexerInv, IndexerTypes
  <2> QED
    BY <2>1, <2>2
<1>5. ASSUME NEW e \in DOMAIN log, record[e] # "none" PROVE log[e].ledger >= origin
  <2>1. log[e].ledger >= origin'
    BY <1>0, <1>3, <1>4, <1>5 DEF StayedAhead
  <2> QED
    BY <1>0, <1>2, <2>1
<1> QED
  BY <1>1, <1>5 DEF StayedAhead

\* What RowInv says of one invoice.
RowGood(i) ==
  /\ row[i] # "none" => StatusShown(i)
  /\ row[i] = "none" => \A e \in StatusEvents(i) : ~Applied(e)
  /\ pc = "mark" /\ Head(todo) \in StatusEvents(i) =>
       row[i] = STATUS_BY_EVENT[log[Head(todo)].event]

LEMMA RowQuiet ==
  ASSUME NEW i, RowGood(i), UNCHANGED <<log, record, row, todo>>, pc' = "mark" => pc = "mark"
  PROVE  RowGood(i)'
  BY DEF RowGood, StatusShown, StatusEvents, Applied

LEMMA RowPublish ==
  ASSUME NEW i, RowGood(i), SkipInv, PageInv, Publish
  PROVE  RowGood(i)'
<1> USE DEF mongoVars, pollVars, historyVars
<1>1. UNCHANGED <<record, row, todo, pc>>
  BY DEF Publish
<1>2. /\ \A e \in DOMAIN log : e \in DOMAIN log' /\ log'[e] = log[e] /\ e \in Nat
      /\ \A e \in DOMAIN log' : e \notin DOMAIN log => record[e] = "none"
  <2>1. PICK x : log' = Append(log, x)
    BY DEF Publish
  <2>2. PICK R : log \in Seq(R)
    <3> HIDE DEF Edge
    <3> QED
      BY DEF SkipInv, IndexerInv, IndexerTypes
  <2>3. Len(log) < MaxEvents /\ MaxEvents \in Nat
    BY IndexerAssumption DEF Publish
  <2>4. /\ DOMAIN log = 1 .. Len(log) /\ DOMAIN log' = 1 .. Len(log) + 1 /\ Len(log) \in Nat
        /\ \A e \in DOMAIN log : log'[e] = log[e]
    BY <2>1, <2>2
  <2> QED
    BY <2>3, <2>4 DEF EventId, PageInv
<1>3. /\ \A e \in StatusEvents(i) : e \in StatusEvents(i)'
      /\ \A e \in StatusEvents(i)' : e \in StatusEvents(i) \/ ~Applied(e)
      /\ \A e \in StatusEvents(i) : log'[e] = log[e]
  BY <1>2 DEF StatusEvents, Applied
<1>4. StatusShown(i) => StatusShown(i)'
  BY <1>1, <1>3 DEF StatusShown, Applied
<1>5. pc = "mark" /\ Head(todo) \in StatusEvents(i)' => Head(todo) \in StatusEvents(i)
  <2>1. pc = "mark" => Head(todo) \in DOMAIN log
    BY ToDoTypes DEF HasBatch, Recording
  <2> QED
    BY <1>2, <2>1 DEF StatusEvents
<1> QED
  BY <1>1, <1>3, <1>4, <1>5 DEF RowGood, Applied

LEMMA StatusTypes ==
  \A t \in DOMAIN STATUS_BY_EVENT :
    t \in TRACKED_EVENTS /\ STATUS_BY_EVENT[t] \in RowStatus /\ STATUS_BY_EVENT[t] # "none"
  BY DEF STATUS_BY_EVENT, TRACKED_EVENTS, RowStatus

\* A row that comes in time has missed no event.
LEMMA RowInsert ==
  ASSUME NEW i \in Invoice, RowGood(i), RowTypes, InsertRow
  PROVE  RowGood(i)'
<1> USE DEF chainVars, pollVars, historyVars
<1>1. UNCHANGED <<log, record, todo, pc>>
  BY DEF InsertRow
<1>2. row'[i] = row[i] \/ (row[i] = "none" /\ row'[i] = "Pending")
  BY DEF InsertRow, RowTypes
<1>3. CASE row'[i] = row[i]
  BY <1>1, <1>3 DEF RowGood, StatusShown, StatusEvents, Applied
<1>4. CASE row[i] = "none" /\ row'[i] = "Pending"
  <2>1. StatusShown(i)'
    BY <1>1, <1>4 DEF RowGood, StatusShown, StatusEvents, Applied
  <2>2. ~(pc = "mark" /\ Head(todo) \in StatusEvents(i))
    BY <1>4, StatusTypes DEF RowGood, StatusEvents
  <2> QED
    BY <1>1, <1>4, <2>1, <2>2 DEF RowGood, StatusEvents
<1> QED
  BY <1>2, <1>3, <1>4

LEMMA RowStore ==
  ASSUME NEW i \in Invoice, RowGood(i), SkipInv, storeEvent
  PROVE  RowGood(i)'
<1> USE DEF chainVars, historyVars
<1>1. UNCHANGED <<log, row>> /\ pc' # "mark"
  BY DEF storeEvent, NextEvent
<1>2. DOMAIN log \subseteq EventId /\ record \in [EventId -> {"none", "stored", "applied"}]
  BY LogTypes DEF SkipInv, IndexerInv, IndexerTypes
<1>3. \A e \in EventId : /\ Applied(e)' <=> Applied(e)
                         /\ record[e] # "none" => record'[e] # "none"
  BY <1>2 DEF storeEvent, AlreadyApplied, Applied
<1>4. StatusEvents(i)' = StatusEvents(i) /\ StatusEvents(i) \subseteq EventId
  BY <1>1, <1>2 DEF StatusEvents
<1>5. StatusShown(i) => StatusShown(i)'
  BY <1>1, <1>3, <1>4 DEF StatusShown
<1> QED
  BY <1>1, <1>3, <1>4, <1>5 DEF RowGood

\* The event in hand is the newest one recorded, so the row may show it.
LEMMA RowUpdate ==
  ASSUME NEW i \in Invoice, i \notin missed', RowGood(i), SkipInv, PageInv, OrderInv, RowTypes,
         env.idTopic, StayedAhead, updateStatus
  PROVE  RowGood(i)'
<1> USE DEF chainVars
<1>1. UNCHANGED <<log, record, todo, env>> /\ pc = "status" /\ pc' = "mark"
  BY DEF updateStatus
<1>2. PICK h \in DOMAIN log : h = Head(todo) /\ h = todo[1] /\ 1 \in DOMAIN todo
  BY <1>1, ToDoTypes DEF HasBatch, Recording
<1>3. StatusEvents(i)' = StatusEvents(i) /\ \A e \in StatusEvents(i) : Applied(e)' <=> Applied(e)
  BY <1>1 DEF StatusEvents, Applied
<1>4. CASE h \notin StatusEvents(i)
  <2>1. row'[i] = row[i]
    BY <1>2, <1>4 DEF updateStatus, e1, parseInvoiceId, RowsWith, RowTypes, StatusEvents
  <2>2. StatusShown(i) => StatusShown(i)'
    BY <1>1, <1>3, <2>1 DEF StatusShown
  <2> QED
    BY <1>1, <1>2, <1>3, <1>4, <2>1, <2>2 DEF RowGood
<1>5. CASE h \in StatusEvents(i)
  <2>1. log[h].invoice = i /\ log[h].event \in DOMAIN STATUS_BY_EVENT
    BY <1>5 DEF StatusEvents
  <2>2. row' = RowsWith(i, STATUS_BY_EVENT[log[h].event]) /\ row[i] # "none"
    BY <1>2, <2>1 DEF updateStatus, e1, parseInvoiceId
  <2>3. row'[i] = STATUS_BY_EVENT[log[h].event] /\ row'[i] # "none"
    BY <2>1, <2>2, StatusTypes DEF RowsWith
  <2>4. record[h] = "stored" /\ Tracked(h) /\ ~Applied(h)
    BY <1>1, <1>2, <2>1, StatusTypes DEF PageInv, Tracked, Applied
  <2>5. ~PassedOver(h)
    <3>1. log[h].ledger >= origin /\ ~rewound /\ log[h].ledger \in Nat /\ origin \in Nat
      BY <2>4, LogTypes DEF StayedAhead, SkipInv, IndexerInv, SkipTypes
    <3>2. PassedOver(h) => log[h].ledger < origin
      BY <1>1, <1>2, <3>1 DEF OrderInv, HasBatch
    <3> QED
      BY <3>1, <3>2
  <2>6. \A e \in StatusEvents(i) : Applied(e) => h >= e
    <3>1. \A e \in DOMAIN log : e \in Nat
      BY LogTypes DEF SkipInv, IndexerInv
    <3>2. \A e \in DOMAIN log : Applied(e) => ~(e > h)
      BY <2>4, <2>5 DEF PassedOver, Applied
    <3> QED
      BY <3>1, <3>2 DEF StatusEvents
  <2>7. StatusShown(i)'
    BY <1>1, <1>3, <1>5, <2>3, <2>4, <2>6 DEF StatusShown
  <2> QED
    BY <1>1, <1>2, <2>3, <2>7 DEF RowGood
<1> QED
  BY <1>4, <1>5

LEMMA RowMark ==
  ASSUME NEW i \in Invoice, RowGood(i), SkipInv, markApplied
  PROVE  RowGood(i)'
<1> USE DEF chainVars, historyVars
<1>1. UNCHANGED <<log, row, todo>> /\ pc = "mark" /\ pc' = "hook"
  BY DEF markApplied
<1>2. PICK h \in DOMAIN log : h = Head(todo)
  BY <1>1, ToDoTypes DEF HasBatch, Recording
<1>3. /\ DOMAIN log \subseteq EventId /\ record \in [EventId -> {"none", "stored", "applied"}]
      /\ record' = [record EXCEPT ![h] = "applied"] /\ \A e \in DOMAIN log : e \in Nat
  BY <1>2, LogTypes DEF SkipInv, IndexerInv, IndexerTypes, markApplied, e1
<1>4. /\ record'[h] = "applied"
      /\ \A e \in DOMAIN log : /\ e # h => (Applied(e)' <=> Applied(e))
                               /\ record[e] # "none" => record'[e] # "none"
  BY <1>3 DEF Applied
<1>5. StatusEvents(i)' = StatusEvents(i) /\ StatusEvents(i) \subseteq DOMAIN log
  BY <1>1 DEF StatusEvents
<1>6. h \in StatusEvents(i) => row[i] = STATUS_BY_EVENT[log[h].event] /\ row[i] # "none"
  BY <1>1, <1>2, StatusTypes DEF RowGood, StatusEvents
<1>7. ASSUME row[i] # "none" PROVE StatusShown(i)'
  <2> SUFFICES ASSUME NEW e \in StatusEvents(i), Applied(e)'
               PROVE  \E d \in StatusEvents(i) : d >= e /\ record'[d] # "none"
                                                 /\ row[i] = STATUS_BY_EVENT[log[d].event]
    BY <1>1, <1>5 DEF StatusShown
  <2>1. CASE e = h
    <3>1. h >= h
      BY <1>3
    <3> QED
      BY <1>4, <1>6, <2>1, <3>1
  <2>2. CASE e # h
    BY <1>4, <1>5, <1>7, <2>2 DEF RowGood, StatusShown
  <2> QED
    BY <2>1, <2>2
<1>8. row[i] = "none" => \A e \in StatusEvents(i) : ~Applied(e)'
  BY <1>4, <1>5, <1>6 DEF RowGood
<1> QED
  BY <1>1, <1>5, <1>7, <1>8 DEF RowGood

LEMMA RowKeeps ==
  ASSUME FollowInv, SkipInv', Next
  PROVE  RowInv'
<1> USE DEF chainVars, mongoVars, pollVars, historyVars
<1>0. SkipInv /\ RowTypes /\ PageInv /\ OrderInv /\ RowInv
  BY DEF FollowInv
<1> SUFFICES ASSUME env'.idTopic, StayedAhead', NEW i \in Invoice \ missed'
             PROVE  RowGood(i)'
  BY DEF RowInv, RowGood
<1>1. env' = env /\ missed \subseteq missed'
  BY DEF Next, Environment, Publish, CloseLedger, Forget, InsertRow, StartBackfill, EndBackfill, Abandon,
         pollOnce, load, fetchEvents, fetchRefused, recordRetentionGap, skipGap, saveMongoCursor, saveCursor,
         storeEvent, updateStatus, markApplied, persistTransition
<1>2. StayedAhead
  BY <1>0, AheadBefore
<1>3. i \notin missed /\ RowGood(i)
  BY <1>0, <1>1, <1>2 DEF RowInv, RowGood
<1>4. CASE Publish
  BY <1>0, <1>3, <1>4, RowPublish
<1>5. CASE InsertRow
  BY <1>0, <1>3, <1>5, RowInsert
<1>6. CASE storeEvent
  BY <1>0, <1>3, <1>6, RowStore
<1>7. CASE updateStatus
  BY <1>0, <1>1, <1>2, <1>3, <1>7, RowUpdate
<1>8. CASE markApplied
  BY <1>0, <1>3, <1>8, RowMark
<1>9. CASE UNCHANGED <<log, record, row, todo>> /\ (pc' = "mark" => pc = "mark")
  BY <1>3, <1>9, RowQuiet
<1>10. CASE UNCHANGED <<log, record, row>> /\ pc' # "mark"
  BY <1>3, <1>10 DEF RowGood, StatusShown, StatusEvents, Applied
<1> QED
  BY <1>4, <1>5, <1>6, <1>7, <1>8, <1>9, <1>10
  DEF Next, Environment, CloseLedger, Forget, StartBackfill, EndBackfill, Abandon, PollEnds,
      pollOnce, load, fetchEvents, fetchRefused, recordRetentionGap, skipGap, saveMongoCursor, saveCursor,
      NextEvent, persistTransition

LEMMA StepKeepsFollow == FollowInv /\ [Next]_vars => FollowInv'
<1> SUFFICES ASSUME FollowInv, [Next]_vars PROVE FollowInv'
  OBVIOUS
<1>0. SkipInv /\ SkipInv' /\ RowTypes /\ PageInv /\ OrderInv /\ RowInv
  BY StepKeepsSkip DEF FollowInv
<1>1. CASE UNCHANGED vars
  BY <1>0, <1>1 DEF vars, chainVars, mongoVars, pollVars, historyVars, FollowInv, RowTypes, PageInv,
     BatchInv, OrderInv, PassedOver, RowInv, StayedAhead, StatusShown, StatusEvents, Kept, Begin,
     FirstLedger, ToDo, Tracked, Applied, InGap
<1>2. CASE Next
  <2>1. Grown
    BY <1>0, <1>2, AppliedStays DEF SkipInv
  <2>2. PageInv' /\ OrderInv' /\ RowInv'
    BY <1>0, <1>2, <2>1, PageInvKeeps, OrderKeeps, RowKeeps
  <2>3. RowTypes'
    <3>1. row' \in [Invoice -> RowStatus]
      <4>1. CASE InsertRow
        BY <1>0, <4>1 DEF InsertRow, RowTypes, RowStatus
      <4>2. CASE updateStatus
        BY <1>0, <4>2, StatusTypes DEF updateStatus, RowsWith, RowTypes
      <4>3. CASE UNCHANGED row
        BY <1>0, <4>3 DEF RowTypes
      <4> QED
        BY <1>2, <4>1, <4>2, <4>3
        DEF Next, Environment, Publish, CloseLedger, Forget, StartBackfill, EndBackfill, Abandon,
            pollOnce, load, fetchEvents, fetchRefused, recordRetentionGap, skipGap, saveMongoCursor,
            saveCursor, storeEvent, markApplied, persistTransition, mongoVars
    <3>2. rewound' \in BOOLEAN
      BY <1>0, <1>2
      DEF Next, Environment, Publish, CloseLedger, Forget, InsertRow, StartBackfill, EndBackfill, Abandon,
          pollOnce, load, fetchEvents, fetchRefused, recordRetentionGap, skipGap, saveMongoCursor,
          saveCursor, storeEvent, updateStatus, markApplied, persistTransition, historyVars, RowTypes
    <3> QED
      BY <3>1, <3>2 DEF RowTypes
  <2> QED
    BY <1>0, <2>2, <2>3 DEF FollowInv
<1> QED
  BY <1>1, <1>2

\* However often batches are replayed, a row that was there in time never falls
\* back to an older status, as long as the cursor stayed ahead of where indexing
\* began and the events carry the invoice's id where parseInvoiceId looks.
THEOREM RowsNeverFallBack == Spec => []RowsFollowChain
<1>1. FollowInv => RowsFollowChain
  BY DEF FollowInv, RowInv, RowsFollowChain, RowsShown
<1> QED
  BY <1>1, FollowInit, StepKeepsFollow, PTL DEF Spec
=============================================================================
