----------------------- MODULE TreasuryServiceProofs ------------------------
(***************************************************************************)
(* What holds of TreasuryService for any number of settlements, overlapping  *)
(* ticks, requests, events and faults, any page size and any cut of the list *)
(* of processed ids.                                                         *)
(***************************************************************************)
EXTENDS TreasuryService, TLAPS

\* Events 1 .. n are in their rows and announced.
Covered       == applied \cap sent
CoveredTo(n)  == 1 .. n \subseteq Covered

\* What a tick has in hand is covered, except the event it is at: a stale
\* cursor, loaded before another tick saved, is still a covered one.
TickCovers(t) ==
  /\ t.token <= Len(log) /\ CoveredTo(t.token)
  /\ t.last <= Len(log)
  /\ t.seen \subseteq Covered /\ Range(t.new) \subseteq Covered
  /\ t.pc \in {"apply", "notify"} =>
       t.pos \in t.token + 1 .. t.last /\ CoveredTo(t.pos - 1)
  /\ t.pc = "notify" => t.pos \in applied
  /\ t.pc = "save" => CoveredTo(t.last)

CoverInv ==
  /\ cursor.token <= Len(log) /\ CoveredTo(cursor.token)
  /\ Range(cursor.ids) \subseteq Covered
  /\ \A a \in Slot : TickCovers(tick[a])

Done(s) == s \in executed

\* Whatever speaks of an execution - the contract, an event, a landed transaction,
\* a request about to write, a row - speaks of one that has been.
RequestTrue(r) ==
  /\ execution[r].pc # "idle" => execution[r].id \in Settlement
  /\ execution[r].pc = "write" => Done(execution[r].id)
  /\ execution[r].pc = "confirm" => executionTx[r].id = execution[r].id
  /\ executionTx[r].state \in {"sent", "landed"} => executionTx[r].id \in Settlement
  /\ executionTx[r].state = "landed" => Done(executionTx[r].id)

RowsInv ==
  /\ \A e \in DOMAIN log : log[e].type = "settlement_executed" => Done(log[e].id)
  /\ \A s \in Settlement :
       row[s].status = "Executed" \/ chain[s].status = "Executed" => Done(s)
  /\ \A r \in Request : RequestTrue(r)

ServiceInv == TypeOK /\ CoverInv /\ RowsInv
-----------------------------------------------------------------------------
(* Sequences of event ids. *)

LEMMA RangeAppend ==
  ASSUME NEW q \in Seq(EventId), NEW e \in EventId
  PROVE  Append(q, e) \in Seq(EventId) /\ Range(Append(q, e)) \subseteq Range(q) \cup {e}
  BY DEF Range

LEMMA RangeConcat ==
  ASSUME NEW q \in Seq(EventId), NEW p \in Seq(EventId)
  PROVE  q \o p \in Seq(EventId) /\ Range(q \o p) \subseteq Range(q) \cup Range(p)
  BY DEF Range

\* $push with $slice: the newest KeptIds ids stay, and no id is made up.
LEMMA CutKeeps ==
  ASSUME NEW q \in Seq(EventId)
  PROVE  LET cut == SubSeq(q, IF Len(q) > KeptIds THEN Len(q) - KeptIds + 1 ELSE 1, Len(q))
         IN  cut \in Seq(EventId) /\ Len(cut) <= KeptIds /\ Range(cut) \subseteq Range(q)
<1> USE ServiceAssumption
<1> DEFINE m == IF Len(q) > KeptIds THEN Len(q) - KeptIds + 1 ELSE 1
           cut == SubSeq(q, m, Len(q))
<1>1. m \in Nat /\ m >= 1 /\ m <= Len(q) + 1 /\ Len(q) - m + 1 <= KeptIds /\ Len(q) \in Nat
  OBVIOUS
<1> HIDE DEF m
<1>2. cut \in Seq(EventId) /\ Len(cut) = Len(q) - m + 1
      /\ \A i \in 1 .. Len(cut) : cut[i] = q[m + i - 1]
  BY <1>1
<1>3. Range(cut) \subseteq Range(q)
  <2>1. \A i \in 1 .. Len(cut) : m + i - 1 \in 1 .. Len(q)
    BY <1>1, <1>2
  <2> QED
    BY <1>2, <2>1 DEF Range
<1> QED
  BY <1>1, <1>2, <1>3 DEF m
-----------------------------------------------------------------------------
(* Types. *)

LEMMA InitHolds == Init => ServiceInv
<1> SUFFICES ASSUME Init PROVE ServiceInv
  OBVIOUS
<1> USE ServiceAssumption
<1>1. Range(<<>>) = {} /\ <<>> \in Seq(EventId) /\ Len(<<>>) = 0
  BY DEF Range
<1>2. TypeOK
  BY <1>1 DEF Init, TypeOK, NoRow, NoTx, IdleTick, IdleRequest,
              Token, TrackedEvent, OnChain, Row, Tx, TickState, RequestState
<1>3. CoverInv
  BY <1>1 DEF Init, CoverInv, TickCovers, CoveredTo, Covered, IdleTick
<1>4. RowsInv
  BY DEF Init, RowsInv, RequestTrue, NoRow, NoTx, IdleRequest
<1> QED
  BY <1>2, <1>3, <1>4 DEF ServiceInv

\* A tick that ends, or that fails, is an idle tick; so is a request.
LEMMA IdleTyped == IdleTick \in TickState /\ IdleRequest \in RequestState /\ NoTx \in Tx
  BY ServiceAssumption, <<>> \in Seq(EventId)
     DEF IdleTick, IdleRequest, NoTx, TickState, RequestState, Tx, Token

\* An event joins the log, or the contract does not publish it.
LEMMA PublishTyped ==
  ASSUME TypeOK, NEW s \in Settlement, NEW w \in Nat,
         NEW type \in {"settlement_proposed", "settlement_approved", "settlement_executed"},
         Publish(type, s, w)
  PROVE  /\ log' \in Seq(TrackedEvent) /\ Len(log') >= Len(log) /\ Len(log') <= MaxEvents
         /\ \A e \in DOMAIN log : e \in DOMAIN log' /\ log'[e] = log[e]
         /\ \A e \in DOMAIN log' : e \in DOMAIN log \/ log'[e] = [type |-> type, id |-> s, weight |-> w]
<1> DEFINE new == [type |-> type, id |-> s, weight |-> w]
<1>1. new \in TrackedEvent
  BY DEF TrackedEvent
<1>2. (Len(log) < MaxEvents /\ log' = Append(log, new)) \/ log' = log
  BY DEF Publish
<1> HIDE DEF new
<1>3. CASE log' = log
  BY <1>3 DEF TypeOK
<1>4. CASE Len(log) < MaxEvents /\ log' = Append(log, new)
  <2>1. log \in Seq(TrackedEvent) /\ Len(log) \in Nat /\ MaxEvents \in Nat
    BY ServiceAssumption DEF TypeOK
  <2>2. log' \in Seq(TrackedEvent) /\ Len(log') = Len(log) + 1
    BY <1>1, <1>4, <2>1
  <2>3. \A e \in DOMAIN log : e \in DOMAIN log' /\ log'[e] = log[e]
    BY <1>1, <1>4, <2>1
  <2>4. \A e \in DOMAIN log' : e \in DOMAIN log \/ log'[e] = new
    BY <1>1, <1>4, <2>1
  <2> QED
    BY <1>4, <2>1, <2>2, <2>3, <2>4 DEF new
<1> QED
  BY <1>2, <1>3, <1>4

\* A settlement may take any of the contract's statuses, and an approval weight
\* that checked_add accepts.
LEMMA SettlementTyped ==
  ASSUME TypeOK, NEW s \in Settlement
  PROVE  /\ \A status \in {"none", "Pending", "OnHold", "Executed", "Cancelled"} :
              [chain EXCEPT ![s].status = status] \in [Settlement -> OnChain]
         /\ \A w \in 0 .. MaxWeight :
              /\ [chain EXCEPT ![s].weight = w] \in [Settlement -> OnChain]
              /\ [chain EXCEPT ![s] = [status |-> "Pending", weight |-> w]] \in [Settlement -> OnChain]
  BY DEF TypeOK, OnChain

\* A call of the contract keeps the types of what it changes.
LEMMA ChainTyped ==
  ASSUME TypeOK, NEW s \in Settlement, ContractCall(s)
  PROVE  TypeOK'
<1> USE ServiceAssumption
<1> USE DEF mongoVars, serviceVars, historyVars
<1>1. CASE propose_settlement(s)
  <2>1. chain' \in [Settlement -> OnChain]
    <3>1. 0 \in 0 .. MaxWeight
      OBVIOUS
    <3> QED
      BY <1>1, <3>1, SettlementTyped DEF propose_settlement
  <2>2. log' \in Seq(TrackedEvent) /\ Len(log') <= MaxEvents
    BY <1>1, PublishTyped DEF propose_settlement
  <2> QED
    BY <1>1, <2>1, <2>2 DEF TypeOK, propose_settlement
<1>2. ASSUME NEW weight \in SignerWeight, approve_settlement(s, weight) PROVE TypeOK'
  <2>1. chain[s].weight + weight \in 0 .. MaxWeight
    BY <1>2 DEF approve_settlement, TypeOK, OnChain
  <2>2. chain' = [chain EXCEPT ![s].weight = chain[s].weight + weight]
    BY <1>2 DEF approve_settlement
  <2>3. chain' \in [Settlement -> OnChain]
    BY <2>1, <2>2, SettlementTyped
  <2>4. log' \in Seq(TrackedEvent) /\ Len(log') <= MaxEvents
    BY <1>2, <2>1, PublishTyped DEF approve_settlement
  <2> QED
    BY <1>2, <2>3, <2>4 DEF TypeOK, approve_settlement
<1>3. CASE cancel_settlement(s) \/ raise_dispute(s) \/ resolve_dispute(s)
  <2>1. PICK status \in {"Pending", "OnHold", "Cancelled"} : SetStatus(s, status)
    BY <1>3 DEF cancel_settlement, raise_dispute, resolve_dispute
  <2>2. chain' \in [Settlement -> OnChain]
    BY <2>1, SettlementTyped DEF SetStatus
  <2> QED
    BY <2>1, <2>2 DEF TypeOK, SetStatus
<1>4. CASE ExecuteElsewhere(s)
  <2>1. chain' \in [Settlement -> OnChain]
    BY <1>4, SettlementTyped DEF ExecuteElsewhere, execute_settlement
  <2>2. log' \in Seq(TrackedEvent) /\ Len(log') <= MaxEvents
    BY <1>4, PublishTyped DEF ExecuteElsewhere, execute_settlement
  <2> QED
    BY <1>4, <2>1, <2>2 DEF TypeOK, ExecuteElsewhere, execute_settlement
<1> QED
  BY <1>1, <1>2, <1>3, <1>4 DEF ContractCall

\* So does a request, and the landing of what it sent.
LEMMA RequestTyped ==
  ASSUME TypeOK, RowsInv, NEW r \in Request, ExecutionLands(r) \/ Execute(r)
  PROVE  TypeOK'
<1> USE ServiceAssumption
<1> USE DEF treasuryVars, mongoVars, serviceVars, historyVars
<1>0. executionTx[r] \in Tx /\ execution[r] \in RequestState /\ RequestTrue(r)
  BY DEF TypeOK, RowsInv
<1>1. CASE ExecutionLands(r)
  <2> DEFINE s == executionTx[r].id
             Result(state) == IF execution[r].pc = "confirm" THEN [executionTx[r] EXCEPT !.state = state] ELSE NoTx
  <2>1. s \in Settlement
    BY <1>0, <1>1 DEF ExecutionLands, RequestTrue
  <2>2. Result("landed") \in Tx /\ Result("failed") \in Tx
    BY <1>0, IdleTyped DEF Tx
  <2>3. executionTx' = [executionTx EXCEPT ![r] = Result("landed")]
        \/ executionTx' = [executionTx EXCEPT ![r] = Result("failed")]
    BY <1>1 DEF ExecutionLands
  <2>4. executionTx' \in [Request -> Tx]
    <3> HIDE DEF Result
    <3> QED
      BY <2>2, <2>3 DEF TypeOK
  <2>5. CASE UNCHANGED <<log, chain, executed>>
    BY <1>1, <2>4, <2>5 DEF ExecutionLands, TypeOK
  <2>6. CASE execute_settlement(s)
    <3> HIDE DEF s
    <3>1. chain' \in [Settlement -> OnChain]
      BY <2>1, <2>6, SettlementTyped DEF execute_settlement
    <3>2. log' \in Seq(TrackedEvent) /\ Len(log') <= MaxEvents
      BY <2>1, <2>6, PublishTyped DEF execute_settlement
    <3>3. executed' \subseteq Settlement
      BY <2>1, <2>6 DEF execute_settlement, TypeOK
    <3> QED
      BY <1>1, <2>4, <3>1, <3>2, <3>3 DEF ExecutionLands, TypeOK
  <2> QED
    BY <1>1, <2>5, <2>6 DEF ExecutionLands
<1>2. ASSUME NEW s \in Settlement, ExecuteRead(r, s) PROVE TypeOK'
  <2>1. [IdleRequest EXCEPT !.id = s, !.pc = "write"] \in RequestState
        /\ [IdleRequest EXCEPT !.id = s, !.pc = "balance"] \in RequestState
    BY DEF IdleRequest, RequestState
  <2>2. execution' \in [Request -> RequestState]
    BY <1>2, <2>1, IdleTyped DEF ExecuteRead, TypeOK
  <2> QED
    BY <1>2, <2>2 DEF ExecuteRead, TypeOK
<1>3. \A pc \in {"balance", "submit", "confirm", "reread", "write"} :
        GoTo(r, pc) \/ AnswerSent(r) => execution' \in [Request -> RequestState]
  <2>1. \A pc \in {"balance", "submit", "confirm", "reread", "write"} :
          [execution[r] EXCEPT !.pc = pc] \in RequestState
    BY <1>0 DEF RequestState
  <2> QED
    BY <2>1, IdleTyped DEF GoTo, AnswerSent, TypeOK
<1>4. CASE ExecuteBalance(r)
  BY <1>3, <1>4 DEF ExecuteBalance, TypeOK
<1>5. CASE ExecuteSubmit(r)
  <2>1. [state |-> "sent", id |-> execution[r].id] \in Tx
    BY <1>0 DEF Tx, RequestState
  <2>2. executionTx' \in [Request -> Tx]
    BY <1>5, <2>1 DEF ExecuteSubmit, TypeOK
  <2>3. execution' \in [Request -> RequestState]
    BY <1>3, <1>5 DEF ExecuteSubmit
  <2> QED
    BY <1>5, <2>2, <2>3 DEF ExecuteSubmit, TypeOK
<1>6. CASE ExecuteConfirm(r)
  <2>1. executionTx' \in [Request -> Tx]
    BY <1>6, <1>0, IdleTyped DEF ExecuteConfirm, TypeOK
  <2>2. execution' \in [Request -> RequestState]
    BY <1>3, <1>6 DEF ExecuteConfirm
  <2> QED
    BY <1>6, <2>1, <2>2 DEF ExecuteConfirm, TypeOK
<1>7. CASE ExecuteReread(r)
  BY <1>3, <1>7 DEF ExecuteReread, TypeOK
<1>8. CASE ExecuteWrite(r)
  <2>1. execution' \in [Request -> RequestState]
    BY <1>3, <1>8 DEF ExecuteWrite
  <2>2. execution[r].id \in Settlement
    BY <1>0, <1>8 DEF ExecuteWrite, RequestTrue
  <2>3. row' \in [Settlement -> Row]
    <3> DEFINE s == execution[r].id
               status == IF row[s].status = "none" THEN row[s].status ELSE "Executed"
    <3>1. row' = row \/ row' = [row EXCEPT ![s].status = status]
      BY <1>8 DEF ExecuteWrite
    <3>2. status \in {"none", "Pending", "Executed"}
      OBVIOUS
    <3>3. s \in Settlement
      BY <2>2
    <3> HIDE DEF status, s
    <3>4. [row[s] EXCEPT !.status = status] \in Row
      BY <3>2, <3>3 DEF TypeOK, Row
    <3> QED
      BY <3>1, <3>3, <3>4 DEF TypeOK
  <2>4. faults' \in 0 .. MaxFaults
    BY <1>8 DEF ExecuteWrite, TypeOK
  <2> QED
    BY <1>8, <2>1, <2>3, <2>4 DEF ExecuteWrite, TypeOK
<1> QED
  BY <1>1, <1>2, <1>4, <1>5, <1>6, <1>7, <1>8 DEF Execute

\* And a tick.
LEMMA TickTyped ==
  ASSUME TypeOK, CoverInv, NEW a \in Slot, Tick(a)
  PROVE  TypeOK'
<1> USE ServiceAssumption
<1> USE DEF treasuryVars, mongoVars, serviceVars, historyVars
<1> DEFINE t == tick[a]
<1>0. t \in TickState /\ TickCovers(t) /\ Len(log) \in 0 .. MaxEvents
  BY DEF TypeOK, CoverInv
<1>f. /\ t.pc \in {"idle", "fetch", "apply", "notify", "save"} /\ t.token \in Token
      /\ t.seen \subseteq EventId /\ t.last \in Token /\ t.pos \in 0 .. MaxEvents + 1
      /\ t.new \in Seq(EventId)
  BY <1>0 DEF TickState
<1>p. t.pc \in {"apply", "notify"} =>
        t.pos \in 1 .. Len(log) /\ t.pos \in EventId /\ t.pos + 1 \in 0 .. MaxEvents + 1
  <2> HIDE DEF t
  <2> QED
    <3>1. t.pc \in {"apply", "notify"} => t.pos \in t.token + 1 .. t.last /\ t.last <= Len(log)
      BY <1>0 DEF TickCovers
    <3> QED
      BY <1>0, <1>f, <3>1 DEF Token, EventId
<1>1. CASE TickLoad(a)
  <2> DEFINE u == [IdleTick EXCEPT !.pc = "fetch", !.token = cursor.token, !.seen = Range(cursor.ids)]
  <2>1. Range(cursor.ids) \subseteq EventId /\ cursor.token \in Token
    BY DEF TypeOK, Range
  <2>2. u \in TickState
    BY <2>1, IdleTyped DEF IdleTick, TickState
  <2>3. tick' = [tick EXCEPT ![a] = u]
    BY <1>1 DEF TickLoad
  <2> HIDE DEF u
  <2>4. tick' \in [Slot -> TickState]
    BY <2>2, <2>3 DEF TypeOK
  <2> QED
    BY <1>1, <2>4 DEF TickLoad, TypeOK
<1>2. CASE TickFetch(a)
  <2> DEFINE last == IF Len(log) - t.token > EVENT_LIMIT THEN t.token + EVENT_LIMIT ELSE Len(log)
             seen == t.seen \cap (t.token + 1 .. last)
             u == [t EXCEPT !.last = last, !.pos = t.token + 1, !.seen = seen,
                            !.pc = IF last > t.token THEN "apply" ELSE "save"]
  <2>1. last \in Token /\ t.token + 1 \in 0 .. MaxEvents + 1 /\ seen \in SUBSET EventId
    <3> HIDE DEF t
    <3>1. last \in Token /\ t.token + 1 \in 0 .. MaxEvents + 1
      BY <1>0, <1>f DEF Token
    <3> HIDE DEF last
    <3> QED
      BY <1>f, <3>1
  <2>2. tick' = [tick EXCEPT ![a] = u]
    BY <1>2 DEF TickFetch, TypeOK, TickState
  <2>3. u \in TickState
    <3> HIDE DEF last, seen
    <3> QED
      BY <1>0, <2>1 DEF TickState
  <2> HIDE DEF u
  <2>4. tick' \in [Slot -> TickState]
    BY <2>2, <2>3 DEF TypeOK
  <2> QED
    BY <1>2, <2>4 DEF TickFetch, TypeOK
<1>3. CASE TickApply(a)
  <2>1. t.pos \in 1 .. Len(log) /\ t.pos \in EventId /\ t.pos + 1 \in 0 .. MaxEvents + 1
    BY <1>3, <1>p DEF TickApply
  <2>2. tick' \in [Slot -> TickState]
    <3>1. PICK u : tick' = [tick EXCEPT ![a] = u]
                   /\ \/ u = [t EXCEPT !.pc = "notify"]
                      \/ \E pc \in {"save", "apply"} : u = [t EXCEPT !.pos = t.pos + 1, !.pc = pc]
      BY <1>3 DEF TickApply
    <3>2. u \in TickState
      BY <1>0, <2>1, <3>1 DEF TickState
    <3> QED
      BY <3>1, <3>2 DEF TypeOK
  <2>3. log[t.pos] \in TrackedEvent
    BY <2>1 DEF TypeOK
  <2>4. \A x \in Row : Upsert(t.pos, x) \in Row
    BY <2>3 DEF Upsert, TrackedEvent, Row
  <2>5. row' \in [Settlement -> Row] /\ applied' \subseteq EventId
    <3>1. log[t.pos].id \in Settlement
      BY <2>3 DEF TrackedEvent
    <3> QED
      <4>1. row' = row \/ row' = [row EXCEPT ![log[t.pos].id] = Upsert(t.pos, row[log[t.pos].id])]
        BY <1>3 DEF TickApply
      <4>2. applied' = applied \/ applied' = applied \cup {t.pos}
        BY <1>3 DEF TickApply
      <4> QED
        BY <2>1, <2>4, <3>1, <4>1, <4>2 DEF TypeOK
  <2> QED
    BY <1>3, <2>2, <2>5 DEF TickApply, TypeOK
<1>4. CASE TickNotify(a)
  <2>1. t.pos \in EventId /\ t.pos + 1 \in 0 .. MaxEvents + 1
    BY <1>4, <1>p DEF TickNotify
  <2>2. Append(t.new, t.pos) \in Seq(EventId)
    BY <1>0, <2>1, RangeAppend DEF TickState
  <2>3. tick' \in [Slot -> TickState]
    BY <1>0, <1>4, <2>1, <2>2 DEF TickNotify, TypeOK, TickState
  <2> QED
    BY <1>4, <2>1, <2>3 DEF TickNotify, dispatchWebhook, TypeOK
<1>5. CASE TickSave(a)
  <2> DEFINE ids == cursor.ids \o t.new
             cut == SubSeq(ids, IF Len(ids) > KeptIds THEN Len(ids) - KeptIds + 1 ELSE 1, Len(ids))
  <2>1. ids \in Seq(EventId)
    BY <1>0, RangeConcat DEF TypeOK, TickState
  <2>2. cut \in Seq(EventId) /\ Len(cut) <= KeptIds
    BY <2>1, CutKeeps
  <2>3. cursor' = [token |-> t.last, ids |-> cut]
    BY <1>5 DEF TickSave
  <2>4. tick' \in [Slot -> TickState]
    BY <1>5, IdleTyped DEF TickSave, TypeOK
  <2>5. t.last \in Token
    BY <1>0 DEF TickState
  <2> HIDE DEF cut
  <2>6. cursor' \in [token: Token, ids: Seq(EventId)] /\ Len(cursor'.ids) <= KeptIds
    BY <2>2, <2>3, <2>5
  <2> QED
    BY <1>5, <2>4, <2>6 DEF TickSave, TypeOK
<1> QED
  BY <1>1, <1>2, <1>3, <1>4, <1>5 DEF Tick
-----------------------------------------------------------------------------
(* What is covered stays covered. *)

\* Events are only ever added to the log, to the applied and to the sent.
Grows == Len(log) <= Len(log') /\ applied \subseteq applied' /\ sent \subseteq sent'

\* Steps that leave the cursor and the ticks alone, and steps that only set
\* one tick to a covering one.
LEMMA CoverKept ==
  ASSUME TypeOK, TypeOK', CoverInv, Grows, UNCHANGED cursor,
         \A a \in Slot : tick'[a] = tick[a] \/ TickCovers(tick[a])'
  PROVE  CoverInv'
<1>1. cursor'.token <= Len(log')
  BY ServiceAssumption DEF TypeOK, CoverInv, Grows, Token
<1>2. CoveredTo(cursor.token)' /\ Range(cursor'.ids) \subseteq Covered'
  BY DEF CoverInv, Grows, CoveredTo, Covered
<1>3. ASSUME NEW a \in Slot PROVE TickCovers(tick[a])'
  <2>1. CASE TickCovers(tick[a])'
    BY <2>1
  <2>2. CASE tick'[a] = tick[a]
    <3>1. tick[a] \in TickState /\ TickCovers(tick[a])
      BY DEF TypeOK, CoverInv
    <3> DEFINE t == tick[a]
    <3>2. t.token <= Len(log') /\ t.last <= Len(log')
      <4>1. t.token \in Token /\ t.last \in Token
        BY <3>1 DEF TickState
      <4>2. t.token \in Nat /\ t.last \in Nat
        BY <4>1, ServiceAssumption DEF Token
      <4>3. Len(log) \in Nat /\ Len(log') \in Nat
        BY DEF TypeOK
      <4> QED
        BY <3>1, <4>2, <4>3 DEF Grows, TickCovers
    <3> QED
      BY <2>2, <3>1, <3>2 DEF Grows, TickCovers, CoveredTo, Covered
  <2> QED
    BY <1>3, <2>1, <2>2
<1> QED
  BY <1>1, <1>2, <1>3 DEF CoverInv

\* A tick that is over has nothing in hand.
LEMMA IdleCovers == ASSUME TypeOK PROVE TickCovers(IdleTick)
<1>1. Range(<<>>) = {} /\ Len(log) \in Nat
  BY DEF Range, TypeOK
<1> QED
  BY <1>1 DEF TickCovers, CoveredTo, IdleTick

LEMMA TickKeepsCover ==
  ASSUME TypeOK, TypeOK', CoverInv, NEW a \in Slot, Tick(a)
  PROVE  CoverInv'
<1> USE ServiceAssumption
<1> USE DEF treasuryVars, mongoVars, serviceVars, historyVars
<1> DEFINE t == tick[a]
           u == tick'[a]
<1>0. t \in TickState /\ TickCovers(t) /\ Len(log) \in 0 .. MaxEvents
  BY DEF TypeOK, CoverInv
<1>f. /\ t.token \in Nat /\ t.last \in Nat /\ t.pos \in Nat /\ t.token \in 0 .. MaxEvents
      /\ t.new \in Seq(EventId)
  <2>1. t.token \in Token /\ t.last \in Token /\ t.pos \in 0 .. MaxEvents + 1 /\ t.new \in Seq(EventId)
    BY <1>0 DEF TickState
  <2> HIDE DEF t
  <2> QED
    BY <2>1 DEF Token
<1>p. t.pc \in {"apply", "notify"} => t.pos \in t.token + 1 .. t.last /\ t.last <= Len(log)
                                      /\ t.pos \in EventId
  <2>1. t.pc \in {"apply", "notify"} => t.pos \in t.token + 1 .. t.last /\ t.last <= Len(log)
    BY <1>0 DEF TickCovers
  <2> HIDE DEF t
  <2> QED
    BY <1>0, <1>f, <2>1 DEF EventId
<1>1. CASE TickLoad(a)
  <2>1. u = [IdleTick EXCEPT !.pc = "fetch", !.token = cursor.token, !.seen = Range(cursor.ids)]
    BY <1>1 DEF TickLoad, TypeOK
  <2>2. u.pc = "fetch" /\ u.token = cursor.token /\ u.seen = Range(cursor.ids) /\ u.last = 0
        /\ u.new = <<>> /\ Range(<<>>) = {}
    BY <2>1 DEF IdleTick, Range
  <2>3. UNCHANGED <<log, applied, sent, cursor>> /\ \A b \in Slot \ {a} : tick'[b] = tick[b]
    BY <1>1 DEF TickLoad, TypeOK
  <2>4. TickCovers(tick[a])'
    BY <1>0, <2>2, <2>3 DEF CoverInv, TickCovers, CoveredTo, Covered
  <2> QED
    BY <2>3, <2>4, <1>0, CoverKept DEF Grows
<1>2. CASE TickFetch(a)
  <2> DEFINE last == IF Len(log) - t.token > EVENT_LIMIT THEN t.token + EVENT_LIMIT ELSE Len(log)
  <2>1. u = [t EXCEPT !.last = last, !.pos = t.token + 1, !.seen = @ \cap (t.token + 1 .. last),
                      !.pc = IF last > t.token THEN "apply" ELSE "save"]
    BY <1>2 DEF TickFetch, TypeOK
  <2>2. u.pc = (IF last > t.token THEN "apply" ELSE "save") /\ u.token = t.token
        /\ u.seen \subseteq t.seen /\ u.last = last /\ u.pos = t.token + 1 /\ u.new = t.new
    BY <1>0, <2>1 DEF TickState
  <2>3. UNCHANGED <<log, applied, sent, cursor>> /\ \A b \in Slot \ {a} : tick'[b] = tick[b]
    BY <1>2 DEF TickFetch, TypeOK
  <2>4. t.token <= Len(log) /\ CoveredTo(t.token)
    BY <1>0 DEF TickCovers
  <2>5. last \in Nat /\ t.token <= last /\ last <= Len(log) /\ (~(last > t.token) => last = t.token)
    <3> HIDE DEF t
    <3> QED
      BY <1>0, <1>f, <2>4
  <2>6. TickCovers(tick[a])'
    <3> HIDE DEF last
    <3>1. u.pc \in {"apply", "notify"} => u.pos \in u.token + 1 .. u.last /\ u.pos - 1 = t.token
      BY <1>f, <2>2, <2>5
    <3>2. u.pc = "save" => u.last = t.token
      BY <2>2, <2>5
    <3>3. u.pc # "notify" /\ u.token <= Len(log) /\ u.last <= Len(log)
      BY <2>2, <2>4, <2>5
    <3> QED
      BY <1>0, <2>2, <2>3, <2>4, <3>1, <3>2, <3>3 DEF TickCovers, CoveredTo, Covered
  <2> QED
    BY <2>3, <2>6, <1>0, CoverKept DEF Grows
<1>3. CASE TickApply(a)
  <2>1. UNCHANGED <<log, sent, cursor>> /\ applied \subseteq applied'
        /\ \A b \in Slot \ {a} : tick'[b] = tick[b]
    BY <1>3 DEF TickApply, TypeOK
  <2>2. t.pc = "apply" /\ CoveredTo(t.pos - 1)
    BY <1>0, <1>3 DEF TickApply, TickCovers
  <2>3. CASE t.pos \in t.seen
    <3>1. u = [t EXCEPT !.pos = t.pos + 1, !.pc = IF t.pos = t.last THEN "save" ELSE "apply"]
      BY <1>3, <2>3 DEF TickApply, TypeOK
    <3>2. u.pc = (IF t.pos = t.last THEN "save" ELSE "apply") /\ u.token = t.token
          /\ u.seen = t.seen /\ u.last = t.last /\ u.pos = t.pos + 1 /\ u.new = t.new
      BY <1>0, <3>1 DEF TickState
    <3>3. CoveredTo(t.pos)
      <4>1. t.pos \in Covered
        BY <1>0, <2>3 DEF TickCovers
      <4>2. \A e \in 1 .. t.pos : e = t.pos \/ e \in 1 .. t.pos - 1
        BY <1>f
      <4> QED
        BY <2>2, <4>1, <4>2 DEF CoveredTo
    <3>4. u.pc \in {"apply", "notify"} => u.pos \in u.token + 1 .. u.last /\ u.pos - 1 = t.pos
      <4> HIDE DEF t, u
      <4> QED
        <5>1. t.pos \in t.token + 1 .. t.last
          BY <1>p, <2>2
        <5>2. u.pc \in {"apply", "notify"} => t.pos # t.last
          BY <3>2
        <5> QED
          BY <1>f, <3>2, <5>1, <5>2
    <3>5. u.pc = "save" => u.last = t.pos
      BY <3>2
    <3>6. TickCovers(tick[a])'
      BY <1>0, <2>1, <3>2, <3>3, <3>4, <3>5 DEF TickCovers, CoveredTo, Covered
    <3> QED
      BY <2>1, <3>6, <1>0, CoverKept DEF Grows
  <2>4. CASE t.pos \notin t.seen
    <3>1. u = [t EXCEPT !.pc = "notify"] /\ applied' = applied \cup {t.pos}
      BY <1>3, <2>4 DEF TickApply, TypeOK
    <3>2. u.pc = "notify" /\ u.token = t.token
          /\ u.seen = t.seen /\ u.last = t.last /\ u.pos = t.pos /\ u.new = t.new
      BY <1>0, <3>1 DEF TickState
    <3>3. TickCovers(tick[a])'
      BY <1>0, <1>p, <2>1, <2>2, <3>1, <3>2 DEF TickCovers, CoveredTo, Covered
    <3> QED
      BY <2>1, <3>3, <1>0, CoverKept DEF Grows
  <2> QED
    BY <2>3, <2>4
<1>4. CASE TickNotify(a)
  <2>1. UNCHANGED <<log, applied, cursor>> /\ sent' = sent \cup {t.pos}
        /\ \A b \in Slot \ {a} : tick'[b] = tick[b]
    BY <1>4 DEF TickNotify, dispatchWebhook, TypeOK
  <2>2. t.pc = "notify" /\ CoveredTo(t.pos - 1) /\ t.pos \in applied
    BY <1>0, <1>4 DEF TickNotify, TickCovers
  <2>3. u = [t EXCEPT !.pos = t.pos + 1, !.new = Append(t.new, t.pos),
                      !.pc = IF t.pos = t.last THEN "save" ELSE "apply"]
    BY <1>4 DEF TickNotify, TypeOK
  <2>4. u.pc = (IF t.pos = t.last THEN "save" ELSE "apply") /\ u.token = t.token
        /\ u.seen = t.seen /\ u.last = t.last /\ u.pos = t.pos + 1 /\ u.new = Append(t.new, t.pos)
    BY <1>0, <2>3 DEF TickState
  <2>5. t.pos \in Covered' /\ Covered \subseteq Covered'
    BY <2>1, <2>2 DEF Covered
  <2>6. CoveredTo(t.token)' /\ \A e \in 1 .. t.pos : e \in Covered'
    <3>1. \A e \in 1 .. t.pos : e = t.pos \/ e \in 1 .. t.pos - 1
      BY <1>f
    <3>2. 1 .. t.token \subseteq Covered
      BY <1>0 DEF TickCovers, CoveredTo
    <3>3. u.token = t.token
      BY <2>4
    <3> QED
      BY <2>2, <2>5, <3>1, <3>2, <3>3 DEF CoveredTo
  <2>7. Range(u.new) \subseteq Covered'
    BY <1>0, <1>f, <1>p, <2>2, <2>4, <2>5, RangeAppend DEF TickCovers
  <2>8. u.pc \in {"apply", "notify"} => u.pos \in u.token + 1 .. u.last /\ u.pos - 1 = t.pos
    <3> HIDE DEF t, u
    <3> QED
      BY <1>f, <1>p, <2>2, <2>4
  <2>9. TickCovers(tick[a])'
    <3>1. u.pc # "notify" /\ u.seen \subseteq Covered' /\ u.last <= Len(log') /\ u.token <= Len(log')
      BY <1>0, <2>1, <2>4, <2>5 DEF TickCovers
    <3>2. 1 .. u.token \subseteq Covered'
      BY <1>0, <2>4, <2>5 DEF TickCovers, CoveredTo
    <3>3. u.pc = "save" => u.last = t.pos
      BY <2>4
    <3> QED
      BY <2>6, <2>7, <2>8, <3>1, <3>2, <3>3 DEF TickCovers, CoveredTo
  <2> QED
    BY <2>1, <2>9, <1>0, CoverKept DEF Grows
<1>5. CASE TickSave(a)
  <2> DEFINE ids == cursor.ids \o t.new
             cut == SubSeq(ids, IF Len(ids) > KeptIds THEN Len(ids) - KeptIds + 1 ELSE 1, Len(ids))
  <2>1. UNCHANGED <<log, applied, sent>> /\ u = IdleTick /\ \A b \in Slot \ {a} : tick'[b] = tick[b]
    BY <1>5 DEF TickSave, TypeOK
  <2>2. cursor' = [token |-> t.last, ids |-> cut]
    BY <1>5 DEF TickSave
  <2>3. t.pc = "save" /\ CoveredTo(t.last) /\ t.last <= Len(log) /\ Range(t.new) \subseteq Covered
    BY <1>0, <1>5 DEF TickSave, TickCovers
  <2>4. Range(cut) \subseteq Covered
    <3>1. cursor.ids \in Seq(EventId) /\ Range(cursor.ids) \subseteq Covered
      BY DEF TypeOK, CoverInv
    <3>2. ids \in Seq(EventId) /\ Range(ids) \subseteq Covered
      BY <1>f, <2>3, <3>1, RangeConcat
    <3> HIDE DEF ids
    <3> QED
      BY <3>2, CutKeeps
  <2>5. cursor'.token = t.last /\ cursor'.ids = cut
    BY <2>2
  <2> HIDE DEF cut
  <2>6. \A b \in Slot : TickCovers(tick[b])'
    BY <2>1, IdleCovers DEF CoverInv, TickCovers, CoveredTo, Covered
  <2> QED
    BY <2>1, <2>3, <2>4, <2>5, <2>6 DEF CoverInv, CoveredTo, Covered
<1> QED
  BY <1>1, <1>2, <1>3, <1>4, <1>5 DEF Tick

\* A tick that fails and a restart only forget ticks.
LEMMA FaultTyped ==
  ASSUME TypeOK, (\E a \in Slot : TickFail(a)) \/ Restart
  PROVE  TypeOK'
<1> USE ServiceAssumption
<1>1. /\ UNCHANGED <<log, chain, executionTx, row, cursor, applied, sent, executed>>
      /\ faults < MaxFaults /\ faults' = faults + 1
  BY DEF TickFail, Restart, treasuryVars, mongoVars
<1>2. tick' \in [Slot -> TickState] /\ execution' \in [Request -> RequestState]
  BY IdleTyped DEF TickFail, Restart, TypeOK
<1>3. faults' \in 0 .. MaxFaults
  BY <1>1 DEF TypeOK
<1> QED
  BY <1>1, <1>2, <1>3 DEF TypeOK

\* Every step keeps the cover.
LEMMA NextKeepsCover ==
  ASSUME TypeOK, TypeOK', CoverInv, Next
  PROVE  CoverInv'
<1> USE ServiceAssumption
<1> USE DEF treasuryVars, mongoVars, serviceVars, historyVars
<1>0. Len(log) \in Nat
  BY DEF TypeOK
<1>l. ASSUME \/ log' = log
             \/ \E type, s, w : Publish(type, s, w)
      PROVE  Len(log') >= Len(log)
  <2>1. log' = log \/ \E x : log' = Append(log, x)
    BY <1>l DEF Publish
  <2> QED
    BY <1>0, <2>1 DEF TypeOK
<1>1. ASSUME NEW s \in Settlement, ContractCall(s) PROVE CoverInv'
  <2>1. UNCHANGED <<cursor, tick, applied, sent>>
    BY <1>1 DEF ContractCall, propose_settlement, approve_settlement, cancel_settlement,
                raise_dispute, resolve_dispute, SetStatus, ExecuteElsewhere
  <2>2. log' = log \/ \E type, x, w : Publish(type, x, w)
    BY <1>1 DEF ContractCall, propose_settlement, approve_settlement, cancel_settlement,
                raise_dispute, resolve_dispute, SetStatus, ExecuteElsewhere, execute_settlement
  <2>3. Len(log') >= Len(log)
    BY <2>2, <1>l
  <2> QED
    BY <1>0, <2>1, <2>3, CoverKept DEF Grows, TypeOK
<1>3. ASSUME NEW r \in Request, ExecutionLands(r) PROVE CoverInv'
  <2>1. UNCHANGED <<cursor, tick, applied, sent>>
    BY <1>3 DEF ExecutionLands
  <2>2. log' = log \/ \E type, x, w : Publish(type, x, w)
    BY <1>3 DEF ExecutionLands, execute_settlement
  <2>3. Len(log') >= Len(log)
    BY <2>2, <1>l
  <2> QED
    BY <1>0, <2>1, <2>3, CoverKept DEF Grows, TypeOK
<1>4. ASSUME NEW r \in Request, Execute(r) PROVE CoverInv'
  <2>1. UNCHANGED <<log, cursor, tick, applied, sent>>
    BY <1>4 DEF Execute, ExecuteRead, ExecuteBalance, ExecuteSubmit, ExecuteConfirm, ExecuteReread,
                ExecuteWrite
  <2> QED
    BY <1>0, <2>1, CoverKept DEF Grows
<1>5. ASSUME NEW a \in Slot, Tick(a) PROVE CoverInv'
  BY <1>5, TickKeepsCover
<1>6. CASE (\E a \in Slot : TickFail(a)) \/ Restart
  <2>1. UNCHANGED <<log, cursor, applied, sent>>
        /\ \A a \in Slot : tick'[a] = tick[a] \/ tick'[a] = IdleTick
    BY <1>6 DEF TickFail, Restart, TypeOK
  <2>2. \A a \in Slot : tick'[a] = tick[a] \/ TickCovers(tick[a])'
    BY <2>1, IdleCovers DEF TickCovers, CoveredTo, Covered
  <2> QED
    BY <1>0, <2>1, <2>2, CoverKept DEF Grows
<1> QED
  BY <1>1, <1>3, <1>4, <1>5, <1>6 DEF Next
-----------------------------------------------------------------------------
(* What the backend says of an execution is so on the chain. *)

\* What has been executed has been: only executions change the record of them.
LEMMA DoneStays ==
  ASSUME Next, NEW s \in Settlement, Done(s)
  PROVE  Done(s)'
<1> USE DEF treasuryVars, mongoVars, serviceVars, historyVars, Done
<1>1. ASSUME NEW x \in Settlement, ContractCall(x) PROVE Done(s)'
  BY <1>1 DEF ContractCall, propose_settlement, approve_settlement, cancel_settlement,
              raise_dispute, resolve_dispute, SetStatus, ExecuteElsewhere, execute_settlement
<1>2. ASSUME NEW r \in Request, ExecutionLands(r) PROVE Done(s)'
  BY <1>2 DEF ExecutionLands, execute_settlement
<1>3. ASSUME NEW r \in Request, Execute(r) PROVE Done(s)'
  BY <1>3 DEF Execute, ExecuteRead, ExecuteBalance, ExecuteSubmit, ExecuteConfirm, ExecuteReread,
              ExecuteWrite
<1>4. ASSUME NEW a \in Slot, Tick(a) \/ TickFail(a) PROVE Done(s)'
  BY <1>4 DEF Tick, TickLoad, TickFetch, TickApply, TickNotify, TickSave, TickFail
<1>5. CASE Restart
  BY <1>5 DEF Restart
<1> QED
  BY <1>1, <1>2, <1>3, <1>4, <1>5 DEF Next

LEMMA LogTyped == TypeOK => \A e \in DOMAIN log : log[e].id \in Settlement
<1>1. TypeOK => \A e \in DOMAIN log : log[e] \in TrackedEvent
  BY DEF TypeOK
<1> QED
  BY <1>1 DEF TrackedEvent

\* A settlement the contract calls Executed is in the record of executions: that
\* holds when the contract's state is left alone.
LEMMA ChainDone ==
  ASSUME Next, RowsInv, UNCHANGED chain
  PROVE  \A s \in Settlement : chain'[s].status = "Executed" => Done(s)'
  BY DoneStays DEF RowsInv

\* Steps that say nothing new of an execution.
LEMMA RowsKept ==
  ASSUME TypeOK, RowsInv, Next, UNCHANGED <<log, row, execution, executionTx>>,
         \A s \in Settlement : chain'[s].status = "Executed" => Done(s)'
  PROVE  RowsInv'
<1>1. \A s \in Settlement : Done(s) => Done(s)'
  BY DoneStays
<1>2. \A e \in DOMAIN log : log[e].id \in Settlement
  BY LogTyped
<1>3. \A e \in DOMAIN log' : log'[e].type = "settlement_executed" => Done(log[e].id)'
  BY <1>1, <1>2 DEF RowsInv, Done
<1>4. \A s \in Settlement : row'[s].status = "Executed" => Done(s)'
  BY <1>1 DEF RowsInv, Done
<1>5. \A r \in Request : RequestTrue(r)'
  BY <1>1 DEF RowsInv, RequestTrue, Done
<1> QED
  BY <1>3, <1>4, <1>5 DEF RowsInv

\* An event of an execution comes with the execution.
LEMMA PublishKeeps ==
  ASSUME TypeOK, RowsInv, Next, NEW s \in Settlement, NEW w \in Nat,
         NEW type \in {"settlement_proposed", "settlement_approved", "settlement_executed"},
         Publish(type, s, w), type = "settlement_executed" => Done(s)'
  PROVE  \A e \in DOMAIN log' : log'[e].type = "settlement_executed" => Done(log[e].id)'
<1>1. \A x \in Settlement : Done(x) => Done(x)'
  BY DoneStays
<1> SUFFICES ASSUME NEW e \in DOMAIN log', log'[e].type = "settlement_executed"
             PROVE  Done(log[e].id)'
  OBVIOUS
<1>2. CASE e \in DOMAIN log
  <2>1. log'[e] = log[e] /\ log[e].id \in Settlement
    BY <1>2, PublishTyped, LogTyped
  <2> QED
    BY <1>1, <1>2, <2>1 DEF RowsInv, Done
<1>3. CASE log'[e] = [type |-> type, id |-> s, weight |-> w]
  BY <1>3 DEF Done
<1> QED
  BY <1>2, <1>3, PublishTyped

\* A call of the contract.
LEMMA ChainKeepsRows ==
  ASSUME TypeOK, RowsInv, Next, NEW s \in Settlement, ContractCall(s)
  PROVE  RowsInv'
<1> USE DEF mongoVars, serviceVars, historyVars
<1>1. \A x \in Settlement : Done(x) => Done(x)'
  BY DoneStays
<1>2. UNCHANGED <<row, execution, executionTx>>
  BY DEF ContractCall, propose_settlement, approve_settlement, cancel_settlement,
         raise_dispute, resolve_dispute, SetStatus, ExecuteElsewhere
<1>3. /\ \A x \in Settlement : row'[x].status = "Executed" => Done(x)'
      /\ \A r \in Request : RequestTrue(r)'
  BY <1>1, <1>2 DEF RowsInv, RequestTrue, Done
<1>4. \A x \in Settlement : chain'[x].status = "Executed" => chain[x].status = "Executed" \/ Done(x)'
  <2>1. CASE propose_settlement(s)
    BY <2>1 DEF propose_settlement, TypeOK
  <2>2. ASSUME NEW w \in SignerWeight, approve_settlement(s, w)
        PROVE  \A x \in Settlement : chain'[x].status = chain[x].status
    BY <2>2 DEF approve_settlement, TypeOK, OnChain
  <2>3. CASE cancel_settlement(s) \/ raise_dispute(s) \/ resolve_dispute(s)
    <3>1. PICK status \in {"Pending", "OnHold", "Cancelled"} : SetStatus(s, status)
      BY <2>3 DEF cancel_settlement, raise_dispute, resolve_dispute
    <3> QED
      BY <3>1 DEF SetStatus, TypeOK, OnChain
  <2>4. CASE ExecuteElsewhere(s)
    BY <2>4 DEF ExecuteElsewhere, execute_settlement, TypeOK, OnChain, Done
  <2> QED
    BY <2>1, <2>2, <2>3, <2>4 DEF ContractCall
<1>5. \A e \in DOMAIN log' : log'[e].type = "settlement_executed" => Done(log[e].id)'
  <2>1. CASE UNCHANGED log
    BY <1>1, <2>1, LogTyped DEF RowsInv, Done
  <2>2. CASE propose_settlement(s)
    BY <2>2, PublishKeeps DEF propose_settlement
  <2>3. ASSUME NEW w \in SignerWeight, approve_settlement(s, w)
        PROVE  \A e \in DOMAIN log' : log'[e].type = "settlement_executed" => Done(log[e].id)'
    <3>1. chain[s].weight + w \in Nat
      BY <2>3, ServiceAssumption DEF TypeOK, OnChain
    <3> QED
      BY <2>3, <3>1, PublishKeeps DEF approve_settlement
  <2>4. CASE ExecuteElsewhere(s)
    BY <2>4, PublishKeeps DEF ExecuteElsewhere, execute_settlement, Done
  <2> QED
    BY <2>1, <2>2, <2>3, <2>4 DEF ContractCall, cancel_settlement, raise_dispute, resolve_dispute, SetStatus
<1> QED
  BY <1>1, <1>3, <1>4, <1>5 DEF RowsInv

\* A request, and what it sent.
LEMMA RequestKeepsRows ==
  ASSUME TypeOK, RowsInv, Next, NEW r \in Request, ExecutionLands(r) \/ Execute(r)
  PROVE  RowsInv'
<1> USE DEF treasuryVars, mongoVars, serviceVars, historyVars
<1>0. executionTx[r] \in Tx /\ execution[r] \in RequestState /\ RequestTrue(r)
  BY DEF TypeOK, RowsInv
<1>d. \A x \in Settlement : Done(x) => Done(x)'
  BY DoneStays
<1>c. UNCHANGED chain => \A x \in Settlement : chain'[x].status = "Executed" => Done(x)'
  BY ChainDone
<1>l. UNCHANGED log => \A e \in DOMAIN log' : log'[e].type = "settlement_executed" => Done(log[e].id)'
  BY <1>d, LogTyped DEF RowsInv, Done
<1>r. UNCHANGED row => \A x \in Settlement : row'[x].status = "Executed" => Done(x)'
  BY <1>d DEF RowsInv, Done
<1>o. ASSUME NEW q \in Request, execution'[q] = execution[q], executionTx'[q] = executionTx[q]
      PROVE  RequestTrue(q)'
  BY <1>d, <1>o DEF RowsInv, RequestTrue, Done
<1>1. CASE ExecutionLands(r)
  <2>s. PICK s \in Settlement : s = executionTx[r].id
    BY <1>0, <1>1 DEF ExecutionLands, RequestTrue
  <2> DEFINE Result(state) == IF execution[r].pc = "confirm" THEN [executionTx[r] EXCEPT !.state = state] ELSE NoTx
  <2>1. UNCHANGED <<row, execution>>
    BY <1>1 DEF ExecutionLands
  <2>2. \A q \in Request \ {r} : execution'[q] = execution[q] /\ executionTx'[q] = executionTx[q]
    BY <1>1 DEF ExecutionLands, TypeOK
  <2>3. CASE UNCHANGED <<log, chain, executed>> /\ executionTx' = [executionTx EXCEPT ![r] = Result("failed")]
    <3>1. executionTx'[r] = Result("failed")
      BY <2>3 DEF TypeOK
    <3>2. RequestTrue(r)'
      BY <1>0, <1>d, <2>s, <2>1, <3>1 DEF RequestTrue, NoTx, Tx, Done
    <3> QED
      BY <1>c, <1>l, <1>r, <1>o, <2>1, <2>2, <2>3, <3>2 DEF RowsInv
  <2>4. CASE execute_settlement(s) /\ executionTx' = [executionTx EXCEPT ![r] = Result("landed")]
    <3>1. executionTx'[r] = Result("landed")
      BY <2>4 DEF TypeOK
    <3>2. Done(s)'
      BY <2>4 DEF execute_settlement, Done
    <3>3. RequestTrue(r)'
      BY <1>0, <1>d, <2>s, <2>1, <3>1, <3>2 DEF RequestTrue, NoTx, Tx, Done
    <3>4. \A e \in DOMAIN log' : log'[e].type = "settlement_executed" => Done(log[e].id)'
      <4> QED
        BY <2>1, <2>4, <3>2, PublishKeeps DEF execute_settlement
    <3>5. \A x \in Settlement : chain'[x].status = "Executed" => Done(x)'
      <4>1. \A x \in Settlement \ {s} : chain'[x] = chain[x]
        BY <2>4 DEF execute_settlement, TypeOK
      <4> QED
        BY <1>d, <3>2, <4>1 DEF RowsInv
    <3> QED
      BY <1>r, <1>o, <2>1, <2>2, <3>3, <3>4, <3>5 DEF RowsInv
  <2> QED
    BY <1>1, <2>s, <2>3, <2>4 DEF ExecutionLands
<1>2. ASSUME NEW s \in Settlement, ExecuteRead(r, s) PROVE RowsInv'
  <2>1. UNCHANGED <<log, chain, row, executionTx>>
        /\ \A q \in Request \ {r} : execution'[q] = execution[q] /\ executionTx'[q] = executionTx[q]
    BY <1>2 DEF ExecuteRead, TypeOK
  <2>2. \/ Done(s) /\ execution'[r] = [IdleRequest EXCEPT !.id = s, !.pc = "write"]
        \/ execution'[r] = [IdleRequest EXCEPT !.id = s, !.pc = "balance"]
        \/ execution'[r] = IdleRequest
    BY <1>2 DEF ExecuteRead, getOnChainSettlement, RowsInv, TypeOK
  <2>3. /\ execution'[r].pc = "write" => Done(s) /\ execution'[r].id = s
        /\ execution'[r].pc # "idle" => execution'[r].id = s
        /\ execution'[r].pc # "confirm"
    <3>1. CASE Done(s) /\ execution'[r] = [IdleRequest EXCEPT !.id = s, !.pc = "write"]
      BY <3>1 DEF IdleRequest
    <3>2. CASE execution'[r] = [IdleRequest EXCEPT !.id = s, !.pc = "balance"]
      BY <3>2 DEF IdleRequest
    <3>3. CASE execution'[r] = IdleRequest
      BY <3>3 DEF IdleRequest
    <3> QED
      BY <2>2, <3>1, <3>2, <3>3
  <2>4. RequestTrue(r)'
    BY <1>0, <1>d, <2>1, <2>3 DEF RequestTrue, Done
  <2> QED
    BY <1>c, <1>l, <1>r, <1>o, <2>1, <2>4 DEF RowsInv
<1>3. CASE ExecuteBalance(r)
  <2>1. UNCHANGED <<log, chain, row, executionTx>>
        /\ \A q \in Request \ {r} : execution'[q] = execution[q] /\ executionTx'[q] = executionTx[q]
    BY <1>3 DEF ExecuteBalance, GoTo, AnswerSent, TypeOK
  <2>2. execution[r].pc = "balance"
        /\ (execution'[r] = IdleRequest \/ execution'[r] = [execution[r] EXCEPT !.pc = "submit"])
    BY <1>3 DEF ExecuteBalance, GoTo, AnswerSent, TypeOK
  <2>3. RequestTrue(r)'
    BY <1>0, <1>d, <2>1, <2>2 DEF RequestTrue, IdleRequest, RequestState, Done
  <2> QED
    BY <1>c, <1>l, <1>r, <1>o, <2>1, <2>3 DEF RowsInv
<1>4. CASE ExecuteSubmit(r)
  <2>1. UNCHANGED <<log, chain, row>>
        /\ \A q \in Request \ {r} : execution'[q] = execution[q] /\ executionTx'[q] = executionTx[q]
    BY <1>4 DEF ExecuteSubmit, GoTo, TypeOK
  <2>2. /\ execution[r].pc = "submit"
        /\ \/ /\ executionTx'[r] = [state |-> "sent", id |-> execution[r].id]
              /\ \/ execution'[r] = [execution[r] EXCEPT !.pc = "confirm"]
                 \/ execution'[r] = [execution[r] EXCEPT !.pc = "reread"]
           \/ executionTx'[r] = executionTx[r] /\ execution'[r] = [execution[r] EXCEPT !.pc = "reread"]
    BY <1>4 DEF ExecuteSubmit, GoTo, TypeOK
  <2>3. RequestTrue(r)'
    BY <1>0, <1>d, <2>2 DEF RequestTrue, RequestState, Done
  <2> QED
    BY <1>c, <1>l, <1>r, <1>o, <2>1, <2>3 DEF RowsInv
<1>5. CASE ExecuteConfirm(r)
  <2>1. UNCHANGED <<log, chain, row>>
        /\ \A q \in Request \ {r} : execution'[q] = execution[q] /\ executionTx'[q] = executionTx[q]
    BY <1>5 DEF ExecuteConfirm, GoTo, TypeOK
  <2>2. /\ execution[r].pc = "confirm"
        /\ \/ executionTx[r].state = "landed" /\ execution'[r] = [execution[r] EXCEPT !.pc = "write"]
           \/ execution'[r] = [execution[r] EXCEPT !.pc = "reread"]
        /\ \/ executionTx[r].state = "sent" /\ executionTx'[r] = executionTx[r]
           \/ executionTx'[r] = NoTx
    BY <1>5 DEF ExecuteConfirm, GoTo, TypeOK
  <2>3. RequestTrue(r)'
    BY <1>0, <1>d, <2>2 DEF RequestTrue, RequestState, NoTx, Done
  <2> QED
    BY <1>c, <1>l, <1>r, <1>o, <2>1, <2>3 DEF RowsInv
<1>6. CASE ExecuteReread(r)
  <2>1. UNCHANGED <<log, chain, row, executionTx>>
        /\ \A q \in Request \ {r} : execution'[q] = execution[q] /\ executionTx'[q] = executionTx[q]
    BY <1>6 DEF ExecuteReread, GoTo, AnswerSent, TypeOK
  <2>2. /\ execution[r].pc = "reread"
        /\ \/ Done(execution[r].id) /\ execution'[r] = [execution[r] EXCEPT !.pc = "write"]
           \/ execution'[r] = IdleRequest
    BY <1>0, <1>6 DEF ExecuteReread, GoTo, AnswerSent, getOnChainSettlement, RequestTrue, RowsInv, TypeOK
  <2>3. RequestTrue(r)'
    BY <1>0, <1>d, <2>1, <2>2 DEF RequestTrue, RequestState, IdleRequest, Done
  <2> QED
    BY <1>c, <1>l, <1>r, <1>o, <2>1, <2>3 DEF RowsInv
<1>7. CASE ExecuteWrite(r)
  <2>s. PICK s \in Settlement : s = execution[r].id
    BY <1>0, <1>7 DEF ExecuteWrite, RequestTrue
  <2>1. UNCHANGED <<log, chain, executionTx>>
        /\ \A q \in Request \ {r} : execution'[q] = execution[q] /\ executionTx'[q] = executionTx[q]
    BY <1>7 DEF ExecuteWrite, AnswerSent, TypeOK
  <2>2. execution'[r] = IdleRequest
    BY <1>7 DEF ExecuteWrite, AnswerSent, TypeOK
  <2>3. RequestTrue(r)'
    BY <1>0, <1>d, <2>1, <2>2 DEF RequestTrue, IdleRequest, Done
  <2>4. Done(s)'
    BY <1>0, <1>7, <1>d, <2>s DEF ExecuteWrite, RequestTrue
  <2>5. \A x \in Settlement \ {s} : row'[x] = row[x]
    BY <1>7, <2>s DEF ExecuteWrite, TypeOK
  <2>6. \A x \in Settlement : row'[x].status = "Executed" => Done(x)'
    BY <1>d, <2>4, <2>5 DEF RowsInv, Done
  <2> QED
    BY <1>c, <1>l, <1>o, <2>1, <2>3, <2>6 DEF RowsInv
<1> QED
  BY <1>1, <1>2, <1>3, <1>4, <1>5, <1>6, <1>7 DEF Execute

\* A tick writes "Executed" only for an event that says so.
LEMMA TickKeepsRows ==
  ASSUME TypeOK, CoverInv, RowsInv, Next, NEW a \in Slot, Tick(a)
  PROVE  RowsInv'
<1> USE DEF treasuryVars, mongoVars, serviceVars, historyVars
<1>1. CASE UNCHANGED row
  BY <1>1, RowsKept, ChainDone DEF Tick, TickLoad, TickFetch, TickApply, TickNotify, TickSave
<1>2. CASE TickApply(a) /\ row' # row
  <2> DEFINE e == tick[a].pos
             s == log[e].id
  <2>1. row' = [row EXCEPT ![s] = Upsert(e, row[s])] /\ tick[a].pc = "apply"
    BY <1>2 DEF TickApply
  <2>2. e \in DOMAIN log
    <3>1. e \in tick[a].token + 1 .. tick[a].last /\ tick[a].last <= Len(log) /\ tick[a] \in TickState
      BY <2>1 DEF CoverInv, TickCovers, TypeOK
    <3>2. tick[a].token \in Nat /\ tick[a].last \in Nat /\ Len(log) \in Nat /\ DOMAIN log = 1 .. Len(log)
      <4>1. tick[a].token \in Token /\ tick[a].last \in Token
        BY <3>1 DEF TickState
      <4> QED
        BY <4>1, ServiceAssumption DEF Token, TypeOK
    <3> QED
      BY <3>1, <3>2
  <2>3. s \in Settlement /\ log[e] \in TrackedEvent
    BY <2>2, LogTyped DEF TypeOK
  <2>4. Upsert(e, row[s]).status = "Executed" => Done(s)
    <3>1. row[s] \in Row
      BY <2>3 DEF TypeOK
    <3>2. Upsert(e, row[s]).status = "Executed"
            => row[s].status = "Executed" \/ log[e].type = "settlement_executed"
      BY <2>3, <3>1 DEF Upsert, Row, TrackedEvent
    <3> QED
      BY <2>2, <2>3, <3>2 DEF RowsInv
  <2>5. UNCHANGED <<log, execution, executionTx, chain, executed>>
    BY <1>2 DEF TickApply
  <2>6. \A x \in Settlement : row'[x].status = "Executed" => Done(x)
    <3> HIDE DEF e, s
    <3> QED
      BY <2>1, <2>3, <2>4 DEF RowsInv, TypeOK
  <2>7. \A x \in Settlement : row'[x].status = "Executed" => Done(x)'
    BY <2>5, <2>6 DEF Done
  <2>8. (\A r \in Request : RequestTrue(r)')
        /\ \A d \in DOMAIN log' : log'[d].type = "settlement_executed" => Done(log[d].id)'
    BY <2>5 DEF RowsInv, RequestTrue, Done
  <2> QED
    BY <2>5, <2>7, <2>8, ChainDone DEF RowsInv
<1> QED
  BY <1>1, <1>2 DEF Tick, TickLoad, TickFetch, TickApply, TickNotify, TickSave

LEMMA NextKeepsRows ==
  ASSUME ServiceInv, Next
  PROVE  RowsInv'
<1> USE DEF treasuryVars, mongoVars, serviceVars, historyVars
<1>0. TypeOK /\ CoverInv /\ RowsInv
  BY DEF ServiceInv
<1>1. ASSUME NEW s \in Settlement, ContractCall(s) PROVE RowsInv'
  BY <1>0, <1>1, ChainKeepsRows
<1>6. ASSUME NEW r \in Request, ExecutionLands(r) \/ Execute(r) PROVE RowsInv'
  BY <1>0, <1>6, RequestKeepsRows
<1>7. ASSUME NEW a \in Slot, Tick(a) PROVE RowsInv'
  BY <1>0, <1>7, TickKeepsRows
<1>8. ASSUME NEW a \in Slot, TickFail(a) PROVE RowsInv'
  BY <1>0, <1>8, RowsKept, ChainDone DEF TickFail
<1>9. CASE Restart
  <2>1. UNCHANGED <<log, row, executionTx, chain, executed>> /\ \A r \in Request : execution'[r] = IdleRequest
    BY <1>9 DEF Restart
  <2> QED
    BY <1>0, <2>1 DEF RowsInv, RequestTrue, Done, IdleRequest
<1> QED
  BY <1>1, <1>6, <1>7, <1>8, <1>9 DEF Next
-----------------------------------------------------------------------------
LEMMA ServiceStep == ServiceInv /\ [Next]_vars => ServiceInv'
<1> SUFFICES ASSUME ServiceInv, [Next]_vars PROVE ServiceInv'
  OBVIOUS
<1>0. TypeOK /\ CoverInv /\ RowsInv
  BY DEF ServiceInv
<1>1. CASE UNCHANGED vars
  BY <1>0, <1>1 DEF vars, treasuryVars, mongoVars, serviceVars, historyVars, ServiceInv, TypeOK,
                    TypeOK, CoverInv, TickCovers, CoveredTo, Covered, RowsInv, RequestTrue, Done
<1>2. CASE Next
  <2>1. TypeOK'
    BY <1>0, <1>2, ChainTyped, RequestTyped, TickTyped, FaultTyped DEF Next
  <2> QED
    BY <1>0, <1>2, <2>1, NextKeepsCover, NextKeepsRows DEF ServiceInv
<1> QED
  BY <1>1, <1>2

LEMMA ServiceAlways == Spec => []ServiceInv
  BY InitHolds, ServiceStep, PTL DEF Spec

\* The variables keep their types, and what the code cuts or refuses keeps its bounds.
THEOREM ServiceTypeCorrect == Spec => []TypeOK
<1>1. ServiceInv => TypeOK
  BY DEF ServiceInv, TypeOK
<1> QED
  BY <1>1, ServiceAlways, PTL

\* treasury-indexer.ts and POST execute-settlement: no row is marked Executed,
\* and no request is about to mark one, that the contract has never executed -
\* whatever disputes have reopened since.
THEOREM RowsStayBehindChain == Spec => []RowsNeverAhead
<1>1. ServiceInv => RowsNeverAhead
  BY DEF ServiceInv, RowsInv, RequestTrue, RowsNeverAhead, Done
<1> QED
  BY <1>1, ServiceAlways, PTL

\* saveCursor: however ticks overlap, fail or restart, the saved cursor and the
\* processed ids name only events that were applied and announced.
THEOREM CursorStaysCovered == Spec => []CursorCovers
<1>1. ServiceInv => CursorCovers
  <2> SUFFICES ASSUME ServiceInv, NEW e \in EventId, e <= cursor.token \/ e \in Range(cursor.ids)
               PROVE  e \in applied \cap sent
    BY DEF CursorCovers
  <2>1. cursor.token \in Nat /\ e \in Nat /\ e >= 1
    BY ServiceAssumption DEF ServiceInv, TypeOK, Token, EventId
  <2> QED
    BY <2>1 DEF ServiceInv, CoverInv, CoveredTo, Covered
<1> QED
  BY <1>1, ServiceAlways, PTL

\* processSettlementProposed, Approved and Executed, and the request's own write:
\* a row that says Executed goes on saying so; no late upsert of an older event,
\* replayed by an overlapping tick, takes it back.  (Nor does a dispute that puts the
\* settlement back on hold: the indexer tracks none.)
THEOREM ExecutedRowsStay ==
  Spec => [][\A s \in Settlement : row[s].status = "Executed" => row'[s].status = "Executed"]_vars
<1> USE DEF treasuryVars, mongoVars, serviceVars, historyVars
<1>1. ASSUME ServiceInv, Next, NEW s \in Settlement, row[s].status = "Executed"
      PROVE  row'[s].status = "Executed"
  <2>0. row[s] \in Row
    BY <1>1 DEF ServiceInv, TypeOK
  <2>1. ASSUME NEW r \in Request, ExecuteWrite(r) PROVE row'[s].status = "Executed"
    <3>1. row \in [Settlement -> Row]
      BY <1>1 DEF ServiceInv, TypeOK
    <3>2. row' = row \/ \E x : row' = [row EXCEPT ![x].status =
                                          IF row[x].status = "none" THEN row[x].status ELSE "Executed"]
      BY <2>1 DEF ExecuteWrite
    <3> QED
      BY <1>1, <2>0, <3>1, <3>2 DEF Row
  <2>2. ASSUME NEW a \in Slot, TickApply(a) PROVE row'[s].status = "Executed"
    <3> DEFINE e == tick[a].pos
    <3>1. row' = row \/ row' = [row EXCEPT ![log[e].id] = Upsert(e, @)]
      BY <2>2 DEF TickApply
    <3>2. CASE row' = row
      BY <1>1, <3>2
    <3>3. CASE row' = [row EXCEPT ![log[e].id] = Upsert(e, @)]
      <4>1. tick[a].pc = "apply" /\ CoverInv /\ TypeOK
        BY <1>1, <2>2 DEF TickApply, ServiceInv
      <4>2. log[e] \in TrackedEvent
        <5>1. e \in tick[a].token + 1 .. tick[a].last /\ tick[a].last <= Len(log) /\ tick[a] \in TickState
          BY <4>1 DEF CoverInv, TickCovers, TypeOK
        <5>2. tick[a].token \in Token /\ tick[a].last \in Token
          BY <5>1 DEF TickState
        <5>3. tick[a].token \in Nat /\ tick[a].last \in Nat
          BY <5>2, ServiceAssumption DEF Token
        <5>4. Len(log) \in Nat /\ \A i \in 1 .. Len(log) : log[i] \in TrackedEvent
          BY <4>1 DEF TypeOK
        <5> QED
          BY <5>1, <5>3, <5>4
      <4>3. Upsert(e, row[s]).status = "Executed"
        BY <1>1, <2>0, <4>2 DEF Upsert, Row, TrackedEvent
      <4> HIDE DEF e
      <4> QED
        BY <1>1, <3>3, <4>1, <4>3 DEF TypeOK
    <3> QED
      BY <3>1, <3>2, <3>3
  <2>3. (\E r \in Request : ExecuteWrite(r)) \/ (\E a \in Slot : TickApply(a)) \/ row' = row
    BY <1>1 DEF Next, ContractCall, propose_settlement, approve_settlement, cancel_settlement,
                raise_dispute, resolve_dispute, SetStatus, ExecuteElsewhere, ExecutionLands, Execute,
                ExecuteRead, ExecuteBalance, ExecuteSubmit, ExecuteConfirm, ExecuteReread, Tick, TickLoad,
                TickFetch, TickNotify, TickSave, TickFail, Restart
  <2> QED
    BY <1>1, <2>1, <2>2, <2>3
<1>2. ServiceInv /\ [Next]_vars =>
        [\A s \in Settlement : row[s].status = "Executed" => row'[s].status = "Executed"]_vars
  BY <1>1
<1> QED
  BY <1>2, ServiceAlways, PTL DEF Spec
=============================================================================
