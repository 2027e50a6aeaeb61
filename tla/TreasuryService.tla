--------------------------- MODULE TreasuryService ---------------------------
(***************************************************************************)
(* The backend's treasury side: the settlement rows in Mongo, the indexer    *)
(* that fills them from the contract's events (services/treasury-indexer.ts) *)
(* and POST /api/treasury/execute-settlement (routes/treasury.ts), which     *)
(* marks them too.  setInterval starts an indexer tick whether or not the    *)
(* last one has ended, so ticks overlap.                                     *)
(* Every await ends a step; a tick or a request may end at any await.        *)
(*                                                                           *)
(* The chain side is the treasury contract as its other callers drive it     *)
(* (module Treasury models the contract itself): its pause and the expiry of *)
(* a settlement only refuse calls more often.  Which of the events that the  *)
(* indexer reads the contract publishes is a parameter: docs/webhooks.md     *)
(* lists three, the contract under contracts/treasury publishes none of them. *)
(* The indexer is deployed within 100 ledgers of the first event.            *)
(***************************************************************************)
EXTENDS Integers, Sequences, Functions

CONSTANTS
  Settlement,     \* settlement ids
  Slot,           \* indexer ticks that may overlap
  Request,        \* execute-settlement requests in flight
  Published,      \* the tracked event types that the contract publishes
  SignerWeight,   \* weights of the accounts that approve; 0 for one that is no signer
  Threshold,      \* the contract's approval threshold
  MaxWeight,      \* stands for the u64 bound of an approval weight
  EVENT_LIMIT,
  KeptIds,        \* processed_event_ids are cut to this many (1000)
  MaxEvents,
  MaxFaults       \* bound on failures and restarts

ASSUME ServiceAssumption ==
  /\ Published \subseteq {"settlement_proposed", "settlement_approved", "settlement_executed"}
  /\ SignerWeight \subseteq Nat /\ Threshold \in Nat /\ MaxWeight \in Nat
  /\ EVENT_LIMIT \in Nat \ {0} /\ KeptIds \in Nat \ {0}
  /\ MaxEvents \in Nat /\ MaxFaults \in Nat

VARIABLES
  \* The chain.
  log,            \* the contract's tracked events; an event's paging token is its place
  chain,          \* settlements: status and approval weight
  executionTx,    \* per request, the execute_settlement it has sent
  \* Mongo.
  row,            \* settlements
  cursor,         \* indexer_cursors: paging token (0 for null), processed ids
  \* The process.
  tick,           \* indexer ticks
  execution,      \* execute-settlement requests
  \* History: events applied, events whose webhook was sent, settlements that
  \* the contract has ever executed, faults so far.
  applied, sent, executed, faults

treasuryVars == <<log, chain, executionTx>>
mongoVars    == <<row, cursor>>
serviceVars  == <<tick, execution>>
historyVars  == <<applied, sent, executed, faults>>
vars         == <<treasuryVars, mongoVars, serviceVars, historyVars>>

EventId  == 1 .. MaxEvents
Token    == 0 .. MaxEvents
NoRow    == [status |-> "none", weight |-> 0]
IdleTick == [pc |-> "idle", token |-> 0, seen |-> {}, last |-> 0, pos |-> 0, new |-> <<>>]
IdleRequest == [pc |-> "idle", id |-> 0]
NoTx     == [state |-> "none", id |-> 0]

TrackedEvent ==
  [type: {"settlement_proposed", "settlement_approved", "settlement_executed"},
   id: Settlement, weight: Nat]
OnChain   == [status: {"none", "Pending", "OnHold", "Executed", "Cancelled"}, weight: 0 .. MaxWeight]
Row       == [status: {"none", "Pending", "Executed"}, weight: Nat]
Tx        == [state: {"none", "sent", "landed", "failed"}, id: Settlement \cup {0}]
TickState ==
  [pc: {"idle", "fetch", "apply", "notify", "save"}, token: Token, seen: SUBSET EventId,
   last: Token, pos: 0 .. MaxEvents + 1, new: Seq(EventId)]
RequestState ==
  [pc: {"idle", "balance", "submit", "confirm", "reread", "write"}, id: Settlement \cup {0}]

TypeOK ==
  /\ log \in Seq(TrackedEvent) /\ Len(log) <= MaxEvents
  /\ chain \in [Settlement -> OnChain]
  /\ executionTx \in [Request -> Tx]
  /\ row \in [Settlement -> Row]
  /\ cursor \in [token: Token, ids: Seq(EventId)] /\ Len(cursor.ids) <= KeptIds
  /\ tick \in [Slot -> TickState]
  /\ execution \in [Request -> RequestState]
  /\ applied \subseteq EventId /\ sent \subseteq EventId /\ executed \subseteq Settlement
  /\ faults \in 0 .. MaxFaults

Init ==
  /\ log = <<>> /\ chain = [s \in Settlement |-> NoRow]
  /\ executionTx = [r \in Request |-> NoTx]
  /\ row = [s \in Settlement |-> NoRow] /\ cursor = [token |-> 0, ids |-> <<>>]
  /\ tick = [a \in Slot |-> IdleTick] /\ execution = [r \in Request |-> IdleRequest]
  /\ applied = {} /\ sent = {} /\ executed = {} /\ faults = 0

-----------------------------------------------------------------------------
(* The treasury contract, called by others; the backend's own execution is below. *)

\* An event of a type that the contract does not publish leaves the log alone.
Publish(type, s, weight) ==
  IF type \in Published
  THEN Len(log) < MaxEvents /\ log' = Append(log, [type |-> type, id |-> s, weight |-> weight])
  ELSE UNCHANGED log

\* Ids start again when the contract is initialized again, and a proposal is
\* then stored over an older settlement.
propose_settlement(s) ==
  /\ chain' = [chain EXCEPT ![s] = [status |-> "Pending", weight |-> 0]]
  /\ Publish("settlement_proposed", s, 0)
  /\ UNCHANGED <<executionTx, mongoVars, serviceVars, historyVars>>

\* The weight of any account is added, as often as it calls.
approve_settlement(s, weight) ==
  /\ chain[s].status = "Pending" /\ chain[s].weight + weight <= MaxWeight
  /\ chain' = [chain EXCEPT ![s].weight = @ + weight]
  /\ Publish("settlement_approved", s, chain[s].weight + weight)
  /\ UNCHANGED <<executionTx, mongoVars, serviceVars, historyVars>>

SetStatus(s, status) ==
  /\ chain' = [chain EXCEPT ![s].status = status]
  /\ UNCHANGED <<log, executionTx, mongoVars, serviceVars, historyVars>>

\* The indexer tracks none of these three.
cancel_settlement(s) == chain[s].status = "Pending" /\ SetStatus(s, "Cancelled")

\* Whatever the settlement's status: an executed one is held too.
raise_dispute(s) == chain[s].status # "none" /\ SetStatus(s, "OnHold")

\* Also an executed settlement returns to Pending.
resolve_dispute(s) ==
  /\ chain[s].status = "OnHold"
  /\ \E status \in {"Pending", "Cancelled"} : SetStatus(s, status)

Executable(s) == chain[s].status = "Pending" /\ chain[s].weight >= Threshold

\* execute_settlement, when it succeeds: no balance is looked at or moved.
execute_settlement(s) ==
  /\ Executable(s)
  /\ chain' = [chain EXCEPT ![s].status = "Executed"]
  /\ executed' = executed \cup {s}
  /\ Publish("settlement_executed", s, 0)

\* A signer executes the settlement without the backend.
ExecuteElsewhere(s) ==
  /\ execute_settlement(s)
  /\ UNCHANGED <<executionTx, mongoVars, serviceVars, applied, sent, faults>>

ContractCall(s) ==
  \/ propose_settlement(s) \/ \E weight \in SignerWeight : approve_settlement(s, weight)
  \/ cancel_settlement(s) \/ raise_dispute(s) \/ resolve_dispute(s)
  \/ ExecuteElsewhere(s)

\* A submitted execute_settlement reaches a ledger and succeeds or fails there,
\* or its time bounds pass first.  Only a request that still polls looks at it.
ExecutionLands(r) ==
  LET Result(state) == IF execution[r].pc = "confirm" THEN [executionTx[r] EXCEPT !.state = state] ELSE NoTx
  IN
  /\ executionTx[r].state = "sent"
  /\ \/ /\ execute_settlement(executionTx[r].id)
        /\ executionTx' = [executionTx EXCEPT ![r] = Result("landed")]
     \/ /\ executionTx' = [executionTx EXCEPT ![r] = Result("failed")]
        /\ UNCHANGED <<log, chain, executed>>
  /\ UNCHANGED <<mongoVars, serviceVars, applied, sent, faults>>

-----------------------------------------------------------------------------
(* POST /api/treasury/execute-settlement. *)

AnswerSent(r) == execution' = [execution EXCEPT ![r] = IdleRequest]
GoTo(r, pc) == execution' = [execution EXCEPT ![r].pc = pc]

\* Reads are simulations: what the ledger holds at that moment.
getOnChainSettlement(s) == chain[s].status

\* An executed settlement is a success already, one that is not pending answers 409.
\* (A slot whose transaction is still out takes no new request: a bound.)
ExecuteRead(r, s) ==
  /\ execution[r].pc = "idle" /\ executionTx[r].state # "sent" /\ chain[s].status # "none"
  /\ execution' = [execution EXCEPT ![r] =
       CASE getOnChainSettlement(s) = "Executed" -> [IdleRequest EXCEPT !.id = s, !.pc = "write"]
         [] getOnChainSettlement(s) = "Pending"  -> [IdleRequest EXCEPT !.id = s, !.pc = "balance"]
         [] OTHER -> IdleRequest]
  /\ UNCHANGED <<treasuryVars, mongoVars, tick, historyVars>>

\* Too little in the vault answers 422.  The contract neither checks nor moves
\* that balance, so the token contract may answer anything.
ExecuteBalance(r) ==
  /\ execution[r].pc = "balance"
  /\ AnswerSent(r) \/ GoTo(r, "submit")
  /\ UNCHANGED <<treasuryVars, mongoVars, tick, historyVars>>

\* submitContractCall up to sendTransaction.  The simulation refuses what the
\* contract would refuse, or a call fails; after sending, an answer may be lost.
ExecuteSubmit(r) ==
  /\ execution[r].pc = "submit"
  /\ \/ Executable(execution[r].id) /\ executionTx' = [executionTx EXCEPT ![r] = [state |-> "sent", id |-> execution[r].id]]
        /\ \/ GoTo(r, "confirm")
           \/ GoTo(r, "reread")
     \/ UNCHANGED executionTx /\ GoTo(r, "reread")
  /\ UNCHANGED <<log, chain, mongoVars, tick, historyVars>>

\* A confirmation that takes a poll that found nothing for a success.
Mut_ExecuteConfirm(r) ==
  /\ execution[r].pc = "confirm"
  /\ GoTo(r, IF executionTx[r].state = "failed" THEN "reread" ELSE "write")
  /\ executionTx' = [executionTx EXCEPT ![r] = IF @.state = "sent" THEN @ ELSE NoTx]
  /\ UNCHANGED <<log, chain, mongoVars, tick, historyVars>>

\* Its polls of getTransaction: success, failure, or ten times not found.
ExecuteConfirm(r) ==
  /\ execution[r].pc = "confirm"
  /\ GoTo(r, IF executionTx[r].state = "landed" THEN "write" ELSE "reread")
  /\ executionTx' = [executionTx EXCEPT ![r] = IF @.state = "sent" THEN @ ELSE NoTx]
  /\ UNCHANGED <<log, chain, mongoVars, tick, historyVars>>

\* The submission failed: the settlement and the balance are read again.  An
\* executed one is a success after all; otherwise the answer is an error, 409 if
\* the balance has dropped.  A failing read is an error too.
ExecuteReread(r) ==
  /\ execution[r].pc = "reread"
  /\ \/ getOnChainSettlement(execution[r].id) = "Executed" /\ GoTo(r, "write")
     \/ AnswerSent(r)
  /\ UNCHANGED <<treasuryVars, mongoVars, tick, historyVars>>

\* The row is marked, if there is one, or Mongo throws.
ExecuteWrite(r) ==
  LET s == execution[r].id IN
  /\ execution[r].pc = "write"
  /\ \/ /\ row' = [row EXCEPT ![s].status = IF @ = "none" THEN @ ELSE "Executed"]
        /\ AnswerSent(r)
        /\ UNCHANGED faults
     \/ /\ faults < MaxFaults /\ faults' = faults + 1
        /\ AnswerSent(r)
        /\ UNCHANGED row
  /\ UNCHANGED <<treasuryVars, cursor, tick, applied, sent, executed>>

-----------------------------------------------------------------------------
(* The indexer: processIndexerBatch, in every slot. *)

\* loadCursor.
TickLoad(a) ==
  /\ tick[a].pc = "idle"
  /\ tick' = [tick EXCEPT ![a] =
       [IdleTick EXCEPT !.pc = "fetch", !.token = cursor.token, !.seen = Range(cursor.ids)]]
  /\ UNCHANGED <<treasuryVars, mongoVars, execution, historyVars>>

\* A page that ends before the newest event.
Mut_TickFetch(a) ==
  LET t    == tick[a]
      last == IF Len(log) - t.token > EVENT_LIMIT THEN t.token + EVENT_LIMIT
              ELSE IF Len(log) > t.token THEN Len(log) - 1 ELSE t.token
  IN
  /\ t.pc = "fetch"
  /\ tick' = [tick EXCEPT ![a].last = last, ![a].pos = t.token + 1,
                          ![a].seen = @ \cap (t.token + 1 .. last),
                          ![a].pc = IF last > t.token THEN "apply" ELSE "save"]
  /\ UNCHANGED <<treasuryVars, mongoVars, execution, historyVars>>

\* getEvents: at most EVENT_LIMIT events after the paging token.
TickFetch(a) ==
  LET t    == tick[a]
      last == IF Len(log) - t.token > EVENT_LIMIT THEN t.token + EVENT_LIMIT ELSE Len(log)
  IN
  /\ t.pc = "fetch"
  /\ tick' = [tick EXCEPT ![a].last = last, ![a].pos = t.token + 1,
                          ![a].seen = @ \cap (t.token + 1 .. last),
                          ![a].pc = IF last > t.token THEN "apply" ELSE "save"]
  /\ UNCHANGED <<treasuryVars, mongoVars, execution, historyVars>>

\* processSettlementProposed, Approved and Executed: upserts.
Upsert(e, r) ==
  CASE log[e].type = "settlement_proposed" ->
         [r EXCEPT !.status = IF @ = "none" THEN "Pending" ELSE @]
    [] log[e].type = "settlement_approved" ->
         [status |-> IF r.status = "none" THEN "Pending" ELSE r.status, weight |-> log[e].weight]
    [] log[e].type = "settlement_executed" -> [r EXCEPT !.status = "Executed"]

\* One event of the batch: applied to its row unless its id is known.
TickApply(a) ==
  LET e == tick[a].pos IN
  /\ tick[a].pc = "apply"
  /\ IF e \in tick[a].seen
     THEN /\ tick' = [tick EXCEPT ![a].pos = @ + 1,
                                  ![a].pc = IF e = tick[a].last THEN "save" ELSE "apply"]
          /\ UNCHANGED <<row, applied>>
     ELSE /\ row' = [row EXCEPT ![log[e].id] = Upsert(e, @)]
          /\ applied' = applied \cup {e}
          /\ tick' = [tick EXCEPT ![a].pc = "notify"]
  /\ UNCHANGED <<treasuryVars, cursor, execution, sent, executed, faults>>

\* Called once for the event and not awaited; what becomes of it is not looked at.
dispatchWebhook(e) == sent' = sent \cup {e}

\* After the awaits that follow the upsert; the id joins newEventIds.  (The balance cache is evicted too: see
\* BalanceCache.)
TickNotify(a) ==
  LET e == tick[a].pos IN
  /\ tick[a].pc = "notify"
  /\ dispatchWebhook(e)
  /\ tick' = [tick EXCEPT ![a].pos = @ + 1, ![a].new = Append(@, e),
                          ![a].pc = IF e = tick[a].last THEN "save" ELSE "apply"]
  /\ UNCHANGED <<treasuryVars, mongoVars, execution, applied, executed, faults>>

\* saveCursor: the token of the batch's last event, the ids it applied pushed
\* and the list cut.
TickSave(a) ==
  LET t   == tick[a]
      ids == cursor.ids \o t.new
  IN
  /\ t.pc = "save"
  /\ cursor' = [token |-> t.last,
                ids   |-> SubSeq(ids, IF Len(ids) > KeptIds THEN Len(ids) - KeptIds + 1 ELSE 1,
                                 Len(ids))]
  /\ tick' = [tick EXCEPT ![a] = IdleTick]
  /\ UNCHANGED <<treasuryVars, row, execution, historyVars>>

\* A failing tick that saves its token first.
Mut_TickFail(a) ==
  /\ tick[a].pc # "idle" /\ faults < MaxFaults
  /\ faults' = faults + 1
  /\ cursor' = [cursor EXCEPT !.token = tick[a].last]
  /\ tick' = [tick EXCEPT ![a] = IdleTick]
  /\ UNCHANGED <<treasuryVars, row, execution, applied, sent, executed>>

\* An await throws; the tick is over and the interval goes on.
TickFail(a) ==
  /\ tick[a].pc # "idle" /\ faults < MaxFaults
  /\ faults' = faults + 1
  /\ tick' = [tick EXCEPT ![a] = IdleTick]
  /\ UNCHANGED <<treasuryVars, mongoVars, execution, applied, sent, executed>>

\* The process restarts.
Restart ==
  /\ faults < MaxFaults /\ faults' = faults + 1
  /\ tick' = [a \in Slot |-> IdleTick]
  /\ execution' = [r \in Request |-> IdleRequest]
  /\ UNCHANGED <<treasuryVars, mongoVars, applied, sent, executed>>

Execute(r) ==
  \/ \E s \in Settlement : ExecuteRead(r, s)
  \/ ExecuteBalance(r) \/ ExecuteSubmit(r) \/ ExecuteConfirm(r) \/ ExecuteReread(r) \/ ExecuteWrite(r)

Tick(a) == TickLoad(a) \/ TickFetch(a) \/ TickApply(a) \/ TickNotify(a) \/ TickSave(a)

Next ==
  \/ \E s \in Settlement : ContractCall(s)
  \/ \E r \in Request : ExecutionLands(r) \/ Execute(r)
  \/ \E a \in Slot : Tick(a) \/ TickFail(a)
  \/ Restart

Spec == Init /\ [][Next]_vars

\* setInterval goes on starting ticks and every await of a
\* tick ends.
ServiceFairness == \A a \in Slot : WF_vars(Tick(a))

FairSpec == Spec /\ ServiceFairness

-----------------------------------------------------------------------------
(* Properties. *)

\* The rows never run ahead of the chain: neither a lost answer, nor a second
\* request, nor an overlapping tick marks a settlement Executed that the contract
\* never executed, and "ok" is answered only for one that it did.  (A dispute may
\* since have put the settlement back on hold; its row says Executed still.)
RowsNeverAhead ==
  \A s \in Settlement :
    /\ row[s].status = "Executed" => s \in executed
    /\ \A r \in Request : execution[r].pc = "write" /\ execution[r].id = s => s \in executed

\* Overlapping and abandoned ticks move the cursor backwards and forwards, but
\* never past an event that no tick has applied to its row and announced to the
\* webhooks; nor is such an event's id remembered.
CursorCovers ==
  \A e \in EventId : e <= cursor.token \/ e \in Range(cursor.ids) => e \in applied \cap sent

\* Every event that the contract publishes is applied and announced in the end,
\* whichever ticks overlap or die on the way, and the row of an execution says so.
EventsCatchUp ==
  \A e \in EventId :
    e <= Len(log) ~>
      /\ e \in applied \cap sent
      /\ log[e].type = "settlement_executed" => row[log[e].id].status = "Executed"
=============================================================================
