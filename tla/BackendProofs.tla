---------------------------- MODULE BackendProofs ----------------------------
(***************************************************************************)
(* Proofs about the parts of the backend behind its HTTP routes - API keys,  *)
(* actions on an invoice, the creation of invoices, the walk through their   *)
(* pages, disputes - and about the webhook queue.                            *)
(***************************************************************************)
EXTENDS ApiKeys, InvoiceActions, InvoiceApi, InvoicePages, Disputes, WebhookQueue,
        SumTheorems, TLAPS

-----------------------------------------------------------------------------
(* API keys (ApiKeys).                                                     *)

\* The history of overlaps and all other flags start out empty.
LEMMA KeysInvInit == KeysInit => KeysInv
BY DEF KeysInit, KeysInv, RotationKeepsAccess

\* Every request's step keeps the invariant, the death of its process included.
LEMMA KeysInvStep == KeysInv /\ [KeysNext]_keyVars => KeysInv'
<1> SUFFICES ASSUME KeysInv, [KeysNext]_keyVars PROVE KeysInv'
  OBVIOUS
<1> USE DEF KeysInv, RotationKeepsAccess, ActiveKeys
<1>1. ASSUME NEW r \in KeyRequest, CreateKey(r) PROVE KeysInv'
  BY <1>1 DEF CreateKey
<1>2. ASSUME NEW r \in KeyRequest, RotateInsert(r) PROVE KeysInv'
  <2>1. CASE \E q \in KeyRequest : call[q] = "rotate"
    BY <1>2, <2>1 DEF RotateInsert
  <2>2. CASE ~ \E q \in KeyRequest : call[q] = "rotate"
    BY <1>2, <2>2 DEF RotateInsert
  <2> QED
    BY <2>1, <2>2
<1>3. ASSUME NEW r \in KeyRequest, RotateRevoke(r) PROVE KeysInv'
  BY <1>3 DEF RotateRevoke
<1>4. ASSUME NEW r \in KeyRequest, DeleteFind(r) PROVE KeysInv'
  BY <1>4 DEF DeleteFind
<1>5. ASSUME NEW r \in KeyRequest, DeleteRevoke(r) PROVE KeysInv'
  BY <1>5 DEF DeleteRevoke
<1>6. ASSUME NEW r \in KeyRequest, Abandon(r) PROVE KeysInv'
  BY <1>6 DEF Abandon
<1>7. CASE UNCHANGED keyVars
  BY <1>7 DEF keyVars
<1> QED
  BY <1>1, <1>2, <1>3, <1>4, <1>5, <1>6, <1>7 DEF KeysNext

\* Rotating leaves the merchant an active key, for any number of requests, unless a
\* DELETE took one away or two rotations overlapped (routes/api-keys.ts).
THEOREM RotationAlwaysKeepsAccess == KeysSpec => []RotationKeepsAccess
<1>1. KeysInv => RotationKeepsAccess
  BY DEF KeysInv
<1> QED
  BY <1>1, KeysInvInit, KeysInvStep, PTL DEF KeysSpec

-----------------------------------------------------------------------------
(* Actions on an invoice (InvoiceActions).                                 *)

\* What a landed transaction of an action can have done.
EffectOf(action) ==
  CASE action = "cancel_invoiced" -> {"Cancelled", "RefundRequested"}
    [] action = "request_refund" -> {"RefundRequested"}
    [] action = "release_escrow" -> {"Released"}
    [] OTHER -> {}

\* A request has an effect only after its transaction was sent, and the effect is
\* one of its action; a status is answered only for an effect that was seen; and
\* only a refund goes on after reading Paid.
ActorInv(a) ==
  /\ a.at \in {"idle", "read", "due", "submit", "sent", "done"}
  /\ a.at \notin {"sent", "done"} => a.effect = "none"
  /\ a.at # "done" => a.answer = "none"
  /\ a.action \in {"none", "cancel_invoiced", "request_refund", "release_escrow"}
  /\ a.action = "none" => a.at = "idle"
  /\ a.action # "request_refund" => a.saw # "Paid"
  /\ a.action = "release_escrow" => a.at \notin {"read", "due"}
  /\ a.at = "idle" => a.saw = "none"
  /\ a.effect \in {"none", "failed"} \cup EffectOf(a.action)
  /\ a.at = "done" =>
       \/ a.answer = "error"
       \/ /\ a.effect \in EffectOf(a.action)
          /\ a.answer = CASE a.action = "release_escrow" -> "Released"
                          [] a.action = "request_refund" -> "RefundRequested"
                          [] OTHER -> "Cancelled"

ActorRecord ==
  [at : {"idle", "read", "due", "submit", "sent", "done"},
   action : {"none", "cancel_invoiced", "request_refund", "release_escrow"},
   saw : Status \cup {"none"}, effect : Status \cup {"none", "failed"},
   answer : Status \cup {"none", "error"}]

ActionsInv ==
  /\ chainStatus \in Status
  /\ actor \in [Actor -> ActorRecord]
  /\ \A r \in Actor : ActorInv(actor[r])

\* Only the request's own step changes what is known of it.
LEMMA ActorChange ==
  ASSUME ActionsInv, NEW r \in Actor, NEW x \in ActorRecord, ActorInv(x), chainStatus' \in Status,
         actor' = [actor EXCEPT ![r] = x]
  PROVE  ActionsInv'
<1>1. actor' \in [Actor -> ActorRecord]
  BY DEF ActionsInv
<1>2. \A q \in Actor : actor'[q] = IF q = r THEN x ELSE actor[q]
  BY DEF ActionsInv
<1>3. \A q \in Actor : ActorInv(actor'[q])
  BY <1>2 DEF ActionsInv
<1> QED
  BY <1>1, <1>3 DEF ActionsInv

LEMMA ActorStepKeeps ==
  ASSUME ActionsInv, NEW r \in Actor, ActorStep(r)
  PROVE  ActionsInv'
<1> USE DEF ActorOnly, Answered
<1>0. PICK a \in ActorRecord : a = actor[r] /\ ActorInv(a)
  BY DEF ActionsInv
<1>1. chainStatus \in Status
  BY DEF ActionsInv
<1>2. CASE StartAction(r)
  <2>1. PICK action \in {"cancel_invoiced", "request_refund", "release_escrow"} :
          actor' = [actor EXCEPT ![r] = [a EXCEPT !.action = action,
                      !.at = IF action = "release_escrow" THEN "submit" ELSE "read"]]
    BY <1>0, <1>2 DEF StartAction
  <2> DEFINE x == [a EXCEPT !.action = action, !.at = IF action = "release_escrow" THEN "submit" ELSE "read"]
  <2>2. a.at = "idle" /\ chainStatus' = chainStatus
    BY <1>0, <1>2 DEF StartAction
  <2>3. x \in ActorRecord
    BY DEF ActorRecord
  <2>4. ActorInv(x)
    BY <1>0, <2>2 DEF ActorInv, ActorRecord, EffectOf
  <2> HIDE DEF x
  <2> QED
    BY <1>1, <2>1, <2>2, <2>3, <2>4, ActorChange DEF x
<1>e. ASSUME NEW status \in Status \cup {"error"}, ActorOnly(r, Answered(r, status)),
             a.action # "none", a.effect \in {"none", "failed"} \cup EffectOf(a.action),
             status # "error" =>
               /\ a.effect \in EffectOf(a.action)
               /\ status = CASE a.action = "release_escrow" -> "Released"
                             [] a.action = "request_refund" -> "RefundRequested"
                             [] OTHER -> "Cancelled"
      PROVE  ActionsInv'
  <2> DEFINE x == [a EXCEPT !.at = "done", !.answer = status]
  <2>1. actor' = [actor EXCEPT ![r] = x] /\ chainStatus' = chainStatus
    BY <1>0, <1>e
  <2>2. x \in ActorRecord
    BY DEF ActorRecord
  <2>3. ActorInv(x)
    BY <1>0, <1>e DEF ActorInv, ActorRecord, EffectOf, Status
  <2> HIDE DEF x
  <2> QED
    BY <1>1, <2>1, <2>2, <2>3, ActorChange
<1>3. CASE ReadStatus(r)
  <2>1. a.at = "read" /\ a.action # "none" /\ a.effect = "none"
    BY <1>0, <1>3 DEF ReadStatus, ActorInv
  <2>2. CASE ActorOnly(r, Answered(r, "error"))
    BY <1>e, <2>1, <2>2
  <2>3. CASE /\ ~(a.action = "cancel_invoiced" /\ chainStatus = "Paid")
             /\ ActorOnly(r, [a EXCEPT !.saw = chainStatus,
                  !.at = IF a.action = "request_refund" THEN "due" ELSE "submit"])
    <3> DEFINE x == [a EXCEPT !.saw = chainStatus,
                       !.at = IF a.action = "request_refund" THEN "due" ELSE "submit"]
    <3>1. actor' = [actor EXCEPT ![r] = x] /\ chainStatus' = chainStatus
      BY <2>3
    <3>2. x \in ActorRecord
      BY <1>1 DEF ActorRecord
    <3>3. ActorInv(x)
      BY <1>0, <2>1, <2>3 DEF ActorInv, ActorRecord, EffectOf
    <3> HIDE DEF x
    <3> QED
      BY <1>1, <3>1, <3>2, <3>3, ActorChange
  <2> QED
    BY <1>0, <1>3, <2>2, <2>3 DEF ReadStatus
<1>4. CASE CheckDue(r) \/ SubmitAction(r)
  <2>1. a.at \in {"due", "submit"} /\ a.action # "none" /\ a.effect = "none"
    BY <1>0, <1>4 DEF CheckDue, SubmitAction, ActorInv
  <2>2. CASE ActorOnly(r, Answered(r, "error"))
    BY <1>e, <2>1, <2>2
  <2>3. ASSUME NEW to \in {"submit", "sent"}, ActorOnly(r, [a EXCEPT !.at = to])
        PROVE  ActionsInv'
    <3> DEFINE x == [a EXCEPT !.at = to]
    <3>1. actor' = [actor EXCEPT ![r] = x] /\ chainStatus' = chainStatus
      BY <2>3
    <3>2. x \in ActorRecord
      BY DEF ActorRecord
    <3>3. ActorInv(x)
      BY <1>0, <2>1, <2>3 DEF ActorInv, ActorRecord, EffectOf
    <3> HIDE DEF x
    <3> QED
      BY <1>1, <3>1, <3>2, <3>3, ActorChange
  <2> QED
    BY <1>0, <1>4, <2>2, <2>3 DEF CheckDue, SubmitAction
<1>5. CASE ApplyAction(r)
  <2>1. /\ a.at \in {"sent", "done"} /\ a.effect = "none" /\ a.answer # "error"
        /\ \E effect \in {"failed"} \cup EffectOf(a.action) :
              actor' = [actor EXCEPT ![r] = [a EXCEPT !.effect = effect]] /\ chainStatus' \in Status
    <3>1. a.at \in {"sent", "done"} /\ a.effect = "none" /\ a.answer # "error"
      BY <1>0, <1>5 DEF ApplyAction
    <3>2. CASE \E edge \in ContractEdge :
                 /\ edge[1] = actor[r].action
                 /\ chainStatus' = edge[3] /\ actor' = [actor EXCEPT ![r].effect = edge[3]]
      <4>1. PICK edge \in ContractEdge :
              /\ edge[1] = a.action /\ chainStatus' = edge[3]
              /\ actor' = [actor EXCEPT ![r].effect = edge[3]]
        BY <1>0, <3>2
      <4>2. edge[3] \in Status /\ (a.action \in {"cancel_invoiced", "request_refund", "release_escrow"} =>
                                    edge[3] \in EffectOf(a.action))
        BY <4>1 DEF ContractEdge, Status, EffectOf
      <4>3. a.action \in {"cancel_invoiced", "request_refund", "release_escrow"}
        BY <1>0, <3>1 DEF ActorInv
      <4>4. actor' = [actor EXCEPT ![r] = [a EXCEPT !.effect = edge[3]]]
        BY <1>0, <4>1
      <4> QED
        BY <3>1, <4>1, <4>2, <4>3, <4>4
    <3>3. CASE actor' = [actor EXCEPT ![r].effect = "failed"] /\ UNCHANGED <<chainStatus, events>>
      BY <1>0, <1>1, <3>1, <3>3
    <3> QED
      BY <1>5, <3>2, <3>3 DEF ApplyAction
  <2>2. PICK effect \in {"failed"} \cup EffectOf(a.action) :
          actor' = [actor EXCEPT ![r] = [a EXCEPT !.effect = effect]]
    BY <2>1
  <2> DEFINE x == [a EXCEPT !.effect = effect]
  <2>3. x \in ActorRecord
    BY <2>2 DEF ActorRecord, EffectOf, Status
  <2>4. a.at = "sent"
    BY <1>0, <2>1 DEF ActorInv, EffectOf
  <2>5. ActorInv(x)
    BY <1>0, <2>1, <2>4 DEF ActorInv, ActorRecord
  <2> HIDE DEF x
  <2> QED
    BY <2>1, <2>2, <2>3, <2>5, ActorChange DEF x
<1>6. CASE ConfirmAction(r)
  <2>1. a.at = "sent" /\ a.action # "none" /\ a.effect \in {"none", "failed"} \cup EffectOf(a.action)
    BY <1>0, <1>6 DEF ConfirmAction, ActorInv
  <2>2. CASE ActorOnly(r, Answered(r, "error"))
    BY <1>e, <2>1, <2>2
  <2>3. CASE /\ a.effect \notin {"none", "failed"}
             /\ ActorOnly(r, Answered(r,
                  CASE a.action = "release_escrow" -> "Released"
                    [] a.action = "request_refund" \/ a.saw = "Paid" -> "RefundRequested"
                    [] OTHER -> "Cancelled"))
    <3>1. CASE a.action = "release_escrow"
      <4>0. a.saw # "Paid"
        BY <1>0, <3>1 DEF ActorInv
      <4>1. ActorOnly(r, Answered(r, "Released")) /\ "Released" \in Status \cup {"error"}
        BY <2>3, <3>1, <4>0 DEF Status
      <4>2. a.effect \in EffectOf(a.action)
        BY <2>1, <2>3
      <4> QED
        BY <1>e, <2>1, <3>1, <4>1, <4>2
    <3>2. CASE a.action = "request_refund"
      <4>1. ActorOnly(r, Answered(r, "RefundRequested")) /\ "RefundRequested" \in Status \cup {"error"}
        BY <2>3, <3>2 DEF Status
      <4>2. a.effect \in EffectOf(a.action)
        BY <2>1, <2>3
      <4> QED
        BY <1>e, <2>1, <3>2, <4>1, <4>2
    <3>3. CASE a.action = "cancel_invoiced"
      <4>1. a.saw # "Paid"
        BY <1>0, <3>3 DEF ActorInv
      <4>2. ActorOnly(r, Answered(r, "Cancelled")) /\ "Cancelled" \in Status \cup {"error"}
        BY <2>3, <3>3, <4>1 DEF Status
      <4>3. a.effect \in EffectOf(a.action)
        BY <2>1, <2>3
      <4> QED
        BY <1>e, <2>1, <3>3, <4>2, <4>3
    <3> QED
      BY <1>0, <2>1, <3>1, <3>2, <3>3 DEF ActorInv
  <2> QED
    BY <1>0, <1>6, <2>2, <2>3 DEF ConfirmAction
<1> QED
  BY <1>2, <1>3, <1>4, <1>5, <1>6 DEF ActorStep

\* For any number of requests, and whatever other clients do to the invoice in
\* between: the status that cancel, refund and release-escrow answer is the one
\* their own transaction brought about, but for the cancellation that lost the
\* race with a payment (routes/invoice-actions.ts, routes/release-escrow.ts).
THEOREM ActionAnswersAreTrue == ActionsSpec => []ActionAnswerTrue
<1>1. ActionsInit => ActionsInv
  BY DEF ActionsInit, ActionsInv, ActorInv, ActorRecord, EffectOf, Status
<1>2. ActionsInv /\ [ActionsNext]_actionVars => ActionsInv'
  <2> SUFFICES ASSUME ActionsInv, [ActionsNext]_actionVars PROVE ActionsInv'
    OBVIOUS
  <2>1. ASSUME NEW r \in Actor, ActorStep(r) PROVE ActionsInv'
    BY <2>1, ActorStepKeeps
  <2>2. ASSUME NEW r \in Reader, ReaderStep(r) PROVE ActionsInv'
    BY <2>2 DEF ReaderStep, StartGet, ReadForSync, SyncWrite, ReaderOnly, ActionsInv
  <2>3. CASE OtherClient
    BY <2>3 DEF OtherClient, ContractEdge, Status, ActionsInv
  <2>4. CASE DuePasses \/ IndexEvent \/ UNCHANGED actionVars
    BY <2>4 DEF DuePasses, IndexEvent, actionVars, ActionsInv
  <2> QED
    BY <2>1, <2>2, <2>3, <2>4 DEF ActionsNext
<1>3. ActionsInv => ActionAnswerTrue
  BY DEF ActionsInv, ActorInv, ActorRecord, EffectOf, Status, ActionAnswerTrue
<1> QED
  BY <1>1, <1>2, <1>3, PTL DEF ActionsSpec

-----------------------------------------------------------------------------
(* POST /api/invoices (InvoiceApi).                                        *)

\* What the argument needs of the types.
CreateTypes ==
  /\ redis \in BOOLEAN
  /\ locked \in CreateRequest \cup {NoRequest}
  /\ memory \in [Process -> [body : Body, id : Nat] \cup {NoEntry}]
  /\ stored \in [body : Body, id : Nat] \cup {NoEntry}
  /\ at \in [CreateRequest -> {"idle", "load", "wait", "lock", "owner", "auth", "audit", "account",
                               "simulate", "send", "poll", "check", "insert", "done", "dead"}]
  /\ request \in [CreateRequest -> [body : Body, process : Process, keyed : BOOLEAN]]
  /\ tx \in [CreateRequest -> {"none", "sent", "landed", "dropped"}]
  /\ landed \in Seq(CreateRequest)
  /\ answer \in [CreateRequest -> [code : Nat, id : Nat]]
  /\ tail \subseteq CreateRequest
  /\ inFlight \in [Process -> CreateRequest \cup {NoRequest}]

\* An invoice's id stands for what was asked for: it is on chain, has its row, and
\* was created for that body.
Good(body, id) == id \in DOMAIN landed /\ id \in rows /\ request[landed[id]].body = body

\* Where a request is before it sends its transaction.
BeforeSend == {"idle", "load", "wait", "lock", "owner", "auth", "audit", "account", "simulate", "send"}

\* What is answered, and what both caches hold to be answered again, is good; and a
\* request whose transaction landed is among those landed, once.
CreateInv ==
  /\ \A r \in CreateRequest : answer[r].code = 201 => Good(request[r].body, answer[r].id)
  /\ \A p \in Process : memory[p] # NoEntry => Good(memory[p].body, memory[p].id)
  /\ stored # NoEntry => Good(stored.body, stored.id)
  /\ \A r \in CreateRequest : at[r] \in {"check", "insert"} => tx[r] = "landed"
  /\ \A r \in CreateRequest : at[r] \in BeforeSend => tx[r] = "none"
  /\ \A r \in CreateRequest : tx[r] = "landed" => \E i \in DOMAIN landed : landed[i] = r
  /\ \A i \in DOMAIN landed : tx[landed[i]] = "landed"
  /\ \A i, j \in DOMAIN landed : landed[i] = landed[j] => i = j

\* While nothing undid the key's protection, a request of the key that is being
\* handled, or whose final calls are on the wire, holds the lock, and Redis has no
\* entry yet.
Holds(r) == redis /\ locked = r /\ stored = NoEntry

\* A request that is being handled under the key, or whose final calls are on the
\* wire, holds the lock; one whose transaction may land or has landed still does, or it
\* was answered 201 and Redis has an entry.
Protected(r) ==
  /\ request[r].keyed /\ InHandler(r) => Holds(r)
  /\ r \in tail => Holds(r) /\ request[r].keyed /\ at[r] = "done"
  /\ request[r].keyed /\ tx[r] \in {"sent", "landed"} =>
       \/ at[r] \in {"poll", "check", "insert"}
       \/ at[r] = "done" /\ answer[r].code = 201 /\ (r \in tail \/ stored # NoEntry)

\* Its transaction may land, or has landed.
Creating(r) == request[r].keyed /\ tx[r] \in {"sent", "landed"}

LockInv ==
  lapses = {} =>
    /\ \A r \in CreateRequest : Protected(r)
    /\ \A q, r \in CreateRequest : Creating(q) /\ Creating(r) => q = r

CreateAllInv == CreateTypes /\ CreateInv /\ LockInv

\* The id that a request looks for once its transaction landed.
LEMMA IdOfLanded ==
  ASSUME CreateTypes, CreateInv, NEW r \in CreateRequest, tx[r] = "landed"
  PROVE  IdOf(r) \in DOMAIN landed /\ landed[IdOf(r)] = r /\ IdOf(r) \in Nat
<1>1. \E i \in DOMAIN landed : landed[i] = r
  BY DEF CreateInv
<1>2. landed \in Seq(CreateRequest)
  BY DEF CreateTypes
<1>3. IdOf(r) \in DOMAIN landed /\ landed[IdOf(r)] = r
  BY <1>1 DEF IdOf
<1> QED
  BY <1>2, <1>3

\* A step that only the caches, the lock and the places of the requests take part
\* in, without a new entry.
LEMMA QuietStep ==
  ASSUME CreateTypes, CreateInv, CreateTypes',
         request' = request, rows' = rows, landed' = landed, tx' = tx, answer' = answer,
         stored' = stored,
         \A p \in Process : memory'[p] \in {memory[p], NoEntry},
         \A r \in CreateRequest : at'[r] \in {"check", "insert"} => tx[r] = "landed",
         \A r \in CreateRequest : at'[r] \in BeforeSend => tx[r] = "none"
  PROVE  CreateInv'
BY DEF CreateInv, Good

\* A step that answers a request and keeps nothing of the answer but, perhaps, a
\* good entry in the memory of its process.
LEMMA AnswerStep ==
  ASSUME CreateTypes, CreateInv, CreateTypes', NEW r \in CreateRequest,
         NEW code \in Nat, NEW id \in Nat, Reply(r, code, id),
         request' = request, rows \subseteq rows', landed' = landed, tx' = tx, stored' = stored,
         code = 201 => Good(request[r].body, id)',
         \A p \in Process : memory'[p] = memory[p] \/ (memory'[p] = [body |-> request[r].body, id |-> id] /\ code = 201)
  PROVE  CreateInv'
<1>1. answer' = [answer EXCEPT ![r] = [code |-> code, id |-> id]] /\ at' = [at EXCEPT ![r] = "done"]
  BY DEF Reply
<1>2. \A q \in CreateRequest : answer'[q].code = 201 => Good(request[q].body, answer[q].id)'
  <2> SUFFICES ASSUME NEW q \in CreateRequest, answer'[q].code = 201
               PROVE  Good(request[q].body, answer[q].id)'
    OBVIOUS
  <2>1. CASE q = r
    <3>1. answer'[q] = [code |-> code, id |-> id]
      BY <2>1, <1>1 DEF CreateTypes
    <3> QED
      BY <2>1, <3>1 DEF Good
  <2>2. CASE q # r
    <3>1. answer'[q] = answer[q]
      BY <2>2, <1>1 DEF CreateTypes
    <3>2. Good(request[q].body, answer[q].id)
      BY <3>1 DEF CreateInv
    <3> QED
      BY <3>1, <3>2 DEF Good
  <2> QED
    BY <2>1, <2>2
<1>3. \A p \in Process : memory'[p] # NoEntry => Good(memory[p].body, memory[p].id)'
  <2> SUFFICES ASSUME NEW p \in Process, memory'[p] # NoEntry
               PROVE  Good(memory[p].body, memory[p].id)'
    OBVIOUS
  <2>1. CASE memory'[p] = memory[p]
    BY <2>1 DEF CreateInv, Good
  <2>2. CASE memory'[p] = [body |-> request[r].body, id |-> id] /\ code = 201
    <3>1. memory'[p].body = request[r].body /\ memory'[p].id = id
      BY <2>2
    <3> QED
      BY <2>2, <3>1 DEF Good
  <2> QED
    BY <2>1, <2>2
<1>4. stored' # NoEntry => Good(stored.body, stored.id)'
  BY DEF CreateInv, Good
<1>5. \A q \in CreateRequest :
        /\ at'[q] \in {"check", "insert"} => tx'[q] = "landed"
        /\ at'[q] \in BeforeSend => tx'[q] = "none"
  BY <1>1 DEF CreateInv, CreateTypes, BeforeSend
<1> QED
  BY <1>2, <1>3, <1>4, <1>5 DEF CreateInv

\* A step that answers a request with anything but a 201.
LEMMA FailedStep ==
  ASSUME CreateTypes, CreateInv, CreateTypes', NEW r \in CreateRequest,
         NEW code \in Nat, NEW id \in Nat, Reply(r, code, id), code # 201,
         request' = request, rows' = rows, landed' = landed, tx' = tx, stored' = stored,
         memory' = memory
  PROVE  CreateInv'
<1>1. \A p \in Process : memory'[p] = memory[p] \/ (memory'[p] = [body |-> request[r].body, id |-> id] /\ code = 201)
  OBVIOUS
<1>2. code = 201 => Good(request[r].body, id)'
  OBVIOUS
<1>3. rows \subseteq rows'
  OBVIOUS
<1> QED
  BY <1>1, <1>2, <1>3, AnswerStep

\* What an entry is worth: a good one gives a good answer.
LEMMA ReplayAnswers ==
  ASSUME CreateTypes, CreateInv, CreateTypes', NEW r \in CreateRequest, NEW entry,
         entry.id \in Nat, Good(entry.body, entry.id), Replay(r, entry),
         request' = request, rows' = rows, landed' = landed, tx' = tx, stored' = stored,
         memory' = memory
  PROVE  CreateInv'
<1>1. CASE entry.body = request[r].body
  <2>1. Reply(r, 201, entry.id)
    BY <1>1 DEF Replay
  <2>2. Good(request[r].body, entry.id)'
    BY <1>1 DEF Good
  <2> QED
    BY <2>1, <2>2, AnswerStep
<1>2. CASE entry.body # request[r].body
  <2>1. Reply(r, 409, 0)
    BY <1>2 DEF Replay
  <2> QED
    BY <2>1, FailedStep
<1> QED
  BY <1>1, <1>2

\* Requests, rows and the chain start empty, and the protection is whole.
LEMMA CreateInit == ApiInit => CreateAllInv
<1> SUFFICES ASSUME ApiInit PROVE CreateAllInv
  OBVIOUS
<1>1. CreateTypes
  BY InvoiceApiAssumption DEF ApiInit, CreateTypes, NoAnswer
<1>2. CreateInv
  BY DEF ApiInit, CreateInv, NoAnswer
<1>3. LockInv
  BY DEF ApiInit, LockInv, Protected, InHandler, Creating
<1> QED
  BY <1>1, <1>2, <1>3 DEF CreateAllInv

\* A request's process is one.
LEMMA ProcIsProcess == ASSUME CreateTypes, NEW r \in CreateRequest PROVE Proc(r) \in Process
BY DEF CreateTypes, Proc

\* Answering keeps the types, whatever the middleware keeps of the answer.
LEMMA ReplyTypes ==
  ASSUME CreateTypes, NEW r \in CreateRequest, NEW code \in Nat, NEW id \in Nat, Reply(r, code, id)
  PROVE  /\ answer' \in [CreateRequest -> [code : Nat, id : Nat]]
         /\ at' \in [CreateRequest -> {"idle", "load", "wait", "lock", "owner", "auth", "audit",
                      "account", "simulate", "send", "poll", "check", "insert", "done", "dead"}]
BY DEF CreateTypes, Reply

LEMMA ReplayTypes ==
  ASSUME CreateTypes, NEW r \in CreateRequest, NEW entry \in [body : Body, id : Nat], Replay(r, entry)
  PROVE  /\ answer' \in [CreateRequest -> [code : Nat, id : Nat]]
         /\ at' \in [CreateRequest -> {"idle", "load", "wait", "lock", "owner", "auth", "audit",
                      "account", "simulate", "send", "poll", "check", "insert", "done", "dead"}]
BY ReplyTypes DEF Replay

LEMMA WrappedTypes ==
  ASSUME CreateTypes, NEW r \in CreateRequest, NEW code \in Nat, NEW id \in Nat,
         WrappedReply(r, code, id),
         UNCHANGED <<redis, stored, locked, request, tx, landed>>
  PROVE  CreateTypes'
<1>1. WrappedReply(r, code, id) => Reply(r, code, id)
  BY DEF WrappedReply
<1>2. Proc(r) \in Process /\ request[r].body \in Body
  BY DEF CreateTypes, Proc
<1>3. memory' \in [Process -> [body : Body, id : Nat] \cup {NoEntry}]
  <2> DEFINE entry == [body |-> request[r].body, id |-> id]
  <2>1. entry \in [body : Body, id : Nat]
    BY <1>2
  <2>2. memory' = memory \/ memory' = [memory EXCEPT ![Proc(r)] = entry]
    BY DEF WrappedReply, processVars
  <2>3. memory \in [Process -> [body : Body, id : Nat] \cup {NoEntry}]
    BY DEF CreateTypes
  <2> HIDE DEF entry
  <2> QED
    BY <1>2, <2>1, <2>2, <2>3
<1>4. inFlight' \in [Process -> CreateRequest \cup {NoRequest}]
  BY <1>2 DEF WrappedReply, CreateTypes, processVars
<1>5. tail' \subseteq CreateRequest
  BY DEF WrappedReply, CreateTypes
<1> QED
  BY <1>1, <1>3, <1>4, <1>5, ReplyTypes DEF CreateTypes

\* A failure keeps the types and the invariant.
LEMMA FailKeeps ==
  ASSUME CreateTypes, CreateInv, NEW r \in CreateRequest, NEW code \in Nat \ {201}, Fail(r, code)
  PROVE  CreateTypes' /\ CreateInv'
<1>1. WrappedReply(r, code, 0) /\ UNCHANGED <<redis, stored, locked, request, tx, landed, rows>>
  BY DEF Fail, chainVars
<1>2. CreateTypes'
  BY <1>1, WrappedTypes
<1>3. Reply(r, code, 0) /\ memory' = memory
  BY <1>1 DEF WrappedReply, processVars
<1>4. CreateInv'
  BY <1>1, <1>2, <1>3, FailedStep
<1> QED
  BY <1>2, <1>4

\* Moving on inside the handler, up to the poll.
LEMMA AdvanceKeeps ==
  ASSUME CreateTypes, CreateInv, NEW r \in CreateRequest, NEW from, NEW to,
         Advance(r, from, to), tx' = tx, landed' = landed,
         to \in {"audit", "account", "simulate", "send", "check", "insert"},
         to \in {"check", "insert"} => tx[r] = "landed",
         to \in BeforeSend => from \in BeforeSend
  PROVE  CreateTypes' /\ CreateInv'
<1>1. /\ at[r] = from /\ at' = [at EXCEPT ![r] = to]
      /\ UNCHANGED <<redis, stored, locked, tail, memory, inFlight, request, rows, answer>>
  BY DEF Advance, redisVars, processVars
<1>2. CreateTypes'
  BY <1>1 DEF CreateTypes
<1>3. \A q \in CreateRequest :
        /\ at'[q] \in {"check", "insert"} => tx[q] = "landed"
        /\ at'[q] \in BeforeSend => tx[q] = "none"
  BY <1>1 DEF CreateTypes, CreateInv
<1> QED
  BY <1>1, <1>2, <1>3, QuietStep

LEMMA SendKeeps ==
  ASSUME CreateTypes, CreateInv, NEW r \in CreateRequest, Send(r)
  PROVE  CreateTypes' /\ CreateInv'
<1>1. /\ at[r] = "send" /\ at' = [at EXCEPT ![r] = "poll"] /\ tx' = [tx EXCEPT ![r] = "sent"]
      /\ UNCHANGED <<redis, stored, locked, tail, memory, inFlight, request, rows, answer, landed>>
  BY DEF Send, Advance, redisVars, processVars
<1>2. CreateTypes'
  BY <1>1 DEF CreateTypes
<1>3. tx[r] = "none"
  BY <1>1 DEF CreateInv, BeforeSend
<1>4. \A q \in CreateRequest :
        /\ at'[q] \in {"check", "insert"} => tx'[q] = "landed"
        /\ at'[q] \in BeforeSend => tx'[q] = "none"
        /\ tx'[q] = "landed" <=> tx[q] = "landed"
  BY <1>1, <1>3 DEF CreateTypes, CreateInv, BeforeSend
<1>5. \A i \in DOMAIN landed : landed[i] \in CreateRequest
  BY DEF CreateTypes
<1>6. CreateInv'
  BY <1>1, <1>4, <1>5 DEF CreateInv, Good
<1> QED
  BY <1>2, <1>6

\* A request that joins the queue of the middleware, or enters the handler.
LEMMA MoveKeeps ==
  ASSUME CreateTypes, CreateInv, NEW r \in CreateRequest, NEW to \in {"load", "wait", "lock", "owner", "auth"},
         at[r] \in BeforeSend, at' = [at EXCEPT ![r] = to],
         locked' \in CreateRequest \cup {NoRequest},
         inFlight' \in [Process -> CreateRequest \cup {NoRequest}],
         UNCHANGED <<redis, stored, tail, memory, request, rows, answer, tx, landed>>
  PROVE  CreateTypes' /\ CreateInv'
<1>1. CreateTypes'
  BY DEF CreateTypes
<1>2. \A q \in CreateRequest :
        /\ at'[q] \in {"check", "insert"} => tx[q] = "landed"
        /\ at'[q] \in BeforeSend => tx[q] = "none"
  BY DEF CreateTypes, CreateInv
<1> QED
  BY <1>1, <1>2, QuietStep

\* A request answered from an entry of the key.
LEMMA ReplayKeeps ==
  ASSUME CreateTypes, CreateInv, NEW r \in CreateRequest, NEW entry \in [body : Body, id : Nat],
         Good(entry.body, entry.id), Replay(r, entry),
         UNCHANGED <<redis, stored, locked, tail, memory, inFlight, request, rows, tx, landed>>
  PROVE  CreateTypes' /\ CreateInv'
<1>1. CreateTypes'
  BY ReplayTypes DEF CreateTypes
<1>2. CreateInv'
  BY <1>1, ReplayAnswers
<1> QED
  BY <1>1, <1>2

\* What the entries of a process and of Redis are worth.
LEMMA EntriesGood ==
  ASSUME CreateTypes, CreateInv
  PROVE  /\ \A r \in CreateRequest : memory[Proc(r)] # NoEntry =>
              /\ memory[Proc(r)] \in [body : Body, id : Nat]
              /\ Good(memory[Proc(r)].body, memory[Proc(r)].id)
         /\ stored # NoEntry => stored \in [body : Body, id : Nat] /\ Good(stored.body, stored.id)
BY ProcIsProcess DEF CreateTypes, CreateInv

\* The steps of the middleware keep the invariant: they only answer from entries.
LEMMA MiddlewareKeeps ==
  ASSUME CreateTypes, CreateInv, NEW r \in CreateRequest,
         Arrive(r) \/ Load(r) \/ Wake(r) \/ TakeLock(r) \/ LockTaken(r) \/ AfterOwner(r)
  PROVE  CreateTypes' /\ CreateInv'
<1>1. CASE Arrive(r)
  <2>1. UNCHANGED <<redis, stored, locked, tail, memory, inFlight, request, rows, tx, landed>>
    BY <1>1 DEF Arrive, redisVars, processVars, chainVars
  <2>2. \/ at' = [at EXCEPT ![r] = "auth"] /\ UNCHANGED answer
        \/ at' = [at EXCEPT ![r] = "load"] /\ UNCHANGED answer
        \/ memory[Proc(r)] # NoEntry /\ Replay(r, memory[Proc(r)])
    BY <1>1 DEF Arrive
  <2>3. at[r] \in BeforeSend /\ locked \in CreateRequest \cup {NoRequest}
        /\ inFlight \in [Process -> CreateRequest \cup {NoRequest}]
    BY <1>1 DEF Arrive, BeforeSend, CreateTypes
  <2>4. CASE at' = [at EXCEPT ![r] = "auth"] /\ UNCHANGED answer
    BY <2>1, <2>3, <2>4, MoveKeeps
  <2>5. CASE at' = [at EXCEPT ![r] = "load"] /\ UNCHANGED answer
    BY <2>1, <2>3, <2>5, MoveKeeps
  <2>6. CASE memory[Proc(r)] # NoEntry /\ Replay(r, memory[Proc(r)])
    BY <2>1, <2>6, ReplayKeeps, EntriesGood
  <2> QED
    BY <2>2, <2>4, <2>5, <2>6
<1>2. CASE Load(r)
  <2>1. UNCHANGED <<redis, stored, locked, tail, memory, inFlight, request, rows, tx, landed>>
    BY <1>2 DEF Load, processVars, chainVars
  <2>2. PICK seen \in {stored, NoEntry} :
          IF seen # NoEntry
            THEN Replay(r, seen)
            ELSE /\ at' = [at EXCEPT ![r] = IF inFlight[Proc(r)] = NoRequest THEN "lock" ELSE "wait"]
                 /\ UNCHANGED answer
    BY <1>2 DEF Load
  <2>3. at[r] \in BeforeSend /\ locked \in CreateRequest \cup {NoRequest}
        /\ inFlight \in [Process -> CreateRequest \cup {NoRequest}]
    BY <1>2 DEF Load, BeforeSend, CreateTypes
  <2>4. CASE seen # NoEntry
    <3>1. stored # NoEntry /\ Replay(r, stored)
      BY <2>2, <2>4
    <3> QED
      BY <2>1, <3>1, ReplayKeeps, EntriesGood
  <2>5. CASE seen = NoEntry
    <3>1. UNCHANGED answer /\ \E to \in {"lock", "wait"} : at' = [at EXCEPT ![r] = to]
      BY <2>2, <2>5
    <3> QED
      BY <2>1, <2>3, <3>1, MoveKeeps
  <2> QED
    BY <2>4, <2>5
<1>3. CASE Wake(r)
  <2>1. UNCHANGED <<redis, stored, locked, tail, memory, inFlight, request, rows, tx, landed>>
    BY <1>3 DEF Wake, redisVars, processVars, chainVars
  <2>2. \/ at' = [at EXCEPT ![r] = "lock"] /\ UNCHANGED answer
        \/ memory[Proc(r)] # NoEntry /\ Replay(r, memory[Proc(r)])
    BY <1>3 DEF Wake
  <2>3. at[r] \in BeforeSend /\ locked \in CreateRequest \cup {NoRequest}
        /\ inFlight \in [Process -> CreateRequest \cup {NoRequest}]
    BY <1>3 DEF Wake, BeforeSend, CreateTypes
  <2>4. CASE at' = [at EXCEPT ![r] = "lock"] /\ UNCHANGED answer
    BY <2>1, <2>3, <2>4, MoveKeeps
  <2>5. CASE memory[Proc(r)] # NoEntry /\ Replay(r, memory[Proc(r)])
    BY <2>1, <2>5, ReplayKeeps, EntriesGood
  <2> QED
    BY <2>2, <2>4, <2>5
<1>4. CASE TakeLock(r)
  <2>1. /\ UNCHANGED <<redis, stored, tail, memory, request, rows, answer, tx, landed>>
        /\ at' = [at EXCEPT ![r] = "auth"] /\ locked' \in {locked, r}
        /\ inFlight' = [inFlight EXCEPT ![Proc(r)] = r] /\ at[r] \in BeforeSend
    BY <1>4 DEF TakeLock, chainVars, BeforeSend
  <2>2. /\ locked' \in CreateRequest \cup {NoRequest}
        /\ inFlight' \in [Process -> CreateRequest \cup {NoRequest}]
    BY <2>1, ProcIsProcess DEF CreateTypes
  <2> QED
    BY <2>1, <2>2, MoveKeeps
<1>5. CASE LockTaken(r)
  <2>1. /\ UNCHANGED <<redis, stored, locked, tail, memory, inFlight, request, rows, answer, tx, landed>>
        /\ at' = [at EXCEPT ![r] = "owner"] /\ at[r] \in BeforeSend
    BY <1>5 DEF LockTaken, redisVars, processVars, chainVars, BeforeSend
  <2>2. /\ locked' \in CreateRequest \cup {NoRequest}
        /\ inFlight' \in [Process -> CreateRequest \cup {NoRequest}]
    BY <2>1 DEF CreateTypes
  <2> QED
    BY <2>1, <2>2, MoveKeeps
<1>6. CASE AfterOwner(r)
  <2>1. UNCHANGED <<redis, stored, locked, tail, memory, inFlight, request, rows, tx, landed>>
    BY <1>6 DEF AfterOwner, redisVars, processVars, chainVars
  <2>2. CASE memory[Proc(r)] # NoEntry
    <3>1. Replay(r, memory[Proc(r)])
      BY <1>6, <2>2 DEF AfterOwner
    <3> QED
      BY <2>1, <2>2, <3>1, ReplayKeeps, EntriesGood
  <2>3. CASE memory[Proc(r)] = NoEntry
    <3>1. Reply(r, 409, 0)
      BY <1>6, <2>3 DEF AfterOwner
    <3>2. CreateTypes'
      BY <2>1, <3>1, ReplyTypes DEF CreateTypes
    <3> QED
      BY <2>1, <3>1, <3>2, FailedStep
  <2> QED
    BY <2>2, <2>3
<1> QED
  BY <1>1, <1>2, <1>3, <1>4, <1>5, <1>6

\* The 201: the row is there before the answer and its entry are.
LEMMA InsertKeeps ==
  ASSUME CreateTypes, CreateInv, NEW r \in CreateRequest, Insert(r)
  PROVE  CreateTypes' /\ CreateInv'
<1>1. tx[r] = "landed"
  BY DEF Insert, CreateInv
<1>2. PICK id \in Nat : id = IdOf(r) /\ id \in DOMAIN landed /\ landed[id] = r
  BY <1>1, IdOfLanded
<1>3. /\ WrappedReply(r, 201, id) /\ rows' = rows \cup {id}
      /\ UNCHANGED <<redis, stored, locked, request, tx, landed>>
  BY <1>2 DEF Insert, chainVars
<1>4. CreateTypes'
  BY <1>3, WrappedTypes
<1>5. Reply(r, 201, id)
  BY <1>3 DEF WrappedReply
<1>6. Good(request[r].body, id)'
  BY <1>2, <1>3 DEF Good
<1>7. \A p \in Process : memory'[p] = memory[p] \/ memory'[p] = [body |-> request[r].body, id |-> id]
  <2>1. \/ memory' = memory
        \/ memory' = [memory EXCEPT ![Proc(r)] = [body |-> request[r].body, id |-> id]]
    BY <1>3 DEF WrappedReply, processVars
  <2>2. memory \in [Process -> [body : Body, id : Nat] \cup {NoEntry}]
    BY DEF CreateTypes
  <2> QED
    BY <2>1, <2>2
<1>8. rows \subseteq rows'
  BY <1>3
<1>9. CreateInv'
  BY <1>3, <1>4, <1>5, <1>6, <1>7, <1>8, AnswerStep
<1> QED
  BY <1>4, <1>9

\* The steps of the handler.
LEMMA HandlerKeeps ==
  ASSUME CreateTypes, CreateInv, NEW r \in CreateRequest, Step(r)
  PROVE  CreateTypes' /\ CreateInv'
<1>1. CASE Arrive(r) \/ Load(r) \/ Wake(r) \/ TakeLock(r) \/ LockTaken(r) \/ AfterOwner(r)
  BY <1>1, MiddlewareKeeps
<1>2. CASE Authorised(r) \/ NotBlocked(r) \/ Simulate(r)
  BY <1>2, AdvanceKeeps DEF Authorised, NotBlocked, Simulate, chainVars, BeforeSend
<1>3. CASE GetAccount(r)
  BY <1>3, AdvanceKeeps DEF GetAccount, BeforeSend
<1>4. CASE Send(r)
  BY <1>4, SendKeeps
<1>5. CASE Confirmed(r)
  BY <1>5, AdvanceKeeps DEF Confirmed, chainVars, BeforeSend
<1>6. CASE NoDuplicate(r)
  <2>1. at[r] = "check" /\ Advance(r, "check", "insert") /\ tx' = tx /\ landed' = landed
    BY <1>6 DEF NoDuplicate, chainVars
  <2>2. tx[r] = "landed"
    BY <2>1 DEF CreateInv
  <2> QED
    BY <2>1, <2>2, AdvanceKeeps DEF BeforeSend
<1>7. CASE PollFailed(r) \/ Timeout(r) \/ Invalid(r) \/ Blocked(r) \/ Refused(r) \/ Duplicate(r)
           \/ MongoFails(r)
  <2>1. Fail(r, 401) \/ Fail(r, 403) \/ Fail(r, 409) \/ Fail(r, 422) \/ Fail(r, 504)
    BY <1>7 DEF PollFailed, Timeout, Invalid, Blocked, Refused, Duplicate, MongoFails
  <2> QED
    BY <2>1, FailKeeps
<1>8. CASE Insert(r)
  BY <1>8, InsertKeeps
<1> QED
  BY <1>1, <1>2, <1>3, <1>4, <1>5, <1>6, <1>7, <1>8 DEF Step

\* The final calls store what was answered.
LEMMA FinalKeeps ==
  ASSUME CreateTypes, CreateInv, NEW r \in CreateRequest, FinalCalls(r)
  PROVE  CreateTypes' /\ CreateInv'
<1>1. UNCHANGED <<redis, memory, inFlight, at, request, tx, landed, rows, answer>>
  BY DEF FinalCalls, processVars, chainVars
<1>2. \/ stored' = stored
      \/ answer[r].code = 201 /\ stored' = [body |-> request[r].body, id |-> answer[r].id]
  BY DEF FinalCalls
<1>3. locked' \in {locked, NoRequest} /\ tail' \subseteq CreateRequest
  BY DEF FinalCalls, CreateTypes
<1>4. request[r].body \in Body /\ answer[r].id \in Nat
  BY DEF CreateTypes
<1>5. stored' \in [body : Body, id : Nat] \cup {NoEntry}
  BY <1>2, <1>4 DEF CreateTypes
<1>6. CreateTypes'
  BY <1>1, <1>3, <1>5 DEF CreateTypes
<1>7. stored' # NoEntry => Good(stored.body, stored.id)'
  <2>1. CASE stored' = stored
    BY <1>1, <2>1 DEF CreateInv, Good
  <2>2. CASE answer[r].code = 201 /\ stored' = [body |-> request[r].body, id |-> answer[r].id]
    <3>1. Good(request[r].body, answer[r].id)
      BY <2>2 DEF CreateInv
    <3>2. stored'.body = request[r].body /\ stored'.id = answer[r].id
      BY <2>2
    <3> QED
      BY <1>1, <3>1, <3>2 DEF Good
  <2> QED
    BY <1>2, <2>1, <2>2
<1>8. CreateInv'
  BY <1>1, <1>7 DEF CreateInv, Good
<1> QED
  BY <1>6, <1>8

\* A transaction lands, and takes the next id.
LEMMA LandKeeps ==
  ASSUME CreateTypes, CreateInv, NEW r \in CreateRequest, Land(r)
  PROVE  CreateTypes' /\ CreateInv'
<1>1. /\ UNCHANGED <<redis, stored, locked, tail, memory, inFlight, at, request, rows, answer>>
      /\ tx[r] = "sent" /\ tx' = [tx EXCEPT ![r] = "landed"] /\ landed' = Append(landed, r)
  BY DEF Land, redisVars, processVars
<1>2. landed \in Seq(CreateRequest) /\ Len(landed) \in Nat /\ DOMAIN landed = 1 .. Len(landed)
  BY DEF CreateTypes
<1>3. /\ landed' \in Seq(CreateRequest) /\ DOMAIN landed' = 1 .. Len(landed) + 1
      /\ landed'[Len(landed) + 1] = r /\ \A i \in DOMAIN landed : landed'[i] = landed[i]
  BY <1>1, <1>2
<1>4. CreateTypes'
  BY <1>1, <1>3 DEF CreateTypes
<1>6. /\ \A q \in CreateRequest : answer'[q].code = 201 => Good(request[q].body, answer[q].id)'
      /\ \A p \in Process : memory'[p] # NoEntry => Good(memory[p].body, memory[p].id)'
      /\ stored' # NoEntry => Good(stored.body, stored.id)'
  <2>1. \A q \in CreateRequest : answer[q].code = 201 => Good(request[q].body, answer[q].id)
    BY DEF CreateInv
  <2>2. \A p \in Process : memory[p] # NoEntry => Good(memory[p].body, memory[p].id)
    BY DEF CreateInv
  <2>3. stored # NoEntry => Good(stored.body, stored.id)
    BY DEF CreateInv
  <2>4. DOMAIN landed \subseteq DOMAIN landed'
    BY <1>2, <1>3
  <2> QED
    BY <1>1, <1>3, <2>1, <2>2, <2>3, <2>4 DEF Good
<1>7. \A i \in DOMAIN landed : landed[i] \in CreateRequest /\ landed[i] # r /\ tx[landed[i]] = "landed"
  BY <1>1, <1>2 DEF CreateInv
<1>8. \A q \in CreateRequest :
        /\ at'[q] \in {"check", "insert"} => tx'[q] = "landed"
        /\ at'[q] \in BeforeSend => tx'[q] = "none"
  <2>1. at[r] \notin BeforeSend
    BY <1>1 DEF CreateInv
  <2> QED
    BY <1>1, <2>1 DEF CreateInv, CreateTypes
<1>9. \A q \in CreateRequest : tx'[q] = "landed" => \E i \in DOMAIN landed' : landed'[i] = q
  <2> SUFFICES ASSUME NEW q \in CreateRequest, tx'[q] = "landed"
               PROVE  \E i \in DOMAIN landed' : landed'[i] = q
    OBVIOUS
  <2>1. CASE q = r
    BY <2>1, <1>2, <1>3
  <2>2. CASE q # r
    <3>1. PICK i \in DOMAIN landed : landed[i] = q
      BY <2>2, <1>1 DEF CreateInv, CreateTypes
    <3> QED
      BY <3>1, <1>2, <1>3
  <2> QED
    BY <2>1, <2>2
<1>10. \A i \in DOMAIN landed' : i \in DOMAIN landed \/ i = Len(landed) + 1
  BY <1>2, <1>3
<1>11. \A i \in DOMAIN landed' : tx'[landed'[i]] = "landed"
  BY <1>1, <1>3, <1>7, <1>10 DEF CreateTypes
<1>12. \A i, j \in DOMAIN landed' : landed'[i] = landed'[j] => i = j
  <2> SUFFICES ASSUME NEW i \in DOMAIN landed', NEW j \in DOMAIN landed', landed'[i] = landed'[j]
               PROVE  i = j
    OBVIOUS
  <2>1. CASE i \in DOMAIN landed /\ j \in DOMAIN landed
    BY <2>1, <1>3 DEF CreateInv
  <2> QED
    BY <2>1, <1>3, <1>7, <1>10
<1> QED
  BY <1>4, <1>6, <1>8, <1>9, <1>11, <1>12 DEF CreateInv

\* The rest of the environment: a lost transaction, the end of the lock or of an
\* answer, a crash.
LEMMA EnvironmentKeeps ==
  ASSUME CreateTypes, CreateInv,
         \/ \E r \in CreateRequest : Drop(r)
         \/ LockExpires \/ StoredExpires
         \/ \E p \in Process : MemoryExpires(p) \/ Crash(p)
         \/ UNCHANGED apiVars
  PROVE  CreateTypes' /\ CreateInv'
<1>1. ASSUME NEW r \in CreateRequest, Drop(r) PROVE CreateTypes' /\ CreateInv'
  <2>1. /\ UNCHANGED <<redis, stored, locked, tail, memory, inFlight, at, request, rows, answer, landed>>
        /\ tx[r] = "sent" /\ tx' = [tx EXCEPT ![r] = "dropped"]
    BY <1>1 DEF Drop, redisVars, processVars
  <2>2. CreateTypes'
    BY <2>1 DEF CreateTypes
  <2>3. \A i \in DOMAIN landed : landed[i] \in CreateRequest
    BY DEF CreateTypes
  <2>4. \A q \in CreateRequest :
          /\ tx'[q] = "landed" <=> tx[q] = "landed"
          /\ tx'[q] = "none" <=> tx[q] = "none"
    BY <2>1 DEF CreateTypes
  <2>5. CreateInv'
    BY <2>1, <2>3, <2>4 DEF CreateInv, Good
  <2> QED
    BY <2>2, <2>5
<1>2. CASE LockExpires
  <2>1. /\ UNCHANGED <<redis, stored, tail, memory, inFlight, at, request, rows, answer, tx, landed>>
        /\ locked' = NoRequest
    BY <1>2 DEF LockExpires, processVars, chainVars
  <2>2. CreateTypes'
    BY <2>1 DEF CreateTypes
  <2> QED
    BY <2>1, <2>2, QuietStep DEF CreateInv
<1>3. ASSUME NEW p \in Process, Crash(p) PROVE CreateTypes' /\ CreateInv'
  <2>1. /\ UNCHANGED <<redis, stored, locked, request, rows, answer, tx, landed>>
        /\ at' = [r \in CreateRequest |-> IF Proc(r) = p /\ Running(r) THEN "dead" ELSE at[r]]
        /\ memory' = [memory EXCEPT ![p] = NoEntry] /\ inFlight' = [inFlight EXCEPT ![p] = NoRequest]
        /\ tail' \subseteq tail
    BY <1>3 DEF Crash, chainVars
  <2>2. CreateTypes'
    BY <2>1 DEF CreateTypes
  <2>3. \A q \in Process : memory'[q] \in {memory[q], NoEntry}
    BY <2>1 DEF CreateTypes
  <2>4. \A q \in CreateRequest : at'[q] \in {at[q], "dead"}
    BY <2>1
  <2>5. \A q \in CreateRequest :
          /\ at'[q] \in {"check", "insert"} => tx[q] = "landed"
          /\ at'[q] \in BeforeSend => tx[q] = "none"
    BY <2>4 DEF CreateInv, BeforeSend
  <2> QED
    BY <2>1, <2>2, <2>3, <2>5, QuietStep
<1>4. CASE UNCHANGED apiVars
  <2>1. UNCHANGED <<redis, stored, locked, tail, memory, inFlight, at, request, rows, answer, tx, landed>>
    BY <1>4 DEF apiVars, redisVars, processVars, chainVars
  <2>2. CreateTypes'
    BY <2>1 DEF CreateTypes
  <2> QED
    BY <2>1, <2>2, QuietStep DEF CreateInv
<1>5. CASE StoredExpires
  <2>1. /\ UNCHANGED <<redis, locked, tail, memory, inFlight, at, request, rows, answer, tx, landed>>
        /\ stored' = NoEntry
    BY <1>5 DEF StoredExpires, processVars, chainVars
  <2>2. CreateTypes'
    BY <2>1 DEF CreateTypes
  <2>3. CreateInv'
    BY <2>1 DEF CreateInv, Good
  <2> QED
    BY <2>2, <2>3
<1>6. ASSUME NEW p \in Process, MemoryExpires(p) PROVE CreateTypes' /\ CreateInv'
  <2>1. UNCHANGED <<redis, stored, locked, tail, memory, inFlight, at, request, rows, answer, tx, landed>>
    BY <1>6 DEF MemoryExpires, redisVars, chainVars
  <2>2. CreateTypes'
    BY <2>1 DEF CreateTypes
  <2> QED
    BY <2>1, <2>2, QuietStep DEF CreateInv
<1> QED
  BY <1>1, <1>2, <1>3, <1>4, <1>5, <1>6

LEMMA CreateStep ==
  ASSUME CreateTypes, CreateInv, [ApiNext]_apiVars
  PROVE  CreateTypes' /\ CreateInv'
<1>1. ASSUME NEW r \in CreateRequest, Step(r) \/ FinalCalls(r) \/ Land(r) PROVE CreateTypes' /\ CreateInv'
  BY <1>1, HandlerKeeps, FinalKeeps, LandKeeps
<1> QED
  BY <1>1, EnvironmentKeeps DEF ApiNext

\* Every 201 that POST /api/invoices ever answers, whatever the requests, processes,
\* Redis failures and crashes, names an invoice that is on chain, has its row, and was
\* created for the body of the request that is answered (routes/invoices.ts,
\* middleware/idempotency.ts): the entries from which the middleware answers again are
\* only ever written after the row, with the fingerprint of the request that created it.
THEOREM AnswersAreCreated == ApiSpec => []CreatedAsAsked
<1>1. ApiInit => CreateTypes /\ CreateInv
  BY CreateInit DEF CreateAllInv
<1>2. CreateTypes /\ CreateInv /\ [ApiNext]_apiVars => (CreateTypes /\ CreateInv)'
  BY CreateStep
<1>3. CreateTypes /\ CreateInv => CreatedAsAsked
  BY DEF CreateInv, CreatedAsAsked, Good
<1> QED
  BY <1>1, <1>2, <1>3, PTL DEF ApiSpec

\* A request that a step leaves alone stays protected.
LEMMA OthersProtected ==
  ASSUME NEW q \in CreateRequest, Protected(q), request' = request,
         redis' = redis, locked' = locked, stored' = stored,
         at'[q] = at[q], tx'[q] = tx[q], answer'[q] = answer[q], q \in tail' <=> q \in tail
  PROVE  Protected(q)'
BY DEF Protected, Holds, InHandler

\* The middleware's own steps, up to the lock: the request sent nothing yet.
LEMMA QueueProtected ==
  ASSUME CreateTypes, CreateInv, \A q \in CreateRequest : Protected(q), NEW r \in CreateRequest,
         at[r] \in BeforeSend, NEW to, at' = [at EXCEPT ![r] = to],
         to \in {"load", "wait", "lock", "owner", "done"} \/ (to = "auth" /\ ~request[r].keyed),
         \A q \in CreateRequest : q # r => answer'[q] = answer[q],
         UNCHANGED <<redis, stored, locked, tail, request, tx>>
  PROVE  \A q \in CreateRequest : Protected(q)'
<1>1. tx[r] = "none" /\ at[r] # "done"
  BY DEF CreateInv, BeforeSend
<1>2. at'[r] = to /\ \A q \in CreateRequest : q # r => at'[q] = at[q]
  BY DEF CreateTypes
<1>3. r \notin tail
  BY <1>1 DEF Protected
<1>4. Protected(r)'
  BY <1>1, <1>2, <1>3 DEF Protected, InHandler
<1>5. \A q \in CreateRequest : q # r => Protected(q)'
  BY <1>2, OthersProtected
<1> QED
  BY <1>4, <1>5

\* An answer of the middleware changes that request only.
LEMMA ReplyAlone ==
  ASSUME CreateTypes, NEW r \in CreateRequest, NEW code, NEW id, Reply(r, code, id)
  PROVE  /\ at' = [at EXCEPT ![r] = "done"]
         /\ \A q \in CreateRequest : q # r => answer'[q] = answer[q]
         /\ answer'[r].code = code
BY DEF Reply, CreateTypes

LEMMA ReplayAlone ==
  ASSUME CreateTypes, NEW r \in CreateRequest, NEW entry, Replay(r, entry)
  PROVE  /\ at' = [at EXCEPT ![r] = "done"]
         /\ \A q \in CreateRequest : q # r => answer'[q] = answer[q]
BY ReplyAlone DEF Replay

LEMMA MiddlewareProtected ==
  ASSUME CreateTypes, CreateInv, \A q \in CreateRequest : Protected(q), NEW r \in CreateRequest,
         Arrive(r) \/ Load(r) \/ Wake(r) \/ LockTaken(r) \/ AfterOwner(r)
  PROVE  \A q \in CreateRequest : Protected(q)'
<1>1. at[r] \in BeforeSend /\ UNCHANGED <<redis, stored, locked, tail, request, tx>>
  BY DEF Arrive, Load, Wake, LockTaken, AfterOwner, BeforeSend, redisVars, chainVars
<1>2. \E to : /\ at' = [at EXCEPT ![r] = to]
              /\ to \in {"load", "wait", "lock", "owner", "done"} \/ (to = "auth" /\ ~request[r].keyed)
              /\ \A q \in CreateRequest : q # r => answer'[q] = answer[q]
  <2>1. CASE Arrive(r)
    BY <2>1, ReplayAlone DEF Arrive
  <2>2. CASE Load(r)
    <3>1. \/ \E seen : Replay(r, seen)
          \/ UNCHANGED answer /\ \E to \in {"lock", "wait"} : at' = [at EXCEPT ![r] = to]
      BY <2>2 DEF Load
    <3> QED
      BY <3>1, ReplayAlone
  <2>3. CASE Wake(r)
    BY <2>3, ReplayAlone DEF Wake
  <2>4. CASE LockTaken(r)
    BY <2>4 DEF LockTaken
  <2>5. CASE AfterOwner(r)
    BY <2>5, ReplayAlone, ReplyAlone DEF AfterOwner
  <2> QED
    BY <2>1, <2>2, <2>3, <2>4, <2>5
<1> QED
  BY <1>1, <1>2, QueueProtected

\* Taking the lock, with neither a fault nor an answer in between: nobody else is
\* protected by it.
LEMMA TakeLockProtected ==
  ASSUME CreateTypes, CreateInv, \A q \in CreateRequest : Protected(q), NEW r \in CreateRequest,
         TakeLock(r), lapses' = {}
  PROVE  \A q \in CreateRequest : Protected(q)'
<1>1. /\ redis /\ locked = NoRequest /\ locked' = r /\ stored = NoEntry /\ stored' = stored
      /\ redis' = redis /\ tail' = tail /\ request' = request /\ tx' = tx /\ answer' = answer
      /\ at[r] = "lock" /\ at' = [at EXCEPT ![r] = "auth"]
  BY DEF TakeLock, chainVars
<1>2. \A q \in CreateRequest : ~Holds(q)
  BY <1>1, InvoiceApiAssumption DEF Holds
<1>3. tx[r] = "none"
  BY <1>1 DEF CreateInv, BeforeSend
<1>4. at'[r] = "auth" /\ \A q \in CreateRequest : q # r => at'[q] = at[q]
  BY <1>1 DEF CreateTypes
<1>5. tail = {}
  BY <1>2 DEF Protected, CreateTypes
<1>6. Protected(r)'
  BY <1>1, <1>3, <1>4, <1>5 DEF Protected, Holds
<1>7. ASSUME NEW q \in CreateRequest, q # r PROVE Protected(q)'
  <2>1. request[q].keyed => ~InHandler(q) /\ tx[q] \notin {"sent", "landed"}
    BY <1>1, <1>2, <1>5 DEF Protected, InHandler
  <2> QED
    BY <1>1, <1>4, <1>5, <1>7, <2>1 DEF Protected, InHandler
<1> QED
  BY <1>6, <1>7

\* Moving on in the handler.
LEMMA AdvanceProtected ==
  ASSUME CreateTypes, CreateInv, \A q \in CreateRequest : Protected(q), NEW r \in CreateRequest,
         NEW from, NEW to, Advance(r, from, to),
         from \in {"auth", "audit", "account", "simulate", "send", "poll", "check"},
         to \in {"audit", "account", "simulate", "send", "poll", "check", "insert"},
         to \in {"audit", "account", "simulate", "send"} => from \in BeforeSend /\ tx' = tx,
         \A q \in CreateRequest : q # r => tx'[q] = tx[q]
  PROVE  \A q \in CreateRequest : Protected(q)'
<1>1. /\ at[r] = from /\ at' = [at EXCEPT ![r] = to]
      /\ UNCHANGED <<redis, stored, locked, tail, request, answer>>
  BY DEF Advance, redisVars
<1>2. at'[r] = to /\ \A q \in CreateRequest : q # r => at'[q] = at[q]
  BY <1>1 DEF CreateTypes
<1>3. InHandler(r) /\ r \notin tail
  BY <1>1 DEF InHandler, Protected
<1>4. to \in {"audit", "account", "simulate", "send"} => tx'[r] = "none"
  BY <1>1 DEF CreateInv
<1>5. Protected(r)'
  BY <1>1, <1>2, <1>3, <1>4 DEF Protected, Holds
<1>6. \A q \in CreateRequest : q # r => Protected(q)'
  BY <1>1, <1>2, OthersProtected
<1> QED
  BY <1>5, <1>6

\* An answer of the handler: the lock stays until the final calls arrive.
LEMMA WrappedProtected ==
  ASSUME CreateTypes, CreateInv, \A q \in CreateRequest : Protected(q), NEW r \in CreateRequest,
         NEW code, NEW id, WrappedReply(r, code, id), InHandler(r),
         code = 201 \/ tx[r] \notin {"sent", "landed"},
         UNCHANGED <<redis, stored, locked, request, tx>>
  PROVE  \A q \in CreateRequest : Protected(q)'
<1>1. Reply(r, code, id)
  BY DEF WrappedReply
<1>2. at'[r] = "done" /\ answer'[r].code = code
      /\ \A q \in CreateRequest : q # r => at'[q] = at[q] /\ answer'[q] = answer[q]
  BY <1>1, ReplyAlone DEF CreateTypes
<1>3. tail' = IF request[r].keyed /\ redis THEN tail \cup {r} ELSE tail
  BY DEF WrappedReply, CreateTypes
<1>4. r \notin tail /\ (request[r].keyed => Holds(r))
  BY DEF Protected, InHandler
<1>5. Protected(r)'
  BY <1>2, <1>3, <1>4 DEF Protected, InHandler, Holds
<1>6. \A q \in CreateRequest : q # r => Protected(q)'
  BY <1>2, <1>3, OthersProtected
<1> QED
  BY <1>5, <1>6

\* A step of a request that lapses nothing keeps all requests protected.
LEMMA StepProtected ==
  ASSUME CreateTypes, CreateInv, \A q \in CreateRequest : Protected(q), NEW r \in CreateRequest,
         Step(r), lapses' = {}
  PROVE  \A q \in CreateRequest : Protected(q)'
<1>1. CASE Arrive(r) \/ Load(r) \/ Wake(r) \/ LockTaken(r) \/ AfterOwner(r)
  BY <1>1, MiddlewareProtected
<1>2. CASE TakeLock(r)
  BY <1>2, TakeLockProtected
<1>3. CASE Authorised(r) \/ NotBlocked(r) \/ GetAccount(r) \/ Simulate(r)
  <2>1. tx' = tx
    BY <1>3 DEF Authorised, NotBlocked, GetAccount, Simulate, chainVars
  <2>2. \/ Advance(r, "auth", "audit") \/ Advance(r, "audit", "account")
        \/ Advance(r, "account", "simulate") \/ Advance(r, "simulate", "send")
    BY <1>3 DEF Authorised, NotBlocked, GetAccount, Simulate
  <2> QED
    BY <2>1, <2>2, AdvanceProtected DEF BeforeSend
<1>4. CASE Send(r)
  <2>1. Advance(r, "send", "poll") /\ \A q \in CreateRequest : q # r => tx'[q] = tx[q]
    BY <1>4 DEF Send, CreateTypes
  <2> QED
    BY <2>1, AdvanceProtected
<1>5. CASE Confirmed(r) \/ NoDuplicate(r)
  <2>1. tx' = tx
    BY <1>5 DEF Confirmed, NoDuplicate, chainVars
  <2>2. Advance(r, "poll", "check") \/ Advance(r, "check", "insert")
    BY <1>5 DEF Confirmed, NoDuplicate
  <2> QED
    BY <2>1, <2>2, AdvanceProtected
<1>6. CASE PollFailed(r) \/ Invalid(r) \/ Blocked(r) \/ Refused(r)
  <2>1. InHandler(r) /\ tx[r] \notin {"sent", "landed"}
    BY <1>6 DEF PollFailed, Invalid, Blocked, Refused, InHandler, CreateInv, BeforeSend
  <2>2. Fail(r, 401) \/ Fail(r, 403) \/ Fail(r, 422)
    BY <1>6 DEF PollFailed, Invalid, Blocked, Refused
  <2>3. \E code : WrappedReply(r, code, 0)
    BY <2>2 DEF Fail
  <2>4. UNCHANGED <<redis, stored, locked, request, tx>>
    BY <2>2 DEF Fail, chainVars
  <2> QED
    BY <2>1, <2>3, <2>4, WrappedProtected
<1>7. CASE Timeout(r) \/ Duplicate(r) \/ MongoFails(r)
  BY <1>7 DEF Timeout, Duplicate, MongoFails
<1>8. CASE Insert(r)
  <2>1. InHandler(r) /\ WrappedReply(r, 201, IdOf(r)) /\ UNCHANGED <<redis, stored, locked, request, tx>>
    BY <1>8 DEF Insert, InHandler, chainVars
  <2> QED
    BY <2>1, WrappedProtected
<1> QED
  BY <1>1, <1>2, <1>3, <1>4, <1>5, <1>6, <1>7, <1>8 DEF Step

\* The final calls of the lock's owner: whoever it protected has its entry in Redis.
LEMMA FinalProtected ==
  ASSUME CreateTypes, CreateInv, \A q \in CreateRequest : Protected(q), NEW r \in CreateRequest,
         FinalCalls(r), lapses' = {}
  PROVE  \A q \in CreateRequest : Protected(q)'
<1>1. /\ r \in tail /\ tail' = tail \ {r} /\ locked' = NoRequest
      /\ stored' = IF answer[r].code = 201
                     THEN [body |-> request[r].body, id |-> answer[r].id] ELSE stored
      /\ UNCHANGED <<redis, at, request, tx, answer>>
  BY DEF FinalCalls, chainVars
<1>2. Holds(r) /\ at[r] = "done"
  BY <1>1 DEF Protected
<1>3. answer[r].code = 201 => stored' # NoEntry
  <2>1. request[r].body \in Body /\ answer[r].id \in Nat
    BY DEF CreateTypes
  <2>2. [body |-> request[r].body, id |-> answer[r].id] \in [body : Body, id : Nat]
    BY <2>1
  <2> QED
    BY <1>1, <2>2, InvoiceApiAssumption
<1>4. \A q \in CreateRequest : Holds(q) => q = r
  BY <1>2 DEF Holds
<1>5. tail' = {} /\ \A q \in CreateRequest : request[q].keyed => ~InHandler(q)
  BY <1>1, <1>2, <1>4 DEF Protected, CreateTypes, InHandler
<1> SUFFICES ASSUME NEW q \in CreateRequest PROVE Protected(q)'
  OBVIOUS
<1>6. request[q].keyed /\ tx[q] \in {"sent", "landed"} =>
        at[q] = "done" /\ answer[q].code = 201 /\ stored' # NoEntry
  <2> SUFFICES ASSUME request[q].keyed, tx[q] \in {"sent", "landed"}
               PROVE  at[q] = "done" /\ answer[q].code = 201 /\ stored' # NoEntry
    OBVIOUS
  <2>1. at[q] \notin {"poll", "check", "insert"}
    BY <1>5 DEF InHandler
  <2>2. at[q] = "done" /\ answer[q].code = 201 /\ (q \in tail \/ stored # NoEntry)
    BY <2>1 DEF Protected
  <2>3. q \in tail => q = r
    BY <1>4 DEF Protected
  <2>4. stored = NoEntry
    BY <1>2 DEF Holds
  <2> QED
    BY <1>3, <2>2, <2>3, <2>4
<1> QED
  BY <1>1, <1>5, <1>6 DEF Protected, InHandler

\* The chain, the lock's time and the crashes that lapse nothing.
LEMMA EnvironmentProtected ==
  ASSUME CreateTypes, CreateInv, \A q \in CreateRequest : Protected(q), lapses' = {},
         \/ \E r \in CreateRequest : Land(r) \/ Drop(r)
         \/ LockExpires \/ StoredExpires
         \/ \E p \in Process : MemoryExpires(p) \/ Crash(p)
         \/ UNCHANGED apiVars
  PROVE  \A q \in CreateRequest : Protected(q)'
<1> SUFFICES ASSUME NEW q \in CreateRequest PROVE Protected(q)'
  OBVIOUS
<1>1. ASSUME NEW r \in CreateRequest, Land(r) \/ Drop(r) PROVE Protected(q)'
  <2>1. UNCHANGED <<redis, stored, locked, tail, at, request, answer>>
    BY <1>1 DEF Land, Drop, redisVars
  <2>2. tx'[q] \in {"sent", "landed"} => tx[q] \in {"sent", "landed"}
    BY <1>1 DEF Land, Drop, CreateTypes
  <2> QED
    BY <2>1, <2>2 DEF Protected, Holds, InHandler
<1>2. CASE LockExpires
  <2>1. /\ locked # NoRequest /\ locked' = NoRequest /\ ~Running(locked) /\ locked \notin tail
        /\ UNCHANGED <<redis, stored, tail, at, request, answer, tx>>
    BY <1>2 DEF LockExpires, chainVars
  <2>2. request[q].keyed => ~InHandler(q)
    BY <2>1 DEF Protected, Holds, InHandler, Running
  <2>3. q \notin tail
    BY <2>1 DEF Protected, Holds
  <2> QED
    BY <2>1, <2>2, <2>3 DEF Protected, InHandler
<1>3. ASSUME NEW p \in Process, Crash(p) PROVE Protected(q)'
  <2>1. /\ \A r \in CreateRequest : Proc(r) = p => r \notin tail /\ ~(Running(r) /\ tx[r] # "none")
        /\ at' = [r \in CreateRequest |-> IF Proc(r) = p /\ Running(r) THEN "dead" ELSE at[r]]
        /\ tail' = {r \in tail : Proc(r) # p}
        /\ UNCHANGED <<redis, stored, locked, request, answer, tx>>
    BY <1>3 DEF Crash, chainVars
  <2>2. q \in tail' <=> q \in tail
    BY <2>1
  <2>3. at'[q] = at[q] \/ (at'[q] = "dead" /\ tx[q] = "none" /\ q \notin tail)
    BY <2>1
  <2> QED
    BY <2>1, <2>2, <2>3, OthersProtected DEF Protected, InHandler
<1>4. CASE UNCHANGED apiVars
  BY <1>4, OthersProtected DEF apiVars, redisVars, chainVars
<1>5. ASSUME NEW p \in Process, MemoryExpires(p) PROVE Protected(q)'
  BY <1>5, OthersProtected DEF MemoryExpires, redisVars, chainVars
<1>6. ~StoredExpires
  BY DEF StoredExpires
<1> QED
  BY <1>1, <1>2, <1>3, <1>4, <1>5, <1>6

\* A lapse is never forgotten.
LEMMA LapsesStay == ASSUME [ApiNext]_apiVars PROVE lapses \subseteq lapses'
<1>1. ASSUME NEW r \in CreateRequest, Step(r) PROVE lapses \subseteq lapses'
  <2>1. CASE \/ Arrive(r) \/ Load(r) \/ Wake(r) \/ TakeLock(r) \/ LockTaken(r) \/ AfterOwner(r)
             \/ Timeout(r) \/ Duplicate(r) \/ MongoFails(r)
    BY <2>1 DEF Arrive, Load, Wake, TakeLock, LockTaken, AfterOwner, Timeout, Duplicate, MongoFails
  <2>2. CASE \/ Authorised(r) \/ NotBlocked(r) \/ GetAccount(r) \/ Simulate(r) \/ Send(r)
             \/ Confirmed(r) \/ NoDuplicate(r)
    BY <2>2 DEF Authorised, NotBlocked, GetAccount, Simulate, Send, Confirmed, NoDuplicate, Advance
  <2>3. CASE PollFailed(r) \/ Invalid(r) \/ Blocked(r) \/ Refused(r) \/ Insert(r)
    BY <2>3 DEF PollFailed, Invalid, Blocked, Refused, Insert
  <2> QED
    BY <1>1, <2>1, <2>2, <2>3 DEF Step
<1>2. ASSUME NEW r \in CreateRequest, FinalCalls(r) \/ Land(r) \/ Drop(r) PROVE lapses \subseteq lapses'
  BY <1>2 DEF FinalCalls, Land, Drop
<1>3. ASSUME NEW p \in Process, MemoryExpires(p) \/ Crash(p) PROVE lapses \subseteq lapses'
  BY <1>3 DEF MemoryExpires, Crash
<1> QED
  BY <1>1, <1>2, <1>3 DEF ApiNext, LockExpires, StoredExpires, apiVars

\* Only sending a transaction makes a request one that may create an invoice.
LEMMA CreatingMoves ==
  ASSUME CreateTypes, [ApiNext]_apiVars, NEW q \in CreateRequest, Creating(q)'
  PROVE  Creating(q) \/ Send(q)
<1>1. ASSUME NEW r \in CreateRequest, Step(r), ~Send(r) PROVE request' = request /\ tx' = tx
  <2>1. CASE Arrive(r) \/ Load(r) \/ Wake(r) \/ TakeLock(r) \/ LockTaken(r) \/ AfterOwner(r)
    BY <2>1 DEF Arrive, Load, Wake, TakeLock, LockTaken, AfterOwner, chainVars
  <2>2. CASE \/ Authorised(r) \/ NotBlocked(r) \/ GetAccount(r) \/ Simulate(r)
             \/ Confirmed(r) \/ NoDuplicate(r)
    BY <2>2 DEF Authorised, NotBlocked, GetAccount, Simulate, Confirmed, NoDuplicate, Advance, chainVars
  <2>3. CASE \/ PollFailed(r) \/ Timeout(r) \/ Invalid(r) \/ Blocked(r) \/ Refused(r) \/ Duplicate(r)
             \/ MongoFails(r) \/ Insert(r)
    BY <2>3 DEF PollFailed, Timeout, Invalid, Blocked, Refused, Duplicate, MongoFails, Insert, Fail,
                chainVars
  <2> QED
    BY <1>1, <2>1, <2>2, <2>3 DEF Step
<1>2. ASSUME NEW r \in CreateRequest, Send(r) PROVE Creating(q) \/ Send(q)
  BY <1>2 DEF Send, Advance, CreateTypes, Creating
<1>3. ASSUME NEW r \in CreateRequest, FinalCalls(r) PROVE request' = request /\ tx' = tx
  BY <1>3 DEF FinalCalls, chainVars
<1>4. ASSUME NEW r \in CreateRequest, Land(r) \/ Drop(r) PROVE Creating(q)
  BY <1>4 DEF Land, Drop, CreateTypes, Creating
<1>5. ASSUME \/ LockExpires \/ StoredExpires \/ UNCHANGED apiVars
             \/ \E p \in Process : MemoryExpires(p) \/ Crash(p)
      PROVE  request' = request /\ tx' = tx
  BY <1>5 DEF LockExpires, StoredExpires, MemoryExpires, Crash, apiVars, chainVars
<1>6. request' = request /\ tx' = tx => Creating(q)
  BY DEF Creating
<1> QED
  BY <1>1, <1>2, <1>3, <1>4, <1>5, <1>6 DEF ApiNext

\* Who sends holds the lock, and then nobody else may create.
LEMMA SenderAlone ==
  ASSUME \A q \in CreateRequest : Protected(q), NEW r \in CreateRequest, Send(r), request[r].keyed,
         NEW q \in CreateRequest, Creating(q)
  PROVE  q = r
<1>1. Holds(r)
  BY DEF Send, Advance, Protected, InHandler
<1>2. Holds(q)
  BY <1>1 DEF Protected, Creating, InHandler, Holds
<1> QED
  BY <1>1, <1>2 DEF Holds

LEMMA LockStep ==
  ASSUME CreateTypes, CreateInv, LockInv, [ApiNext]_apiVars
  PROVE  LockInv'
<1> SUFFICES ASSUME lapses' = {}
             PROVE  /\ \A q \in CreateRequest : Protected(q)'
                    /\ \A q, r \in CreateRequest : Creating(q)' /\ Creating(r)' => q = r
  BY DEF LockInv
<1>1. /\ \A q \in CreateRequest : Protected(q)
      /\ \A q, r \in CreateRequest : Creating(q) /\ Creating(r) => q = r
  BY LapsesStay DEF LockInv
<1>2. \A q \in CreateRequest : Protected(q)'
  <2>1. ASSUME NEW r \in CreateRequest, Step(r) PROVE \A q \in CreateRequest : Protected(q)'
    BY <1>1, <2>1, StepProtected
  <2>2. ASSUME NEW r \in CreateRequest, FinalCalls(r) PROVE \A q \in CreateRequest : Protected(q)'
    BY <1>1, <2>2, FinalProtected
  <2> QED
    BY <1>1, <2>1, <2>2, EnvironmentProtected DEF ApiNext
<1>3. ASSUME NEW q \in CreateRequest, NEW r \in CreateRequest, Creating(q)', Creating(r)'
      PROVE  q = r
  <2>1. (Creating(q) \/ Send(q)) /\ (Creating(r) \/ Send(r))
    BY <1>3, CreatingMoves
  <2>2. Send(q) => request[q].keyed
    BY <1>3 DEF Send, Advance, Creating
  <2>3. Send(r) => request[r].keyed
    BY <1>3 DEF Send, Advance, Creating
  <2>4. CASE Send(q) /\ Send(r)
    <3>1. Holds(q) /\ Holds(r)
      BY <1>1, <2>2, <2>3, <2>4 DEF Protected, Send, Advance, InHandler
    <3> QED
      BY <3>1 DEF Holds
  <2> QED
    BY <1>1, <2>1, <2>2, <2>3, <2>4, SenderAlone
<1> QED
  BY <1>2, <1>3

\* The ids of the key's invoices, at most one of them while nothing lapsed.
LEMMA OneLanded ==
  ASSUME CreateTypes, CreateInv, LockInv
  PROVE  OncePerKey
<1> SUFFICES ASSUME lapses = {}
             PROVE  Cardinality({i \in DOMAIN landed : request[landed[i]].keyed}) <= 1
  BY DEF OncePerKey
<1> DEFINE Keyed == {i \in DOMAIN landed : request[landed[i]].keyed}
<1>1. ASSUME NEW i \in Keyed, NEW j \in Keyed PROVE i = j
  <2>1. landed[i] \in CreateRequest /\ landed[j] \in CreateRequest
    BY DEF CreateTypes
  <2>2. Creating(landed[i]) /\ Creating(landed[j])
    BY DEF CreateInv, Creating
  <2>3. landed[i] = landed[j]
    BY <2>1, <2>2 DEF LockInv
  <2> QED
    BY <2>3 DEF CreateInv
<1>2. Keyed = {} \/ \E i : Keyed = {i}
  BY <1>1
<1> HIDE DEF Keyed
<1>3. Cardinality(Keyed) \in {0, 1}
  BY <1>2, FS_EmptySet, FS_Singleton, Zenon
<1>4. Cardinality(Keyed) <= 1
  BY <1>3
<1> QED
  BY <1>4 DEF Keyed

\* One Idempotency-Key, one invoice, for every number of requests and processes: as
\* long as none of the listed lapses happens, the requests of the key land at most one
\* create_invoice between them (middleware/idempotency.ts).  The lock is what carries
\* the argument: a request sends its transaction only while it holds the lock and Redis
\* has no entry, and it lets go of the lock only by storing its answer, which stays
\* there until its 24 hours are over - one of the lapses.
THEOREM KeyCreatesOnce == ApiSpec => []OncePerKey
<1>1. ApiInit => CreateAllInv
  BY CreateInit
<1>2. CreateAllInv /\ [ApiNext]_apiVars => CreateAllInv'
  BY CreateStep, LockStep DEF CreateAllInv
<1>3. CreateAllInv => OncePerKey
  BY OneLanded DEF CreateAllInv
<1> QED
  BY <1>1, <1>2, <1>3, PTL DEF ApiSpec

-----------------------------------------------------------------------------
(* The pages of GET /api/invoices (InvoicePages).                          *)

Row == {i \in RowId : created[i] > 0}
Page == [data : SUBSET RowId, matching : SUBSET (RowId \cup {First}), next : RowId \cup {NoMore}]
Cursor == RowId \cup {First}

After(c, i) == c = First \/ Newer(c, i)

PagesTypes ==
  /\ created \in [RowId -> Nat] /\ IsFiniteSet(Row)
  /\ pageCache \in [Cursor -> Page]
  /\ walk \in [at : {"asking", "done"}, cursor : Cursor, pages : Seq(Page)]

\* What a page read for a cursor says, for as long as somebody keeps it: its rows are
\* past the cursor and not past its next_cursor, and every row that matched when it was
\* read and is past the cursor is on it or past its next_cursor.
PageOf(c, p) ==
  /\ c \in Row \cup {First} /\ p.matching \subseteq Row /\ p.data \subseteq p.matching
  /\ \A i \in p.data : After(c, i)
  /\ p.next = NoMore => \A i \in p.matching : After(c, i) => i \in p.data
  /\ p.next # NoMore =>
       /\ p.next \in p.data /\ \A i \in p.data : i = p.next \/ Newer(i, p.next)
       /\ \A i \in p.matching : After(c, i) => i \in p.data \/ Newer(p.next, i)

\* The cached pages are pages of their cursors, however old.
PageCacheInv == \A c \in Cursor : pageCache[c] # NoPage => PageOf(c, pageCache[c])

\* The walk: nothing listed so far is past the cursor it asks for next, nothing is
\* listed twice, and a row that always matched is listed or still past the cursor.
WalkInv ==
  LET pages == walk.pages IN
    /\ walk.cursor \in Row \cup {First} /\ (pages = << >> => walk.cursor = First)
    /\ \A k \in DOMAIN pages : pages[k].data \subseteq Row /\ pages[k].matching \subseteq Row
    /\ pages # << >> /\ walk.at = "asking" =>
         /\ walk.cursor # First
         /\ \A k \in DOMAIN pages : \A i \in pages[k].data : i = walk.cursor \/ Newer(i, walk.cursor)
    /\ \A k, l \in DOMAIN pages : k # l => pages[k].data \cap pages[l].data = {}
    /\ \A i \in RowId : (\A k \in DOMAIN pages : i \in pages[k].matching) =>
         \/ \E k \in DOMAIN pages : i \in pages[k].data
         \/ walk.at = "asking" /\ After(walk.cursor, i)

PagesInv == PagesTypes /\ PageCacheInv /\ WalkInv

\* A finite set that a relation orders strictly and totally has a first element.
LEMMA FirstInOrder ==
  ASSUME NEW S, IsFiniteSet(S), S # {}, NEW R \in SUBSET (S \X S),
         \A i \in S : <<i, i>> \notin R,
         \A i, j \in S : i = j \/ <<i, j>> \in R \/ <<j, i>> \in R,
         \A i, j, k \in S : <<i, j>> \in R /\ <<j, k>> \in R => <<i, k>> \in R
  PROVE  \E m \in S : \A j \in S : j = m \/ <<m, j>> \in R
<1> DEFINE Ahead(e) == {d \in S : <<d, e>> \in R}
           T == {Ahead(e) : e \in S}
<1>1. FiniteSubsetsOf(S) = SUBSET S
  BY FS_FiniteSubsetsOfFinite, Zenon
<1>2. T \subseteq FiniteSubsetsOf(S) /\ T # {}
  <2>1. \A e \in S : Ahead(e) \in SUBSET S
    OBVIOUS
  <2> HIDE DEF Ahead
  <2>2. PICK e \in S : TRUE
    OBVIOUS
  <2>3. Ahead(e) \in T
    BY <2>2, Zenon
  <2>4. ASSUME NEW x \in T PROVE x \in SUBSET S
    <3>1. PICK d \in S : x = Ahead(d)
      OBVIOUS
    <3> QED
      BY <2>1, <3>1
  <2> QED
    BY <1>1, <2>3, <2>4
<1>3. PICK x \in T : \A y \in T : ~(<<y, x>> \in StrictSubsetOrdering(S))
  <2> HIDE DEF T
  <2> QED
    BY <1>2, WFMin, FS_StrictSubsetOrderingWellFounded
<1>4. PICK m \in S : x = Ahead(m)
  BY <1>3
<1>5. ASSUME NEW d \in S, <<d, m>> \in R PROVE FALSE
  <2>1. Ahead(d) \subseteq Ahead(m) /\ d \in Ahead(m) /\ d \notin Ahead(d)
    BY <1>5
  <2>2. Ahead(d) # Ahead(m) /\ Ahead(d) \in T
    BY <2>1
  <2>3. Ahead(d) \in SUBSET S /\ Ahead(m) \in SUBSET S
    OBVIOUS
  <2>4. <<Ahead(d), Ahead(m)>> \in StrictSubsetOrdering(S)
    <3> HIDE DEF Ahead
    <3> QED
      BY <2>1, <2>2, <2>3 DEF StrictSubsetOrdering
  <2> QED
    BY <1>3, <1>4, <2>2, <2>4
<1> QED
  BY <1>5

\* The sort order of the list is strict and total: no two rows tie.
LEMMA NewerOrder ==
  ASSUME created \in [RowId -> Nat], NEW i \in RowId, NEW j \in RowId, NEW k \in RowId
  PROVE  /\ ~Newer(i, i)
         /\ i = j \/ Newer(i, j) \/ Newer(j, i)
         /\ Newer(i, j) /\ Newer(j, k) => Newer(i, k)
<1>1. i \in Nat /\ j \in Nat /\ k \in Nat /\ created[i] \in Nat /\ created[j] \in Nat /\ created[k] \in Nat
  BY InvoicePagesAssumption
<1> QED
  BY <1>1 DEF Newer

\* The newest and the oldest of some rows.
LEMMA EndsOfRows ==
  ASSUME created \in [RowId -> Nat], NEW S \in SUBSET RowId, IsFiniteSet(S), S # {}
  PROVE  /\ \E m \in S : \A j \in S : j = m \/ Newer(m, j)
         /\ \E m \in S : \A j \in S : j = m \/ Newer(j, m)
<1>1. \E m \in S : \A j \in S : j = m \/ Newer(m, j)
  <2> DEFINE R == {e \in S \X S : Newer(e[1], e[2])}
  <2>1. \A i, j \in S : <<i, j>> \in R <=> Newer(i, j)
    OBVIOUS
  <2>2. R \in SUBSET (S \X S)
    OBVIOUS
  <2> HIDE DEF R
  <2>3. /\ \A i \in S : <<i, i>> \notin R
        /\ \A i, j \in S : i = j \/ <<i, j>> \in R \/ <<j, i>> \in R
        /\ \A i, j, k \in S : <<i, j>> \in R /\ <<j, k>> \in R => <<i, k>> \in R
    BY <2>1, NewerOrder
  <2>4. \E m \in S : \A j \in S : j = m \/ <<m, j>> \in R
    BY <2>2, <2>3, FirstInOrder
  <2> QED
    BY <2>1, <2>4
<1>2. \E m \in S : \A j \in S : j = m \/ Newer(j, m)
  <2> DEFINE R == {e \in S \X S : Newer(e[2], e[1])}
  <2>1. \A i, j \in S : <<i, j>> \in R <=> Newer(j, i)
    OBVIOUS
  <2>2. R \in SUBSET (S \X S)
    OBVIOUS
  <2> HIDE DEF R
  <2>3. /\ \A i \in S : <<i, i>> \notin R
        /\ \A i, j \in S : i = j \/ <<i, j>> \in R \/ <<j, i>> \in R
        /\ \A i, j, k \in S : <<i, j>> \in R /\ <<j, k>> \in R => <<i, k>> \in R
    BY <2>1, NewerOrder
  <2>4. \E m \in S : \A j \in S : j = m \/ <<m, j>> \in R
    BY <2>2, <2>3, FirstInOrder
  <2> QED
    BY <2>1, <2>4
<1> QED
  BY <1>1, <1>2

\* How many rows of S come before one.
Before(S, i) == {j \in S : Newer(j, i)}

\* Of two rows the newer has fewer before it, and none has all.
LEMMA BeforeCounts ==
  ASSUME created \in [RowId -> Nat], NEW S \in SUBSET RowId, IsFiniteSet(S), NEW i \in S
  PROVE  /\ Cardinality(Before(S, i)) \in Nat /\ Cardinality(S) \in Nat
         /\ Cardinality(Before(S, i)) < Cardinality(S)
         /\ \A j \in S : Newer(j, i) => Cardinality(Before(S, j)) <= Cardinality(Before(S, i))
<1>1. Before(S, i) \in SUBSET S /\ i \notin Before(S, i)
  BY NewerOrder DEF Before
<1>2. IsFiniteSet(Before(S, i))
  BY <1>1, FS_Subset
<1>3. Cardinality(Before(S, i)) \in Nat /\ Cardinality(S) \in Nat
  BY <1>2, FS_CardinalityType
<1>4. Cardinality(Before(S, i)) <= Cardinality(S) /\ Cardinality(Before(S, i)) # Cardinality(S)
  <2>1. Before(S, i) # S
    BY <1>1
  <2> QED
    BY <1>1, <2>1, FS_Subset
<1>5. ASSUME NEW j \in S, Newer(j, i) PROVE Cardinality(Before(S, j)) <= Cardinality(Before(S, i))
  <2>1. Before(S, j) \in SUBSET Before(S, i)
    BY <1>5, NewerOrder DEF Before
  <2> QED
    BY <1>2, <2>1, FS_Subset
<1> QED
  BY <1>3, <1>4, <1>5

\* What readPage answers is a page of its cursor.
LEMMA ReadPageIsPage ==
  ASSUME PagesTypes, NEW c \in Row \cup {First}
  PROVE  readPage(c) \in Page /\ PageOf(c, readPage(c))
<1> DEFINE F == pageFilter(c)
           D == pageData(c)
           n == encodeInvoiceCursor(D)
<1>1. created \in [RowId -> Nat] /\ IsFiniteSet(Row) /\ First = 0 /\ NoMore = 0 /\ PageSize \in Nat \ {0}
  BY InvoicePagesAssumption DEF PagesTypes, First, NoMore
<1>2. /\ F = {i \in buildListFilter : After(c, i)}
      /\ buildListFilter \subseteq Row /\ Row \subseteq RowId
  BY DEF pageFilter, After, buildListFilter, Row
<1>3. F \in SUBSET RowId /\ IsFiniteSet(F)
  BY <1>1, <1>2, FS_Subset
<1>4. D = {i \in F : Cardinality(Before(F, i)) < PageSize}
  BY DEF pageData, Before
<1>5. D \subseteq F
  BY <1>4
<1> HIDE DEF F, D
<1>6. CASE hasMore(c)
  <2>1. Cardinality(F) > PageSize
    BY <1>6 DEF hasMore, F
  <2>2. F # {}
    BY <1>1, <2>1, FS_EmptySet
  <2>3. PICK m \in F : \A j \in F : j = m \/ Newer(m, j)
    BY <1>1, <1>3, <2>2, EndsOfRows
  <2>4. Before(F, m) = {}
    BY <1>1, <1>3, <2>3, NewerOrder DEF Before
  <2>5. m \in D
    BY <1>1, <1>4, <2>4, FS_EmptySet
  <2>6. IsFiniteSet(D) /\ D \in SUBSET RowId
    BY <1>3, <1>5, FS_Subset
  <2>7. \E i \in D : \A j \in D \ {i} : Newer(j, i)
    <3>1. \E i \in D : \A j \in D : j = i \/ Newer(j, i)
      BY <1>1, <2>5, <2>6, EndsOfRows
    <3> QED
      BY <3>1
  <2>8. n \in D /\ \A j \in D \ {n} : Newer(j, n)
    BY <2>7 DEF encodeInvoiceCursor
  <2> HIDE DEF n
  <2>9. ASSUME NEW i \in F, i \notin D PROVE Newer(n, i)
    <3>1. n \in F /\ n \in RowId /\ i \in RowId /\ i # n
      BY <1>3, <1>5, <2>8, <2>9
    <3>2. ~Newer(i, n)
      <4>1. Cardinality(Before(F, n)) < PageSize /\ ~(Cardinality(Before(F, i)) < PageSize)
        BY <1>4, <2>8, <2>9, <3>1
      <4>2. /\ Cardinality(Before(F, n)) \in Nat /\ Cardinality(Before(F, i)) \in Nat
            /\ Newer(i, n) => Cardinality(Before(F, i)) <= Cardinality(Before(F, n))
        BY <1>1, <1>3, <2>9, <3>1, BeforeCounts
      <4> QED
        BY <1>1, <4>1, <4>2
    <3> QED
      BY <1>1, <3>1, <3>2, NewerOrder
  <2>10. readPage(c) = [data |-> D, matching |-> buildListFilter, next |-> n]
    BY <1>6 DEF readPage, D, n
  <2>11. n # NoMore /\ n \in RowId
    BY <1>1, <2>6, <2>8, InvoicePagesAssumption
  <2>12. PICK p : p = readPage(c) /\ p.data = D /\ p.matching = buildListFilter /\ p.next = n
    BY <2>10
  <2>13. PageOf(c, p)
    BY <1>2, <1>5, <2>8, <2>9, <2>11, <2>12 DEF PageOf
  <2>14. buildListFilter \in SUBSET (RowId \cup {First})
    BY <1>2
  <2>15. readPage(c) \in Page
    BY <2>6, <2>10, <2>11, <2>14 DEF Page
  <2> QED
    BY <2>12, <2>13, <2>15
<1>7. CASE ~hasMore(c)
  <2>1. ~(Cardinality(F) > PageSize)
    BY <1>7 DEF hasMore, F
  <2>2. ASSUME NEW i \in F PROVE i \in D
    <3>1. /\ Cardinality(Before(F, i)) \in Nat /\ Cardinality(F) \in Nat
          /\ Cardinality(Before(F, i)) < Cardinality(F)
      BY <1>1, <1>3, BeforeCounts
    <3>2. Cardinality(Before(F, i)) < PageSize
      BY <1>1, <2>1, <3>1
    <3> QED
      BY <1>4, <3>2
  <2>3. readPage(c) = [data |-> D, matching |-> buildListFilter, next |-> NoMore]
    BY <1>7 DEF readPage, D
  <2>4. PICK p : p = readPage(c) /\ p.data = D /\ p.matching = buildListFilter /\ p.next = NoMore
    BY <2>3
  <2>5. PageOf(c, p)
    BY <1>2, <1>5, <2>2, <2>4 DEF PageOf
  <2>6. buildListFilter \in SUBSET (RowId \cup {First}) /\ D \in SUBSET RowId
    BY <1>2, <1>3, <1>5
  <2>7. readPage(c) \in Page
    BY <2>3, <2>6 DEF Page
  <2> QED
    BY <2>4, <2>5, <2>7
<1> QED
  BY <1>6, <1>7

\* created_at never changes, so rows stay and stay in order, and a page stays a page of
\* its cursor.
LEMMA PageStays ==
  ASSUME \A i \in Row : created'[i] = created[i]
  PROVE  /\ Row \subseteq Row'
         /\ \A i, j \in Row : Newer(i, j)' <=> Newer(i, j)
         /\ \A c, p : PageOf(c, p) => PageOf(c, p)'
<1>1. Row \subseteq Row'
  BY DEF Row
<1>2. \A i, j \in Row : Newer(i, j)' <=> Newer(i, j)
  BY DEF Newer
<1>3. \A c \in Row \cup {First}, i \in Row : After(c, i)' <=> After(c, i)
  BY <1>2 DEF After
<1>4. ASSUME NEW c, NEW p, PageOf(c, p) PROVE PageOf(c, p)'
  <2>1. c \in Row \cup {First} /\ p.matching \subseteq Row /\ p.data \subseteq p.matching
    BY <1>4 DEF PageOf
  <2>2. p.next # NoMore => p.next \in Row
    BY <1>4 DEF PageOf
  <2>3. c \in (Row \cup {First})' /\ p.matching \subseteq Row'
    BY <1>1, <2>1
  <2> QED
    BY <1>2, <1>3, <1>4, <2>1, <2>2, <2>3 DEF PageOf
<1> QED
  BY <1>1, <1>2, <1>4

\* A page that the walk is served carries it on.
LEMMA ServedKeeps ==
  ASSUME PagesTypes, WalkInv, walk.at = "asking", NEW p \in Page, PageOf(walk.cursor, p), Served(p),
         created' = created
  PROVE  /\ walk' \in [at : {"asking", "done"}, cursor : Cursor, pages : Seq(Page)]
         /\ WalkInv'
<1> DEFINE pages == walk.pages
           c == walk.cursor
           n == Len(walk.pages) + 1
<1>1. /\ walk'.at = (IF p.next = NoMore THEN "done" ELSE "asking")
      /\ walk'.cursor = p.next /\ walk'.pages = Append(pages, p)
  BY DEF Served
<1>2. pages \in Seq(Page) /\ c \in Cursor /\ c \in Row \cup {First}
  BY DEF PagesTypes, WalkInv
<1>3. p.next \in RowId \cup {NoMore} /\ NoMore = First
  BY DEF Page, NoMore, First
<1>4. walk' \in [at : {"asking", "done"}, cursor : Cursor, pages : Seq(Page)]
  <2>1. Append(pages, p) \in Seq(Page) /\ p.next \in Cursor
    BY <1>2, <1>3 DEF Cursor
  <2> QED
    BY <2>1 DEF Served
<1>5. /\ DOMAIN walk'.pages = DOMAIN pages \cup {n} /\ n \notin DOMAIN pages
      /\ walk'.pages[n] = p /\ \A k \in DOMAIN pages : walk'.pages[k] = pages[k]
      /\ walk'.pages # << >>
  BY <1>1, <1>2
<1>6. /\ p.matching \subseteq Row /\ p.data \subseteq p.matching
      /\ \A i \in p.data : After(c, i)
      /\ p.next = NoMore => \A i \in p.matching : After(c, i) => i \in p.data
      /\ p.next # NoMore =>
           /\ p.next \in p.data /\ \A i \in p.data : i = p.next \/ Newer(i, p.next)
           /\ \A i \in p.matching : After(c, i) => i \in p.data \/ Newer(p.next, i)
  BY DEF PageOf
<1>7. /\ \A k \in DOMAIN pages : pages[k].data \subseteq Row /\ pages[k].matching \subseteq Row
      /\ pages # << >> => c # First
      /\ \A k \in DOMAIN pages : \A i \in pages[k].data : i = c \/ Newer(i, c)
      /\ \A k, l \in DOMAIN pages : k # l => pages[k].data \cap pages[l].data = {}
      /\ \A i \in RowId : (\A k \in DOMAIN pages : i \in pages[k].matching) =>
           (\E k \in DOMAIN pages : i \in pages[k].data) \/ After(c, i)
  BY <1>2 DEF WalkInv
<1>8. Row' = Row /\ Row \subseteq RowId /\ created \in [RowId -> Nat] /\ First \notin Row
  BY InvoicePagesAssumption DEF Row, PagesTypes, First
<1>9. \A i, j : Newer(i, j)' <=> Newer(i, j)
  BY DEF Newer
<1>10. \A i, j : After(j, i)' <=> After(j, i)
  BY <1>9 DEF After
<1> HIDE DEF pages, c, n
<1>11. \A k \in DOMAIN pages : pages[k].data \cap p.data = {}
  <2> SUFFICES ASSUME NEW k \in DOMAIN pages, NEW i \in pages[k].data, i \in p.data PROVE FALSE
    OBVIOUS
  <2>1. pages # << >>
    BY <1>2
  <2>2. c \in RowId /\ i \in RowId /\ Newer(c, i) /\ (i = c \/ Newer(i, c))
    BY <1>2, <1>6, <1>7, <1>8, <2>1 DEF After
  <2> QED
    BY <1>8, <2>2, NewerOrder
<1>12. p.next # NoMore =>
         \A k \in DOMAIN pages : \A i \in pages[k].data : i = p.next \/ Newer(i, p.next)
  <2> SUFFICES ASSUME p.next # NoMore, NEW k \in DOMAIN pages, NEW i \in pages[k].data
               PROVE  i = p.next \/ Newer(i, p.next)
    OBVIOUS
  <2>1. pages # << >>
    BY <1>2
  <2>2. p.next \in RowId /\ c \in RowId /\ i \in RowId /\ Newer(c, p.next) /\ (i = c \/ Newer(i, c))
    BY <1>2, <1>6, <1>7, <1>8, <2>1 DEF After
  <2> QED
    BY <1>8, <2>2, NewerOrder
<1>13. ASSUME NEW i \in RowId, \A k \in DOMAIN walk'.pages : i \in walk'.pages[k].matching
       PROVE  \/ \E k \in DOMAIN walk'.pages : i \in walk'.pages[k].data
              \/ walk'.at = "asking" /\ After(walk'.cursor, i)
  <2>1. i \in p.matching /\ \A k \in DOMAIN pages : i \in pages[k].matching
    BY <1>5, <1>13
  <2>2. (\E k \in DOMAIN pages : i \in pages[k].data) \/ After(c, i)
    BY <1>7, <2>1
  <2>3. CASE \E k \in DOMAIN pages : i \in pages[k].data
    BY <1>5, <2>3
  <2>4. CASE i \in p.data
    BY <1>5, <2>4
  <2>5. CASE After(c, i) /\ i \notin p.data
    <3>1. p.next # NoMore /\ Newer(p.next, i)
      BY <1>6, <2>1, <2>5
    <3> QED
      BY <1>1, <3>1 DEF After
  <2> QED
    BY <2>2, <2>3, <2>4, <2>5
<1>14. (walk.cursor \in Row \cup {First})'
  BY <1>1, <1>3, <1>6, <1>8
<1>15. \A k \in DOMAIN walk'.pages : walk'.pages[k].data \subseteq Row' /\ walk'.pages[k].matching \subseteq Row'
  BY <1>5, <1>6, <1>7, <1>8
<1>16. walk'.at = "asking" =>
         /\ walk'.cursor # First
         /\ \A k \in DOMAIN walk'.pages : \A i \in walk'.pages[k].data : i = walk'.cursor \/ Newer(i, walk'.cursor)
  BY <1>1, <1>3, <1>5, <1>6, <1>12
<1>17. \A k, l \in DOMAIN walk'.pages : k # l => walk'.pages[k].data \cap walk'.pages[l].data = {}
  BY <1>5, <1>7, <1>11
<1>18. WalkInv'
  BY <1>5, <1>9, <1>10, <1>13, <1>14, <1>15, <1>16, <1>17 DEF WalkInv
<1> QED
  BY <1>4, <1>18

\* No page, no row and no walk to speak of yet.
LEMMA PagesInvInit == PagesInit => PagesInv
<1> SUFFICES ASSUME PagesInit PROVE PagesInv
  OBVIOUS
<1>1. Row = {} /\ IsFiniteSet(Row)
  <2>1. Row = {}
    BY DEF PagesInit, Row
  <2> QED
    BY <2>1, FS_EmptySet
<1>2. PagesTypes
  <2>1. NoPage \in Page
    BY DEF NoPage, Page
  <2>2. << >> \in Seq(Page)
    OBVIOUS
  <2> QED
    BY <1>1, <2>1, <2>2 DEF PagesInit, PagesTypes, Cursor
<1>3. PageCacheInv
  BY DEF PagesInit, PageCacheInv, Cursor
<1>4. walk.pages = << >> /\ walk.cursor = First /\ walk.at = "asking"
  BY DEF PagesInit
<1>5. DOMAIN walk.pages = {}
  BY <1>4
<1>6. WalkInv
  BY <1>4, <1>5 DEF WalkInv, After
<1> QED
  BY <1>2, <1>3, <1>6 DEF PagesInv

\* A cached page replaced by one that was just read.
LEMMA CachedPage ==
  ASSUME PagesTypes, PageCacheInv, created' = created, NEW c \in Row \cup {First},
         pageCache' = [pageCache EXCEPT ![c] = readPage(c)]
  PROVE  pageCache' \in [Cursor -> Page] /\ PageCacheInv'
<1>1. readPage(c) \in Page /\ PageOf(c, readPage(c))
  BY ReadPageIsPage
<1>2. c \in Cursor
  BY DEF Row, Cursor
<1>3. PICK q \in Page : q = readPage(c)
  BY <1>1
<1>4. pageCache \in [Cursor -> Page] /\ pageCache' = [pageCache EXCEPT ![c] = q] /\ PageOf(c, q)
  BY <1>1, <1>3 DEF PagesTypes
<1>5. \A d, p : PageOf(d, p) => PageOf(d, p)'
  BY PageStays
<1>6. ASSUME NEW d \in Cursor, pageCache'[d] # NoPage PROVE PageOf(d, pageCache[d])'
  <2>1. PICK p : p = pageCache'[d]
    OBVIOUS
  <2>2. PageOf(d, p)
    BY <1>2, <1>4, <1>6, <2>1 DEF PageCacheInv
  <2>3. PageOf(d, p)'
    BY <1>5, <2>2
  <2> QED
    BY <2>1, <2>3 DEF PageOf
<1> QED
  BY <1>2, <1>4, <1>6 DEF PageCacheInv

\* Nothing but the rows' statuses, the clock or new rows: pages stay pages, and the walk
\* where it was.
LEMMA RowsOnly ==
  ASSUME PagesInv, \A i \in Row : created'[i] = created[i],
         created' \in [RowId -> Nat], IsFiniteSet(Row)', UNCHANGED <<pageCache, walk>>
  PROVE  PagesInv'
<1>1. /\ Row \subseteq Row'
      /\ \A i, j \in Row : Newer(i, j)' <=> Newer(i, j)
      /\ \A c, p : PageOf(c, p) => PageOf(c, p)'
  BY PageStays
<1>2. PagesTypes'
  BY DEF PagesInv, PagesTypes
<1>3. PageCacheInv'
  <2> SUFFICES ASSUME NEW c \in Cursor, pageCache'[c] # NoPage PROVE PageOf(c, pageCache[c])'
    BY DEF PageCacheInv
  <2>1. PICK p : p = pageCache[c]
    OBVIOUS
  <2>2. PageOf(c, p)'
    BY <1>1, <2>1 DEF PagesInv, PageCacheInv
  <2> QED
    BY <2>1, <2>2 DEF PageOf
<1>4. WalkInv'
  <2> DEFINE pages == walk.pages
  <2>1. /\ walk.cursor \in Row \cup {First} /\ (pages = << >> => walk.cursor = First)
        /\ \A k \in DOMAIN pages : pages[k].data \subseteq Row /\ pages[k].matching \subseteq Row
        /\ pages # << >> /\ walk.at = "asking" =>
             /\ walk.cursor # First
             /\ \A k \in DOMAIN pages : \A i \in pages[k].data : i = walk.cursor \/ Newer(i, walk.cursor)
        /\ \A k, l \in DOMAIN pages : k # l => pages[k].data \cap pages[l].data = {}
        /\ \A i \in RowId : (\A k \in DOMAIN pages : i \in pages[k].matching) =>
             \/ \E k \in DOMAIN pages : i \in pages[k].data
             \/ walk.at = "asking" /\ After(walk.cursor, i)
    BY DEF PagesInv, WalkInv
  <2>2. walk' = walk /\ pages \in Seq(Page)
    BY DEF PagesInv, PagesTypes
  <2>3. (pages # << >> /\ walk.at = "asking" =>
           \A k \in DOMAIN pages : \A i \in pages[k].data : i = walk.cursor \/ Newer(i, walk.cursor))'
    BY <1>1, <2>1, <2>2
  <2>4. ASSUME NEW i \in RowId, \A k \in DOMAIN pages : i \in pages[k].matching,
               ~\E k \in DOMAIN pages : i \in pages[k].data
        PROVE  walk.at = "asking" /\ After(walk.cursor, i)'
    <3>1. walk.at = "asking" /\ After(walk.cursor, i)
      BY <2>1, <2>4
    <3>2. CASE pages = << >>
      BY <2>1, <2>2, <3>1, <3>2 DEF After
    <3>3. CASE pages # << >>
      <4>1. i \in Row
        BY <2>1, <2>2, <2>4, <3>3
      <4> QED
        BY <1>1, <2>1, <2>2, <3>1, <4>1 DEF After
    <3> QED
      BY <3>2, <3>3
  <2>5. (walk.cursor \in Row \cup {First})'
    BY <1>1, <2>1, <2>2
  <2>6. \A k \in DOMAIN pages : pages[k].data \subseteq Row' /\ pages[k].matching \subseteq Row'
    BY <1>1, <2>1
  <2> QED
    BY <2>1, <2>2, <2>3, <2>4, <2>5, <2>6 DEF WalkInv
<1> QED
  BY <1>2, <1>3, <1>4 DEF PagesInv

LEMMA PagesInvStep == PagesInv /\ [PagesNext]_pageVars => PagesInv'
<1> SUFFICES ASSUME PagesInv, [PagesNext]_pageVars PROVE PagesInv'
  OBVIOUS
<1>0. /\ created \in [RowId -> Nat] /\ IsFiniteSet(Row)
      /\ pageCache \in [Cursor -> Page]
      /\ walk \in [at : {"asking", "done"}, cursor : Cursor, pages : Seq(Page)]
      /\ walk.cursor \in Cursor /\ walk.cursor \in Row \cup {First}
  BY DEF PagesInv, PagesTypes, WalkInv
<1>1. CASE CacheHit
  <2>1. /\ walk.at = "asking" /\ pageCache[walk.cursor] # NoPage /\ Served(pageCache[walk.cursor])
        /\ created' = created /\ pageCache' = pageCache
    BY <1>1 DEF CacheHit
  <2>2. PICK p \in Page : p = pageCache[walk.cursor]
    BY <1>0
  <2>3. PageOf(walk.cursor, p) /\ Served(p)
    BY <1>0, <2>1, <2>2 DEF PagesInv, PageCacheInv
  <2>4. walk' \in [at : {"asking", "done"}, cursor : Cursor, pages : Seq(Page)] /\ WalkInv'
    BY <2>1, <2>3, ServedKeeps DEF PagesInv
  <2>5. PageCacheInv'
    BY <2>1 DEF PagesInv, PageCacheInv, PageOf, After, Newer, Row
  <2>6. PagesTypes'
    BY <1>0, <2>1, <2>4 DEF PagesTypes, Row
  <2> QED
    BY <2>4, <2>5, <2>6 DEF PagesInv
<1>2. CASE CacheMiss
  <2>1. /\ walk.at = "asking" /\ Served(readPage(walk.cursor)) /\ created' = created
        /\ pageCache' = [pageCache EXCEPT ![walk.cursor] = readPage(walk.cursor)]
    BY <1>2 DEF CacheMiss
  <2>2. readPage(walk.cursor) \in Page /\ PageOf(walk.cursor, readPage(walk.cursor))
    BY <1>0, ReadPageIsPage DEF PagesInv
  <2>3. walk' \in [at : {"asking", "done"}, cursor : Cursor, pages : Seq(Page)] /\ WalkInv'
    <3>1. PICK p \in Page : p = readPage(walk.cursor)
      BY <2>2
    <3>2. PageOf(walk.cursor, p) /\ Served(p)
      BY <2>1, <2>2, <3>1
    <3> QED
      BY <2>1, <3>2, ServedKeeps DEF PagesInv
  <2>4. pageCache' \in [Cursor -> Page] /\ PageCacheInv'
    <3>1. PICK c \in Row \cup {First} : c = walk.cursor
      BY <1>0
    <3>2. pageCache' = [pageCache EXCEPT ![c] = readPage(c)]
      BY <2>1, <3>1
    <3> QED
      BY <2>1, <3>2, CachedPage DEF PagesInv
  <2>5. PagesTypes'
    BY <1>0, <2>1, <2>3, <2>4 DEF PagesTypes, Row
  <2> QED
    BY <2>3, <2>4, <2>5 DEF PagesInv
<1>3. ASSUME NEW c \in DOMAIN pageCache, OtherRead(c) PROVE PagesInv'
  <2>1. /\ c # First => created[c] > 0
        /\ pageCache' = [pageCache EXCEPT ![c] = readPage(c)]
        /\ created' = created /\ walk' = walk
    BY <1>3 DEF OtherRead
  <2>2. c \in Row \cup {First}
    BY <1>0, <2>1 DEF Cursor, Row
  <2>3. pageCache' \in [Cursor -> Page] /\ PageCacheInv'
    BY <2>1, <2>2, CachedPage DEF PagesInv
  <2>4. PagesTypes'
    BY <1>0, <2>1, <2>3 DEF PagesTypes, Row
  <2>5. WalkInv'
    BY <2>1 DEF PagesInv, WalkInv, After, Newer, Row
  <2> QED
    BY <2>3, <2>4, <2>5 DEF PagesInv
<1>4. ASSUME NEW i \in RowId, NEW t \in 1 .. MaxMillis, InsertRow(i, t) PROVE PagesInv'
  <2>1. /\ created[i] = 0 /\ created' = [created EXCEPT ![i] = t]
        /\ UNCHANGED <<pageCache, walk>>
    BY <1>4 DEF InsertRow
  <2>2. t \in Nat /\ t > 0
    BY InvoicePagesAssumption
  <2>3. \A j \in Row : created'[j] = created[j]
    BY <1>0, <2>1 DEF Row
  <2>4. Row' = Row \cup {i}
    BY <1>0, <2>1, <2>2 DEF Row
  <2>5. IsFiniteSet(Row')
    BY <1>0, <2>4, FS_AddElement
  <2>6. created' \in [RowId -> Nat]
    BY <1>0, <2>1, <2>2
  <2> QED
    BY <2>1, <2>3, <2>5, <2>6, RowsOnly
<1>5. ASSUME (\E i \in RowId : ChangeStatus(i)) \/ PassMillis \/ UNCHANGED pageVars PROVE PagesInv'
  <2>1. created' = created /\ UNCHANGED <<pageCache, walk>>
    BY <1>5 DEF ChangeStatus, PassMillis, pageVars
  <2>2. Row' = Row
    BY <2>1 DEF Row
  <2> QED
    BY <1>0, <2>1, <2>2, RowsOnly
<1> QED
  BY <1>1, <1>2, <1>3, <1>4, <1>5 DEF PagesNext

\* A walk along next_cursor through GET /api/invoices never lists an invoice twice, and
\* lists every invoice that matched each time one of its pages was read, for every page
\* size and number of invoices, with invoices created in one millisecond, statuses that
\* change under way and pages that come from the cache at any age (routes/invoices.ts).
THEOREM WalksListAll == PagesSpec => []WalkListsAll
<1>1. PagesInv => WalkListsAll
  BY DEF PagesInv, WalkInv, WalkListsAll
<1> QED
  BY <1>1, PagesInvInit, PagesInvStep, PTL DEF PagesSpec

-----------------------------------------------------------------------------
(* No event is lost.                                                       *)

\* The keys of two sets of jobs together.
LEMMA KeysUnion == ASSUME NEW A, NEW B PROVE Keys(A \cup B) = Keys(A) \cup Keys(B)
BY DEF Keys

\* enqueue keeps what the queue holds and adds the new jobs to it: as deliveries, or
\* among the jobs for the next process.
LEMMA EnqueueHolds ==
  ASSUME NEW jobs, NEW origin, Enqueue(jobs, origin), UNCHANGED saving
  PROVE  /\ {t[1] : t \in active} \cup Keys(deferred \cup saving \cup late) \cup Keys(jobs)
              \subseteq ({t[1] : t \in active} \cup Keys(deferred \cup saving \cup late))'
<1>1. CASE isAccepting
  <2>1. /\ active' = active \cup {<<k, origin>> : k \in Keys(jobs)}
        /\ UNCHANGED <<deferred, late>>
    BY <1>1 DEF Enqueue
  <2>2. ASSUME NEW k \in Keys(jobs) PROVE k \in {t[1] : t \in active'}
    <3>1. <<k, origin>> \in active' /\ <<k, origin>>[1] = k
      BY <2>1
    <3> QED
      BY <3>1
  <2> QED
    BY <2>1, <2>2 DEF Keys
<1>2. CASE ~isAccepting
  <2>1. /\ UNCHANGED active
        /\ \/ late' = late \cup jobs /\ UNCHANGED deferred
           \/ deferred' = deferred \cup jobs /\ UNCHANGED late
    BY <1>2 DEF Enqueue
  <2> QED
    BY <2>1 DEF Keys
<1> QED
  BY <1>1, <1>2

\* A save leaves every job it was given in the store, and removes none.
LEMMA SavedStores ==
  ASSUME NEW jobs, Saved(jobs), NEW k \in Key, k \in Keys(jobs) \/ store[k] # NoJob
  PROVE  store'[k] # NoJob
<1>1. PICK pick \in [Keys(jobs) -> 0 .. maxAttempts] :
         store' = [x \in Key |-> IF x \in Keys(jobs) THEN pick[x] ELSE store[x]]
  BY DEF Saved
<1>2. k \in Keys(jobs) => pick[k] \in Nat
  BY <1>1, QueueAssumption
<1> QED
  BY <1>1, <1>2, QueueAssumption

\* The first process starts with nothing to lose.
LEMMA QueueInvInit == Init => QueueInv
BY DEF Init, QueueInv, JobsAccounted

\* When a process is gone, what only its memory held is excused.
LEMMA GoneKeepsInv == ASSUME QueueInv, Gone PROVE QueueInv'
BY DEF QueueInv, JobsAccounted, Gone, mongoVars

\* The steps of deliveries and of replays.
LEMMA DeliverKeepsInv ==
  ASSUME QueueInv, Submit \/ Deliver \/ ReplayStep PROVE QueueInv'
<1> USE DEF QueueInv
<1>1. ASSUME NEW k \in Key, EnqueueEvent(k) PROVE QueueInv'
  <2> DEFINE job == [key |-> k, attempts |-> 0]
  <2>1. k \in Keys({job})
    BY DEF Keys
  <2>2. /\ Enqueue({job}, "fresh")
        /\ accepted' = accepted \cup {k}
        /\ UNCHANGED <<mongoVars, saving, hand, resume, replaying, lifecycleVars, delivered, excused>>
    BY <1>1 DEF EnqueueEvent
  <2>3. InMemory \cup {k} \subseteq InMemory'
    BY <2>1, <2>2, EnqueueHolds DEF InMemory
  <2> QED
    BY <2>2, <2>3 DEF JobsAccounted, mongoVars, lifecycleVars
<1>2. ASSUME NEW k \in Key, ReplayFind(k) PROVE QueueInv'
  BY <1>2 DEF ReplayFind, JobsAccounted, InMemory, mongoVars, lifecycleVars
<1>3. ASSUME NEW t \in Task, PostOk(t) PROVE QueueInv'
  <2>1. t[1] \in Key
    BY DEF Task
  <2>2. InMemory \subseteq InMemory' \cup {t[1]}
    BY <1>3 DEF PostOk, InMemory
  <2> QED
    BY <1>3, <2>1, <2>2 DEF PostOk, JobsAccounted, mongoVars, lifecycleVars
<1>4. ASSUME NEW t \in Task, PostFail(t) PROVE QueueInv'
  BY <1>4 DEF PostFail, JobsAccounted, InMemory, mongoVars, lifecycleVars, historyVars
<1>5. ASSUME NEW t \in Task, EndDelay(t) PROVE QueueInv'
  <2>1. t[1] \in Key
    BY DEF Task
  <2>2. UNCHANGED <<mongoVars, active, deferred, saving, late, hand, resume, lifecycleVars,
                    accepted, delivered, excused>>
    BY <1>5 DEF EndDelay
  <2>3. replaying' = [replaying EXCEPT ![t[1]] = IF t[2] = "replay" /\ Aborted THEN "none" ELSE @]
    BY <1>5 DEF EndDelay
  <2> QED
    BY <2>1, <2>2, <2>3 DEF JobsAccounted, InMemory, mongoVars, lifecycleVars
<1>6. ASSUME NEW t \in Task, SaveDeadLetter(t) PROVE QueueInv'
  <2>1. t[1] \in Key
    BY DEF Task
  <2>2. InMemory \subseteq InMemory' \cup {t[1]}
    BY <1>6 DEF SaveDeadLetter, InMemory
  <2> QED
    BY <1>6, <2>1, <2>2 DEF SaveDeadLetter, JobsAccounted, lifecycleVars
<1>7. ASSUME NEW k \in Key, ReplayEnqueue(k) PROVE QueueInv'
  <2>1. /\ Enqueue({[key |-> k, attempts |-> 0]}, "replay")
        /\ replaying' = [replaying EXCEPT ![k] = IF isAccepting THEN "waiting" ELSE "none"]
        /\ UNCHANGED <<mongoVars, saving, hand, resume, lifecycleVars, accepted, delivered, excused>>
    BY <1>7 DEF ReplayEnqueue
  <2>2. InMemory \subseteq InMemory'
    BY <2>1, EnqueueHolds DEF InMemory
  <2> QED
    BY <2>1, <2>2 DEF JobsAccounted, mongoVars, lifecycleVars
<1>8. ASSUME NEW k \in Key, ReplayDelete(k) PROVE QueueInv'
  BY <1>8 DEF ReplayDelete, JobsAccounted, InMemory, lifecycleVars, historyVars
<1> QED
  BY <1>1, <1>2, <1>3, <1>4, <1>5, <1>6, <1>7, <1>8 DEF Submit, Deliver, ReplayStep

\* The steps of a start.
LEMMA StartKeepsInv == ASSUME QueueInv, Boot \/ Resume PROVE QueueInv'
<1> USE DEF QueueInv
<1>1. CASE Boot
  BY <1>1 DEF Boot, JobsAccounted, InMemory, mongoVars, historyVars
<1>2. CASE ResumeFind
  <2>1. InMemory \subseteq InMemory'
    BY <1>2 DEF ResumeFind, InMemory
  <2> QED
    BY <1>2, <2>1 DEF ResumeFind, JobsAccounted, mongoVars, lifecycleVars, historyVars
<1>3. CASE ResumeDelete
  <2>1. InMemory' = InMemory \cup Keys(hand)
    BY <1>3 DEF ResumeDelete, InMemory
  <2> QED
    BY <1>3, <2>1 DEF ResumeDelete, JobsAccounted, lifecycleVars, historyVars
<1>4. CASE ResumeEnqueue
  <2>1. /\ Enqueue(hand, "resumed") /\ resume' = "done"
        /\ UNCHANGED <<mongoVars, saving, replaying, lifecycleVars, accepted, delivered, excused>>
    BY <1>4 DEF ResumeEnqueue
  <2>2. InMemory \subseteq InMemory'
    BY <2>1, EnqueueHolds DEF InMemory
  <2> QED
    BY <2>1, <2>2 DEF JobsAccounted, mongoVars, lifecycleVars
<1>5. CASE ResumeFail
  <2>1. InMemory \ excused' \subseteq InMemory'
    BY <1>5 DEF ResumeFail, InMemory
  <2> QED
    BY <1>5, <2>1 DEF ResumeFail, JobsAccounted, mongoVars, lifecycleVars
<1> QED
  BY <1>1, <1>2, <1>3, <1>4, <1>5 DEF Resume

\* The steps of a shutdown.
LEMMA ShutdownKeepsInv ==
  ASSUME QueueInv, Shutdown \/ ServerClosed \/ DrainEnd \/ Persist \/ PersistLate \/ Tick
  PROVE  QueueInv'
<1> USE DEF QueueInv
<1>1. CASE Shutdown
  BY <1>1 DEF Shutdown, JobsAccounted, InMemory, mongoVars, queueVars, historyVars
<1>2. CASE ServerClosed
  BY <1>2 DEF ServerClosed, JobsAccounted, InMemory, mongoVars, queueVars, historyVars
<1>3. CASE DrainEnd
  <2>1. saving = {} /\ saving' = Unfinished
    BY <1>3 DEF DrainEnd
  <2>2. ASSUME NEW t \in active PROVE t[1] \in Keys(Unfinished)
    <3>1. [key |-> t[1], attempts |-> task[t].n] \in Unfinished
      BY DEF Unfinished
    <3> QED
      BY <3>1 DEF Keys
  <2>3. Keys(deferred) \subseteq Keys(Unfinished)
    BY DEF Keys, Unfinished
  <2>4. InMemory \subseteq InMemory'
    <3>1. UNCHANGED <<late, hand, resume>>
      BY <1>3 DEF DrainEnd
    <3>2. Keys(Unfinished) \cup Keys(late) \subseteq InMemory'
      BY <2>1, <3>1 DEF InMemory, Keys
    <3>3. (IF resume = "list" THEN Keys(hand) ELSE {}) \subseteq InMemory'
      BY <3>1 DEF InMemory, Keys
    <3>4. Keys(deferred \cup saving \cup late) = Keys(deferred) \cup Keys(late)
      BY <2>1 DEF Keys
    <3> QED
      BY <2>2, <2>3, <3>2, <3>3, <3>4 DEF InMemory
  <2> QED
    BY <1>3, <2>4 DEF DrainEnd, JobsAccounted, mongoVars, historyVars
<1>4. CASE Persist
  <2>1. InMemory \subseteq InMemory' \cup Keys(saving)
    BY <1>4, KeysUnion DEF Persist, InMemory
  <2>2. \A k \in Key : k \in Keys(saving) \/ store[k] # NoJob
                         => store'[k] # NoJob \/ k \in excused' \/ k \notin Keys(saving)
    BY <1>4, SavedStores DEF Persist
  <2>3. \A k \in Key : store[k] # NoJob => store'[k] # NoJob
    BY <1>4, SavedStores DEF Persist
  <2> QED
    BY <1>4, <2>1, <2>2, <2>3 DEF Persist, JobsAccounted
<1>5. CASE PersistLate
  <2>1. InMemory \subseteq InMemory' \cup Keys(late)
    BY <1>5, KeysUnion DEF PersistLate, InMemory
  <2>2. \A k \in Key : k \in Keys(late) => store'[k] # NoJob \/ k \in excused'
    BY <1>5, SavedStores DEF PersistLate
  <2>3. \A k \in Key : store[k] # NoJob => store'[k] # NoJob
    BY <1>5, SavedStores DEF PersistLate
  <2> QED
    BY <1>5, <2>1, <2>2, <2>3 DEF PersistLate, JobsAccounted, lifecycleVars
<1>6. CASE Tick
  BY <1>6 DEF Tick, JobsAccounted, InMemory, mongoVars, queueVars, historyVars
<1> QED
  BY <1>1, <1>2, <1>3, <1>4, <1>5, <1>6

\* Every step keeps the invariant.
LEMMA QueueInvStep == QueueInv /\ [Next]_vars => QueueInv'
<1> SUFFICES ASSUME QueueInv, [Next]_vars PROVE QueueInv'
  OBVIOUS
<1>1. CASE Exit \/ HardExit \/ ProcessCrash
  BY <1>1, GoneKeepsInv DEF Exit, HardExit, ProcessCrash
<1>2. CASE UNCHANGED vars
  BY <1>2 DEF vars, mongoVars, queueVars, lifecycleVars, historyVars, QueueInv, JobsAccounted, InMemory
<1> QED
  BY <1>1, <1>2, DeliverKeepsInv, StartKeepsInv, ShutdownKeepsInv DEF Next

\* No event is lost between its enqueue and its delivery or dead letter, for any number
\* of keys, attempts and processes, but by the faults that strike what only memory holds
\* (services/webhook-delivery.ts, shutdown.ts).
THEOREM JobsAlwaysAccounted == Spec => []JobsAccounted
<1>1. QueueInv => JobsAccounted
  BY DEF QueueInv
<1> QED
  BY <1>1, QueueInvInit, QueueInvStep, PTL DEF Spec

-----------------------------------------------------------------------------
(* Nothing is sent once drain has given up.                                *)

\* The deliveries are finitely many, so attempts that begin can be counted.
LEMMA TaskFinite == IsFiniteSet(Task)
<1>1. IsFiniteSet(Origin)
  <2>1. Origin = {"fresh"} \cup {"resumed"} \cup {"replay"}
    BY DEF Origin
  <2> QED
    BY <2>1, FS_Singleton, FS_Union
<1> QED
  BY <1>1, QueueAssumption, FS_Product DEF Task

\* Counting keeps the counts numbers, and leaves them alone when no attempt begins.
LEMMA CountPostsCounts ==
  ASSUME NEW new, CountPosts(new), posts \in [Key -> Nat]
  PROVE  /\ posts' \in [Key -> Nat]
         /\ (\A t \in Task : new[t].st = "post" => new[t] = task[t]) => posts' = posts
<1> DEFINE Begun(k) == {t \in Task : t[1] = k /\ new[t].st = "post" /\ new[t] # task[t]}
<1>1. posts' = [k \in Key |-> posts[k] + Cardinality(Begun(k))]
  BY DEF CountPosts
<1>2. \A k \in Key : Cardinality(Begun(k)) \in Nat
  <2>1. \A k \in Key : IsFiniteSet(Begun(k))
    BY TaskFinite, FS_Subset
  <2> QED
    BY <2>1, FS_CardinalityType
<1>3. ASSUME \A t \in Task : new[t].st = "post" => new[t] = task[t]
      PROVE  \A k \in Key : Cardinality(Begun(k)) = 0
  <2>1. \A k \in Key : Begun(k) = {}
    BY <1>3
  <2> QED
    BY <2>1, FS_EmptySet
<1> HIDE DEF Begun
<1> QED
  BY <1>1, <1>2, <1>3

\* The shape of the deliveries, and that the attempts are counted.
IsTask(d) == d = [st |-> d.st, n |-> d.n]
PostsInv ==
  /\ task = [t \in Task |-> task[t]] /\ \A t \in Task : IsTask(task[t])
  /\ posts \in [Key -> Nat]

\* What the head of the retry loop makes is a delivery.
LEMMA BeginIsTask == ASSUME NEW n PROVE IsTask(Begin(n))
BY DEF IsTask, Begin

\* enqueue keeps the shape, and begins an attempt only while the queue accepts.
LEMMA EnqueuePosts ==
  ASSUME PostsInv, NEW jobs, NEW origin, Enqueue(jobs, origin)
  PROVE  PostsInv' /\ (Aborted => posts' = posts)
<1>1. CASE isAccepting
  <2>1. /\ CountPosts(task')
        /\ task' = [t \in Task |->
             IF t[2] = origin /\ t[1] \in Keys(jobs)
             THEN Begin((CHOOSE j \in jobs : j.key = t[1]).attempts) ELSE task[t]]
    BY <1>1 DEF Enqueue
  <2>2. posts' \in [Key -> Nat]
    BY <2>1, CountPostsCounts DEF PostsInv
  <2>3. \A t \in Task : IsTask(task'[t])
    BY <2>1, BeginIsTask DEF PostsInv
  <2>4. task' = [t \in Task |-> task'[t]]
    BY <2>1
  <2>5. ~Aborted
    BY <1>1 DEF isAccepting, Aborted
  <2> QED
    BY <2>2, <2>3, <2>4, <2>5 DEF PostsInv
<1>2. CASE ~isAccepting
  BY <1>2 DEF Enqueue, PostsInv
<1> QED
  BY <1>1, <1>2

\* The end of a backoff begins an attempt only if the signal is not aborted.
LEMMA EndDelayPosts ==
  ASSUME PostsInv, NEW t \in Task, EndDelay(t)
  PROVE  PostsInv' /\ (Aborted => posts' = posts)
<1> DEFINE next == IF Aborted THEN [task[t] EXCEPT !.st = "pending"] ELSE Begin(task[t].n)
<1>1. CountPosts(task') /\ task' = [task EXCEPT ![t] = next]
  BY DEF EndDelay
<1>2. IsTask(next) /\ (Aborted => next.st = "pending")
  BY BeginIsTask DEF PostsInv, IsTask
<1> HIDE DEF next
<1>3. task' = [u \in Task |-> IF u = t THEN next ELSE task[u]]
  BY <1>1 DEF PostsInv
<1>4. posts' \in [Key -> Nat]
  BY <1>1, CountPostsCounts DEF PostsInv
<1>5. Aborted => \A u \in Task : task'[u].st = "post" => task'[u] = task[u]
  BY <1>2, <1>3
<1>6. Aborted => posts' = posts
  BY <1>1, <1>5, CountPostsCounts DEF PostsInv
<1>7. task' = [u \in Task |-> task'[u]] /\ \A u \in Task : IsTask(task'[u])
  BY <1>2, <1>3 DEF PostsInv
<1> QED
  BY <1>4, <1>6, <1>7 DEF PostsInv

\* A step that ends a delivery, or leaves all of them alone, counts nothing.
LEMMA QuietPosts ==
  ASSUME PostsInv, UNCHANGED posts,
         \/ UNCHANGED task
         \/ task' = [t \in Task |-> Idle]
         \/ \E t \in Task : task' = [task EXCEPT ![t] = Idle]
         \/ \E t \in Task : \E st : task' = [task EXCEPT ![t].st = st]
  PROVE  PostsInv' /\ (Aborted => posts' = posts)
<1>1. CASE UNCHANGED task
  BY <1>1 DEF PostsInv
<1>2. CASE task' = [t \in Task |-> Idle]
  BY <1>2 DEF PostsInv, IsTask, Idle
<1>3. ASSUME NEW t \in Task, task' = [task EXCEPT ![t] = Idle]
      PROVE  PostsInv'
  BY <1>3 DEF PostsInv, IsTask, Idle
<1>4. ASSUME NEW t \in Task, NEW st, task' = [task EXCEPT ![t].st = st]
      PROVE  PostsInv'
  <2>1. task' = [u \in Task |-> IF u = t THEN [task[t] EXCEPT !.st = st] ELSE task[u]]
    BY <1>4 DEF PostsInv
  <2>2. [task[t] EXCEPT !.st = st] = [st |-> st, n |-> task[t].n]
    BY DEF PostsInv, IsTask
  <2> QED
    BY <2>1, <2>2 DEF PostsInv, IsTask
<1> QED
  BY <1>1, <1>2, <1>3, <1>4

\* Every step keeps the shape and, after the abort, counts nothing.
LEMMA PostsStep ==
  ASSUME PostsInv, [Next]_vars
  PROVE  PostsInv' /\ (Aborted => posts' = posts)
<1>1. ASSUME NEW k \in Key, EnqueueEvent(k) \/ ReplayEnqueue(k)
      PROVE  PostsInv' /\ (Aborted => posts' = posts)
  BY <1>1, EnqueuePosts DEF EnqueueEvent, ReplayEnqueue
<1>2. CASE ResumeEnqueue
  BY <1>2, EnqueuePosts DEF ResumeEnqueue
<1>3. ASSUME NEW t \in Task, EndDelay(t)
      PROVE  PostsInv' /\ (Aborted => posts' = posts)
  BY <1>3, EndDelayPosts
<1>4. ASSUME NEW t \in Task, PostOk(t) \/ PostFail(t) \/ SaveDeadLetter(t)
      PROVE  PostsInv' /\ (Aborted => posts' = posts)
  BY <1>4, QuietPosts DEF PostOk, PostFail, SaveDeadLetter, historyVars
<1>5. ASSUME NEW k \in Key, ReplayFind(k) \/ ReplayDelete(k)
      PROVE  UNCHANGED <<task, posts>>
  BY <1>5 DEF ReplayFind, ReplayDelete, historyVars
<1>6. CASE Boot \/ ResumeFind \/ ResumeDelete \/ ResumeFail
  BY <1>6, QuietPosts DEF Boot, ResumeFind, ResumeDelete, ResumeFail, historyVars
<1>7. CASE Shutdown \/ ServerClosed \/ DrainEnd \/ Persist \/ PersistLate \/ Tick
  BY <1>7, QuietPosts
     DEF Shutdown, ServerClosed, DrainEnd, Persist, PersistLate, Tick, queueVars, historyVars
<1>8. CASE Exit \/ HardExit \/ ProcessCrash
  BY <1>8, QuietPosts DEF Exit, HardExit, ProcessCrash, Gone
<1>9. CASE UNCHANGED vars
  BY <1>9, QuietPosts DEF vars, queueVars, historyVars
<1> QED
  BY <1>1, <1>2, <1>3, <1>4, <1>5, <1>6, <1>7, <1>8, <1>9, QuietPosts
     DEF Next, Submit, Deliver, ReplayStep, Resume

\* Once drain has given up, no delivery starts another request, so what it stores for
\* the next process is not also being sent by this one (drain's AbortController in
\* services/webhook-delivery.ts).
THEOREM NeverAttemptsAfterAbort == Spec => NoAttemptAfterAbort
<1>1. Init => PostsInv
  BY DEF Init, PostsInv, IsTask, Idle
<1>2. PostsInv /\ [Next]_vars => PostsInv' /\ [Aborted => posts' = posts]_vars
  BY PostsStep
<1> QED
  BY <1>1, <1>2, PTL DEF Spec, NoAttemptAfterAbort

-----------------------------------------------------------------------------
(* Disputes (Disputes).                                                    *)

\* The weights of votes, and the votes for a side.
WeightOf == [v \in Vote |-> v.weight]
For(votes, side) == {v \in votes : v.vote = side}

\* A record whose tallies agree with its votes, whose signers differ, and whose
\* outcome is what the tallies say.
DisputeRecord ==
  [exists : BOOLEAN, votes : SUBSET Vote, claimant : Nat, counterparty : Nat,
   outcome : Side \cup {"none"}]

Tallied(record) ==
  /\ record \in DisputeRecord
  /\ IsFiniteSet(record.votes)
  /\ record.claimant = SumFunctionOnSet(WeightOf, For(record.votes, "ResolvedClaimant"))
  /\ record.counterparty = SumFunctionOnSet(WeightOf, For(record.votes, "ResolvedCounterparty"))
  /\ record.outcome = "ResolvedClaimant" <=> record.claimant >= VOTE_THRESHOLD
  /\ record.outcome = "ResolvedCounterparty" <=> record.counterparty >= VOTE_THRESHOLD
  /\ IsFiniteSet({v.signer : v \in record.votes})
  /\ Cardinality(record.votes) = Cardinality({v.signer : v \in record.votes})

DisputeInv ==
  /\ disputes \in [Dispute -> DisputeRecord]
  /\ \A d \in Dispute : Tallied(disputes[d])

\* The tally of a set of votes, as the property computes it.
LEMMA BackingIsSum ==
  ASSUME NEW S \in SUBSET Vote, IsFiniteSet(S)
  PROVE  MapThenSumSet(LAMBDA v : v.weight, S) = SumFunctionOnSet(WeightOf, S)
<1> DEFINE Is(g) == g = [s \in SUBSET S |-> IF s = {} THEN 0 ELSE Pick(s).weight + g[s \ {Pick(s)}]]
<1>1. MapThenSumSet(LAMBDA v : v.weight, S) = (CHOOSE g : Is(g))[S]
  BY Zenon DEF MapThenSumSet, MapThenFoldSet, Pick
<1>2. \A s \in SUBSET S : s # {} => WeightOf[Pick(s)] = Pick(s).weight
  BY PickIn DEF WeightOf
<1>3. ASSUME NEW g PROVE Is(g) <=> Sums(WeightOf, S, g)
  <2>1. [s \in SUBSET S |-> IF s = {} THEN 0 ELSE Pick(s).weight + g[s \ {Pick(s)}]]
        = [s \in SUBSET S |-> IF s = {} THEN 0 ELSE WeightOf[Pick(s)] + g[s \ {Pick(s)}]]
    BY <1>2
  <2> QED
    BY <2>1 DEF Sums
<1> HIDE DEF Is
<1>4. \E g : Sums(WeightOf, S, g)
  BY SumsExist
<1>5. Sums(WeightOf, S, CHOOSE g : Is(g)) /\ Sums(WeightOf, S, CHOOSE g : Sums(WeightOf, S, g))
  BY <1>3, <1>4
<1>6. (CHOOSE g : Is(g)) = (CHOOSE g : Sums(WeightOf, S, g))
  BY <1>5, SumsUnique
<1> QED
  BY <1>1, <1>6, SumIsFold

\* One more vote: its side's tally grows by its weight, the other's stays.
LEMMA OneMoreVote ==
  ASSUME NEW votes \in SUBSET Vote, IsFiniteSet(votes), NEW x \in Vote, x \notin votes, NEW side \in Side
  PROVE  /\ SumFunctionOnSet(WeightOf, For(votes, side)) \in Nat
         /\ SumFunctionOnSet(WeightOf, For(votes \cup {x}, side))
            = SumFunctionOnSet(WeightOf, For(votes, side)) + (IF x.vote = side THEN x.weight ELSE 0)
<1> DEFINE S == For(votes, side)
           S2 == For(votes \cup {x}, side)
<1>1. S \in SUBSET votes /\ S \in SUBSET Vote /\ IsFiniteSet(S)
  BY FS_Subset DEF For
<1>2. \A v \in Vote : WeightOf[v] \in Nat /\ WeightOf[v] = v.weight
  BY DisputesAssumption DEF WeightOf, Vote
<1>3. SumFunctionOnSet(WeightOf, S) \in Nat
  <2> HIDE DEF S
  <2> QED
    BY <1>1, <1>2, SumIsNat
<1>4. CASE x.vote # side
  <2>1. S2 = S
    BY <1>4 DEF For
  <2> QED
    BY <1>3, <1>4, <2>1
<1>5. CASE x.vote = side
  <2>1. S2 = S \cup {x} /\ x \in S2 /\ S2 \ {x} = S
    BY <1>5 DEF For
  <2>2. IsFiniteSet(S2)
    <3> HIDE DEF S, S2
    <3> QED
      BY <1>1, <2>1, FS_AddElement
  <2>4. \A v \in S2 : WeightOf[v] \in Nat
    <3> HIDE DEF S, S2
    <3> QED
      BY <1>1, <1>2, <2>1
  <2>3. SumFunctionOnSet(WeightOf, S2) = WeightOf[x] + SumFunctionOnSet(WeightOf, S)
    <3> HIDE DEF S, S2
    <3> QED
      BY <2>1, <2>2, <2>4, SumRemove
  <2> QED
    BY <1>2, <1>3, <1>5, <2>3
<1> QED
  BY <1>4, <1>5

\* A dispute without votes.
LEMMA NoVotesTallied ==
  ASSUME VOTE_THRESHOLD # 0, NEW e \in BOOLEAN
  PROVE  Tallied([exists |-> e, votes |-> {}, claimant |-> 0, counterparty |-> 0, outcome |-> "none"])
<1> DEFINE record == [exists |-> e, votes |-> {}, claimant |-> 0, counterparty |-> 0, outcome |-> "none"]
<1>1. For({}, "ResolvedClaimant") = {} /\ For({}, "ResolvedCounterparty") = {}
  BY DEF For
<1>2. SumFunctionOnSet(WeightOf, {}) = 0 /\ IsFiniteSet({})
  BY SumUnfolds, FS_EmptySet
<1>3. {v.signer : v \in {}} = {}
  OBVIOUS
<1>4. ~(0 >= VOTE_THRESHOLD)
  BY DisputesAssumption
<1>5. record \in DisputeRecord
  BY DEF DisputeRecord
<1> QED
  BY <1>1, <1>2, <1>3, <1>4, <1>5 DEF Tallied

LEMMA ForgottenTallied == ASSUME VOTE_THRESHOLD # 0 PROVE Tallied(Forgotten)
<1>1. PICK r \in DisputeRecord : r = NewDispute
  BY NoVotesTallied DEF Tallied, NewDispute
<1>2. /\ r.votes = {} /\ r.claimant = 0 /\ r.counterparty = 0 /\ r.outcome = "none"
  BY <1>1 DEF NewDispute
<1>3. ASSUME NEW e
      PROVE  [r EXCEPT !.exists = e]
              = [exists |-> e, votes |-> {}, claimant |-> 0, counterparty |-> 0, outcome |-> "none"]
  BY <1>2 DEF DisputeRecord
<1> QED
  BY <1>1, <1>3, NoVotesTallied DEF Forgotten

LEMMA DisputesInitTallied == ASSUME VOTE_THRESHOLD # 0 PROVE DisputesInit => DisputeInv
<1> SUFFICES ASSUME DisputesInit PROVE DisputeInv
  OBVIOUS
<1>2. Tallied(Forgotten)
  BY ForgottenTallied
<1>3. disputes = [d \in Dispute |-> Forgotten]
  BY DEF DisputesInit
<1> QED
  BY <1>2, <1>3 DEF DisputeInv, Tallied

\* A vote keeps the record tallied.
LEMMA VoteTallied ==
  ASSUME NEW d \in Dispute, NEW s \in Voter, NEW side \in Side, NEW w \in VoteWeight,
         DisputeInv, CastVote(d, s, side, w)
  PROVE  DisputeInv'
<1> DEFINE record == disputes[d]
           x == [signer |-> s, vote |-> side, weight |-> w]
           claimant == IF side = "ResolvedClaimant" THEN record.claimant + w ELSE record.claimant
           counterparty == IF side = "ResolvedCounterparty" THEN record.counterparty + w
                           ELSE record.counterparty
           outcome == IF claimant >= VOTE_THRESHOLD THEN "ResolvedClaimant"
                      ELSE IF counterparty >= VOTE_THRESHOLD THEN "ResolvedCounterparty" ELSE "none"
           new == [exists |-> record.exists, votes |-> record.votes \cup {x}, claimant |-> claimant,
                   counterparty |-> counterparty, outcome |-> outcome]
<1>1. record \in DisputeRecord /\ Tallied(record)
  BY DEF DisputeInv
<1>2. record.outcome = "none" /\ \A v \in record.votes : v.signer # s
  BY DEF CastVote
<1>3. disputes' = [disputes EXCEPT ![d] = new]
  <2>1. PICK r \in DisputeRecord : r = record
    BY <1>1
  <2>2. r.outcome = "none"
    BY <1>2, <2>1
  <2> DEFINE tally == [r EXCEPT !.votes = @ \cup {x},
                                !.claimant = IF side = "ResolvedClaimant" THEN @ + w ELSE @,
                                !.counterparty = IF side = "ResolvedCounterparty" THEN @ + w ELSE @]
             out == IF tally.claimant >= VOTE_THRESHOLD THEN "ResolvedClaimant"
                    ELSE IF tally.counterparty >= VOTE_THRESHOLD THEN "ResolvedCounterparty"
                    ELSE tally.outcome
  <2>3. disputes' = [disputes EXCEPT ![d] = [tally EXCEPT !.outcome = out]]
    BY <2>1 DEF CastVote
  <2>4. x \in Vote /\ w \in Nat
    BY DisputesAssumption DEF Vote
  <2>5. /\ tally \in DisputeRecord
        /\ tally.votes = r.votes \cup {x} /\ tally.exists = r.exists /\ tally.outcome = "none"
        /\ tally.claimant = claimant /\ tally.counterparty = counterparty
    <3> DEFINE votes == r.votes \cup {x}
               c1 == IF side = "ResolvedClaimant" THEN r.claimant + w ELSE r.claimant
               c2 == IF side = "ResolvedCounterparty" THEN r.counterparty + w ELSE r.counterparty
    <3>1. votes \in SUBSET Vote /\ c1 \in Nat /\ c2 \in Nat
      BY <2>4 DEF DisputeRecord
    <3>2. tally = [r EXCEPT !.votes = votes, !.claimant = c1, !.counterparty = c2]
      OBVIOUS
    <3>3. c1 = claimant /\ c2 = counterparty
      BY <2>1
    <3> HIDE DEF votes, c1, c2, tally, claimant, counterparty
    <3>4. /\ tally \in DisputeRecord
          /\ tally.votes = votes /\ tally.claimant = c1 /\ tally.counterparty = c2
          /\ tally.exists = r.exists /\ tally.outcome = r.outcome
      BY <3>1, <3>2 DEF DisputeRecord
    <3> QED
      BY <2>2, <3>3, <3>4 DEF votes
  <2>6. out = outcome
    <3> HIDE DEF tally, claimant, counterparty
    <3> QED
      BY <2>5
  <2>7. [tally EXCEPT !.outcome = outcome] = new
    <3> HIDE DEF tally, outcome, claimant, counterparty
    <3>1. [tally EXCEPT !.outcome = outcome]
           = [exists |-> tally.exists, votes |-> tally.votes, claimant |-> tally.claimant,
              counterparty |-> tally.counterparty, outcome |-> outcome]
      BY <2>5 DEF DisputeRecord
    <3> QED
      BY <2>1, <2>5, <3>1
  <2> QED
    BY <2>3, <2>6, <2>7
<1>4. x \in Vote /\ x \notin record.votes /\ record.votes \in SUBSET Vote /\ IsFiniteSet(record.votes)
  BY <1>1, <1>2 DEF Vote, DisputeRecord, Tallied
<1>5. record.claimant \in Nat /\ record.counterparty \in Nat /\ w \in Nat /\ VOTE_THRESHOLD \in Nat
  BY <1>1, DisputesAssumption DEF DisputeRecord
<1>6. /\ ~(record.claimant >= VOTE_THRESHOLD) /\ ~(record.counterparty >= VOTE_THRESHOLD)
      /\ record.claimant = SumFunctionOnSet(WeightOf, For(record.votes, "ResolvedClaimant"))
      /\ record.counterparty = SumFunctionOnSet(WeightOf, For(record.votes, "ResolvedCounterparty"))
  BY <1>1, <1>2 DEF Tallied
<1>7. /\ claimant = SumFunctionOnSet(WeightOf, For(record.votes \cup {x}, "ResolvedClaimant"))
      /\ counterparty = SumFunctionOnSet(WeightOf, For(record.votes \cup {x}, "ResolvedCounterparty"))
  <2>1. x.vote = side /\ x.weight = w
    OBVIOUS
  <2>2. "ResolvedClaimant" \in Side /\ "ResolvedCounterparty" \in Side
    BY DEF Side
  <2> DEFINE votes == record.votes
  <2> HIDE DEF x, votes
  <2>3. /\ SumFunctionOnSet(WeightOf, For(votes \cup {x}, "ResolvedClaimant"))
           = SumFunctionOnSet(WeightOf, For(votes, "ResolvedClaimant"))
             + (IF x.vote = "ResolvedClaimant" THEN x.weight ELSE 0)
        /\ SumFunctionOnSet(WeightOf, For(votes \cup {x}, "ResolvedCounterparty"))
           = SumFunctionOnSet(WeightOf, For(votes, "ResolvedCounterparty"))
             + (IF x.vote = "ResolvedCounterparty" THEN x.weight ELSE 0)
    BY <1>4, <2>2, OneMoreVote DEF votes
  <2> QED
    BY <1>5, <1>6, <2>1, <2>3 DEF votes
<1>8. /\ IsFiniteSet(record.votes \cup {x})
      /\ IsFiniteSet({v.signer : v \in record.votes \cup {x}})
      /\ Cardinality(record.votes \cup {x}) = Cardinality({v.signer : v \in record.votes \cup {x}})
  <2> DEFINE signers == {v.signer : v \in record.votes}
  <2>1. {v.signer : v \in record.votes \cup {x}} = signers \cup {s}
    <3>1. x.signer = s
      OBVIOUS
    <3> HIDE DEF x
    <3> QED
      BY <3>1
  <2>2. s \notin signers
    BY <1>2
  <2>3. IsFiniteSet(signers) /\ Cardinality(record.votes) = Cardinality(signers)
    BY <1>1 DEF Tallied
  <2> HIDE DEF signers, x
  <2>4. Cardinality(record.votes \cup {x}) = Cardinality(record.votes) + 1
        /\ Cardinality(signers \cup {s}) = Cardinality(signers) + 1
        /\ IsFiniteSet(signers \cup {s}) /\ IsFiniteSet(record.votes \cup {x})
    BY <1>4, <2>2, <2>3, FS_AddElement
  <2> QED
    BY <2>1, <2>3, <2>4
<1>9. claimant \in Nat /\ counterparty \in Nat /\ outcome \in Side \cup {"none"}
  BY <1>5 DEF Side
<1>10. /\ outcome = "ResolvedClaimant" <=> claimant >= VOTE_THRESHOLD
       /\ outcome = "ResolvedCounterparty" <=> counterparty >= VOTE_THRESHOLD
  BY <1>5, <1>6 DEF Side
<1>11. record.exists \in BOOLEAN
  BY <1>1 DEF DisputeRecord
<1> HIDE DEF x, claimant, counterparty, outcome
<1>12. Tallied(new)
  <2>1. new \in DisputeRecord
    BY <1>4, <1>9, <1>11 DEF DisputeRecord
  <2> QED
    BY <2>1, <1>7, <1>8, <1>10 DEF Tallied
<1> HIDE DEF new
<1>13. new \in DisputeRecord
  BY <1>12 DEF Tallied
<1>14. disputes \in [Dispute -> DisputeRecord]
  BY DEF DisputeInv
<1>15. disputes' \in [Dispute -> DisputeRecord]
  BY <1>3, <1>13, <1>14
<1>16. \A e \in Dispute : disputes'[e] = IF e = d THEN new ELSE disputes[e]
  BY <1>3, <1>14
<1>17. ASSUME NEW e \in Dispute PROVE Tallied(disputes'[e])
  BY <1>12, <1>16 DEF DisputeInv
<1> QED
  BY <1>15, <1>17 DEF DisputeInv, Tallied

LEMMA DisputeInvStep ==
  ASSUME VOTE_THRESHOLD # 0, DisputeInv, [DisputesNext]_disputeVars
  PROVE  DisputeInv'
<1>1. CASE CreateDispute
  <2>1. PICK d \in Dispute : disputes' = [disputes EXCEPT ![d] = NewDispute]
    BY <1>1 DEF CreateDispute
  <2>2. Tallied(NewDispute)
    BY NoVotesTallied DEF NewDispute
  <2>3. NewDispute \in DisputeRecord
    BY <2>2 DEF Tallied
  <2>4. disputes \in [Dispute -> DisputeRecord]
    BY DEF DisputeInv
  <2>5. disputes' \in [Dispute -> DisputeRecord]
    BY <2>1, <2>3, <2>4
  <2>6. \A e \in Dispute : disputes'[e] = IF e = d THEN NewDispute ELSE disputes[e]
    BY <2>1, <2>4
  <2>7. ASSUME NEW e \in Dispute PROVE Tallied(disputes'[e])
    BY <2>2, <2>6 DEF DisputeInv
  <2> QED
    BY <2>5, <2>7 DEF DisputeInv, Tallied
<1>2. CASE RestartDisputes
  <2>1. disputes' = [d \in Dispute |-> Forgotten]
    BY <1>2 DEF RestartDisputes
  <2>2. Tallied(Forgotten)
    BY ForgottenTallied
  <2> QED
    BY <2>1, <2>2 DEF DisputeInv, Tallied
<1>3. CASE \E d \in Dispute, s \in Voter, side \in Side, w \in VoteWeight : CastVote(d, s, side, w)
  BY <1>3, VoteTallied
<1>4. CASE UNCHANGED disputeVars
  BY <1>4 DEF DisputeInv, Tallied, disputeVars
<1> QED
  BY <1>1, <1>2, <1>3, <1>4 DEF DisputesNext

\* A dispute is resolved exactly when a side has the threshold, for that side, and
\* no signer counts twice (disputes.ts), for every positive threshold.  With a
\* threshold of 0, which DISPUTE_VOTE_THRESHOLD may also set, the first vote decides
\* for the claimant, whichever side it is for.
THEOREM OutcomesAreEarned == ASSUME VOTE_THRESHOLD # 0 PROVE DisputesSpec => []OutcomeEarned
<1>1. DisputeInv => OutcomeEarned
  <2> SUFFICES ASSUME DisputeInv, NEW d \in Dispute
               PROVE  /\ {side \in Side : Backing(d, side) >= VOTE_THRESHOLD}
                          = IF disputes[d].outcome = "none" THEN {} ELSE {disputes[d].outcome}
                      /\ Cardinality(disputes[d].votes) = Cardinality({v.signer : v \in disputes[d].votes})
    BY DEF OutcomeEarned
  <2>1. disputes[d] \in DisputeRecord /\ Tallied(disputes[d])
    BY DEF DisputeInv
  <2>2. ASSUME NEW side \in Side
        PROVE  Backing(d, side) = SumFunctionOnSet(WeightOf, For(disputes[d].votes, side))
    <3>1. For(disputes[d].votes, side) \in SUBSET Vote /\ IsFiniteSet(For(disputes[d].votes, side))
      BY <2>1, FS_Subset DEF For, Tallied, DisputeRecord
    <3> QED
      BY <3>1, BackingIsSum DEF Backing, For
  <2>3. /\ Backing(d, "ResolvedClaimant") = disputes[d].claimant
        /\ Backing(d, "ResolvedCounterparty") = disputes[d].counterparty
    BY <2>1, <2>2 DEF Tallied, Side
  <2>4. disputes[d].outcome \in Side \cup {"none"}
    BY <2>1 DEF DisputeRecord
  <2>5. /\ Cardinality(disputes[d].votes) = Cardinality({v.signer : v \in disputes[d].votes})
        /\ disputes[d].outcome = "ResolvedClaimant" <=> Backing(d, "ResolvedClaimant") >= VOTE_THRESHOLD
        /\ disputes[d].outcome = "ResolvedCounterparty"
             <=> Backing(d, "ResolvedCounterparty") >= VOTE_THRESHOLD
    BY <2>1, <2>3 DEF Tallied
  <2> QED
    BY <2>4, <2>5 DEF Side
<1> QED
  BY <1>1, DisputesInitTallied, DisputeInvStep, PTL DEF DisputesSpec
=============================================================================
