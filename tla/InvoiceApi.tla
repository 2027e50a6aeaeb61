----------------------------- MODULE InvoiceApi -----------------------------
(***************************************************************************)
(* POST /api/invoices of the backend: the idempotency middleware             *)
(* (middleware/idempotency.ts), the handler behind it (routes/invoices.ts)   *)
(* and the transaction it submits.  All requests carry the same              *)
(* Idempotency-Key unless they carry none; they differ in their body, and    *)
(* several processes may serve them.  Every await ends a step.               *)
(*                                                                           *)
(* Redis is shared by the processes and optional: without REDIS_URL, or when *)
(* a call to it fails, a read answers nothing and the lock is granted        *)
(* (lib/cache.ts).  The chain is external: a transaction that was sent may   *)
(* land after the handler stopped polling for it, until it expires, and only *)
(* while its source account's sequence number is still the one it was built  *)
(* with.                                                                     *)
(***************************************************************************)
EXTENDS Naturals, Sequences, FiniteSets

CONSTANTS
  CreateRequest,  \* the requests
  Process,        \* backend processes behind the load balancer
  Body,           \* request bodies, which their fingerprints tell apart
  NoRequest, NoEntry,
  Traffic,        \* the assignments of body, process and key to explore
  OldRows,        \* ids with a row from an earlier deployment of the contract
  RedisModes,     \* deployments to explore: is REDIS_URL set?
  MaxRedisFaults, \* bound on failing Redis calls
  MaxCrashes      \* bound on process crashes

ASSUME InvoiceApiAssumption ==
  /\ RedisModes \subseteq BOOLEAN
  /\ Traffic \subseteq [CreateRequest -> [body : Body, process : Process, keyed : BOOLEAN]]
  /\ MaxRedisFaults \in Nat /\ MaxCrashes \in Nat
  /\ NoRequest \notin CreateRequest /\ NoEntry \notin [body : Body, id : Nat]
  /\ OldRows \subseteq Nat

VARIABLES
  redis,     \* REDIS_URL is set
  stored,    \* Redis: the entry of the key, or NoEntry
  locked,    \* Redis: who took the key's lock, or NoRequest; its value is only "1"
  memory,    \* memory[p]: the process's entry of the key, or NoEntry
  expired,   \* processes whose entry is past its expiresAt; it stays in the map
  inFlight,  \* inFlight[p]: the request whose promise the map holds, or NoRequest
  settled,   \* requests whose flight promise is resolved
  at,        \* at[r]: the await the request is at
  request,   \* request[r]: its body, its process, whether it carries the key
  awaited,   \* the flight a waiting request waits for
  sequence,  \* the signer account's sequence number on chain
  built,     \* built[r]: the sequence number r's transaction was built with
  tx,        \* tx[r]: "none", "sent", "landed" or "dropped"
  landed,    \* the requests whose create_invoice landed, in order: the ids
  rows,      \* ids with a row in Mongo
  answer,    \* answer[r]: status code and invoice id, id 0 for none
  tail,      \* requests whose final Redis calls are still on the wire
  lapses,    \* history: what undid the middleware's protection so far
  redisFaults, crashes

redisVars   == <<redis, stored, locked, tail, redisFaults>>
processVars == <<memory, expired, inFlight, settled>>
chainVars   == <<sequence, built, tx, landed>>
apiVars     == <<redisVars, processVars, at, request, awaited, chainVars, rows, answer,
                 lapses, crashes>>

InvoiceId == 1 .. Cardinality(CreateRequest)
Entry     == [body : Body, id : InvoiceId]
NoAnswer  == [code |-> 0, id |-> 0]

Running(r) == at[r] \notin {"idle", "done", "dead"}
InHandler(r) == at[r] \in {"auth", "audit", "account", "simulate", "send", "poll", "check", "insert"}
Lapse == {"redis", "lock expired", "answer expired", "outcome unknown", "answered before the lock"}

ApiTypeOK ==
  /\ redis \in BOOLEAN /\ stored \in Entry \cup {NoEntry}
  /\ locked \in CreateRequest \cup {NoRequest}
  /\ memory \in [Process -> Entry \cup {NoEntry}] /\ expired \subseteq Process
  /\ inFlight \in [Process -> CreateRequest \cup {NoRequest}]
  /\ settled \subseteq CreateRequest
  /\ at \in [CreateRequest -> {"idle", "load", "wait", "lock", "owner", "auth", "audit", "account",
                               "simulate", "send", "poll", "check", "insert", "done", "dead"}]
  /\ request \in [CreateRequest -> [body : Body, process : Process, keyed : BOOLEAN]]
  /\ awaited \in [CreateRequest -> CreateRequest \cup {NoRequest}]
  /\ sequence \in 0 .. Cardinality(CreateRequest) /\ built \in [CreateRequest -> Nat]
  /\ tx \in [CreateRequest -> {"none", "sent", "landed", "dropped"}]
  /\ landed \in Seq(CreateRequest) /\ rows \subseteq InvoiceId \cup OldRows
  /\ answer \in [CreateRequest -> [code : {0, 201, 401, 403, 409, 422, 504}, id : InvoiceId \cup {0}]]
  /\ tail \subseteq CreateRequest /\ lapses \subseteq Lapse
  /\ redisFaults \in 0 .. MaxRedisFaults /\ crashes \in 0 .. MaxCrashes

ApiInit ==
  /\ redis \in RedisModes /\ stored = NoEntry /\ locked = NoRequest
  /\ memory = [p \in Process |-> NoEntry] /\ expired = {} /\ inFlight = [p \in Process |-> NoRequest]
  /\ settled = {} /\ at = [r \in CreateRequest |-> "idle"]
  /\ request \in Traffic
  /\ awaited = [r \in CreateRequest |-> NoRequest]
  /\ sequence = 0 /\ built = [r \in CreateRequest |-> 0]
  /\ tx = [r \in CreateRequest |-> "none"] /\ landed = <<>> /\ rows = OldRows
  /\ answer = [r \in CreateRequest |-> NoAnswer]
  /\ tail = {} /\ lapses = {} /\ redisFaults = 0 /\ crashes = 0
-----------------------------------------------------------------------------
(* Answers.                                                                  *)

Proc(r) == request[r].process

\* A request that the middleware answers itself, or that it never guarded.
Reply(r, code, id) ==
  /\ answer' = [answer EXCEPT ![r] = [code |-> code, id |-> id]]
  /\ at' = [at EXCEPT ![r] = "done"]

\* A middleware that resolves the flight only for an answer it keeps.
Mut_WrappedReply(r, code, id) ==
  /\ Reply(r, code, id)
  /\ IF request[r].keyed /\ code = 201
       THEN /\ memory' = [memory EXCEPT ![Proc(r)] = [body |-> request[r].body, id |-> id]]
            /\ expired' = expired \ {Proc(r)}
            /\ settled' = settled \cup {r}
            /\ inFlight' = [inFlight EXCEPT ![Proc(r)] = NoRequest]
            /\ tail' = IF redis THEN tail \cup {r} ELSE tail
       ELSE UNCHANGED <<processVars, tail>>

\* res.json as the middleware wraps it: a 2xx answer is kept, and whatever the
\* answer the promise resolves and the entry of inFlight goes, even when a later
\* request has put its own there.  The Redis calls are not awaited.
WrappedReply(r, code, id) ==
  /\ Reply(r, code, id)
  /\ IF request[r].keyed
       THEN /\ memory' = IF code = 201
                           THEN [memory EXCEPT ![Proc(r)] = [body |-> request[r].body, id |-> id]]
                           ELSE memory
            /\ expired' = IF code = 201 THEN expired \ {Proc(r)} ELSE expired
            /\ settled' = settled \cup {r}
            /\ inFlight' = [inFlight EXCEPT ![Proc(r)] = NoRequest]
            /\ tail' = IF redis THEN tail \cup {r} ELSE tail
       ELSE UNCHANGED <<processVars, tail>>

\* A middleware that does not compare fingerprints.
Mut_Replay(r, entry) == Reply(r, 201, entry.id)

\* What an entry under the key means for a request: its answer again, or 409.
Replay(r, entry) ==
  IF entry.body = request[r].body THEN Reply(r, 201, entry.id) ELSE Reply(r, 409, 0)

\* A call to Redis fails and lib/cache.ts swallows the error.
RedisFails == redis /\ redisFaults < MaxRedisFaults /\ redisFaults' = redisFaults + 1
-----------------------------------------------------------------------------
(* The middleware.                                                           *)

\* A request arrives; without a key it goes straight to the handler.  Only here is
\* the age of the process's entry looked at.
Arrive(r) ==
  /\ at[r] = "idle"
  /\ IF ~request[r].keyed
       THEN at' = [at EXCEPT ![r] = "auth"] /\ UNCHANGED answer
       ELSE IF memory[Proc(r)] # NoEntry /\ Proc(r) \notin expired
              THEN Replay(r, memory[Proc(r)])
              ELSE at' = [at EXCEPT ![r] = "load"] /\ UNCHANGED answer
  /\ UNCHANGED <<redisVars, processVars, request, awaited, chainVars, rows, lapses, crashes>>

\* cacheGet resolved: answer from the entry, or wait for the request in flight, or
\* go for the lock.
Load(r) ==
  /\ at[r] = "load"
  /\ \E seen \in {stored, NoEntry} :
       /\ IF seen = stored THEN UNCHANGED redisFaults ELSE RedisFails
       /\ IF seen # NoEntry
            THEN Replay(r, seen) /\ UNCHANGED awaited
            ELSE /\ awaited' = [awaited EXCEPT ![r] = inFlight[Proc(r)]]
                 /\ at' = [at EXCEPT ![r] = IF inFlight[Proc(r)] = NoRequest THEN "lock" ELSE "wait"]
                 /\ UNCHANGED answer
       /\ lapses' = IF seen = stored THEN lapses ELSE lapses \cup {"redis"}
  /\ UNCHANGED <<redis, stored, locked, tail, processVars, request, chainVars, rows, crashes>>

\* The promise this request waits for has resolved.
Wake(r) ==
  /\ at[r] = "wait" /\ awaited[r] \in settled
  /\ IF memory[Proc(r)] # NoEntry
       THEN Replay(r, memory[Proc(r)])
       ELSE at' = [at EXCEPT ![r] = "lock"] /\ UNCHANGED answer
  /\ UNCHANGED <<redisVars, processVars, request, awaited, chainVars, rows, lapses, crashes>>

\* The lock is granted - by Redis, or because there is no Redis to ask - and the
\* request becomes the one in flight.  Neither entry is looked at again.
TakeLock(r) ==
  /\ at[r] = "lock"
  /\ \/ /\ ~redis /\ UNCHANGED <<locked, redisFaults>>
        /\ lapses' = lapses \cup {"redis"}
     \/ /\ redis /\ locked = NoRequest /\ locked' = r /\ UNCHANGED redisFaults
        /\ lapses' = IF stored # NoEntry \/ memory[Proc(r)] # NoEntry
                       THEN lapses \cup {"answered before the lock"} ELSE lapses
     \/ /\ RedisFails /\ UNCHANGED locked
        /\ lapses' = lapses \cup {"redis"}
  /\ inFlight' = [inFlight EXCEPT ![Proc(r)] = r]
  /\ at' = [at EXCEPT ![r] = "auth"]
  /\ UNCHANGED <<redis, stored, tail, memory, expired, settled, request, awaited, chainVars, rows, answer,
                 crashes>>

\* A middleware that runs the request although the lock was refused.
Mut_LockTaken(r) ==
  /\ at[r] = "lock" /\ redis /\ locked # NoRequest
  /\ at' = [at EXCEPT ![r] = "auth"] /\ inFlight' = [inFlight EXCEPT ![Proc(r)] = r]
  /\ UNCHANGED <<redisVars, memory, expired, settled, request, awaited, chainVars, rows, answer, lapses,
                 crashes>>

\* Somebody holds the lock: wait for the owner if it is in this process ...
LockTaken(r) ==
  /\ at[r] = "lock" /\ redis /\ locked # NoRequest
  /\ awaited' = [awaited EXCEPT ![r] = inFlight[Proc(r)]]
  /\ at' = [at EXCEPT ![r] = "owner"]
  /\ UNCHANGED <<redisVars, processVars, request, chainVars, rows, answer, lapses, crashes>>

\* ... and answer from its entry, or report that a request is in progress.
AfterOwner(r) ==
  /\ at[r] = "owner" /\ awaited[r] \in settled \cup {NoRequest}
  /\ IF memory[Proc(r)] # NoEntry THEN Replay(r, memory[Proc(r)]) ELSE Reply(r, 409, 0)
  /\ UNCHANGED <<redisVars, processVars, request, awaited, chainVars, rows, lapses, crashes>>
-----------------------------------------------------------------------------
(* The handler.                                                              *)

Fail(r, code) ==
  /\ WrappedReply(r, code, 0)
  /\ UNCHANGED <<redis, stored, locked, redisFaults, request, awaited, chainVars, rows, crashes>>

Advance(r, from, to) ==
  /\ at[r] = from
  /\ at' = [at EXCEPT ![r] = to]
  /\ UNCHANGED <<redisVars, processVars, request, awaited, rows, answer, lapses, crashes>>

\* requireMerchantApiKey and validateBody pass, and the merchant's latest audit
\* event is not address_blocked.
Authorised(r) == Advance(r, "auth", "audit") /\ UNCHANGED chainVars
NotBlocked(r) == Advance(r, "audit", "account") /\ UNCHANGED chainVars

\* createInvoice reads the signer's account ...
GetAccount(r) ==
  /\ Advance(r, "account", "simulate")
  /\ built' = [built EXCEPT ![r] = sequence]
  /\ UNCHANGED <<sequence, tx, landed>>

\* ... simulates the call, and sends it: a stale sequence number is refused.
Simulate(r) == Advance(r, "simulate", "send") /\ UNCHANGED chainVars

Send(r) ==
  /\ Advance(r, "send", "poll")
  /\ built[r] = sequence
  /\ tx' = [tx EXCEPT ![r] = "sent"]
  /\ UNCHANGED <<sequence, built, landed>>

\* The early returns: a bad body (400, which 401 stands for) or no known key, a
\* merchant the audit trail has as blocked, a simulation error or a refused transaction.
Invalid(r) == at[r] = "auth" /\ Fail(r, 401) /\ UNCHANGED lapses
Blocked(r) == at[r] = "audit" /\ Fail(r, 403) /\ UNCHANGED lapses
Refused(r) == at[r] \in {"simulate", "send"} /\ Fail(r, 422) /\ UNCHANGED lapses

\* The poll finds the transaction, in the ledger or failed.
Confirmed(r) == tx[r] = "landed" /\ Advance(r, "poll", "check") /\ UNCHANGED chainVars
PollFailed(r) == at[r] = "poll" /\ tx[r] = "dropped" /\ Fail(r, 422) /\ UNCHANGED lapses

\* Ten polls without an answer, or one that throws: 504, and the transaction may
\* still land.
Timeout(r) ==
  /\ at[r] = "poll"
  /\ Fail(r, 504)
  /\ lapses' = lapses \cup {"outcome unknown"}

IdOf(r) == CHOOSE i \in DOMAIN landed : landed[i] = r

\* findOne finds no row of that id; insertOne, and the 201.
NoDuplicate(r) ==
  at[r] = "check" /\ IdOf(r) \notin rows /\ Advance(r, "check", "insert") /\ UNCHANGED chainVars

Insert(r) ==
  /\ at[r] = "insert"
  /\ rows' = rows \cup {IdOf(r)}
  /\ WrappedReply(r, 201, IdOf(r))
  /\ UNCHANGED <<redis, stored, locked, redisFaults, request, awaited, chainVars, lapses, crashes>>

\* A row of that id exists: left by an earlier deployment of the contract, whose
\* ids start again at 1.
Duplicate(r) ==
  /\ at[r] = "check" /\ IdOf(r) \in rows
  /\ Fail(r, 409)
  /\ lapses' = lapses \cup {"outcome unknown"}

\* Mongo fails after the invoice was created on chain.
MongoFails(r) ==
  /\ at[r] \in {"check", "insert"}
  /\ Fail(r, 504)
  /\ lapses' = lapses \cup {"outcome unknown"}
-----------------------------------------------------------------------------
(* Redis, the chain and the processes.                                       *)

\* The wrapped res.json's setex and del arrive, in that order, or fail.  The del
\* removes the lock whoever holds it now.
FinalCalls(r) ==
  /\ r \in tail /\ tail' = tail \ {r}
  /\ \/ /\ stored' = IF answer[r].code = 201
                       THEN [body |-> request[r].body, id |-> answer[r].id] ELSE stored
        /\ locked' = NoRequest /\ UNCHANGED redisFaults
        /\ lapses' = IF locked \notin {r, NoRequest} THEN lapses \cup {"lock expired"} ELSE lapses
     \/ /\ RedisFails /\ UNCHANGED <<stored, locked>> /\ lapses' = lapses \cup {"redis"}
  /\ UNCHANGED <<redis, processVars, at, request, awaited, chainVars, rows, answer, crashes>>

\* The lock's five seconds are over.
LockExpires ==
  /\ locked # NoRequest /\ locked' = NoRequest
  /\ lapses' = IF Running(locked) \/ locked \in tail THEN lapses \cup {"lock expired"} ELSE lapses
  /\ UNCHANGED <<redis, stored, tail, redisFaults, processVars, at, request, awaited, chainVars,
                 rows, answer, crashes>>

\* The 24 hours of an answer are over: in Redis, where the entry goes, and in a
\* process, whose map keeps it.
StoredExpires ==
  /\ stored # NoEntry /\ stored' = NoEntry
  /\ lapses' = lapses \cup {"answer expired"}
  /\ UNCHANGED <<redis, locked, tail, redisFaults, processVars, at, request, awaited, chainVars,
                 rows, answer, crashes>>

MemoryExpires(p) ==
  /\ memory[p] # NoEntry /\ p \notin expired /\ expired' = expired \cup {p}
  /\ UNCHANGED <<redisVars, memory, inFlight, settled, at, request, awaited, chainVars, rows, answer,
                 lapses, crashes>>

\* The network includes a transaction, or never will.
Land(r) ==
  /\ tx[r] = "sent" /\ built[r] = sequence
  /\ tx' = [tx EXCEPT ![r] = "landed"]
  /\ landed' = Append(landed, r) /\ sequence' = sequence + 1
  /\ UNCHANGED <<redisVars, processVars, at, request, awaited, built, rows, answer, lapses, crashes>>

Drop(r) ==
  /\ tx[r] = "sent" /\ tx' = [tx EXCEPT ![r] = "dropped"]
  /\ UNCHANGED <<redisVars, processVars, at, request, awaited, sequence, built, landed, rows, answer,
                 lapses, crashes>>

\* A process dies with its memory and its requests, and is restarted.
Crash(p) ==
  /\ crashes < MaxCrashes /\ crashes' = crashes + 1
  /\ at' = [r \in CreateRequest |-> IF Proc(r) = p /\ Running(r) THEN "dead" ELSE at[r]]
  /\ memory' = [memory EXCEPT ![p] = NoEntry] /\ expired' = expired \ {p}
  /\ inFlight' = [inFlight EXCEPT ![p] = NoRequest]
  /\ tail' = {r \in tail : Proc(r) # p}
  /\ lapses' = IF \E r \in CreateRequest : Proc(r) = p /\ (r \in tail \/ (Running(r) /\ tx[r] # "none"))
                 THEN lapses \cup {"outcome unknown"}
                 ELSE IF ~redis THEN lapses \cup {"redis"} ELSE lapses
  /\ UNCHANGED <<redis, stored, locked, redisFaults, settled, request, awaited, chainVars, rows,
                 answer>>

Step(r) ==
  \/ Arrive(r) \/ Load(r) \/ Wake(r) \/ TakeLock(r) \/ LockTaken(r) \/ AfterOwner(r)
  \/ Authorised(r) \/ NotBlocked(r) \/ GetAccount(r) \/ Simulate(r) \/ Send(r)
  \/ Confirmed(r) \/ PollFailed(r) \/ Timeout(r) \/ Invalid(r) \/ Blocked(r) \/ Refused(r)
  \/ NoDuplicate(r) \/ Duplicate(r) \/ Insert(r) \/ MongoFails(r)

ApiNext ==
  \/ \E r \in CreateRequest : Step(r) \/ FinalCalls(r) \/ Land(r) \/ Drop(r)
  \/ LockExpires \/ StoredExpires
  \/ \E p \in Process : MemoryExpires(p) \/ Crash(p)

\* Every await of a live process comes back, as does every one
\* of its Redis calls.
ApiFairness ==
  /\ \A r \in CreateRequest :
       WF_apiVars(at[r] # "idle" /\ Step(r)) /\ WF_apiVars(FinalCalls(r))
  /\ WF_apiVars(LockExpires)

ApiSpec == ApiInit /\ [][ApiNext]_apiVars /\ ApiFairness
-----------------------------------------------------------------------------
(* Properties.                                                               *)

\* Two requests with one Idempotency-Key never both create an invoice, unless
\* something in the list of lapses happened: Redis is absent or a call to it
\* failed; the lock expired (or was released by an earlier owner) under a request
\* that still ran; the stored answer's 24 hours in Redis were over (a process's own
\* entry may be past them while Redis has its own); a request was answered without
\* knowing what became of its transaction; or the answer was stored between a
\* request's look at the entries and its taking the lock, after which it does not
\* look again (idempotency.ts:42-68).  No other step of middleware, handler, Redis,
\* chain or process undoes the key.
OncePerKey ==
  lapses = {} => Cardinality({i \in DOMAIN landed : request[landed[i]].keyed}) <= 1

\* Whatever the races between requests, processes and Redis, a 201 names an
\* invoice that is on chain and has its row, created for the very body the
\* request sent (the fingerprint checks of idempotency.ts and the order of
\* createInvoice, insertOne and res.json in routes/invoices.ts).
CreatedAsAsked ==
  \A r \in CreateRequest : answer[r].code = 201 =>
    /\ answer[r].id \in DOMAIN landed \cap rows
    /\ request[landed[answer[r].id]].body = request[r].body

\* No request waits for ever, not even for the request in flight before it: each
\* is answered unless its process dies (the promises of inFlight always resolve,
\* idempotency.ts:75-80).
RequestsAnswered ==
  \A r \in CreateRequest : at[r] # "idle" ~> at[r] \in {"done", "dead"}
=============================================================================
