---------------------------- MODULE WebhookQueue ----------------------------
(***************************************************************************)
(* The webhook delivery queue (services/webhook-delivery.ts) in the process *)
(* that owns it (index.ts, shutdown.ts): deliveries with retries, dead       *)
(* letters and their replay, the drain at SIGTERM that stores what is        *)
(* unfinished, the hard timeout, and the next process that takes the stored  *)
(* jobs up again.  Every await ends a step.  What Mongo holds survives a     *)
(* process; everything else dies with it.                                    *)
(*                                                                           *)
(* A key is an idempotency key: it stands for its payload and its endpoint.  *)
(* A key has at most one delivery of each origin at a time.                  *)
(***************************************************************************)
EXTENDS Naturals, FiniteSets

CONSTANTS
  Key,                \* idempotency keys
  RefusedKey,         \* keys whose endpoint parseWebhookUrl or DNS pinning rejects
  NoJob,              \* no stored job
  maxAttempts,
  shutdownTimeout, configuredDrain, margin,  \* in ticks of the shutdown clock
  MaxGrants,          \* bound on enqueues and replays of a key
  MaxBoots            \* bound on processes; the last one meets no signal and no fault of Mongo at start

ASSUME QueueAssumption ==
  /\ IsFiniteSet(Key) /\ RefusedKey \subseteq Key
  /\ maxAttempts \in Nat \ {0}
  /\ shutdownTimeout \in Nat /\ configuredDrain \in Nat /\ margin \in Nat
  /\ MaxGrants \in Nat /\ MaxBoots \in Nat
  /\ NoJob \notin Nat

VARIABLES
  \* Mongo.
  store,          \* webhook_pending_deliveries: attempts already made, or NoJob
  deadLetters,    \* webhook_dead_letters
  \* The queue's memory.
  task,           \* deliverWebhook calls under way
  active,         \* the calls that the queue tracks
  deferred,       \* jobs submitted after shutdown began
  saving, late,   \* jobs that drain, or an enqueue after drain, is persisting
  hand, resume,   \* resumePending: the jobs it holds, the await it is at
  replaying,      \* the replay request in flight for a key
  \* The process.
  phase,
  drainAwaits,    \* the deliveries that drain waits for
  hardLeft, drainLeft,  \* the two timers
  boots,
  \* History: keys ever enqueued, keys delivered, keys that a fault caught in
  \* memory only; requests sent, and deliveries granted a full set of attempts.
  accepted, delivered, excused, posts, granted

mongoVars     == <<store, deadLetters>>
queueVars     == <<task, active, deferred, saving, late, hand, resume, replaying>>
lifecycleVars == <<phase, drainAwaits, hardLeft, drainLeft, boots>>
historyVars   == <<accepted, delivered, excused, posts, granted>>
vars          == <<mongoVars, queueVars, lifecycleVars, historyVars>>

Origin == {"fresh", "resumed", "replay"}
Task   == Key \X Origin
Job    == [key: Key, attempts: 0 .. maxAttempts]
Shutting == {"closing", "draining", "persisting", "mongo"}
Idle   == [st |-> "none", n |-> 0]

TypeOK ==
  /\ store \in [Key -> 0 .. maxAttempts \cup {NoJob}] /\ deadLetters \subseteq Key
  /\ task \in [Task -> [st: {"none", "post", "delay", "dead", "pending"}, n: 0 .. maxAttempts]]
  /\ active \subseteq Task /\ drainAwaits \subseteq Task
  /\ deferred \subseteq Job /\ saving \subseteq Job /\ late \subseteq Job /\ hand \subseteq Job
  /\ resume \in {"find", "delete", "list", "done"}
  /\ replaying \in [Key -> {"none", "found", "waiting", "deleting"}]
  /\ phase \in {"down", "up"} \cup Shutting
  /\ hardLeft \in 0 .. shutdownTimeout /\ drainLeft \in 0 .. shutdownTimeout
  /\ boots \in 0 .. MaxBoots
  /\ accepted \subseteq Key /\ delivered \subseteq Key /\ excused \subseteq Key
  /\ posts \in [Key -> Nat] /\ granted \in [Key -> 0 .. MaxGrants]

Init ==
  /\ store = [k \in Key |-> NoJob] /\ deadLetters = {}
  /\ task = [t \in Task |-> Idle] /\ active = {}
  /\ deferred = {} /\ saving = {} /\ late = {} /\ hand = {} /\ resume = "done"
  /\ replaying = [k \in Key |-> "none"]
  /\ phase = "down" /\ drainAwaits = {} /\ hardLeft = 0 /\ drainLeft = 0 /\ boots = 0
  /\ accepted = {} /\ delivered = {} /\ excused = {}
  /\ posts = [k \in Key |-> 0] /\ granted = [k \in Key |-> 0]

isAccepting == phase = "up"
Aborted     == phase \in {"persisting", "mongo"}
Keys(jobs)  == {j.key : j \in jobs}
UnderWay    == {"post", "delay", "dead"}
InFlight    == {t \in Task : task[t].st \in UnderWay}

\* What the queue knows of a key outside Mongo.  A job that resumePending has
\* found but not yet deleted is still stored.
InMemory ==
  {t[1] : t \in active} \cup Keys(deferred \cup saving \cup late)
    \cup (IF resume = "list" THEN Keys(hand) ELSE {})

-----------------------------------------------------------------------------
(* deliverWebhook: one attempt after another. *)

\* The head of the retry loop: a resumed job may have no attempt left.
Begin(attempts) ==
  IF attempts < maxAttempts THEN [st |-> "post", n |-> attempts + 1]
                            ELSE [st |-> "dead", n |-> attempts]

\* onAttempt and the request itself, for every delivery that begins an attempt.
CountPosts(new) ==
  posts' = [k \in Key |-> posts[k] + Cardinality({t \in Task :
              t[1] = k /\ new[t].st = "post" /\ new[t] # task[t]})]

\* enqueue, for jobs of one origin: started, or kept for the next process.
Enqueue(jobs, origin) ==
  \/ /\ isAccepting
     /\ task' = [t \in Task |->
          IF t[2] = origin /\ t[1] \in Keys(jobs)
          THEN Begin((CHOOSE j \in jobs : j.key = t[1]).attempts) ELSE task[t]]
     /\ CountPosts(task')
     /\ active' = active \cup {<<k, origin>> : k \in Keys(jobs)}
     /\ UNCHANGED <<deferred, late>>
  \/ /\ ~isAccepting
     /\ IF Aborted THEN late' = late \cup jobs /\ UNCHANGED deferred
                   ELSE deferred' = deferred \cup jobs /\ UNCHANGED late
     /\ UNCHANGED <<task, active, posts>>

\* An event is handed to the queue.
EnqueueEvent(k) ==
  /\ phase # "down" /\ granted[k] < MaxGrants
  /\ <<k, "fresh">> \notin InFlight
  /\ Enqueue({[key |-> k, attempts |-> 0]}, "fresh")
  /\ accepted' = accepted \cup {k}
  /\ granted' = [granted EXCEPT ![k] = @ + 1]
  /\ UNCHANGED <<mongoVars, saving, hand, resume, replaying, lifecycleVars, delivered, excused>>

\* postWebhook answers 2xx: the delivery ends, a replay goes on to delete the
\* dead letter.
PostOk(t) ==
  /\ task[t].st = "post" /\ t[1] \notin RefusedKey
  /\ task' = [task EXCEPT ![t] = Idle]
  /\ active' = active \ {t}
  /\ delivered' = delivered \cup {t[1]}
  /\ replaying' = [replaying EXCEPT ![t[1]] = IF t[2] = "replay" THEN "deleting" ELSE @]
  /\ UNCHANGED <<mongoVars, deferred, saving, late, hand, resume, lifecycleVars,
                 accepted, excused, posts, granted>>

\* Another status, a network error, the ten-second timeout or the abort.
PostFail(t) ==
  /\ task[t].st = "post"
  /\ task' = [task EXCEPT ![t].st = IF task[t].n < maxAttempts THEN "delay" ELSE "dead"]
  /\ UNCHANGED <<mongoVars, active, deferred, saving, late, hand, resume, replaying,
                 lifecycleVars, historyVars>>

\* A loop that does not look at the signal.
Mut_EndDelay(t) ==
  /\ task[t].st = "delay"
  /\ task' = [task EXCEPT ![t] = Begin(@.n)]
  /\ CountPosts(task')
  /\ UNCHANGED <<mongoVars, active, deferred, saving, late, hand, resume, replaying, lifecycleVars,
                 accepted, delivered, excused, granted>>

\* The backoff is over, or cut short by the abort, and the loop looks at the
\* signal.  An interrupted replay answers its request.
EndDelay(t) ==
  /\ task[t].st = "delay"
  /\ task' = [task EXCEPT ![t] =
       IF Aborted THEN [@ EXCEPT !.st = "pending"] ELSE Begin(@.n)]
  /\ CountPosts(task')
  /\ replaying' = [replaying EXCEPT ![t[1]] = IF t[2] = "replay" /\ Aborted THEN "none" ELSE @]
  /\ UNCHANGED <<mongoVars, active, deferred, saving, late, hand, resume, lifecycleVars,
                 accepted, delivered, excused, granted>>

\* A failed delivery becomes a dead letter; an error of the store is swallowed.
SaveDeadLetter(t) ==
  /\ task[t].st = "dead"
  /\ \/ deadLetters' = deadLetters \cup {t[1]} /\ UNCHANGED excused
     \/ UNCHANGED deadLetters /\ excused' = excused \cup {t[1]}
  /\ task' = [task EXCEPT ![t] = Idle]
  /\ active' = active \ {t}
  /\ replaying' = [replaying EXCEPT ![t[1]] = IF t[2] = "replay" THEN "none" ELSE @]
  /\ UNCHANGED <<store, deferred, saving, late, hand, resume, lifecycleVars,
                 accepted, delivered, posts, granted>>

-----------------------------------------------------------------------------
(* Replay of a dead letter by an administrator. *)

\* replayDeadLetter has found the letter.
ReplayFind(k) ==
  /\ phase = "up" /\ replaying[k] = "none"
  /\ k \in deadLetters /\ granted[k] < MaxGrants
  /\ <<k, "replay">> \notin InFlight
  /\ replaying' = [replaying EXCEPT ![k] = "found"]
  /\ granted' = [granted EXCEPT ![k] = @ + 1]
  /\ UNCHANGED <<mongoVars, task, active, deferred, saving, late, hand, resume,
                 lifecycleVars, accepted, delivered, excused, posts>>

\* It enqueues the payload from attempt 0.  A closed queue answers null, which
\* the route reports as not found.
ReplayEnqueue(k) ==
  /\ replaying[k] = "found"
  /\ Enqueue({[key |-> k, attempts |-> 0]}, "replay")
  /\ replaying' = [replaying EXCEPT ![k] = IF isAccepting THEN "waiting" ELSE "none"]
  /\ UNCHANGED <<mongoVars, saving, hand, resume, lifecycleVars, accepted, delivered,
                 excused, granted>>

\* The letter goes only once the replay was delivered; a failing store keeps it.
ReplayDelete(k) ==
  /\ replaying[k] = "deleting"
  /\ deadLetters' \in {deadLetters \ {k}, deadLetters}
  /\ replaying' = [replaying EXCEPT ![k] = "none"]
  /\ UNCHANGED <<store, task, active, deferred, saving, late, hand, resume,
                 lifecycleVars, historyVars>>

-----------------------------------------------------------------------------
(* The process starts and takes up what the last one stored. *)

\* A start without resumePending.
Mut_Boot ==
  /\ phase = "down" /\ boots < MaxBoots
  /\ phase' = "up" /\ boots' = boots + 1
  /\ UNCHANGED <<mongoVars, queueVars, drainAwaits, hardLeft, drainLeft, historyVars>>

Boot ==
  /\ phase = "down" /\ boots < MaxBoots
  /\ phase' = "up" /\ boots' = boots + 1 /\ resume' = "find"
  /\ UNCHANGED <<mongoVars, task, active, deferred, saving, late, hand, replaying,
                 drainAwaits, hardLeft, drainLeft, historyVars>>

\* takeAll: find(), then deleteMany() of what was found.
ResumeFind ==
  /\ resume = "find" /\ phase # "down"
  /\ hand' = {[key |-> k, attempts |-> store[k]] : k \in {x \in Key : store[x] # NoJob}}
  /\ resume' = IF hand' = {} THEN "list" ELSE "delete"
  /\ UNCHANGED <<mongoVars, task, active, deferred, saving, late, replaying,
                 lifecycleVars, historyVars>>

ResumeDelete ==
  /\ resume = "delete"
  /\ store' = [k \in Key |-> IF k \in Keys(hand) THEN NoJob ELSE store[k]]
  /\ resume' = "list"
  /\ UNCHANGED <<deadLetters, task, active, deferred, saving, late, hand, replaying,
                 lifecycleVars, historyVars>>

\* deadLetterStore.list(1) has answered: the jobs are enqueued in one go.
ResumeEnqueue ==
  /\ resume = "list"
  /\ Enqueue(hand, "resumed")
  /\ hand' = {} /\ resume' = "done"
  /\ UNCHANGED <<mongoVars, saving, replaying, lifecycleVars,
                 accepted, delivered, excused, granted>>

\* An await of resumePending throws; index.ts logs it, and what is still stored
\* waits for the next process.
ResumeFail ==
  /\ resume # "done" /\ boots < MaxBoots
  /\ excused' = excused \cup (IF resume = "list" THEN Keys(hand) ELSE {})
  /\ hand' = {} /\ resume' = "done"
  /\ UNCHANGED <<mongoVars, task, active, deferred, saving, late, replaying, lifecycleVars,
                 accepted, delivered, posts, granted>>

-----------------------------------------------------------------------------
(* Graceful shutdown. *)

resolveWebhookDrainTimeout ==
  LET ceiling == IF shutdownTimeout > margin THEN shutdownTimeout - margin ELSE 0
  IN  IF configuredDrain > ceiling THEN ceiling ELSE configuredDrain

\* SIGTERM or SIGINT; a second signal finds shuttingDown set.  The queue stops
\* accepting, the server stops listening, the hard timer runs.
Shutdown ==
  /\ phase = "up" /\ boots < MaxBoots
  /\ phase' = "closing" /\ hardLeft' = shutdownTimeout
  /\ UNCHANGED <<mongoVars, queueVars, drainAwaits, drainLeft, boots, historyVars>>

\* server.close has called back: no request is in flight.  drain begins.
ServerClosed ==
  /\ phase = "closing"
  /\ \A k \in Key : replaying[k] = "none"
  /\ phase' = "draining" /\ drainAwaits' = active /\ drainLeft' = resolveWebhookDrainTimeout
  /\ UNCHANGED <<mongoVars, queueVars, hardLeft, boots, historyVars>>

\* A drain that forgets the jobs it deferred.
Mut_Unfinished == {[key |-> t[1], attempts |-> task[t].n] : t \in active}

Unfinished == {[key |-> t[1], attempts |-> task[t].n] : t \in active} \cup deferred

\* Every awaited delivery has settled, or drain's timer fires: no further
\* attempt, and what is still tracked or deferred is to be stored.
DrainEnd ==
  /\ phase = "draining"
  /\ drainAwaits \cap active = {} \/ drainLeft = 0
  /\ saving' = Unfinished
  /\ active' = {} /\ deferred' = {} /\ drainAwaits' = {}
  /\ phase' = IF saving' = {} THEN "mongo" ELSE "persisting"
  /\ UNCHANGED <<mongoVars, task, late, hand, resume, replaying, hardLeft, drainLeft,
                 boots, historyVars>>

\* store.save writes each job under its key, in some order; two jobs of a key
\* leave the one that was written last.
Saved(jobs) ==
  \E pick \in [Keys(jobs) -> 0 .. maxAttempts] :
    /\ \A k \in Keys(jobs) : [key |-> k, attempts |-> pick[k]] \in jobs
    /\ store' = [k \in Key |-> IF k \in Keys(jobs) THEN pick[k] ELSE store[k]]

\* persist, at the end of drain: stored, or the error is swallowed.
Persist ==
  /\ phase = "persisting"
  /\ \/ Saved(saving) /\ UNCHANGED excused
     \/ UNCHANGED store /\ excused' = excused \cup Keys(saving)
  /\ saving' = {} /\ phase' = "mongo"
  /\ UNCHANGED <<deadLetters, task, active, deferred, late, hand, resume, replaying, drainAwaits,
                 hardLeft, drainLeft, boots, accepted, delivered, posts, granted>>

\* persist, of a job enqueued after drain: nobody waits for it.
PersistLate ==
  /\ late # {}
  /\ \/ Saved(late) /\ UNCHANGED excused
     \/ UNCHANGED store /\ excused' = excused \cup Keys(late)
  /\ late' = {}
  /\ UNCHANGED <<deadLetters, task, active, deferred, saving, hand, resume, replaying,
                 lifecycleVars, accepted, delivered, posts, granted>>

\* The process is gone.  What it held in memory only is excused: nothing in the
\* code can save it.
Gone ==
  /\ phase' = "down"
  /\ excused' = excused \cup InMemory
  /\ task' = [t \in Task |-> Idle] /\ active' = {} /\ deferred' = {} /\ saving' = {}
  /\ late' = {} /\ hand' = {} /\ resume' = "done" /\ replaying' = [k \in Key |-> "none"]
  /\ drainAwaits' = {} /\ hardLeft' = 0 /\ drainLeft' = 0
  /\ UNCHANGED <<mongoVars, boots, accepted, delivered, posts, granted>>

\* closeMongo has answered or thrown: exit(0) or exit(1).
Exit == phase = "mongo" /\ Gone

\* A hard timer that is cleared once the server has closed.
Mut_HardExit == phase = "closing" /\ hardLeft = 0 /\ Gone

\* The hard timer: exit(1).
HardExit == phase \in Shutting /\ hardLeft = 0 /\ Gone

\* The process is killed.
ProcessCrash == phase # "down" /\ boots < MaxBoots /\ Gone

\* A tick of the shutdown clock.  A timer that is due fires before the next.
Tick ==
  /\ phase \in Shutting /\ hardLeft > 0
  /\ phase = "draining" => drainLeft > 0
  /\ hardLeft' = hardLeft - 1
  /\ drainLeft' = IF phase = "draining" THEN drainLeft - 1 ELSE drainLeft
  /\ UNCHANGED <<mongoVars, queueVars, phase, drainAwaits, boots, historyVars>>

Deliver == \E t \in Task : PostOk(t) \/ PostFail(t) \/ EndDelay(t) \/ SaveDeadLetter(t)
ReplayStep == \E k \in Key : ReplayEnqueue(k) \/ ReplayDelete(k)
Resume  == ResumeFind \/ ResumeDelete \/ ResumeEnqueue \/ ResumeFail
Submit  == \E k \in Key : EnqueueEvent(k) \/ ReplayFind(k)

Next ==
  \/ Submit \/ Deliver \/ ReplayStep \/ Boot \/ Resume
  \/ Shutdown \/ ServerClosed \/ DrainEnd \/ Persist \/ PersistLate
  \/ Exit \/ HardExit \/ ProcessCrash \/ Tick

Spec == Init /\ [][Next]_vars

\* Requests time out, delays end, Mongo answers or throws, timers fire, and the
\* supervisor starts the next process.  Nothing is assumed of Persist and Exit:
\* a database that hangs at shutdown is what the hard timer is for.
Fairness ==
  /\ WF_vars(Boot) /\ WF_vars(Resume) /\ WF_vars(ReplayStep)
  /\ \A t \in Task : WF_vars(PostOk(t) \/ PostFail(t) \/ EndDelay(t) \/ SaveDeadLetter(t))
  /\ WF_vars(ServerClosed) /\ WF_vars(DrainEnd) /\ WF_vars(Tick) /\ WF_vars(HardExit)

FairSpec == Spec /\ Fairness

-----------------------------------------------------------------------------
(* Properties. *)

\* No event is lost between its enqueue and its delivery or dead letter,
\* through retries, drain and restart: it is in memory or in Mongo unless a
\* fault caught it where only memory held it.
JobsAccounted ==
  \A k \in accepted \ excused :
    \/ k \in delivered \cup deadLetters
    \/ store[k] # NoJob
    \/ k \in InMemory

\* The inductive invariant behind it: only what was delivered is deleted from the
\* dead letters, only drain's own save holds jobs in "saving", and a process that is
\* gone holds none in resumePending.
QueueInv ==
  /\ JobsAccounted
  /\ accepted \subseteq Key
  /\ replaying \in [Key -> {"none", "found", "waiting", "deleting"}]
  /\ \A k \in Key : replaying[k] = "deleting" => k \in delivered
  /\ phase = "down" => resume = "done"
  /\ saving # {} => phase = "persisting"

\* Once drain has given up, no request of a delivery is started: what it stored
\* is not also being sent by the process that stored it.
NoAttemptAfterAbort == [][Aborted => posts' = posts]_vars

\* Every event is delivered or becomes a dead letter, in this process or a
\* later one, unless a fault caught it in memory.
JobsSettle ==
  \A k \in Key : k \in accepted ~> k \in delivered \cup deadLetters \cup excused

\* Shutdown ends, whatever Mongo does.
ShutdownEnds == phase = "closing" ~> phase = "down"
=============================================================================
