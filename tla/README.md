# Verification of the COMEBACKHERE protocol

COMEBACKHERE is an invoicing and settlement protocol on Stellar: three Soroban
contracts (invoice, treasury, compliance), a TypeScript backend that indexes their
events and serves an HTTP API, and two web frontends. This directory holds TLA+
models of the parts whose behaviour is hard to test, the TLC runs that check them on
small instances, and TLAPS proofs for instances of any size.

Modules are checked with `tlc -config <run>.cfg <module>` and proofs with
`tlapm <module>.tla`. `PROJECT.json` lists the runs, the mutation of the code that
each property detects, the source lines behind every definition, the hazards, the
findings and the theorems.

## 1. The system

| Component | State | Operations | Talks to |
|---|---|---|---|
| Treasury contract (`contracts/treasury`) | admin and nominee, pause flag, signer weights and signer list, threshold, settlements, id counter, lifetime, token allowlist, daily caps and windows | initialize, handover, pause, upgrade, signer changes, propose / approve / execute / cancel, raise and resolve a dispute, change the merchant, deposit, withdraw | token contracts; called by the invoice contract's `raise_dispute` |
| Invoice contract (`contracts/invoice`) | admin and nominee, pause flag, invoices, id counter, nonces, grace window, customer index, addresses of the other two contracts | create, pay, mark paid (batch), cancel, request refund, release, expire (batch), configuration, handover | compliance (`is_allowed`), token contracts, treasury |
| Compliance contract (`contracts/compliance`) | admin, pause flag, status per address | allow, allow until, block, clear, two batches, `is_allowed` | asked by the invoice contract |
| Invoice event indexer (`indexer.ts`) | Mongo: event records, invoice rows, cursor, gaps; memory: the batch in hand | poll, record an event, record a retention gap and skip it | Soroban RPC, MongoDB; shares rows with the invoice routes |
| Treasury indexer (`services/treasury-indexer.ts`) and `execute-settlement` (`routes/treasury.ts`) | settlement rows, cursor, remembered event ids | a tick every 5 s; balance check, submit, re-read, row update | RPC, webhooks, MongoDB |
| Webhook queue (`services/webhook-delivery.ts`) and shutdown (`shutdown.ts`, `index.ts`) | jobs, retry timers, dead letters, stored jobs | enqueue, deliver, retry, replay, drain, abort, persist, resume | merchants' endpoints, MongoDB |
| Invoice creation (`middleware/idempotency.ts`, `routes/invoices.ts`) | stored answers, in-flight promises, Redis entry and lock, invoice rows | intercept, create on chain, insert, answer | Redis, RPC, MongoDB |
| Invoice actions and reads (`routes/invoice-actions.ts`, `routes/release-escrow.ts`, `routes/invoices.ts`) | the row's status, cached pages | cancel, refund, release; read one with write-back; cursor pages | RPC, MongoDB, Redis |
| Disputes, API keys, balance cache (`routes/disputes.ts`, `routes/api-keys.ts`, `lib/cache.ts`) | votes and tallies in memory; key records; balances with a lifetime | raise, vote; create, rotate, revoke; fill, evict | MongoDB, RPC |
| Canonical frontend (`comebackhere-frontend`) | wallet store, invoice shown, dialogs, busy flags, session and local storage | connect, load, pay, cancel, refund, list, batch expiry, admin forms, onboarding | wallet extension, RPC, backend |
| Legacy frontend (`frontend`) | hold queue, approvals, settings | poll, release, approve, save | backend |

What is hard here:

- **Contracts** run one invocation at a time and atomically. The difficulty is long
  sequences of legal calls by different parties: votes, disputes, merchant changes,
  signer rotation and a second `initialize` around one settlement; payment, refund,
  cancellation and expiry around one invoice; second-exact time limits; caps that
  roll over; facts stored twice.
- **Across contracts**, a permission is read in one contract when a call relies
  on it in another, and may have lapsed since an earlier call.
- **The backend** interleaves at every `await` with the chain, with other requests and
  other processes, with timers and with shutdown; it may die at any of them; answers
  of the node may be lost after their transaction was accepted; locks lapse.
- **The frontends** interleave the user with answers that arrive late and in any
  order, with polls, and with other tabs.

## 2. Modules and how they correspond to the code

| Module | Models |
|---|---|
| `Treasury` | `contracts/treasury/src/lib.rs` |
| `InvoiceLifecycle` | the state diagram of `ARCHITECTURE.md`, as an abstract specification |
| `Invoice` | `contracts/invoice/src/lib.rs`; holds an instance of `InvoiceLifecycle` |
| `Compliance` | `contracts/compliance/src/lib.rs` |
| `Payments` | invoice and compliance contracts together |
| `InvoiceIndexer` | `indexer.ts` and the retention errors of `lib/soroban.ts` |
| `TreasuryService` | the treasury indexer and `execute-settlement`, with what the treasury contract does to a settlement (`propose_settlement` to `resolve_dispute` of `contracts/treasury/src/lib.rs`) |
| `WebhookQueue` | the delivery queue in the process that owns it, shutdown and restart |
| `InvoiceApi` | `POST /api/invoices` behind the idempotency middleware, two processes |
| `InvoiceActions` | cancel, refund, release and the write-back of `GET /:id`, with the indexer as another writer of the row |
| `InvoicePages` | a client walking the cursor pages of `GET /api/invoices`, cached |
| `Disputes`, `ApiKeys`, `BalanceCache` | the routes and the cache of these names |
| `WalletStore` | `hooks/useWallet.ts` with the buttons of `App.tsx` |
| `Checkout` | `InvoicePayment.tsx`, the refund tab, `useInvoice.ts`, `utils/soroban.ts`, the confirmation dialogs, `useCompletedPaymentGuard.ts` |
| `InvoiceList`, `ExpiryBatch`, `Onboarding` | the components of these names (`BatchExpireInvoices.tsx`, both onboarding wizards) |
| `HoldQueue`, `ApprovalList` | `OnHoldSettlements.tsx`; `useSettlements.ts` with `SettlementApproval.tsx` |
| `AdminScreens` | the forms that write to the API or to a contract, each a table of its buttons |
| `TreasuryProofs`, `InvoiceProofs`, `IndexerProofs`, `TreasuryServiceProofs` | theorems on the modules of these names |
| `ComplianceProofs` | theorems on `Compliance` and `Payments` |
| `BackendProofs` | theorems on `ApiKeys`, `InvoiceActions`, `InvoiceApi`, `InvoicePages`, `Disputes` and `WebhookQueue` |
| `ScreenProofs` | theorems on the frontend modules |
| `SumTheorems` | lemmas about sums over finite sets |
| `MC*` | instances for TLC |

**Contracts.** One action per entry point that changes state, named after it. A
Soroban invocation is atomic and one that fails writes nothing; so an action is
enabled exactly when the call returns `Ok`, and a failing call is a stutter.
`require_auth` is the existential over the caller. Storage keys are variables with
the key's name; a missing key is the default the getter returns (`unwrap_or`) or an
explicit "absent" value where the code tells the difference. `u64` sums are checked
against `U64Max`, as the `checked_add`s of the code do. Ledger time is `now`,
advanced by `Tick`. Token contracts are external: a balance per account and
`Transfer`, which fails on insufficient funds. History variables (`credit`,
`outflow`, `limitSince`, `funding`, `fundedAt`, `nonceOf`, `nominatedBy`,
`initialized`) are read by properties, never by guards; `initialized` and `outflow`
also carry a bound on how often their action is explored.

**Payments** identifies `Invoice`'s `allowed` set with what `is_allowed` computes
from `Compliance`'s storage and clock. Each step is one call to one contract, with
the cross-contract read inside it.

**Backend modules.** A step is the code between two `await`s. What is in Mongo or
Redis survives a process; everything else is dropped when it dies. A request, a
tick, a poll or a delivery has a program counter that names the `await` it is at.
An await may throw. The chain is the environment: it accepts, includes late or
never includes a transaction, and other clients use the same contracts.

- `InvoiceIndexer`: `pc` is `load` (cursor), `fetch`, `gap`, `skip`, `refetch`
  (retention gap), `store`, `status`, `mark`, `hook` (`recordTransition`, per
  event), `save`. `Abandon` drops the poll. The node answers as of the newest
  ledger or, as a fault, as of an earlier one.
- `TreasuryService`: two tick slots stand for ticks of `setInterval` that overlap.
  The cursor is a token with a bounded list of remembered ids. The contract's calls
  are those of `Treasury`, reduced to status and approval weight, with its missing
  checks: `raise_dispute` holds a settlement of any status, so an executed one can
  return to Pending, and no balance is looked at. The indexer reads three event types
  (`docs/webhooks.md`); the contract under `contracts/treasury` publishes none of them
  (section 7). `Published` is the set a deployment publishes: the runs take all three,
  the proofs any, the empty set included.
- `WebhookQueue`: a job is named by its idempotency key; a task is a job with its
  origin (fresh, resumed, replayed). The shutdown clock counts down the hard and
  the drain timer; one that is due fires before the next tick. `excused` collects
  what a fault caught where the code holds it in memory only.
- `InvoiceApi`: all requests carry one key, or none. `lapses` records what defeats
  the key: no Redis or a failed call, a lock that lapsed or was released under a
  running request, the end of the stored answer's 24 hours in Redis, an answer given
  without knowing the transaction's fate, an answer stored between the look-up and the
  lock. A process keeps an entry that is past its `expiresAt` and looks at the age only
  when a request arrives, not when it wakes from waiting for another.

**Frontend modules.** A step is one event: a click whose button is rendered and
enabled, an answer, a timer, a storage write that follows a render. Closures keep
the values of the render they were made in where the code uses them. Two clicks
have a render between them. Texts, styles and validation messages are left out.

- `Checkout`: of the invoice contract the status changes are kept; cancelling a paid
  invoice asks for a refund. `storageWorks` says whether `sessionStorage` can be used at
  the moment; it may fail and recover at any time, and the guard
  (`useCompletedPaymentGuard.ts`) swallows either.
- `AdminScreens`: `App.tsx` keeps the panels of all tabs mounted and hides all but one.
  The screens share no flag, dialog or list, so each is explored alone. The treasury
  screen is one screen: its form and its settlement cards stand side by side and do
  not know each other's flags.
- `Onboarding`: both wizards; `legacy` chooses one. The extension may answer the legacy
  wizard's question without an address.
- `App.tsx` mounts neither `WalletBar`, `InvoiceList`, `CreateInvoice` (the last two it
  imports), `RaiseDispute` nor `EscrowRelease`. All but `WalletBar`, which offers what
  the header's buttons do, and `EscrowRelease` are modelled as the components they are.

## 3. Runs

All counts are distinct states. Deadlock is not checked: contracts stop when the
bounds are used up, and an idle service or screen is a legal state of each.

**Parts and focus.** `MCBackend` and `MCScreens` check modules that share no
variables. A behaviour of all of them, seen through one module's variables, is a
behaviour of that module with stuttering, so `part` is chosen once and only this
part moves; each part's fairness is asked only where it moves. In `MCTreasury` and
`MCInvoice`, `focus` keeps at rest what a behaviour does not look at: settlements
(admin and vault at rest), governance (no settlements), vault (no signers); one
merchant's invoices (governance at rest), governance (no payments). What this leaves
out is the mixture, for example a withdrawal during a vote, which the code keeps in
separate storage keys; the proofs have no focus.

- **treasury_contract** (about 570,000): one settlement id, two accounts, two
  successful `initialize` calls, expiry 1 second after the proposal, `U64Max` 3 so
  that a second vote of weight 2 overflows, windows of two seconds so that a
  rollover fits.
  - `WeightHasVoters`: a positive approval weight has a voter who held weight.
  - `HoldFreezes`: from the call that raises a dispute on, the settlement stays on hold
    and unchanged until `resolve_dispute`, or, after a second `initialize`, until a
    proposal is stored over it. `cancel_settlement` and all others are refused.
  - `ExecutionHasQuorum`: execution happens before expiry with the threshold in
    force reached.
  - `RollingOutflowBounded`: a fixed window bounds every rolling one by twice the
    cap once the cap has been in force for a whole window.
- **invoice_contract** (about 694,000): two invoices, batches of one id, of two, of
  a duplicate and of too many, both payment paths, amounts below, at and above the
  minimum, times 0 to 2. `MaxEarly` is 0: the deployment calls `initialize` before
  the first `create_invoice`. `FundedXorDead`, `EscrowAccounted`,
  `CustomerIndexExact`, `NonceCreatesOnce`, and `ImplementsLifecycle`: the contract
  implements `InvoiceLifecycle`, batches included.
- **payments_screening** (405,675): one invoice, both contracts, permissions that
  end at 1 or 2. `ScreenedParties`: whatever was allowed when the invoice was
  created, each later call relies on permissions valid at that second.
- **indexer_replay** (579,768): one invoice, three events over three ledgers, pages
  of two, one fault, any number of retention gaps and backfills in these ledgers.
  Three events exceed a page; three ledgers suffice for a gap, what lies before it
  and what lies after. The id is assumed to be the second topic (section 6).
  - `NothingSkipped`: an event behind the saved cursor is applied, or in an open gap.
  - `HookAtMostOnce`: no replay runs an event's hook again.
  - `RowsFollowChain`: a row does not fall back, as long as no backfill ran, no
    refusal of a lagging replica sent the cursor behind where indexing began, and
    the row was there in time. Each exclusion is a behaviour of the code in which
    the row does fall back (section 7).
  - `BackfillCloses`: a gap marked backfilled has all its events applied.
  - `EventuallyIndexed`: every event of a closed ledger is applied or in a gap.
- **webhook_drain** (233,713): two events, one to an endpoint that always refuses,
  two attempts, two processes, a replay of each dead letter at most, drain and hard
  timeouts that both expire.
  - `JobsAccounted`: an accepted event is delivered, dead-lettered, stored, or in
    memory, unless excused.
  - `NoAttemptAfterAbort`: once drain gave up, no request is started.
  - `JobsSettle`: every event is delivered or dead-lettered or excused in the end.
  - `ShutdownEnds`: also when Mongo hangs.
- **treasury_rows** (295,643): one settlement, two overlapping ticks, one execution
  request, two events, all three types published, one remembered id, one fault. With
  the threshold at 0, which `initialize` accepts, a proposal and an execution need no
  vote between them; disputes, resolutions and repeated executions go on besides. A
  page is as long as the log: events that a cut page leaves out are like events
  published after the fetch, which are explored.
  - `RowsNeverAhead`: no row says Executed, and no request is about to write or answer
    so, unless the contract has executed the settlement. A later dispute may have
    reopened it; its row goes on saying Executed (section 7).
  - `CursorCovers`: overlapping and dying ticks move the cursor to and fro, but
    never past an event that no tick has applied and announced.
  - `EventsCatchUp`: every event the contract publishes is applied and announced in the
    end, and after an execution's event the row says Executed.
- **backend_parts** (496,700):
  - creation: two requests, two processes, with and without Redis, one Redis fault,
    one crash; answers stored in Redis and in a process expire at any time. `OncePerKey`: at most one keyed creation unless one of the listed
    lapses happened, so the list is complete. `CreatedAsAsked`: a 201 names an
    invoice on chain, with a row, made from that request's body.
    `RequestsAnswered`: no request waits for ever.
  - actions: one actor, two readers, other clients. `ActionAnswerTrue`: the status
    answered is the one the transaction led to, with one exception that is named in
    the module. `RowsSettle`: while somebody reads, the row reaches the contract's
    status and stays there.
  - disputes: two disputes, three voters, a restart. `OutcomeEarned`.
  - keys: four requests. `RotationKeepsAccess`.
  - cache: two readers, three changes of balance. `StaleBalanceExpires`.
  - pages: three rows, pages of one, cached pages that another reader may have
    filled. `WalkListsAll`: the pages are disjoint and contain every row that
    matched throughout.
- **screens** (1,127,542): up to five wallet questions, two invoices and two
  submissions at the checkout, two merchants, filters and pages of the list, two
  invoices in a batch, two pages of holds, two approvals of one settlement, three
  handlers of a screen, two tabs of the wizard. Two of each suffice for every
  late-answer race, which is between one stale and one current item.
  - `DisconnectSticks`, `ConnectingHasOwner`: no late answer brings an account
    back or leaves the button on "Connecting".
  - `NoRepayment`: a payment reported as made is not started again in the session,
    except where `sessionStorage` throws, at the report or when the user confirms
    again. Even then no second transaction is sent: its simulation fails, as the
    comment at `useCompletedPaymentGuard.ts:24` expects.
  - `ListMatchesControls`: what is listed is what the controls ask for.
  - `DialogListsSelection`: the batch confirmed is the batch listed and selected.
  - `SelectionShown`: nothing is selected that is not on the screen.
  - `ApprovalsConverge`: rollbacks and overtaken polls do not stay on the screen.
  - `OneWriteAtATime`: no double submission, on every screen but treasury, signers
    and the grace window (section 7).
  - `StepsEarned`: no tab is past an onboarding step that was not completed. The legacy
    wizard, and only it, passes the first step without an address when the extension
    answers without one (section 7).
- **treasury_unique**, **invoice_payout**, **indexer_hook**, **indexer_topics**
  (counterexamples): section 6.

## 4. Fairness

The contract specifications have none: nobody is obliged to call a contract, and no
liveness is claimed for them.

- `InvoiceIndexer`: `WF(pollOnce)`. The loop schedules the next poll after each one,
  whether it succeeded or threw, and the service manager restarts a dead process.
  Faults are bounded; with a fault in every poll no code would get anywhere.
- `TreasuryService`: each tick slot is weakly fair, since `setInterval` goes on and
  every RPC and Mongo call ends or throws. Requests are not fair.
- `WebhookQueue`: attempts time out, delays end, timers fire, the supervisor starts
  the next process. Nothing is assumed of the writes of shutdown (`Persist`, `Exit`):
  a hanging database is what the hard timer is for.
- `InvoiceApi`: a request that has begun goes on, since each call has a time limit,
  and a Redis key expires. No transaction need land.
- `InvoiceActions`: somebody goes on reading the invoice, and the indexer goes on.
  Read faults are bounded.
- `BalanceCache`: time passes, reads are answered, the indexer evicts.
- `ApprovalList`: the interval goes on polling, and infinitely many polls are
  answered (strong fairness), not all of them lost.

## 5. Proofs

TLAPS proves these for any sets of accounts, tokens, invoices, jobs, tabs and so on,
and for any bounds. They assume what the modules' named `ASSUME`s state of the
constants; TLC evaluates those on each run. Further assumptions are named below. Every
safety property of a passing run is a theorem.

**SumTheorems.** Three properties are about sums (tokens in escrow, tokens withdrawn in
a window, weights of votes), written with `SumFunctionOnSet`. The library's induction
theorems take an operator as a parameter and cannot be used, so `SmallestSubset` takes
their place: a property of subsets that fails, fails for a smallest one. From it follow
that the sum is defined and unique (`SumsExist`, `SumsUnique`), its recursion
(`SumUnfolds`), and what the proofs cite: a sum changes by what one place changes
(`SumChange`), ignores zeros, and grows with its set.

**TreasuryProofs.** `TypeCorrect` action group by action group. On top of it:

- `GovernanceInv` = types + `Undeployed` + `SignerListInSync` +
  `NominationIsCurrent`. The last two survive the first `initialize` only because
  `Undeployed` says storage was empty before it.
- `SettlementInv` = types + `IdsAllocated` + `WeightHasVoters`. `IdsAllocated` is
  what makes a new proposal start without votes; it gives `IdsStayAllocated`,
  `WeightAlwaysHasVoters`, and, through `SettlementActions`, `TermsStayFixed` and
  `ExecutionNeedsQuorum`.
- `DisputedStaysFrozen`: `HeldInv` = `SettlementInv` + `Held`: a dispute that is open
  shows in the status. Whatever a call does to such a settlement it must therefore do
  to one on hold, and only `resolve_dispute`, or a proposal with an id used before,
  does anything (`HeldActions`).
- `OutflowInv` says, without reference to the clock, what a stored window knows of the
  past (`Metered`): it counts everything withdrawn since its start, the cap bounds that
  and separately what left within one window's length before its start, and nothing
  left once it was over. Any rolling window meets at most these two parts: hence twice
  the cap (`RollingOutflowStaysBounded`).
- `WindowAlwaysHasLimit`, `PauseStopsEverything`, `NothingBeforeInitialize`.

**InvoiceProofs.** `InvoiceEffect` and `QuietEffect` say what each group of entry
points does to the invoices; every other proof rests on them.

- `TypeCorrect`, `NominationStaysCurrent`, `PauseStopsEverything`,
  `NonceStaysUnique` and `FundedStaysXorDead` hold without further assumption.
- `LifecycleRefined`, `TermsStayFixed`, `CustomerIndexStaysExact` and
  `EscrowStaysAccounted` assume `MaxEarly = 0`. Their invariant is `Allocated`: exactly
  the ids up to the counter are stored. Without the assumption they are false, since
  `initialize` resets the counter and a later invoice overwrites an earlier one.
- `LifecycleRefined` maps the initial states to initial states and each entry point
  to the move of `InvoiceLifecycle` it performs or to a stutter.
- `EscrowStaysAccounted` adds that only a stored invoice was paid for (`PaidExist`), so
  that a new one does not change any `Share` of the balance.

**ComplianceProofs.** `StatusEffect` says that every status call writes one status
for a set of addresses, with an end that still lies ahead when it is time-limited.
With `TypeCorrect` it gives `PermissionNeedsACall`, `GrantsTakeEffect` and
`PauseStopsEverything`. A call to the invoice contract is a stutter of `Compliance`,
so the theorems apply to what payments_screening explores. `ComposedIsInvoice`: the
composition of the two contracts implements the invoice contract's own specification,
whose screening is an arbitrary set of addresses; what is proved of that contract holds
of the composition. `PartiesAreScreened` needs of the storage that an invoice that
exists names its parties (`StorageInv`).

**IndexerProofs.**

- `HookStaysAtMostOnce`: `IndexerInv` adds that a fired event is applied, and that the
  event on its way to the hook had not been applied when `recordTransition` looked.
- `SkipsAreListed` and `BackfillsAreComplete`: `SkipInv`. Every place to resume from -
  the saved cursor, the one a poll started from, the one it will save - leaves behind
  only events that are applied, listed in a gap, or in the batch in hand; a gap begins
  where this is already so; while a gap is backfilled, events of it that are behind the
  cursor must be applied. The attempt failed for a backfill that starts before any
  cursor was saved: the manual procedure is an `updateOne` without upsert, which then
  does nothing, and `StartBackfill` now requires a stored cursor.
- `RowsNeverFallBack`: `FollowInv` adds that events are applied in chain order, except
  those the node forgot or that precede where indexing began (`OrderInv`), and that a
  row shows the newest event applied to it (`RowInv`).

**TreasuryServiceProofs.** `ServiceInv` has two parts. `CoverInv`: what any tick has
in hand is covered, the event it is at excepted, and a stale cursor, loaded before
another tick saved, is still a covered one; this gives `CursorStaysCovered`. `RowsInv`:
whatever speaks of an execution (an event, a landed transaction, a request about to
write, a row) speaks of one the contract has made; this gives `RowsStayBehindChain`. The
set of settlements ever executed takes the place of the status on chain, which a
dispute moves back. `ExecutedRowsStay` follows, though ticks that overlap write rows in
any order. `Published` is arbitrary in all of them.

**BackendProofs.** The parts behind the HTTP routes, and the webhook queue.

- `RotationAlwaysKeepsAccess`: `KeysInv` adds that the key of the one rotation under
  way is active.
- `ActionAnswersAreTrue`: `ActionsInv` ties each actor's place in the handler to what
  its transaction can have done.
- `AnswersAreCreated`: `CreateInv` says that both caches hold, under the key and the
  body, only answers that name what was created for that body.
- `KeyCreatesOnce`: `LockInv`. While no lapse is recorded, a request of the key that is
  handled, or has its final calls on the wire, holds the lock, and at most one has a
  transaction that landed or may land. What lets a process forget its own entry safely
  is that Redis still has its own: until that expires, which is a lapse.
- `WalksListAll`: `PagesInv` says of a page what stays true however long it is cached:
  a row that matched when it was read and is past its cursor is on it or past its
  `next_cursor`.
- `JobsAlwaysAccounted`: `QueueInv` adds that only what was delivered is deleted from
  the dead letters, that only the drain holds jobs in its own save, and that a process
  that is gone holds none. `NeverAttemptsAfterAbort`: `PostsInv` types the task records
  and the counters, and each group of steps starts no request after the abort.
- `OutcomesAreEarned` assumes `VOTE_THRESHOLD # 0`. `Tallied` says that a
  record's tallies are the sums of its votes' weights, its votes have distinct signers,
  and a side is the outcome exactly when its tally reaches the threshold. The proof
  fails for 0, and rightly so (section 7).

**ScreenProofs.** `DisconnectAlwaysSticks`, `ConnectingAlwaysHasOwner` (`WalletInv`:
no answer in flight has a number above `requestSeq`, and after a disconnect none has
that number), `NoPaymentTwice` (`CheckoutInv`: what was reported is on the ledger, so a
simulated second payment fails, and is remembered unless the storage threw when it was
reported),
`ListAlwaysMatchesControls` (the request that is not aborted is the controls'),
`DialogAlwaysListsSelection` (`BatchInv`: a dialog excludes a batch and a load),
`SelectionAlwaysShown`, `StepsAlwaysEarned`, and `WritesNeverOverlap`: the tables of
`AdminScreens` satisfy `GuardedScreen` (every write sets a flag that disables every
write, and no load clears it), except treasury, signers and the grace window, and
`FormInv` keeps the flags set while a write is under way. `StepsAlwaysEarned` carries the
tabs that were answered without an address, which only the legacy wizard has.

**Proved without a run.** The types of the three contracts, `SignerListStaysInSync`,
`NominationStaysCurrent`, `TermsStayFixed`, `PauseStopsEverything`,
`WindowAlwaysHasLimit`, `NothingBeforeInitialize`, `IdsStayAllocated`,
`PermissionNeedsACall`, `GrantsTakeEffect`, `ComposedIsInvoice` and
`ExecutedRowsStay`: the proof says more than a run on a small instance would.

**Model-checked only.** Liveness is out of the prover's reach: `EventuallyIndexed`,
`JobsSettle`, `ShutdownEnds`, `EventsCatchUp`, `RequestsAnswered`, `RowsSettle`,
`StaleBalanceExpires`, `ApprovalsConverge`. So are the four counterexamples of
section 6.

## 6. Disagreements between documents and code, shown by a run

| Run | Says | Does |
|---|---|---|
| treasury_unique | `docs/glossary.md:75`: approval weight sums the weights of unique signers | `approve_settlement` records no voter; a second approval by one signer counts again |
| invoice_payout | `docs/glossary.md:45`: Released means funds went to the merchant | `release_escrow` sets the status and transfers nothing |
| indexer_hook | comment at `indexer.ts:330`: a crash between the write and the side effect makes the replay run it | the event is already marked applied and the replay skips it |
| indexer_topics | comment at `indexer.ts:286`: the event is applied to the invoice | the contract publishes the id as the event's value, the indexer reads it from the second topic, and no row matches |

## 7. Disagreements and limits noticed without a run of their own

- Treasury: `docs/glossary.md:91` says an executed settlement transferred the amount;
  `execute_settlement` transfers nothing. The comment at `lib.rs:928` says a
  *pending* settlement is put on hold; no status is checked, so an executed or
  cancelled one can be disputed and resolved back to pending. The comment at
  `lib.rs:883` says the total weight cannot drift from the entries; a second
  `initialize` replaces the list and leaves the entries. `simulate_settlement`
  (`lib.rs:621`) promises the checks of `execute_settlement` and adds a balance check.
- Invoice: `get_invoice_count` (`lib.rs:437`) counts invoices "ever created", and
  `initialize` resets it, so invoices created before it are overwritten.
  `docs/glossary.md:33` has the grace window extend payment; the code uses it in
  `release_escrow` only, counted from the invoice's creation. `docs/glossary.md:60` and
  `:135` say that `release_escrow` works on a Paid invoice; it refuses every status but
  RefundRequested (`lib.rs:881`).
  `docs/threat-model.md:40` calls it immutable and `set_grace_window` changes it.
  `set_compliance`'s comment (`lib.rs:974`) says the zero address disables the
  checks; it is stored and called.
- Compliance: `docs/error-codes.md:71` says it can be initialised once; `initialize`
  (`lib.rs:103`) checks nothing. `docs/MAINNET_DEPLOYMENT.md:217,238` describes a
  two-step handover for all three contracts; `transfer_admin` (`lib.rs:236`) replaces
  the admin at once, nothing writes `PendingAdmin`, and `accept_admin` never succeeds.
- Invoice indexer: `docs/troubleshooting.md:654` says overlapping ranges are safe to
  replay. They are for the event store; but a backfill applies an old event after
  newer ones, which it then skips as applied, so the row falls back. A lagging
  replica's refusal is taken for a retention gap (`indexer.ts:489`), with the same
  effect on events older than where indexing began. A row inserted after its events
  were applied stays Pending (`routes/invoices.ts:788`) until somebody reads it. The
  comment at `indexer.ts:287` says hooks are not re-fired and contradicts `:330`.
- Treasury events: `docs/webhooks.md:345`, `:370` and `:395` promise a webhook for each
  proposal, approval and execution, and the indexer waits for `settlement_proposed`,
  `settlement_approved` and `settlement_executed`. `propose_settlement`,
  `approve_settlement` and `execute_settlement` (`lib.rs:455-618`) publish no events, so
  with this contract no webhook is sent, no row is created from an event, and a row
  whose execution was answered with an error never catches up.
- Treasury service: a row keeps saying Executed when a dispute reopens the settlement,
  and `execute-settlement` may then execute it a second time, also through a transaction
  that was sent before and lands late. The comment at `treasury-indexer.ts:169` says a replay never
  applies a side effect twice; two ticks that overlap both send an event's webhook
  and can leave `approval_weight` on an older value. Nothing writes the
  status OnHold to a row. `ESCROW_BALANCE_MISMATCH` is also reported when the
  transaction lands between the two re-reads. `routes/treasury.ts:277` has a stray `)`.
- Compliance indexer: `compliance-indexer.ts:72` calls `eventStatus`, which is not
  defined, so a batch with a tracked event always throws and nothing is stored,
  while `routes/compliance.ts:52` promises a "durable, normalized audit trail".
- Webhooks: a SIGTERM while `resumePending` holds the jobs it took loses them on a
  clean exit. A replay that waits for a slow delivery keeps the server from closing
  until the hard timeout. A replay on a closing queue answers 404 although the job
  is deferred. `services/webhooks.ts` uses `webhookDeliveryRetries` (`:158`) without
  an import and `deliveredPayload` (`:241`) out of scope.
- Creation: the contract's `create_invoice` takes seven arguments and the backend
  passes six. A 504 followed by a late inclusion leaves an invoice without a row. After
  the lock is taken the stored answer is not looked up again, and the lock is deleted
  whoever holds it; 24 hours after the answer the key creates again (the lapses of
  `OncePerKey`).
- Actions: the OpenAPI text at `invoice-actions.ts:127` says a Paid invoice can be
  cancelled into a refund; the code refuses it (`:66`). A cancellation that loses the
  race with a payment answers Cancelled while the contract started a refund.
- Two rotations of API keys that overlap revoke each other's key. Disputes are lost
  on restart. `DISPUTE_VOTE_THRESHOLD` (`routes/disputes.ts:45`) is not checked: with 0
  or less the first vote, for whichever side, decides for the claimant. The frontend pages with `page=`, which shifts when invoices are
  created; only the cursor walk is checked.
- Frontend: `InvoicePayment` uses `t` without defining it. The receipt
  (`InvoicePayment.tsx:129`) is also shown for another invoice loaded after a payment.
  The refund button clears the reason, which must be typed again behind the dialog.
  The contract has no `mark_paid` and no `cancel_invoice`, which `utils/soroban.ts`
  calls, and its `request_refund` takes a caller besides the id; the model takes the
  calls for those of `mark_paids`, `cancel_invoiced` and `request_refund`. When
  `sessionStorage` throws, a payment is not remembered and its confirmation starts the
  handler again (`useCompletedPaymentGuard.ts:21`). `SettlementProposalForm` makes up an id and
  calls nothing. The check after a batch expiry may report "not expired" too early.
  On the treasury screen (a deposit beside an approval, `TreasuryManager.tsx:196-263`, or
  two approvals), the signer screen and the grace window form a second write can start
  before the first is over. A poll of the hold queue can bring back
  a row that was just released. The API-key screen can show a late list, or a new
  secret, of the merchant before. No request carries an Idempotency-Key.
- Onboarding: a change of account keeps "Address verified" for an address that was
  not. In the legacy wizard a second, late answer of Connect goes back to step 2
  although its comment says it only advances from its own step, and an answer without an
  address (`useWallet.ts:75` knows of it) is stored and passes the first step
  (`OnboardingWizard.tsx:127-134` of `frontend`). What a finished
  tab cleared is written again by another tab.

## 8. Not modelled, and what is left

Left out of the modelled parts: page reads and getters of the contracts, storage
lifetimes, the events contracts emit (except as the indexers' input), reason codes,
compliance's `accept_admin` (never enabled), the invoice contract's `raise_dispute`
beyond its guard (it changes nothing there), the Redis mirror of the invoice
indexer's cursor, a second concurrent invoice indexer (`docs/troubleshooting.md:667`
stops the main one while a backfill runs), events without a paging token.

Not modelled at all: the rate limiter (the counting is a library's), routes that only
validate and submit or read, the compliance indexer (section 7), CSV export and
analytics, the static pages of `dashboard/`, transaction history and settlement
detail, themes and translations, the legacy Rust backend, the command-line client
and the deployment scripts. They keep no state whose order of changes matters.

What would come next: type invariants of the backend and frontend modules as theorems;
`Invoice.raise_dispute` composed with `Treasury`; the contracts' paging reads as
operators against a reference definition; a second indexer process.
