------------------------------ MODULE Treasury ------------------------------
(***************************************************************************)
(* The treasury contract                                                    *)
(* (COMEBACKHERE-contracts/contracts/treasury/src/lib.rs): weighted         *)
(* multi-signature settlements with disputes and expiry, the two-step admin *)
(* handover, the pause switch, the token allowlist, and deposits and        *)
(* withdrawals under a daily cap.                                           *)
(*                                                                          *)
(* A Soroban invocation is atomic, and one that returns an error or panics  *)
(* leaves no write behind.  So every entry point is one action, enabled     *)
(* exactly when the call returns Ok; a rejected call is a stuttering step.  *)
(* require_auth is modelled by quantifying over the authenticated caller.   *)
(***************************************************************************)
EXTENDS Naturals, Sequences, FiniteSets, Functions

CONSTANTS
  Address,        \* accounts: admins, signers, merchants, depositors
  NoAddress,      \* an instance-storage key that holds no address
  Token,          \* token contracts
  Wasm,           \* code hashes passed to upgrade
  Nominee,        \* addresses the admin may nominate in transfer_admin
  SignerLists,    \* the argument "signers" of initialize: sequences of pairs
  Weight,         \* weights passed to set_signer and rotate_signer
  Threshold,      \* thresholds passed to initialize and update_threshold
  Ttl,            \* lifetimes passed to set_settlement_ttl
  Amount,         \* amounts proposed, deposited and withdrawn
  Limit,          \* caps passed to set_daily_withdraw_limit
  DEFAULT_SETTLEMENT_TTL_SECONDS,
  WINDOW_SECONDS,
  U64Max,         \* largest value of the contract's u64 arithmetic
  InitialFunds,   \* what every account holds of every token at the start
  MaxSettlements, \* bound: settlement ids handed out
  MaxInitialize,  \* bound: successful calls of initialize
  MaxOutflow,     \* bound: withdrawals of one token in one ledger second
  MaxTime         \* bound: ledger timestamps

U64 == 0 .. U64Max

ASSUME TreasuryConstants ==
  /\ NoAddress \notin Address
  /\ SignerLists \subseteq Seq(Address \X U64)
  /\ Weight \subseteq U64 /\ Threshold \subseteq U64
  /\ Ttl \subseteq U64 /\ Amount \subseteq U64 /\ Limit \subseteq U64
  /\ U64Max \in Nat /\ InitialFunds \in Nat
  /\ DEFAULT_SETTLEMENT_TTL_SECONDS \in U64 \ {0}
  /\ WINDOW_SECONDS \in Nat \ {0}
  /\ MaxSettlements \in Nat /\ MaxInitialize \in Nat /\ MaxTime \in Nat /\ MaxOutflow \in Nat
  /\ Wasm # {} /\ Nominee \subseteq Address

VARIABLES
  admin, pendingAdmin, paused, wasm,
  signer,           \* Signer(a): weight of a, 0 when there is no entry
  signerList,       \* SignerList as a bag: how often each address occurs
  threshold,
  settlement,       \* Settlement(id)
  nextSettlementId,
  settlementTtl,
  tokenAllowlist,
  dailyLimit,       \* DailyWithdrawLimit(t), 0 when there is no entry
  withdrawWindow,   \* WithdrawWindow(t)
  balance,          \* token contracts' ledgers (external)
  now,              \* ledger timestamp
  \* history, read by properties only
  initialized,      \* successful calls of initialize
  nominatedBy,      \* the admin who made the nomination in pendingAdmin
  credit,           \* credit[id][a]: largest weight a voted for proposal id with
  disputed,         \* settlements whose dispute was raised and not resolved
  outflow,          \* outflow[t][s]: amount of t withdrawn at time s
  limitSince        \* limitSince[t]: when t's cap was last configured

adminVars    == <<admin, pendingAdmin, nominatedBy>>
signerVars   == <<signer, signerList, threshold>>
proposalVars == <<settlement, nextSettlementId, settlementTtl, credit, disputed>>
vaultVars    == <<tokenAllowlist, dailyLimit, withdrawWindow, balance, outflow, limitSince>>
vars == <<adminVars, paused, wasm, signerVars, proposalVars, vaultVars, now, initialized>>

Id   == 1 .. MaxSettlements
Time == 0 .. MaxTime

SettlementStatus == {"Pending", "Executed", "PartiallyExecuted", "OnHold", "Cancelled"}

Settlement ==
  [token : Token, amount : U64, merchant : Address, status : SettlementStatus,
   approval_weight : U64, proposer : Address, expires_at : U64]

\* A storage key that holds no record.
NoSettlement == [status |-> "None"]
NoWindow     == [spent |-> 0]

WithdrawWindow == [window_start : Time, spent : U64]

\* The treasury's own account on the token ledgers.
Self == NoAddress
Holder == Address \cup {Self}

TypeOK ==
  /\ admin \in Address \cup {NoAddress}
  /\ pendingAdmin \in Address \cup {NoAddress}
  /\ nominatedBy \in Address \cup {NoAddress}
  /\ paused \in BOOLEAN
  /\ wasm \in Wasm
  /\ signer \in [Address -> U64]
  /\ signerList \in [Address -> Nat]
  /\ threshold \in U64
  /\ settlement \in [Id -> Settlement \cup {NoSettlement}]
  /\ nextSettlementId \in 1 .. MaxSettlements + 1
  /\ settlementTtl \in U64 \ {0}
  /\ tokenAllowlist \in SUBSET Token
  /\ dailyLimit \in [Token -> U64]
  /\ withdrawWindow \in [Token -> WithdrawWindow \cup {NoWindow}]
  /\ balance \in [Token -> [Holder -> Nat]]
  /\ now \in Time
  /\ initialized \in 0 .. MaxInitialize
  /\ credit \in [Id -> [Address -> U64]]
  /\ disputed \subseteq Id
  /\ outflow \in [Token -> [Time -> Nat]]
  /\ limitSince \in [Token -> Time]

-----------------------------------------------------------------------------
(* Before initialize: instance storage is empty, and the getters' defaults   *)
(* (unwrap_or) stand for the missing entries.                                *)
Init ==
  /\ admin = NoAddress /\ pendingAdmin = NoAddress /\ nominatedBy = NoAddress
  /\ paused = FALSE
  /\ wasm \in Wasm
  /\ signer = [a \in Address |-> 0]
  /\ signerList = [a \in Address |-> 0]
  /\ threshold = 0
  /\ settlement = [id \in Id |-> NoSettlement]
  /\ nextSettlementId = 1
  /\ settlementTtl = DEFAULT_SETTLEMENT_TTL_SECONDS
  /\ tokenAllowlist = {}
  /\ dailyLimit = [t \in Token |-> 0]
  /\ withdrawWindow = [t \in Token |-> NoWindow]
  /\ balance = [t \in Token |-> [h \in Holder |-> IF h = Self THEN 0 ELSE InitialFunds]]
  /\ now = 0
  /\ initialized = 0
  /\ credit = [id \in Id |-> [a \in Address |-> 0]]
  /\ disputed = {}
  /\ outflow = [t \in Token |-> [s \in Time |-> 0]]
  /\ limitSince = [t \in Token |-> 0]

(* Mut_X is X with a bug one could plausibly write there; a run that checks a *)
(* property must fail when X is replaced by it.                               *)
\* check_admin: the stored admin exists and is the authenticated caller.
check_admin(caller) == caller = admin

check_not_paused == ~paused

Exists(id) == settlement[id] # NoSettlement

IsPending(id) == Exists(id) /\ settlement[id].status = "Pending"

Mut_NotExpired(id) == now <= settlement[id].expires_at

NotExpired(id) == now < settlement[id].expires_at

\* Sum over SignerList of the live weights.  The loop's "+" panics on
\* overflow (overflow-checks = true), so callers also require the sum in U64.
total_signer_weight ==
  SumFunction([a \in Address |-> signerList[a] * signer[a]])

\* A transfer of the token contract t, which fails on a short balance.
Transfer(t, from, to, amount) ==
  /\ balance[t][from] >= amount
  /\ balance' = [balance EXCEPT ![t][from] = @ - amount, ![t][to] = @ + amount]
-----------------------------------------------------------------------------
(* Deployment, admin and pause.                                              *)

upgrade(caller, hash) ==
  /\ check_admin(caller)
  /\ \A id \in Id : id < nextSettlementId /\ Exists(id)
       => settlement[id].status # "PartiallyExecuted"
  /\ wasm' = hash
  /\ UNCHANGED <<adminVars, paused, signerVars, proposalVars, vaultVars, now, initialized>>

transfer_admin(caller, new_admin) ==
  /\ check_not_paused
  /\ check_admin(caller)
  /\ pendingAdmin' = new_admin
  /\ nominatedBy' = caller
  /\ UNCHANGED <<admin, paused, wasm, signerVars, proposalVars, vaultVars, now, initialized>>

accept_admin(new_admin) ==
  /\ check_not_paused
  /\ new_admin = pendingAdmin
  /\ admin' = new_admin
  /\ pendingAdmin' = NoAddress
  /\ nominatedBy' = NoAddress
  /\ UNCHANGED <<paused, wasm, signerVars, proposalVars, vaultVars, now, initialized>>

\* initialize has no "already initialized" guard: whoever authenticates as the
\* new admin may call it at any time.  It leaves the pending admin, the TTL,
\* the vault, the stored settlements and the weights of signers it does not
\* list as they are.
initialize(signers, th, new_admin) ==
  LET listed(a) == {i \in DOMAIN signers : signers[i][1] = a} IN
  /\ initialized < MaxInitialize
  /\ \A i, j \in DOMAIN signers : signers[i][1] = signers[j][1] => i = j
  /\ LET total == SumFunction([i \in DOMAIN signers |-> signers[i][2]])
     IN  total \in U64 /\ total >= th
  /\ admin' = new_admin
  /\ threshold' = th
  /\ paused' = FALSE
  /\ nextSettlementId' = 1
  /\ signer' = [a \in Address |-> IF listed(a) = {} THEN signer[a]
                                  ELSE signers[CHOOSE i \in listed(a) : TRUE][2]]
  /\ signerList' = [a \in Address |-> Cardinality(listed(a))]
  /\ initialized' = initialized + 1
  /\ UNCHANGED <<pendingAdmin, nominatedBy, wasm, settlement, settlementTtl, credit,
                 disputed, vaultVars, now>>

pause(caller) ==
  /\ check_admin(caller)
  /\ paused' = TRUE
  /\ UNCHANGED <<adminVars, wasm, signerVars, proposalVars, vaultVars, now, initialized>>

unpause(caller) ==
  /\ check_admin(caller)
  /\ paused' = FALSE
  /\ UNCHANGED <<adminVars, wasm, signerVars, proposalVars, vaultVars, now, initialized>>
-----------------------------------------------------------------------------
(* Signers and threshold.                                                    *)

Mut_Listed(list, a) == [list EXCEPT ![a] = @ + 1]

\* Appends a to the signer list unless it is there.
Listed(list, a) == [list EXCEPT ![a] = IF @ = 0 THEN 1 ELSE @]

set_signer(caller, a, weight) ==
  /\ check_not_paused
  /\ check_admin(caller)
  /\ signer' = [signer EXCEPT ![a] = weight]
  /\ signerList' = Listed(signerList, a)
  /\ UNCHANGED <<adminVars, paused, wasm, threshold, proposalVars, vaultVars, now, initialized>>

rotate_signer(caller, old_signer, new_signer, new_weight) ==
  /\ check_not_paused
  /\ check_admin(caller)
  /\ signer[old_signer] # 0
  /\ new_signer # old_signer => signer[new_signer] = 0
  /\ signer' = [signer EXCEPT ![old_signer] = 0, ![new_signer] = new_weight]
  /\ signerList' = Listed([signerList EXCEPT ![old_signer] = 0], new_signer)
  /\ UNCHANGED <<adminVars, paused, wasm, threshold, proposalVars, vaultVars, now, initialized>>

update_threshold(caller, new_threshold) ==
  /\ check_not_paused
  /\ check_admin(caller)
  /\ new_threshold # 0
  /\ total_signer_weight \in U64 /\ new_threshold <= total_signer_weight
  /\ threshold' = new_threshold
  /\ UNCHANGED <<adminVars, paused, wasm, signer, signerList, proposalVars, vaultVars, now,
                 initialized>>
-----------------------------------------------------------------------------
(* Settlements.                                                              *)

ValidTtl(ttl) == ttl # 0

set_settlement_ttl(caller, ttl) ==
  /\ check_not_paused
  /\ check_admin(caller)
  /\ ValidTtl(ttl)
  /\ settlementTtl' = ttl
  /\ UNCHANGED <<adminVars, paused, wasm, signerVars, settlement, nextSettlementId, credit,
                 disputed, vaultVars, now, initialized>>

Mut_NewSettlement(proposer, t, amount, merchant) ==
  [token |-> t, amount |-> amount, merchant |-> merchant, status |-> "Pending",
   approval_weight |-> signer[proposer], proposer |-> proposer,
   expires_at |-> now + settlementTtl]

\* The record a new proposal starts from.
NewSettlement(proposer, t, amount, merchant) ==
  [token |-> t, amount |-> amount, merchant |-> merchant, status |-> "Pending",
   approval_weight |-> 0, proposer |-> proposer, expires_at |-> now + settlementTtl]

\* The id a new proposal is stored under.
NewId == nextSettlementId

propose_settlement(caller, t, amount, merchant) ==
  /\ tokenAllowlist # {} => t \in tokenAllowlist
  /\ check_not_paused
  /\ NewId \in Id
  /\ now + settlementTtl \in U64
  /\ settlement' = [settlement EXCEPT ![NewId] = NewSettlement(caller, t, amount, merchant)]
  /\ nextSettlementId' = nextSettlementId + 1
  /\ credit' = [credit EXCEPT ![NewId] = [a \in Address |-> 0]]
  /\ disputed' = disputed \ {NewId}
  /\ UNCHANGED <<adminVars, paused, wasm, signerVars, settlementTtl, vaultVars, now, initialized>>

\* What every handler on one stored settlement leaves alone.
SettlementFrame ==
  UNCHANGED <<adminVars, paused, wasm, signerVars, nextSettlementId, settlementTtl, vaultVars,
              now, initialized>>

SetStatus(id, status) == settlement' = [settlement EXCEPT ![id].status = status]

\* A cancellation that a dispute does not stop.
Mut_cancel_settlement(caller, id) ==
  /\ check_not_paused
  /\ Exists(id) /\ settlement[id].status \in {"Pending", "OnHold"}
  /\ admin # NoAddress
  /\ caller \in {settlement[id].proposer, admin}
  /\ SetStatus(id, "Cancelled")
  /\ UNCHANGED <<credit, disputed>>
  /\ SettlementFrame

\* Before initialize there is no stored admin and the unwrap panics.
cancel_settlement(caller, id) ==
  /\ check_not_paused
  /\ IsPending(id)
  /\ admin # NoAddress
  /\ caller \in {settlement[id].proposer, admin}
  /\ SetStatus(id, "Cancelled")
  /\ UNCHANGED <<credit, disputed>>
  /\ SettlementFrame

approve_settlement(caller, id) ==
  /\ check_not_paused
  /\ IsPending(id)
  /\ NotExpired(id)
  /\ settlement[id].approval_weight + signer[caller] \in U64
  /\ settlement' = [settlement EXCEPT ![id].approval_weight = @ + signer[caller]]
  /\ credit' = [credit EXCEPT ![id][caller] = IF signer[caller] > @ THEN signer[caller] ELSE @]
  /\ UNCHANGED disputed
  /\ SettlementFrame

\* The checks of execute_settlement.
Executable(id) ==
  /\ check_not_paused
  /\ IsPending(id)
  /\ NotExpired(id)
  /\ settlement[id].approval_weight >= threshold

\* Any authenticated caller may execute; no token moves.
execute_settlement(caller, id) ==
  /\ Executable(id)
  /\ SetStatus(id, "Executed")
  /\ UNCHANGED <<credit, disputed>>
  /\ SettlementFrame

\* No status check: the merchant may dispute a settlement in any state.
raise_dispute(caller, id) ==
  /\ check_not_paused
  /\ Exists(id)
  /\ caller = settlement[id].merchant
  /\ SetStatus(id, "OnHold")
  /\ disputed' = disputed \cup {id}
  /\ UNCHANGED credit
  /\ SettlementFrame

\* Any authenticated caller may resolve.
resolve_dispute(caller, id, resolve_in_favor) ==
  /\ check_not_paused
  /\ Exists(id) /\ settlement[id].status = "OnHold"
  /\ SetStatus(id, IF resolve_in_favor THEN "Pending" ELSE "Cancelled")
  /\ disputed' = disputed \ {id}
  /\ UNCHANGED credit
  /\ SettlementFrame

update_settlement_merchant(caller, id, new_merchant) ==
  /\ check_not_paused
  /\ IsPending(id)
  /\ caller = settlement[id].merchant
  /\ settlement' = [settlement EXCEPT ![id].merchant = new_merchant]
  /\ UNCHANGED <<credit, disputed>>
  /\ SettlementFrame
-----------------------------------------------------------------------------
(* The vault: allowlist, deposits, daily caps, withdrawals.                  *)

add_token_to_allowlist(caller, t) ==
  /\ check_not_paused
  /\ check_admin(caller)
  /\ tokenAllowlist' = tokenAllowlist \cup {t}
  /\ UNCHANGED <<adminVars, paused, wasm, signerVars, proposalVars, dailyLimit, withdrawWindow,
                 balance, outflow, limitSince, now, initialized>>

remove_token_from_allowlist(caller, t) ==
  /\ check_not_paused
  /\ check_admin(caller)
  /\ tokenAllowlist' = tokenAllowlist \ {t}
  /\ UNCHANGED <<adminVars, paused, wasm, signerVars, proposalVars, dailyLimit, withdrawWindow,
                 balance, outflow, limitSince, now, initialized>>

\* Unlike propose_settlement, an empty allowlist admits no token.
deposit(from, t, amount) ==
  /\ t \in tokenAllowlist
  /\ check_not_paused
  /\ Transfer(t, from, Self, amount)
  /\ UNCHANGED <<adminVars, paused, wasm, signerVars, proposalVars, tokenAllowlist, dailyLimit,
                 withdrawWindow, outflow, limitSince, now, initialized>>

\* What is left of t's window once its cap is set to limit.
WindowUnder(t, limit) == IF limit = 0 THEN NoWindow ELSE withdrawWindow[t]

\* A cap of 0 removes the cap and the window with it.
set_daily_withdraw_limit(caller, t, limit) ==
  /\ check_not_paused
  /\ check_admin(caller)
  /\ dailyLimit' = [dailyLimit EXCEPT ![t] = limit]
  /\ withdrawWindow' = [withdrawWindow EXCEPT ![t] = WindowUnder(t, limit)]
  /\ limitSince' = [limitSince EXCEPT ![t] = now]
  /\ UNCHANGED <<adminVars, paused, wasm, signerVars, proposalVars, tokenAllowlist, balance,
                 outflow, now, initialized>>

\* The window a withdrawal of t falls in now: the stored one until
\* WINDOW_SECONDS have passed since its start, then a new and empty one.
CurrentWindow(t) ==
  IF withdrawWindow[t] # NoWindow /\ now - withdrawWindow[t].window_start < WINDOW_SECONDS
  THEN withdrawWindow[t]
  ELSE [window_start |-> now, spent |-> 0]

Mut_SpentWindow(t, amount) == [CurrentWindow(t) EXCEPT !.spent = amount]

\* The window after withdrawing amount.
SpentWindow(t, amount) == [CurrentWindow(t) EXCEPT !.spent = @ + amount]

withdraw(caller, t, to, amount) ==
  /\ check_not_paused
  /\ check_admin(caller)
  /\ \/ /\ dailyLimit[t] = 0
        /\ UNCHANGED withdrawWindow
     \/ /\ dailyLimit[t] # 0
        /\ SpentWindow(t, amount).spent <= dailyLimit[t]
        /\ withdrawWindow' = [withdrawWindow EXCEPT ![t] = SpentWindow(t, amount)]
  /\ Transfer(t, Self, to, amount)
  /\ outflow[t][now] + amount <= MaxOutflow
  /\ outflow' = [outflow EXCEPT ![t][now] = @ + amount]
  /\ UNCHANGED <<adminVars, paused, wasm, signerVars, proposalVars, tokenAllowlist, dailyLimit,
                 limitSince, now, initialized>>

\* A later ledger closes.
Tick ==
  /\ now < MaxTime
  /\ now' = now + 1
  /\ UNCHANGED <<adminVars, paused, wasm, signerVars, proposalVars, vaultVars, initialized>>
-----------------------------------------------------------------------------
AdminStep ==
  \E caller \in Address :
    \/ \E h \in Wasm : upgrade(caller, h)
    \/ \E a \in Nominee : transfer_admin(caller, a)
    \/ accept_admin(caller)
    \/ \E signers \in SignerLists, th \in Threshold : initialize(signers, th, caller)
    \/ pause(caller)
    \/ unpause(caller)

SignerStep ==
  \E caller \in Address :
    \/ \E a \in Address, w \in Weight : set_signer(caller, a, w)
    \/ \E a, b \in Address, w \in Weight : rotate_signer(caller, a, b, w)
    \/ \E th \in Threshold : update_threshold(caller, th)

SettlementStep ==
  \E caller \in Address :
    \/ \E ttl \in Ttl : set_settlement_ttl(caller, ttl)
    \/ \E t \in Token, n \in Amount, m \in Address : propose_settlement(caller, t, n, m)
    \/ \E id \in Id :
         \/ cancel_settlement(caller, id)
         \/ approve_settlement(caller, id)
         \/ execute_settlement(caller, id)
         \/ raise_dispute(caller, id)
         \/ \E favor \in BOOLEAN : resolve_dispute(caller, id, favor)
         \/ \E m \in Address : update_settlement_merchant(caller, id, m)

VaultStep ==
  \E caller \in Address, t \in Token :
    \/ add_token_to_allowlist(caller, t)
    \/ remove_token_from_allowlist(caller, t)
    \/ \E n \in Amount : deposit(caller, t, n)
    \/ \E n \in Limit : set_daily_withdraw_limit(caller, t, n)
    \/ \E to \in Address, n \in Amount : withdraw(caller, t, to, n)

Next == AdminStep \/ SignerStep \/ SettlementStep \/ VaultStep \/ Tick

Spec == Init /\ [][Next]_vars
-----------------------------------------------------------------------------
(* Properties that the contract has.                                         *)

\* Until initialize has succeeded there is no admin, no nominee and no weight,
\* although propose_settlement and execute_settlement already answer: nothing
\* that only an admin may do can have happened.
Undeployed ==
  initialized = 0 =>
    /\ admin = NoAddress /\ pendingAdmin = NoAddress
    /\ \A a \in Address : signer[a] = 0 /\ signerList[a] = 0

\* Signer bookkeeping.  While initialize has run at most once, every address
\* with a weight is on the signer list, and no address is there twice: so
\* total_signer_weight, which bounds update_threshold, counts each weight
\* approve_settlement can credit exactly once, whatever set_signer and
\* rotate_signer did in between.
SignerListInSync ==
  initialized <= 1 =>
    \A a \in Address : signerList[a] <= 1 /\ (signer[a] > 0 => signerList[a] = 1)

\* Admin handover.  While initialize has run at most once, the nomination that
\* accept_admin would honour was made by the admin in office, never by a
\* predecessor.
NominationIsCurrent ==
  initialized <= 1 /\ pendingAdmin # NoAddress => nominatedBy = admin /\ admin # NoAddress

\* Ids handed out name stored settlements, and until initialize resets the
\* counter nothing is stored at or above it, so no proposal is overwritten.
IdsAllocated ==
  \A id \in Id :
    /\ id < nextSettlementId => Exists(id)
    /\ initialized = 0 /\ Exists(id) => id < nextSettlementId

\* Approval weight comes from somebody's vote: every weight credited to a
\* proposal is within its approval_weight, and a positive approval_weight has
\* a voter who held weight when voting - across disputes, resolutions,
\* merchant changes and signer rotations.
WeightHasVoters ==
  \A id \in Id :
    Exists(id) =>
      /\ \A a \in Address : credit[id][a] <= settlement[id].approval_weight
      /\ settlement[id].approval_weight > 0 => \E a \in Address : credit[id][a] > 0

\* The terms of a proposal below the id counter are fixed: token, amount,
\* proposer and expiry never change, approval weight never falls, and the
\* merchant changes only while the settlement is pending.
TermsKept(id) ==
  LET s == settlement[id]  s2 == settlement'[id] IN
  id < nextSettlementId =>
    /\ s2.token = s.token /\ s2.amount = s.amount
    /\ s2.proposer = s.proposer /\ s2.expires_at = s.expires_at
    /\ s2.approval_weight >= s.approval_weight
    /\ s2.merchant # s.merchant => s.status = "Pending"

ProposalTermsFixed == [][\A id \in Id : TermsKept(id)]_vars

\* A dispute, once raised, is over only when somebody resolves it, or when ids have
\* started again after an initialize and a new proposal is stored over the settlement.
\* Until then nothing about the settlement changes: no vote, execution, cancellation,
\* change of merchant or second dispute gets through.
HeldUntilResolved(id) ==
  id \in disputed =>
    /\ settlement[id].status = "OnHold"
    /\ IF id \in disputed' THEN settlement'[id] = settlement[id]
       ELSE \/ \E st \in {"Pending", "Cancelled"} :
                 settlement'[id] = [settlement[id] EXCEPT !.status = st]
            \/ initialized > 0 /\ id = nextSettlementId

HoldFreezes == [][\A id \in Id : HeldUntilResolved(id)]_vars

\* A settlement is executed only before its expiry, with approvals that reach
\* the threshold in force at that moment, cast by somebody unless the
\* threshold is 0.
ExecutedWithQuorum(id) ==
  /\ Exists(id)
  /\ settlement[id].status # "Executed" /\ settlement'[id].status = "Executed"
  => /\ now < settlement[id].expires_at
     /\ settlement[id].approval_weight >= threshold
     /\ threshold > 0 => \E a \in Address : credit[id][a] > 0

ExecutionHasQuorum == [][\A id \in Id : ExecutedWithQuorum(id)]_vars

\* While the contract stays paused nothing moves but the clock and the code
\* hash.
PauseFreezes ==
  [][paused /\ paused' =>
       UNCHANGED <<adminVars, signerVars, proposalVars, vaultVars, initialized>>]_vars

\* A withdrawal window exists only under a configured cap and never lies in
\* the future, so clearing the cap leaves nothing stale for a later cap.
WindowHasLimit ==
  \A t \in Token :
    withdrawWindow[t] # NoWindow =>
      dailyLimit[t] > 0 /\ withdrawWindow[t].window_start <= now

\* Amount of t withdrawn in the WINDOW_SECONDS that end now.
RecentOutflow(t) ==
  SumFunctionOnSet(outflow[t], {s \in Time : s <= now /\ now < s + WINDOW_SECONDS})

\* The cap of a fixed window bounds every rolling one by twice its value: once
\* the cap has been in force for a whole window, no WINDOW_SECONDS of ledger
\* time see more than two caps leave the treasury.
RollingOutflowBounded ==
  \A t \in Token :
    dailyLimit[t] > 0 /\ limitSince[t] + WINDOW_SECONDS <= now
      => RecentOutflow(t) <= 2 * dailyLimit[t]

-----------------------------------------------------------------------------
(* What a document says of the contract and the code does not do: the        *)
(* property of a run that ends in a counterexample.                          *)

\* docs/glossary.md: approval_weight is the sum of the weights of all unique
\* signers who approved.  Nothing records who voted, so approve_settlement
\* counts a signer again on every call.
UniqueSignerWeight ==
  \A id \in Id :
    Exists(id) => settlement[id].approval_weight <= SumFunction(credit[id])
=============================================================================
