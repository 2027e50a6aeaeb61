---------------------------- MODULE BalanceCache ----------------------------
(***************************************************************************)
(* GET /api/treasury/balances and its cache (lib/cache.ts,                   *)
(* routes/treasury.ts): the balance is read over RPC and kept for            *)
(* BALANCE_CACHE_TTL_MS in the memory of the process.  The route that        *)
(* executes a settlement and the treasury indexer evict the entry; a         *)
(* deposit, or a settlement executed by somebody else before the indexer     *)
(* sees it, does not.  A read that began before an eviction stores its value *)
(* after it.                                                                 *)
(***************************************************************************)
EXTENDS Naturals

CONSTANTS
  BalanceReader,          \* GET requests, repeated
  Balance,                \* balances of the treasury contract
  BALANCE_CACHE_TTL_MS,   \* in ticks of the model's clock
  MaxMoves                \* bound on balance changes

ASSUME BalanceCacheAssumption == BALANCE_CACHE_TTL_MS \in Nat \ {0} /\ MaxMoves \in Nat

VARIABLES
  onChain,      \* the balance the token contract reports
  moves,        \* how often it changed
  owed,         \* changes whose eviction is still to come
  entry,        \* the cache's entry: its value and the ticks left, or not live
  reading       \* reading[r]: "idle", "reading", or the balance read

cacheVars == <<onChain, moves, owed, entry, reading>>

Dead == [live |-> FALSE, value |-> CHOOSE b \in Balance : TRUE, left |-> 0]

CacheInit ==
  /\ onChain \in Balance /\ moves = 0 /\ owed = 0 /\ entry = Dead
  /\ reading = [r \in BalanceReader |-> "idle"]

\* A settlement or a deposit; the first kind will be noticed.
MoveFunds ==
  /\ moves < MaxMoves /\ moves' = moves + 1
  /\ \E b \in Balance \ {onChain} : onChain' = b
  /\ owed' \in {owed, owed + 1}
  /\ UNCHANGED <<entry, reading>>

\* invalidateBalanceCache, by the execute route or by the indexer.
Evict ==
  /\ owed > 0 /\ owed' = owed - 1
  /\ entry' = Dead
  /\ UNCHANGED <<onChain, moves, reading>>

\* A live entry is the answer; otherwise the balance is read over RPC ...
StartRead(r) ==
  /\ reading[r] = "idle" /\ ~entry.live
  /\ reading' = [reading EXCEPT ![r] = "reading"]
  /\ UNCHANGED <<onChain, moves, owed, entry>>

RpcAnswers(r) ==
  /\ reading[r] = "reading"
  /\ reading' = [reading EXCEPT ![r] = onChain]
  /\ UNCHANGED <<onChain, moves, owed, entry>>

\* ... and stored with a new time to live.
StoreBalance(r) ==
  /\ reading[r] \in Balance
  /\ entry' = [live |-> TRUE, value |-> reading[r], left |-> BALANCE_CACHE_TTL_MS]
  /\ reading' = [reading EXCEPT ![r] = "idle"]
  /\ UNCHANGED <<onChain, moves, owed>>

\* A cache whose entries never expire.
Mut_PassTime == entry.live /\ entry.left > 0 /\ entry' = [entry EXCEPT !.left = @ - 1]
                /\ UNCHANGED <<onChain, moves, owed, reading>>

\* Time passes; an entry whose time is over is no answer any more.
PassTime ==
  /\ entry.live
  /\ entry' = IF entry.left > 1 THEN [entry EXCEPT !.left = @ - 1] ELSE Dead
  /\ UNCHANGED <<onChain, moves, owed, reading>>

CacheNext ==
  \/ MoveFunds \/ Evict \/ PassTime
  \/ \E r \in BalanceReader : StartRead(r) \/ RpcAnswers(r) \/ StoreBalance(r)

CacheFairness ==
  /\ WF_cacheVars(PassTime) /\ WF_cacheVars(Evict)
  /\ \A r \in BalanceReader : WF_cacheVars(RpcAnswers(r) \/ StoreBalance(r))

\* An eviction can be undone by a read that was under way, and nobody evicts after
\* a deposit: still no stale balance is served for ever.  Once the balance is
\* stable the cache shows it or nothing (the time to live of cache.ts:114 is what
\* this rests on).
StaleBalanceExpires == <>[](entry.live => entry.value = onChain)
=============================================================================
