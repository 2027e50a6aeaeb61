----------------------------- MODULE Compliance -----------------------------
(***************************************************************************)
(* The compliance contract                                                  *)
(* (COMEBACKHERE-contracts/contracts/compliance/src/lib.rs): one status per *)
(* address, permanent, until a time, or blocked, and the is_allowed verdict *)
(* the invoice contract asks for.                                           *)
(*                                                                          *)
(* An entry point is one action, enabled exactly when the call returns Ok.  *)
(* The parameter admin of the status calls is whoever authenticates: only   *)
(* upgrade, pause and unpause compare it with the stored admin.             *)
(***************************************************************************)
EXTENDS Naturals, Sequences, Functions

CONSTANTS
  Address,
  Absent,          \* a storage key that holds nothing
  Wasm,
  Until,           \* timestamps passed to allow_address_until and batch_allow_addresses
  AddressList,     \* lists passed to the batch calls
  MAX_BATCH_SIZE,
  MaxInitialize,   \* bound: calls of initialize
  MaxTime          \* bound: ledger timestamps

Time == 0 .. MaxTime

ASSUME ComplianceConstants ==
  /\ Absent \notin Address
  /\ Until \subseteq Nat /\ AddressList \subseteq Seq(Address)
  /\ MAX_BATCH_SIZE \in Nat /\ MaxInitialize \in Nat /\ MaxTime \in Nat
  /\ Wasm # {}

VARIABLES
  admin, pendingAdmin, paused, wasm,
  status,        \* Status(a), Cleared when there is no entry
  now,           \* ledger timestamp
  initialized    \* calls of initialize (history, read by properties only)

deployVars == <<admin, pendingAdmin, paused, wasm, initialized>>
vars == <<deployVars, status, now>>

Allowed          == [kind |-> "Allowed"]
AllowedUntil(u)  == [kind |-> "AllowedUntil", until |-> u]
Blocked          == [kind |-> "Blocked"]
Cleared          == [kind |-> "Cleared"]

AddressStatus == {Allowed, Blocked, Cleared} \cup {AllowedUntil(u) : u \in Until}

TypeOK ==
  /\ admin \in Address \cup {Absent}
  /\ pendingAdmin = Absent
  /\ paused \in BOOLEAN
  /\ wasm \in Wasm
  /\ status \in [Address -> AddressStatus]
  /\ now \in Time
  /\ initialized \in 0 .. MaxInitialize

Init ==
  /\ admin = Absent /\ pendingAdmin = Absent
  /\ paused = FALSE
  /\ wasm \in Wasm
  /\ status = [a \in Address |-> Cleared]
  /\ now = 0
  /\ initialized = 0
-----------------------------------------------------------------------------
(* Mut_X is X with a bug one could plausibly write there; a run that checks a *)
(* property must fail when X is replaced by it.                               *)
check_not_paused == ~paused

Mut_check_not_past_expiry(until) == now <= until

check_not_past_expiry(until) == now < until

is_allowed(a) ==
  \/ status[a] = Allowed
  \/ status[a].kind = "AllowedUntil" /\ now < status[a].until

\* The answers the contract gives now.
AllowedSet == {a \in Address : is_allowed(a)}

upgrade(caller, hash) ==
  /\ caller = admin
  /\ wasm' = hash
  /\ UNCHANGED <<admin, pendingAdmin, paused, initialized, status, now>>

\* No guard: initialize can be called again, by anybody.
initialize(new_admin) ==
  /\ initialized < MaxInitialize
  /\ admin' = new_admin
  /\ paused' = FALSE
  /\ initialized' = initialized + 1
  /\ UNCHANGED <<pendingAdmin, wasm, status, now>>

\* Stores the new admin at once.
transfer_admin(caller, new_admin) ==
  /\ check_not_paused
  /\ admin' = new_admin
  /\ UNCHANGED <<pendingAdmin, paused, wasm, initialized, status, now>>

\* No entry point writes PendingAdmin, so this call always fails and is no part
\* of Next.
accept_admin(new_admin) ==
  /\ check_not_paused
  /\ new_admin = pendingAdmin
  /\ admin' = new_admin
  /\ pendingAdmin' = Absent
  /\ UNCHANGED <<paused, wasm, initialized, status, now>>

pause(caller) ==
  /\ caller = admin
  /\ paused' = TRUE
  /\ UNCHANGED <<admin, pendingAdmin, wasm, initialized, status, now>>

unpause(caller) ==
  /\ caller = admin
  /\ paused' = FALSE
  /\ UNCHANGED <<admin, pendingAdmin, wasm, initialized, status, now>>

\* The new status of every address of S; an address that occurs twice in a
\* batch is written twice.
SetStatus(S, st) ==
  /\ check_not_paused
  /\ status' = [a \in Address |-> IF a \in S THEN st ELSE status[a]]
  /\ UNCHANGED <<deployVars, now>>

allow_address(a) == SetStatus({a}, Allowed)

block_address(a) == SetStatus({a}, Blocked)

allow_address_until(a, until) ==
  /\ check_not_past_expiry(until)
  /\ SetStatus({a}, AllowedUntil(until))

batch_allow_addresses(addresses, until) ==
  /\ check_not_past_expiry(until)
  /\ Len(addresses) <= MAX_BATCH_SIZE
  /\ SetStatus(Range(addresses), AllowedUntil(until))

batch_block_addresses(addresses) ==
  /\ Len(addresses) <= MAX_BATCH_SIZE
  /\ SetStatus(Range(addresses), Blocked)

\* A lapsed permission is still an entry, and can be cleared.
clear_address(a) ==
  /\ status[a] # Cleared
  /\ SetStatus({a}, Cleared)

Tick ==
  /\ now < MaxTime
  /\ now' = now + 1
  /\ UNCHANGED <<deployVars, status>>
-----------------------------------------------------------------------------
AdminStep ==
  \E caller \in Address :
    \/ \E h \in Wasm : upgrade(caller, h)
    \/ initialize(caller)
    \/ \E a \in Address : transfer_admin(caller, a)
    \/ pause(caller)
    \/ unpause(caller)

StatusStep ==
  \/ \E a \in Address :
       \/ allow_address(a)
       \/ block_address(a)
       \/ clear_address(a)
       \/ \E u \in Until : allow_address_until(a, u)
  \/ \E list \in AddressList :
       \/ batch_block_addresses(list)
       \/ \E u \in Until : batch_allow_addresses(list, u)

Next == AdminStep \/ StatusStep \/ Tick

Spec == Init /\ [][Next]_vars
-----------------------------------------------------------------------------
(* Properties that the contract has.                                         *)

\* The verdict only turns to yes by a status call for that address: the clock
\* takes permissions away and never gives one, so a blocked or lapsed address
\* stays refused until somebody acts.
OnlyCallsAllow ==
  [][\A a \in Address : ~is_allowed(a) /\ is_allowed(a)' =>
       status'[a] # status[a] /\ now' = now]_vars

\* A time-limited permission is worth something: from the call that grants it,
\* single or in a batch, the address is allowed for at least the current
\* second.  The until of the call itself is still refused.
GrantTakesEffect ==
  [][\A a \in Address :
       status'[a] # status[a] /\ status'[a].kind = "AllowedUntil" => is_allowed(a)']_vars

\* While the contract stays paused, no status and no admin changes, and a
\* verdict changes only by lapsing.
PauseFreezes ==
  [][paused /\ paused' =>
       /\ UNCHANGED <<admin, pendingAdmin, status, initialized>>
       /\ AllowedSet' \subseteq AllowedSet]_vars
=============================================================================
