----------------------------- MODULE MCTreasury -----------------------------
(***************************************************************************)
(* An instance of Treasury for TLC.  "focus", chosen once, keeps the part of *)
(* the state that a behaviour does not look at where it is; the behaviours   *)
(* explored are those of three small instances: settlements, with the admin  *)
(* and the vault at rest; governance, without settlements; the vault,        *)
(* without signers.                                                          *)
(***************************************************************************)
EXTENDS Treasury

CONSTANTS a1, a2

VARIABLE focus

\* One signer, another one, a list naming one twice (which initialize rejects), two,
\* and none at all: the vault needs only an admin.
Lists ==
  {<< <<a1, 1>> >>, << <<a2, 1>> >>, << <<a1, 1>>, <<a1, 1>> >>, << <<a1, 1>>, <<a2, 2>> >>, << >>}

At(v) == v' = v

InFocus ==
  CASE focus = "settlement" ->
         /\ At(<<pendingAdmin, vaultVars, wasm>>) /\ admin' # a2 /\ now' <= 2
         /\ threshold' # threshold => threshold' # 0
         /\ \A a \in Address : signer'[a] # signer[a] => signer'[a] # 0
         /\ initialized' # initialized => \E a \in Address : signer' = [signer EXCEPT ![a] = 1]
    [] focus = "governance" ->
         At(<<proposalVars, vaultVars, now>>) /\ initialized' <= 1
    [] focus = "vault" ->
         /\ At(<<pendingAdmin, signerVars, settlement, settlementTtl, wasm>>) /\ initialized' <= 1
         /\ admin' # a2 /\ \A t \in Token : balance'[t][a2] = balance[t][a2]

MCInit == Init /\ focus \in {"settlement", "governance", "vault"}

MCNext == Next /\ InFocus /\ UNCHANGED focus

MCSpec == MCInit /\ [][MCNext]_<<vars, focus>>
=============================================================================
