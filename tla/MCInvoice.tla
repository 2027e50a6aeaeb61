------------------------------ MODULE MCInvoice ------------------------------
(***************************************************************************)
(* An instance of Invoice for TLC.  "focus", chosen once, keeps the part of  *)
(* the state that a behaviour does not look at where it is: the life of one  *)
(* merchant's invoices, with the admin and the compliance answers at rest;   *)
(* or governance, screening and creation by two merchants, with no payment.  *)
(***************************************************************************)
EXTENDS Invoice

CONSTANTS a1, a2

VARIABLE focus

\* Two accounts that sell to each other.
BothWays == {<<a1, a2>>, <<a2, a1>>}

\* Single ids, a pair, a pair with one id twice, and a list that is too long.
Batches == {<<1>>, <<2>>, <<1, 2>>, <<1, 1>>, <<1, 2, 1>>}

\* The compliance contract allows everybody, or nobody but a1.
AllOrOne == {Address, {a1}}

At(v) == v' = v

InFocus ==
  CASE focus = "lifecycle" ->
         /\ At(<<pendingAdmin, wasm>>) /\ admin' # a2 /\ allowed' = Address
         /\ \A id \in Id : Exists(id)' => invoice'[id].merchant = a1 /\ invoice'[id].expires_at = 2
    [] focus = "governance" ->
         /\ At(fundingVars) /\ now' <= 1 /\ graceWindow' # 0
         /\ \A id \in Id : Exists(id)' => invoice'[id].amount = 2 /\ invoice'[id].expires_at = 1

MCInit == Init /\ focus \in {"lifecycle", "governance"}

MCNext == Next /\ InFocus /\ UNCHANGED focus

MCSpec == MCInit /\ [][MCNext]_<<vars, focus>>
=============================================================================
