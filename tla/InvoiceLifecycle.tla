-------------------------- MODULE InvoiceLifecycle --------------------------
(***************************************************************************)
(* What the invoice contract promises the rest of the system about an       *)
(* invoice's status: the state diagram of ARCHITECTURE.md, over all invoices *)
(* at once, because the batch entry points move several in one transaction. *)
(* Payment and expiry are alternatives of Pending; once an invoice has left *)
(* Pending it never comes back, and Paid is entered once.                   *)
(***************************************************************************)
EXTENDS Naturals

CONSTANT Id             \* invoice ids

VARIABLE status         \* status[id], "None" before the invoice exists

Status == {"None", "Pending", "Paid", "Expired", "Cancelled", "RefundRequested", "Released"}

Init == status = [id \in Id |-> "None"]

\* Every invoice of S goes from one status to another.
Move(S, from, to) ==
  /\ \A id \in S : status[id] = from
  /\ status' = [id \in Id |-> IF id \in S THEN to ELSE status[id]]

Create(id)        == Move({id}, "None", "Pending")
Pay(S)            == Move(S, "Pending", "Paid")
Expire(S)         == Move(S, "Pending", "Expired")
Cancel(id)        == Move({id}, "Pending", "Cancelled")
RequestRefund(id) == Move({id}, "Paid", "RefundRequested")
Release(id)       == Move({id}, "RefundRequested", "Released")

Next ==
  \/ \E id \in Id : Create(id) \/ Cancel(id) \/ RequestRefund(id) \/ Release(id)
  \/ \E S \in SUBSET Id : Pay(S) \/ Expire(S)

Spec == Init /\ [][Next]_status
=============================================================================
