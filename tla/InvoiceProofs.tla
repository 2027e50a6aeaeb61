---------------------------- MODULE InvoiceProofs ----------------------------
(***************************************************************************)
(* Machine-checked proofs about the invoice contract, for every set of      *)
(* accounts, tokens and inputs and every bound.                             *)
(***************************************************************************)
EXTENDS Invoice, SumTheorems, TLAPS

(* What the entry points on stored invoices do, in the terms of the proofs.  *)

\* The invoices of S, all stored with status "from", get status "to".
Moved(S, from, to) ==
  /\ \A id \in S : Exists(id) /\ invoice[id].status = from
  /\ SetStatus(S, to)

\* Both payment paths.
PaidEffect(S) ==
  /\ Moved(S, "Pending", "Paid")
  /\ \A id \in S : NotExpired(id)
  /\ \E how \in {"marked", "transferred"} : Fund(S, how)

ExpiredEffect(S) ==
  /\ Moved(S, "Pending", "Expired")
  /\ \A id \in S : ~NotExpired(id)
  /\ UNCHANGED fundingVars

\* Cancellation, refund request and release, of one invoice.
SingleEffect(id) ==
  /\ \/ Moved({id}, "Pending", "Cancelled")
     \/ Moved({id}, "Paid", "RefundRequested")
     \/ Moved({id}, "RefundRequested", "Released")
  /\ UNCHANGED fundingVars

\* Every step on stored invoices is one of these, and leaves the rest alone.
LEMMA InvoiceEffect ==
  ASSUME InvoiceStep
  PROVE  /\ InvoiceFrame
         /\ \/ \E S \in SUBSET Id : PaidEffect(S) \/ ExpiredEffect(S)
            \/ \E id \in Id : SingleEffect(id)
<1>1. ASSUME NEW ids \in Batch, mark_paids(ids)
      PROVE  InvoiceFrame /\ Range(ids) \in SUBSET Id /\ PaidEffect(Range(ids))
  BY <1>1 DEF mark_paids, PaidEffect, Moved, Payable, IsPending, Exists
<1>2. ASSUME NEW ids \in Batch, batch_expire(ids)
      PROVE  InvoiceFrame /\ \E S \in SUBSET Id : ExpiredEffect(S)
  <2> DEFINE S == {id \in Range(ids) : IsPending(id) /\ ~NotExpired(id)}
  <2>1. S \in SUBSET Id /\ Moved(S, "Pending", "Expired")
    BY <1>2 DEF batch_expire, Moved, IsPending, Exists
  <2>2. InvoiceFrame /\ UNCHANGED fundingVars
    BY <1>2 DEF batch_expire, fundingVars
  <2>3. ExpiredEffect(S)
    BY <2>1, <2>2 DEF ExpiredEffect
  <2> QED
    BY <2>1, <2>2, <2>3
<1>3. ASSUME NEW id \in Id, NEW c \in Address, pay_invoice(c, id)
      PROVE  InvoiceFrame /\ PaidEffect({id})
  BY <1>3 DEF pay_invoice, PaidEffect, Moved, Payable, IsPending
<1>4. ASSUME NEW id \in Id, NEW c \in Address,
             cancel_invoiced(id, c) \/ request_refund(id, c) \/ release_escrow(id, c)
      PROVE  InvoiceFrame /\ SingleEffect(id)
  <2>1. CASE cancel_invoiced(id, c)
    BY <2>1 DEF cancel_invoiced, SingleEffect, Moved, AfterCancel, fundingVars
  <2>2. CASE request_refund(id, c)
    BY <2>2 DEF request_refund, SingleEffect, Moved, fundingVars
  <2>3. CASE release_escrow(id, c)
    BY <2>3 DEF release_escrow, SingleEffect, Moved, fundingVars
  <2> QED
    BY <1>4, <2>1, <2>2, <2>3
<1> QED
  <2>1. CASE \E ids \in Batch : mark_paids(ids) \/ batch_expire(ids)
    BY <2>1, <1>1, <1>2
  <2>2. CASE \E id \in Id, c \in Address :
               \/ pay_invoice(c, id)
               \/ cancel_invoiced(id, c) \/ request_refund(id, c) \/ release_escrow(id, c)
    <3>1. PICK id \in Id, c \in Address :
                 \/ pay_invoice(c, id)
                 \/ cancel_invoiced(id, c) \/ request_refund(id, c) \/ release_escrow(id, c)
      BY <2>2
    <3>2. {id} \in SUBSET Id
      OBVIOUS
    <3> QED
      BY <3>1, <3>2, <1>3, <1>4
  <2> QED
    BY <2>1, <2>2 DEF InvoiceStep

\* What the administration, the clock and the compliance contract leave alone.
LEMMA QuietEffect ==
  ASSUME AdminStep \/ Tick \/ Screen \/ UNCHANGED vars
  PROVE  /\ UNCHANGED <<invoice, nonce, customerInvoices, nonceOf, funding, fundedAt, balance>>
         /\ \/ UNCHANGED invoiceCount
            \/ admin = Absent /\ admin' \in Address /\ invoiceCount' = 0
<1> USE DEF adminVars, configVars, indexVars, fundingVars, worldVars
<1>1. CASE AdminStep
  BY <1>1 DEF AdminStep, upgrade, transfer_admin, accept_admin, initialize, pause, unpause,
              set_treasury, set_compliance, set_grace_window, ConfigFrame
<1>2. CASE Tick
  BY <1>2 DEF Tick
<1>3. CASE Screen
  BY <1>3 DEF Screen
<1>4. CASE UNCHANGED vars
  BY <1>4 DEF vars
<1> QED
  BY <1>1, <1>2, <1>3, <1>4

-----------------------------------------------------------------------------
(* Types.                                                                    *)

\* A status change of stored invoices keeps the invoice records well formed.
LEMMA MovedType ==
  ASSUME TypeOK, NEW S, NEW from, NEW to \in InvoiceStatus, Moved(S, from, to)
  PROVE  invoice' \in [Id -> InvoiceRecord \cup {NoInvoice}]
<1>1. ASSUME NEW id \in Id, id \in S
      PROVE  [invoice[id] EXCEPT !.status = to] \in InvoiceRecord
  <2>1. invoice[id] \in InvoiceRecord
    BY <1>1 DEF TypeOK, Moved, Exists
  <2> QED
    BY <2>1 DEF InvoiceRecord
<1>2. \A id \in Id : (IF id \in S THEN [invoice[id] EXCEPT !.status = to] ELSE invoice[id])
                       \in InvoiceRecord \cup {NoInvoice}
  BY <1>1 DEF TypeOK
<1> QED
  BY <1>2 DEF Moved, SetStatus

\* Paying on chain keeps the token ledgers well typed.
LEMMA PayType ==
  ASSUME TypeOK, NEW id \in Id, NEW payer \in Address, pay_invoice(payer, id)
  PROVE  balance' \in [Token -> [Holder -> Nat]]
<1> DEFINE t == invoice[id].token
           n == invoice[id].amount
<1>1. invoice[id] \in InvoiceRecord
  BY DEF TypeOK, pay_invoice, Payable, IsPending, Exists
<1>2. t \in Token /\ n \in Nat
  BY <1>1 DEF InvoiceRecord
<1>3. payer \in Holder /\ Self \in Holder /\ payer # Self
  BY InvoiceConstants DEF Holder
<1>4. balance[t] \in [Holder -> Nat] /\ balance[t][payer] - n \in Nat /\ balance[t][Self] + n \in Nat
  BY <1>2, <1>3 DEF TypeOK, pay_invoice
<1>5. balance' = [balance EXCEPT ![t] = [balance[t] EXCEPT ![payer] = balance[t][payer] - n,
                                                         ![Self] = balance[t][Self] + n]]
  BY <1>2, <1>3, <1>4 DEF TypeOK, pay_invoice
<1> QED
  BY <1>2, <1>3, <1>4, <1>5 DEF TypeOK

\* The steps on stored invoices keep every variable in its type.
LEMMA InvoiceStepType == TypeOK /\ InvoiceStep => TypeOK'
<1> SUFFICES ASSUME TypeOK, InvoiceStep PROVE TypeOK'
  OBVIOUS
<1> USE DEF adminVars, configVars, indexVars, fundingVars, worldVars
<1>1. invoice' \in [Id -> InvoiceRecord \cup {NoInvoice}]
  <2>1. ASSUME NEW S \in SUBSET Id, PaidEffect(S) \/ ExpiredEffect(S)
        PROVE  invoice' \in [Id -> InvoiceRecord \cup {NoInvoice}]
    BY <2>1, MovedType DEF PaidEffect, ExpiredEffect, InvoiceStatus
  <2>2. ASSUME NEW id \in Id, SingleEffect(id)
        PROVE  invoice' \in [Id -> InvoiceRecord \cup {NoInvoice}]
    BY <2>2, MovedType DEF SingleEffect, InvoiceStatus
  <2> QED
    BY <2>1, <2>2, InvoiceEffect
<1>2. funding' \in [Id -> {"none", "transferred", "marked"}] /\ fundedAt' \in [Id -> Time]
  <2>1. ASSUME NEW S \in SUBSET Id, PaidEffect(S)
        PROVE  funding' \in [Id -> {"none", "transferred", "marked"}] /\ fundedAt' \in [Id -> Time]
    BY <2>1 DEF PaidEffect, Fund, TypeOK
  <2>2. CASE UNCHANGED fundingVars
    BY <2>2 DEF TypeOK
  <2> QED
    BY <2>1, <2>2, InvoiceEffect DEF ExpiredEffect, SingleEffect
<1>3. balance' \in [Token -> [Holder -> Nat]]
  <2>1. CASE UNCHANGED balance
    BY <2>1 DEF TypeOK
  <2>2. CASE \E id \in Id, c \in Address : pay_invoice(c, id)
    BY <2>2, PayType
  <2> QED
    BY <2>1, <2>2 DEF InvoiceStep, mark_paids, batch_expire, cancel_invoiced, request_refund,
                      release_escrow
<1>4. InvoiceFrame
  BY InvoiceEffect
<1> QED
  BY <1>1, <1>2, <1>3, <1>4 DEF TypeOK, InvoiceFrame

\* create_invoice keeps every variable in its type.
LEMMA CreateType == TypeOK /\ CreateStep => TypeOK'
<1> SUFFICES ASSUME TypeOK, CreateStep PROVE TypeOK'
  OBVIOUS
<1> USE InvoiceConstants DEF adminVars, configVars, worldVars
<1>1. PICK p \in Parties, amount \in Amount, token \in Token, e \in Expiry, n \in Nonce,
           r \in ReferenceLen : create_invoice(p[1], p[2], amount, token, e, n, r)
  BY DEF CreateStep
<1>2. p[1] \in Address /\ p[2] \in Address /\ NextId \in Id /\ Id \subseteq Nat
  BY <1>1 DEF create_invoice, Id
<1>3. NewInvoice(p[1], p[2], amount, token, e, r) \in InvoiceRecord
  BY <1>2 DEF NewInvoice, InvoiceRecord, InvoiceStatus, TypeOK
<1>4. /\ invoice' \in [Id -> InvoiceRecord \cup {NoInvoice}]
      /\ nonce' \in SUBSET (Address \X Nonce)
  BY <1>1, <1>2, <1>3 DEF create_invoice, TypeOK
<1>5. customerInvoices' \in [Address -> Seq(Id)]
  <2>1. customerInvoices[p[2]] \in Seq(Id)
    BY <1>2 DEF TypeOK
  <2>2. Append(customerInvoices[p[2]], NextId) \in Seq(Id)
    BY <2>1, <1>2
  <2> QED
    BY <1>1, <1>2, <2>2 DEF create_invoice, Indexed, TypeOK
<1>6. /\ nonceOf' \in [Id -> Nonce \cup {Absent}]
      /\ funding' \in [Id -> {"none", "transferred", "marked"}]
      /\ fundedAt' \in [Id -> Time]
      /\ invoiceCount' \in 0 .. MaxInvoices
  BY <1>1, <1>2 DEF create_invoice, TypeOK, Time, Id
<1> QED
  BY <1>1, <1>4, <1>5, <1>6 DEF create_invoice, TypeOK

\* Administration, clock and compliance answers keep every variable in its type.
LEMMA QuietType == TypeOK /\ (AdminStep \/ Tick \/ Screen \/ UNCHANGED vars) => TypeOK'
<1> SUFFICES ASSUME TypeOK, AdminStep \/ Tick \/ Screen \/ UNCHANGED vars PROVE TypeOK'
  OBVIOUS
<1> USE DEF adminVars, configVars, indexVars, fundingVars, worldVars
<1>1. CASE AdminStep
  <2>1. PICK c \in Address :
          \/ \E h \in Wasm : upgrade(c, h)
          \/ \E a \in Nominee : transfer_admin(c, a)
          \/ accept_admin(c)
          \/ initialize(c)
          \/ pause(c) \/ unpause(c)
          \/ set_treasury(c)
          \/ \E k \in {Compliance, ZeroAddress} : set_compliance(c, k)
          \/ \E w \in Window : set_grace_window(c, w)
    BY <1>1 DEF AdminStep
  <2>2. CASE \E h \in Wasm : upgrade(c, h)
    BY <2>2 DEF upgrade, TypeOK
  <2>3. CASE \E a \in Nominee : transfer_admin(c, a)
    BY <2>3, InvoiceConstants DEF transfer_admin, TypeOK
  <2>4. CASE accept_admin(c)
    BY <2>4 DEF accept_admin, TypeOK
  <2>5. CASE initialize(c)
    <3>1. invoiceCount' \in 0 .. MaxInvoices /\ graceWindow' \in 0 .. MAX_GRACE_WINDOW
      BY <2>5, InvoiceConstants DEF initialize
    <3> QED
      BY <2>5, <3>1 DEF initialize, TypeOK
  <2>6. CASE pause(c) \/ unpause(c)
    BY <2>6 DEF pause, unpause, TypeOK
  <2>7. CASE set_treasury(c)
    BY <2>7 DEF set_treasury, ConfigFrame, TypeOK
  <2>8. CASE \E k \in {Compliance, ZeroAddress} : set_compliance(c, k)
    BY <2>8 DEF set_compliance, ConfigFrame, TypeOK
  <2>9. CASE \E w \in Window : set_grace_window(c, w)
    <3>1. graceWindow' \in 0 .. MAX_GRACE_WINDOW
      BY <2>9, InvoiceConstants DEF set_grace_window, ValidWindow, U64
    <3> QED
      BY <2>9, <3>1 DEF set_grace_window, ConfigFrame, TypeOK
  <2> QED
    BY <2>1, <2>2, <2>3, <2>4, <2>5, <2>6, <2>7, <2>8, <2>9
<1>2. CASE Tick
  BY <1>2, InvoiceConstants DEF Tick, TypeOK, Time
<1>3. CASE Screen
  BY <1>3, InvoiceConstants DEF Screen, TypeOK
<1>4. CASE UNCHANGED vars
  BY <1>4 DEF vars, TypeOK
<1> QED
  BY <1>1, <1>2, <1>3, <1>4

\* Storage starts well typed.
LEMMA InitType == Init => TypeOK
<1> SUFFICES ASSUME Init PROVE TypeOK
  OBVIOUS
<1> USE InvoiceConstants DEF Init
<1>1. /\ admin \in Address \cup {Absent} /\ pendingAdmin \in Address \cup {Absent}
      /\ nominatedBy \in Address \cup {Absent} /\ paused \in BOOLEAN /\ wasm \in Wasm
      /\ graceWindow \in (0 .. MAX_GRACE_WINDOW) \cup {Absent}
  OBVIOUS
<1>2. invoice \in [Id -> InvoiceRecord \cup {NoInvoice}]
  OBVIOUS
<1>3. invoiceCount \in 0 .. MaxInvoices
  OBVIOUS
<1>4. /\ nonce \in SUBSET (Address \X Nonce)
      /\ treasuryContract \in {Treasury, Absent}
      /\ complianceContract \in {Compliance, ZeroAddress, Absent}
      /\ customerInvoices \in [Address -> Seq(Id)]
  OBVIOUS
<1>5. balance \in [Token -> [Holder -> Nat]]
  OBVIOUS
<1>6. /\ allowed \in SUBSET Address /\ now \in Time
      /\ nonceOf \in [Id -> Nonce \cup {Absent}]
      /\ funding \in [Id -> {"none", "transferred", "marked"}]
      /\ fundedAt \in [Id -> Time]
  BY DEF Time
<1> QED
  BY <1>1, <1>2, <1>3, <1>4, <1>5, <1>6 DEF TypeOK

\* Every value the contract stores stays in its type: ids within the counter's
\* bound, the grace window within MAX_GRACE_WINDOW, balances never negative.
THEOREM TypeCorrect == Spec => []TypeOK
<1>1. TypeOK /\ [Next]_vars => TypeOK'
  BY InvoiceStepType, CreateType, QuietType DEF Next
<1> QED
  BY <1>1, InitType, PTL DEF Spec

-----------------------------------------------------------------------------
(* Ids, the state diagram and the records' terms.                            *)

\* The inductive invariant behind the id properties: when initialize comes
\* first, the counter is 0 until then, so resetting it frees no id.
Allocated ==
  /\ admin = Absent => invoiceCount = 0
  /\ \A id \in Id : Exists(id) <=> id <= invoiceCount

\* Steps on stored invoices create and remove none.
LEMMA MovedExists ==
  ASSUME TypeOK, NEW S, NEW from, NEW to \in InvoiceStatus, Moved(S, from, to)
  PROVE  \A id \in Id : Exists(id)' <=> Exists(id)
<1> SUFFICES ASSUME NEW id \in Id PROVE Exists(id)' <=> Exists(id)
  OBVIOUS
<1>1. CASE id \in S
  <2>1. Exists(id) /\ invoice[id] \in InvoiceRecord
    BY <1>1 DEF Moved, Exists, TypeOK
  <2>2. invoice'[id].status = to
    BY <1>1, <2>1 DEF Moved, SetStatus, InvoiceRecord
  <2>3. invoice'[id] # NoInvoice
    BY <2>2 DEF InvoiceStatus, NoInvoice
  <2> QED
    BY <2>1, <2>3 DEF Exists
<1>2. CASE id \notin S
  BY <1>2 DEF Moved, SetStatus, Exists
<1> QED
  BY <1>1, <1>2

\* No step on stored invoices changes which invoices exist.
LEMMA InvoiceStepExists ==
  ASSUME TypeOK, InvoiceStep
  PROVE  \A id \in Id : Exists(id)' <=> Exists(id)
<1>1. ASSUME NEW S \in SUBSET Id, PaidEffect(S) \/ ExpiredEffect(S)
      PROVE  \A id \in Id : Exists(id)' <=> Exists(id)
  BY <1>1, MovedExists DEF PaidEffect, ExpiredEffect, InvoiceStatus
<1>2. ASSUME NEW k \in Id, SingleEffect(k)
      PROVE  \A id \in Id : Exists(id)' <=> Exists(id)
  BY <1>2, MovedExists DEF SingleEffect, InvoiceStatus
<1> QED
  BY <1>1, <1>2, InvoiceEffect

\* A new invoice is stored, pending and with its terms, under the next id.
LEMMA CreateEffect ==
  ASSUME TypeOK, CreateStep
  PROVE  \E p \in Parties, n \in Nonce :
           /\ p[1] \in Address /\ p[2] \in Address
           /\ NextId \in Id /\ invoiceCount' = NextId
           /\ invoice'[NextId] \in InvoiceRecord
           /\ invoice'[NextId].status = "Pending" /\ invoice'[NextId].merchant = p[1]
           /\ invoice'[NextId].customer = p[2] /\ invoice'[NextId].created_at = now
           /\ \A id \in Id : id # NextId => invoice'[id] = invoice[id]
           /\ FreshNonce(p[1], n) /\ nonce' = nonce \cup {<<p[1], n>>}
           /\ nonceOf' = [nonceOf EXCEPT ![NextId] = n]
           /\ funding' = [funding EXCEPT ![NextId] = "none"]
           /\ fundedAt' = [fundedAt EXCEPT ![NextId] = 0]
           /\ customerInvoices' = Indexed(p[2], NextId)
           /\ (admin = Absent => invoiceCount < MaxEarly)
           /\ UNCHANGED <<adminVars, paused, wasm, configVars, balance, worldVars>>
<1>1. PICK p \in Parties, amount \in Amount, token \in Token, e \in Expiry, n \in Nonce,
           r \in ReferenceLen : create_invoice(p[1], p[2], amount, token, e, n, r)
  BY DEF CreateStep
<1>2. p[1] \in Address /\ p[2] \in Address /\ NextId \in Id
  BY <1>1, InvoiceConstants DEF create_invoice
<1>3. invoice'[NextId] = NewInvoice(p[1], p[2], amount, token, e, r)
  BY <1>1, <1>2 DEF create_invoice, TypeOK
<1>4. NewInvoice(p[1], p[2], amount, token, e, r) \in InvoiceRecord
  BY <1>2, InvoiceConstants DEF NewInvoice, InvoiceRecord, InvoiceStatus, TypeOK
<1>5. /\ invoice'[NextId].status = "Pending" /\ invoice'[NextId].merchant = p[1]
      /\ invoice'[NextId].customer = p[2] /\ invoice'[NextId].created_at = now
  BY <1>3 DEF NewInvoice
<1>6. \A id \in Id : id # NextId => invoice'[id] = invoice[id]
  BY <1>1, <1>2 DEF create_invoice, TypeOK
<1> QED
  BY <1>1, <1>2, <1>3, <1>4, <1>5, <1>6 DEF create_invoice

\* Allocated is inductive when nothing is created before initialize.
LEMMA AllocatedInv == ASSUME MaxEarly = 0 PROVE Spec => []Allocated
<1>1. Init => Allocated
  <2> SUFFICES ASSUME Init PROVE Allocated
    OBVIOUS
  <2>1. \A id \in Id : ~Exists(id) /\ ~(id <= 0)
    BY InvoiceConstants DEF Init, Exists, Id
  <2> QED
    BY <2>1 DEF Init, Allocated
<1>2. ASSUME TypeOK, Allocated, [Next]_vars PROVE Allocated'
  <2>1. CASE AdminStep \/ Tick \/ Screen \/ UNCHANGED vars
    <3>1. \A id \in Id : Exists(id)' <=> Exists(id)
      BY <2>1, QuietEffect DEF Exists
    <3>2. CASE UNCHANGED invoiceCount
      <4>1. admin' = Absent => admin = Absent
        BY <1>2, <2>1, InvoiceConstants
           DEF AdminStep, upgrade, transfer_admin, accept_admin, initialize, pause, unpause,
               set_treasury, set_compliance, set_grace_window, ConfigFrame, Tick, Screen, vars,
               adminVars
      <4> QED
        BY <1>2, <3>1, <3>2, <4>1 DEF Allocated
    <3>3. CASE admin = Absent /\ admin' \in Address /\ invoiceCount' = 0
      <4>1. invoiceCount = 0
        BY <1>2, <3>3 DEF Allocated
      <4>2. admin' # Absent
        BY <3>3, InvoiceConstants
      <4> QED
        BY <1>2, <3>1, <3>3, <4>1, <4>2 DEF Allocated
    <3> QED
      BY <2>1, <3>2, <3>3, QuietEffect
  <2>2. CASE CreateStep
    <3>1. /\ NextId \in Id /\ invoiceCount' = NextId
          /\ invoice'[NextId] \in InvoiceRecord
          /\ invoice'[NextId].status = "Pending"
          /\ \A id \in Id : id # NextId => invoice'[id] = invoice[id]
          /\ admin = Absent => invoiceCount < 0
          /\ admin' = admin
      BY <1>2, <2>2, CreateEffect DEF adminVars
    <3>2. admin' # Absent
      BY <1>2, <3>1 DEF TypeOK
    <3>3. invoice'[NextId] # NoInvoice
      BY <3>1 DEF NoInvoice
    <3>4. ASSUME NEW id \in Id PROVE Exists(id)' <=> id <= invoiceCount'
      <4>1. CASE id = NextId
        BY <4>1, <3>1, <3>3 DEF Exists, Id
      <4>2. CASE id # NextId
        <5>1. Exists(id)' <=> id <= invoiceCount
          BY <1>2, <3>1, <4>2 DEF Exists, Allocated
        <5> QED
          BY <1>2, <3>1, <4>2, <5>1 DEF NextId, Id, TypeOK
      <4> QED
        BY <4>1, <4>2
    <3> QED
      BY <3>2, <3>4 DEF Allocated
  <2>3. CASE InvoiceStep
    BY <1>2, <2>3, InvoiceStepExists, InvoiceEffect
       DEF Allocated, InvoiceFrame, adminVars, indexVars
  <2> QED
    BY <1>2, <2>1, <2>2, <2>3 DEF Next
<1> QED
  BY <1>1, <1>2, TypeCorrect, PTL DEF Spec

\* The statuses of the stored invoices, as the state diagram sees them.
LEMMA MovedIsMove ==
  ASSUME NEW S \in SUBSET Id, NEW from, NEW to \in InvoiceStatus, Moved(S, from, to), TypeOK
  PROVE  Lifecycle!Move(S, from, to)
<1> DEFINE st == [id \in Id |-> invoice[id].status]
           st2 == [id \in Id |-> invoice'[id].status]
<1>1. \A id \in S : st[id] = from
  BY DEF Moved
<1>2. ASSUME NEW id \in Id PROVE st2[id] = IF id \in S THEN to ELSE st[id]
  <2>1. CASE id \in S
    <3>1. invoice[id] \in InvoiceRecord
      BY <2>1 DEF Moved, Exists, TypeOK
    <3> QED
      BY <2>1, <3>1 DEF Moved, SetStatus, InvoiceRecord
  <2>2. CASE id \notin S
    BY <2>2 DEF Moved, SetStatus
  <2> QED
    BY <2>1, <2>2
<1>3. st2 = [id \in Id |-> IF id \in S THEN to ELSE st[id]]
  BY <1>2
<1> QED
  BY <1>1, <1>3 DEF Lifecycle!Move

\* With initialize first, the contract implements the state diagram of
\* ARCHITECTURE.md for any number of invoices and any batches: every
\* transaction is a step of InvoiceLifecycle or leaves all statuses alone.
THEOREM LifecycleRefined == ASSUME MaxEarly = 0 PROVE Spec => ImplementsLifecycle
<1> DEFINE st == [id \in Id |-> invoice[id].status]
<1>1. Init => Lifecycle!Init
  BY DEF Init, Lifecycle!Init, NoInvoice
<1>2. ASSUME TypeOK, Allocated, [Next]_vars
      PROVE  [Lifecycle!Next]_st
  <2>1. CASE AdminStep \/ Tick \/ Screen \/ UNCHANGED vars
    BY <2>1, QuietEffect
  <2>2. CASE CreateStep
    <3>1. /\ NextId \in Id
          /\ invoice'[NextId].status = "Pending"
          /\ \A id \in Id : id # NextId => invoice'[id] = invoice[id]
      BY <1>2, <2>2, CreateEffect
    <3>2. invoice[NextId] = NoInvoice
      BY <1>2, <3>1 DEF Allocated, Exists, NextId, TypeOK
    <3>3. PICK k \in Id : k = NextId
      BY <3>1
    <3>4. st[k] = "None"
      BY <3>2, <3>3 DEF NoInvoice
    <3>5. st' = [id \in Id |-> IF id \in {k} THEN "Pending" ELSE st[id]]
      BY <3>1, <3>3
    <3>6. Lifecycle!Create(k)
      BY <3>4, <3>5 DEF Lifecycle!Create, Lifecycle!Move
    <3>7. Lifecycle!Next
      BY <3>6, Zenon DEF Lifecycle!Next
    <3> QED
      BY <3>7
  <2>3. CASE InvoiceStep
    <3>1. ASSUME NEW S \in SUBSET Id, PaidEffect(S) \/ ExpiredEffect(S) PROVE Lifecycle!Next
      BY <1>2, <3>1, MovedIsMove
         DEF PaidEffect, ExpiredEffect, InvoiceStatus, Lifecycle!Next, Lifecycle!Pay,
             Lifecycle!Expire
    <3>2. ASSUME NEW id \in Id, SingleEffect(id) PROVE Lifecycle!Next
      <4>1. {id} \in SUBSET Id
        OBVIOUS
      <4>2. \/ Lifecycle!Move({id}, "Pending", "Cancelled")
            \/ Lifecycle!Move({id}, "Paid", "RefundRequested")
            \/ Lifecycle!Move({id}, "RefundRequested", "Released")
        BY <1>2, <3>2, <4>1, MovedIsMove DEF SingleEffect, InvoiceStatus
      <4> QED
        BY <4>2 DEF Lifecycle!Next, Lifecycle!Cancel, Lifecycle!RequestRefund, Lifecycle!Release
    <3> QED
      BY <2>3, <3>1, <3>2, InvoiceEffect
  <2> QED
    BY <1>2, <2>1, <2>2, <2>3 DEF Next
<1> QED
  BY <1>1, <1>2, TypeCorrect, AllocatedInv, PTL DEF Spec, ImplementsLifecycle, Lifecycle!Spec

\* With initialize first, merchant, customer, amount, token, dates and
\* reference of a stored invoice never change.
THEOREM TermsStayFixed == ASSUME MaxEarly = 0 PROVE Spec => InvoiceTermsFixed
<1> DEFINE Kept == \A id \in Id : Exists(id) =>
                     invoice'[id] = [invoice[id] EXCEPT !.status = invoice'[id].status]
<1>1. ASSUME NEW id \in Id, TypeOK, Exists(id)
      PROVE  /\ invoice[id] \in InvoiceRecord
             /\ invoice[id] = [invoice[id] EXCEPT !.status = invoice[id].status]
             /\ \A to : [invoice[id] EXCEPT !.status = to].status = to
  BY <1>1 DEF TypeOK, Exists, InvoiceRecord
<1>2. ASSUME TypeOK, NEW S, NEW from, NEW to, Moved(S, from, to) PROVE Kept
  <2> SUFFICES ASSUME NEW id \in Id, Exists(id)
               PROVE  invoice'[id] = [invoice[id] EXCEPT !.status = invoice'[id].status]
    OBVIOUS
  <2>1. CASE id \in S
    BY <1>1, <1>2, <2>1 DEF Moved, SetStatus
  <2>2. CASE id \notin S
    BY <1>1, <1>2, <2>2 DEF Moved, SetStatus
  <2> QED
    BY <2>1, <2>2
<1>3. ASSUME TypeOK, Allocated, [Next]_vars PROVE Kept
  <2>1. CASE AdminStep \/ Tick \/ Screen \/ UNCHANGED vars
    BY <1>1, <1>3, <2>1, QuietEffect
  <2>2. CASE CreateStep
    <3>1. NextId \in Id /\ \A id \in Id : id # NextId => invoice'[id] = invoice[id]
      BY <1>3, <2>2, CreateEffect
    <3>2. ~Exists(NextId)
      BY <1>3, <3>1 DEF Allocated, NextId, TypeOK
    <3> QED
      BY <1>1, <1>3, <3>1, <3>2
  <2>3. CASE InvoiceStep
    BY <1>2, <1>3, <2>3, InvoiceEffect DEF PaidEffect, ExpiredEffect, SingleEffect
  <2> QED
    BY <1>3, <2>1, <2>2, <2>3 DEF Next
<1> QED
  BY <1>3, TypeCorrect, AllocatedInv, PTL DEF Spec, InvoiceTermsFixed
-----------------------------------------------------------------------------
(* Administration.                                                           *)

\* The open nomination was always made by the admin in office.
THEOREM NominationStaysCurrent == Spec => []NominationIsCurrent
<1>1. Init => NominationIsCurrent
  BY DEF Init, NominationIsCurrent
<1>2. ASSUME NominationIsCurrent, TypeOK, [Next]_vars PROVE NominationIsCurrent'
  <2> USE DEF adminVars, NominationIsCurrent
  <2>1. CASE AdminStep
    <3>1. ASSUME NEW c \in Address, NEW a \in Nominee, transfer_admin(c, a)
          PROVE  NominationIsCurrent'
      BY <3>1, InvoiceConstants DEF transfer_admin, check_admin
    <3>2. ASSUME NEW c \in Address, accept_admin(c) PROVE NominationIsCurrent'
      BY <3>2 DEF accept_admin
    <3>3. ASSUME NEW c \in Address, initialize(c) PROVE NominationIsCurrent'
      BY <1>2, <3>3 DEF initialize
    <3>4. CASE UNCHANGED adminVars
      BY <1>2, <3>4
    <3> QED
      BY <2>1, <3>1, <3>2, <3>3, <3>4
         DEF AdminStep, upgrade, pause, unpause, set_treasury, set_compliance, set_grace_window,
             ConfigFrame
  <2>2. CASE CreateStep
    BY <1>2, <2>2 DEF CreateStep, create_invoice
  <2>3. CASE InvoiceStep
    BY <1>2, <2>3, InvoiceEffect DEF InvoiceFrame
  <2>4. CASE Tick \/ Screen \/ UNCHANGED vars
    BY <1>2, <2>4 DEF Tick, Screen, vars
  <2> QED
    BY <1>2, <2>1, <2>2, <2>3, <2>4 DEF Next
<1> QED
  BY <1>1, <1>2, TypeCorrect, PTL DEF Spec

\* While the contract stays paused nothing but the code hash can change.
THEOREM PauseStopsEverything == Spec => PauseFreezes
<1> DEFINE Frozen == UNCHANGED <<adminVars, invoice, configVars, indexVars, fundingVars, balance>>
<1>1. ASSUME [Next]_vars, paused, paused', TypeOK PROVE Frozen
  <2> USE DEF adminVars, configVars, indexVars, fundingVars
  <2>1. CASE AdminStep
    BY <1>1, <2>1 DEF AdminStep, upgrade, transfer_admin, accept_admin, initialize, pause,
       unpause, set_treasury, set_compliance, set_grace_window, ConfigFrame, check_not_paused
  <2>2. CASE CreateStep
    BY <1>1, <2>2 DEF CreateStep, create_invoice, check_not_paused
  <2>3. CASE InvoiceStep
    BY <1>1, <2>3 DEF InvoiceStep, mark_paids, batch_expire, pay_invoice, cancel_invoiced,
       request_refund, release_escrow, check_not_paused
  <2>4. CASE Tick \/ Screen \/ UNCHANGED vars
    BY <2>4 DEF Tick, Screen, vars
  <2> QED
    BY <1>1, <2>1, <2>2, <2>3, <2>4 DEF Next
<1> QED
  BY <1>1, TypeCorrect, PTL DEF Spec, PauseFreezes
-----------------------------------------------------------------------------
(* Nonces, payments and the customer index.                                  *)

\* A status change keeps everything else of a stored invoice.
LEMMA MovedKeeps ==
  ASSUME TypeOK, NEW S \in SUBSET Id, NEW from, NEW to \in InvoiceStatus, Moved(S, from, to)
  PROVE  \A id \in Id :
           /\ Exists(id)' <=> Exists(id)
           /\ Exists(id) =>
                /\ invoice'[id].merchant = invoice[id].merchant
                /\ invoice'[id].customer = invoice[id].customer
                /\ invoice'[id].created_at = invoice[id].created_at
                /\ invoice'[id].expires_at = invoice[id].expires_at
                /\ invoice'[id].status = IF id \in S THEN to ELSE invoice[id].status
<1> SUFFICES ASSUME NEW id \in Id, Exists(id)
             PROVE  /\ invoice'[id].merchant = invoice[id].merchant
                    /\ invoice'[id].customer = invoice[id].customer
                    /\ invoice'[id].created_at = invoice[id].created_at
                    /\ invoice'[id].expires_at = invoice[id].expires_at
                    /\ invoice'[id].status = IF id \in S THEN to ELSE invoice[id].status
  BY MovedExists
<1>1. invoice[id] \in InvoiceRecord
  BY DEF Exists, TypeOK
<1>2. CASE id \in S
  BY <1>1, <1>2 DEF Moved, SetStatus, InvoiceRecord
<1>3. CASE id \notin S
  BY <1>3 DEF Moved, SetStatus
<1> QED
  BY <1>2, <1>3

\* Merchants and customers outlive every step on stored invoices.
LEMMA PartiesKept ==
  ASSUME TypeOK, InvoiceStep
  PROVE  \A id \in Id :
           /\ Exists(id)' <=> Exists(id)
           /\ Exists(id) => /\ invoice'[id].merchant = invoice[id].merchant
                            /\ invoice'[id].customer = invoice[id].customer
<1> DEFINE G == \A id \in Id :
                  /\ Exists(id)' <=> Exists(id)
                  /\ Exists(id) => /\ invoice'[id].merchant = invoice[id].merchant
                                   /\ invoice'[id].customer = invoice[id].customer
<1>1. ASSUME NEW S \in SUBSET Id, PaidEffect(S) \/ ExpiredEffect(S) PROVE G
  <2>1. \E to \in InvoiceStatus : Moved(S, "Pending", to)
    BY <1>1 DEF PaidEffect, ExpiredEffect, InvoiceStatus
  <2> QED
    BY <2>1, MovedKeeps
<1>2. ASSUME NEW k \in Id, SingleEffect(k) PROVE G
  <2>1. {k} \in SUBSET Id /\ \E from, to \in InvoiceStatus : Moved({k}, from, to)
    BY <1>2 DEF SingleEffect, InvoiceStatus
  <2> QED
    BY <2>1, MovedKeeps
<1> QED
  BY <1>1, <1>2, InvoiceEffect

\* No two invoices of one merchant share a nonce, even when invoices were
\* created before initialize reset the id counter.
THEOREM NonceStaysUnique == Spec => []NonceCreatesOnce
<1>1. Init => NonceCreatesOnce
  BY DEF Init, NonceCreatesOnce, Exists
<1>2. ASSUME NonceCreatesOnce, TypeOK, [Next]_vars PROVE NonceCreatesOnce'
  <2>1. CASE AdminStep \/ Tick \/ Screen \/ UNCHANGED vars
    BY <1>2, <2>1, QuietEffect DEF NonceCreatesOnce, Exists
  <2>2. CASE CreateStep
    <3>1. PICK p \in Parties, n \in Nonce :
            /\ NextId \in Id /\ invoice'[NextId].merchant = p[1]
            /\ \A id \in Id : id # NextId => invoice'[id] = invoice[id]
            /\ FreshNonce(p[1], n) /\ nonce' = nonce \cup {<<p[1], n>>}
            /\ nonceOf' = [nonceOf EXCEPT ![NextId] = n]
      BY <1>2, <2>2, CreateEffect
    <3>2. PICK k \in Id : k = NextId
      BY <3>1
    <3>3. /\ nonceOf'[k] = n
          /\ \A id \in Id : id # k => nonceOf'[id] = nonceOf[id] /\ (Exists(id)' <=> Exists(id))
      BY <1>2, <3>1, <3>2 DEF TypeOK, Exists
    <3>4. \A id \in Id : Exists(id) => <<invoice[id].merchant, nonceOf[id]>> \in nonce
      BY <1>2 DEF NonceCreatesOnce
    <3>5. \A id \in Id : Exists(id) /\ invoice[id].merchant = p[1] => nonceOf[id] # n
      BY <3>1, <3>4 DEF FreshNonce
    <3>6. ASSUME NEW i \in Id, NEW j \in Id, Exists(i)'
          PROVE  /\ <<invoice'[i].merchant, nonceOf'[i]>> \in nonce'
                 /\ Exists(j)' /\ i # j /\ invoice'[i].merchant = invoice'[j].merchant
                      => nonceOf'[i] # nonceOf'[j]
      <4>1. <<invoice'[i].merchant, nonceOf'[i]>> \in nonce'
        BY <3>1, <3>2, <3>3, <3>4, <3>6
      <4>2. ASSUME Exists(j)', i # j, invoice'[i].merchant = invoice'[j].merchant
            PROVE  nonceOf'[i] # nonceOf'[j]
        <5>1. CASE i = k
          BY <3>1, <3>2, <3>3, <3>5, <3>6, <4>2, <5>1
        <5>2. CASE j = k
          BY <3>1, <3>2, <3>3, <3>5, <3>6, <4>2, <5>2
        <5>3. CASE i # k /\ j # k
          <6>1. invoice'[i] = invoice[i] /\ invoice'[j] = invoice[j]
            BY <3>1, <3>2, <5>3
          <6>2. Exists(i) /\ Exists(j) /\ nonceOf'[i] = nonceOf[i] /\ nonceOf'[j] = nonceOf[j]
            BY <3>3, <3>6, <4>2, <5>3
          <6>3. nonceOf[i] # nonceOf[j]
            BY <1>2, <4>2, <6>1, <6>2 DEF NonceCreatesOnce
          <6> QED
            BY <6>2, <6>3
        <5> QED
          BY <5>1, <5>2, <5>3
      <4> QED
        BY <4>1, <4>2
    <3> QED
      BY <3>6 DEF NonceCreatesOnce
  <2>3. CASE InvoiceStep
    <3>1. UNCHANGED <<nonce, nonceOf>>
      BY <2>3, InvoiceEffect DEF InvoiceFrame, indexVars
    <3> QED
      BY <1>2, <2>3, <3>1, PartiesKept DEF NonceCreatesOnce
  <2> QED
    BY <1>2, <2>1, <2>2, <2>3 DEF Next
<1> QED
  BY <1>1, <1>2, TypeCorrect, PTL DEF Spec

\* For every invoice, payment and expiry exclude each other: funded in its
\* lifetime and before expires_at, or dead without a payment.
THEOREM FundedStaysXorDead == Spec => []FundedXorDead
<1> DEFINE Ok(id) == LET i == invoice[id] IN
      /\ i.status \in {"Paid", "RefundRequested", "Released"} <=> funding[id] # "none"
      /\ i.created_at <= now
      /\ funding[id] # "none" => fundedAt[id] < i.expires_at /\ i.created_at <= fundedAt[id]
      /\ i.status = "Expired" => i.expires_at <= now
<1>1. Init => FundedXorDead
  BY DEF Init, FundedXorDead, Exists
<1>2. ASSUME FundedXorDead, TypeOK, [Next]_vars PROVE FundedXorDead'
  <2>0. \A id \in Id : Exists(id) => Ok(id) /\ invoice[id] \in InvoiceRecord
    BY <1>2 DEF FundedXorDead, TypeOK, Exists
  <2>1. CASE AdminStep \/ Tick \/ Screen \/ UNCHANGED vars
    <3>1. now' \in Nat /\ now \in Nat /\ now <= now'
      BY <1>2, <2>1, InvoiceConstants
         DEF AdminStep, upgrade, transfer_admin, accept_admin, initialize, pause, unpause,
             set_treasury, set_compliance, set_grace_window, ConfigFrame, Tick, Screen, vars,
             worldVars, TypeOK, Time
    <3>2. UNCHANGED <<invoice, funding, fundedAt>>
      BY <2>1, QuietEffect
    <3>3. ASSUME NEW id \in Id, Exists(id)' PROVE Ok(id)'
      <4>1. Exists(id) /\ Ok(id) /\ invoice[id] \in InvoiceRecord
        BY <2>0, <3>2, <3>3 DEF Exists
      <4>2. invoice[id].created_at \in Nat /\ invoice[id].expires_at \in Nat
        BY <4>1, InvoiceConstants DEF InvoiceRecord, Time, U64
      <4> QED
        BY <3>1, <3>2, <4>1, <4>2
    <3> QED
      BY <3>3 DEF FundedXorDead
  <2>2. CASE CreateStep
    <3>1. /\ NextId \in Id
          /\ invoice'[NextId].status = "Pending" /\ invoice'[NextId].created_at = now
          /\ \A id \in Id : id # NextId => invoice'[id] = invoice[id]
          /\ funding' = [funding EXCEPT ![NextId] = "none"]
          /\ fundedAt' = [fundedAt EXCEPT ![NextId] = 0]
          /\ now' = now
      BY <1>2, <2>2, CreateEffect DEF worldVars
    <3>2. now \in Nat
      BY <1>2 DEF TypeOK, Time
    <3>3. ASSUME NEW id \in Id, Exists(id)' PROVE Ok(id)'
      <4>1. CASE id = NextId
        BY <1>2, <3>1, <3>2, <4>1 DEF TypeOK
      <4>2. CASE id # NextId
        <5>1. invoice'[id] = invoice[id] /\ funding'[id] = funding[id] /\ fundedAt'[id] = fundedAt[id]
          BY <1>2, <3>1, <4>2 DEF TypeOK
        <5>2. Ok(id)
          BY <2>0, <3>3, <5>1 DEF Exists
        <5> QED
          BY <3>1, <5>1, <5>2
      <4> QED
        BY <4>1, <4>2
    <3> QED
      BY <3>3 DEF FundedXorDead
  <2>3. CASE InvoiceStep
    <3>1. now' = now /\ now \in Nat
      BY <1>2, <2>3, InvoiceEffect DEF InvoiceFrame, worldVars, TypeOK, Time
    <3>2. ASSUME NEW S \in SUBSET Id, PaidEffect(S), NEW id \in Id, Exists(id)' PROVE Ok(id)'
      <4>1. Moved(S, "Pending", "Paid") /\ "Paid" \in InvoiceStatus
        BY <3>2 DEF PaidEffect, InvoiceStatus
      <4>2. /\ Exists(id)
            /\ invoice'[id].created_at = invoice[id].created_at
            /\ invoice'[id].expires_at = invoice[id].expires_at
            /\ invoice'[id].status = IF id \in S THEN "Paid" ELSE invoice[id].status
        BY <1>2, <3>2, <4>1, MovedKeeps
      <4>3. CASE id \in S
        BY <2>0, <3>1, <3>2, <4>2, <4>3 DEF PaidEffect, Fund, NotExpired
      <4>4. CASE id \notin S
        BY <2>0, <3>1, <3>2, <4>2, <4>4 DEF PaidEffect, Fund
      <4> QED
        BY <4>3, <4>4
    <3>3. ASSUME NEW S \in SUBSET Id, ExpiredEffect(S), NEW id \in Id, Exists(id)' PROVE Ok(id)'
      <4>1. Moved(S, "Pending", "Expired") /\ "Expired" \in InvoiceStatus
        BY <3>3 DEF ExpiredEffect, InvoiceStatus
      <4>2. /\ Exists(id)
            /\ invoice'[id].created_at = invoice[id].created_at
            /\ invoice'[id].expires_at = invoice[id].expires_at
            /\ invoice'[id].status = IF id \in S THEN "Expired" ELSE invoice[id].status
        BY <1>2, <3>3, <4>1, MovedKeeps
      <4>3. UNCHANGED <<funding, fundedAt>>
        BY <3>3 DEF ExpiredEffect, fundingVars
      <4>4. CASE id \in S
        <5>1. invoice[id].status = "Pending" /\ ~(now < invoice[id].expires_at)
          BY <3>3, <4>1, <4>4 DEF Moved, ExpiredEffect, NotExpired
        <5>2. invoice[id].expires_at \in Nat
          BY <2>0, <4>2, InvoiceConstants DEF InvoiceRecord, U64
        <5> QED
          BY <2>0, <3>1, <4>2, <4>3, <4>4, <5>1, <5>2
      <4>5. CASE id \notin S
        BY <2>0, <3>1, <4>2, <4>3, <4>5
      <4> QED
        BY <4>4, <4>5
    <3>4. ASSUME NEW k \in Id, SingleEffect(k), NEW id \in Id, Exists(id)' PROVE Ok(id)'
      <4>1. PICK from, to \in InvoiceStatus :
              /\ Moved({k}, from, to)
              /\ <<from, to>> \in {<<"Pending", "Cancelled">>, <<"Paid", "RefundRequested">>,
                                   <<"RefundRequested", "Released">>}
        BY <3>4 DEF SingleEffect, InvoiceStatus
      <4>2. /\ Exists(id)
            /\ invoice'[id].created_at = invoice[id].created_at
            /\ invoice'[id].expires_at = invoice[id].expires_at
            /\ invoice'[id].status = IF id \in {k} THEN to ELSE invoice[id].status
        BY <1>2, <3>4, <4>1, MovedKeeps
      <4>3. UNCHANGED <<funding, fundedAt>>
        BY <3>4 DEF SingleEffect, fundingVars
      <4>4. id = k => invoice[id].status = from
        BY <4>1 DEF Moved
      <4> QED
        BY <2>0, <3>1, <4>1, <4>2, <4>3, <4>4
    <3> QED
      BY <2>3, <3>2, <3>3, <3>4, InvoiceEffect DEF FundedXorDead
  <2> QED
    BY <1>2, <2>1, <2>2, <2>3 DEF Next
<1> QED
  BY <1>1, <1>2, TypeCorrect, PTL DEF Spec

(***************************************************************************)
(* What create_invoice adds to a customer's list is the new id and nothing *)
(* else.                                                                   *)
(***************************************************************************)
LEMMA RangeOfAppend ==
  ASSUME NEW s \in Seq(Id), NEW k \in Id
  PROVE  Range(Append(s, k)) = Range(s) \cup {k}
<1> DEFINE t == Append(s, k)
<1>1. /\ Len(s) \in Nat /\ DOMAIN s = 1 .. Len(s) /\ DOMAIN t = 1 .. (Len(s) + 1)
      /\ \A i \in 1 .. Len(s) : t[i] = s[i]
      /\ t[Len(s) + 1] = k
  OBVIOUS
<1> HIDE DEF t
<1>2. \A x : x \in Range(t) <=> \E i \in DOMAIN t : t[i] = x
  BY DEF Range
<1>3. \A x : x \in Range(s) <=> \E i \in DOMAIN s : s[i] = x
  BY DEF Range
<1>4. \A i \in DOMAIN t : i \in 1 .. Len(s) \/ i = Len(s) + 1
  BY <1>1
<1>5. \A i \in DOMAIN s : i \in DOMAIN t
  BY <1>1
<1>6. Len(s) + 1 \in DOMAIN t
  BY <1>1
<1>7. ASSUME NEW x \in Range(t) PROVE x \in Range(s) \cup {k}
  <2>1. PICK i \in DOMAIN t : t[i] = x
    BY <1>2, <1>7
  <2> QED
    BY <1>1, <1>3, <1>4, <2>1
<1>8. ASSUME NEW x \in Range(s) \cup {k} PROVE x \in Range(t)
  <2>1. CASE x = k
    BY <1>1, <1>2, <1>6, <2>1
  <2>2. CASE x \in Range(s)
    <3>1. PICK i \in DOMAIN s : s[i] = x
      BY <1>3, <2>2
    <3> QED
      BY <1>1, <1>2, <1>5, <3>1
  <2> QED
    BY <1>8, <2>1, <2>2
<1> QED
  BY <1>7, <1>8 DEF t

\* With initialize first, the customer index lists exactly the customer's
\* invoices, oldest first, however many there are.
THEOREM CustomerIndexStaysExact == ASSUME MaxEarly = 0 PROVE Spec => []CustomerIndexExact
<1> DEFINE Owned(a) == {id \in Id : Exists(id) /\ invoice[id].customer = a}
           Ordered(list) == \A i, j \in DOMAIN list : i < j => list[i] < list[j]
<1>1. Init => CustomerIndexExact
  BY DEF Init, CustomerIndexExact, Exists, Range
<1>2. ASSUME CustomerIndexExact, TypeOK, Allocated, [Next]_vars PROVE CustomerIndexExact'
  <2>0. \A a \in Address : Range(customerInvoices[a]) = Owned(a) /\ Ordered(customerInvoices[a])
    BY <1>2 DEF CustomerIndexExact
  <2>1. CASE AdminStep \/ Tick \/ Screen \/ UNCHANGED vars
    BY <1>2, <2>1, QuietEffect DEF CustomerIndexExact, Exists
  <2>2. CASE CreateStep
    <3>1. PICK p \in Parties :
            /\ p[2] \in Address /\ NextId \in Id
            /\ invoice'[NextId].customer = p[2] /\ invoice'[NextId].status = "Pending"
            /\ \A id \in Id : id # NextId => invoice'[id] = invoice[id]
            /\ customerInvoices' = Indexed(p[2], NextId)
      BY <1>2, <2>2, CreateEffect
    <3>2. PICK k \in Id : k = NextId
      BY <3>1
    <3>3. /\ Exists(k)' /\ ~Exists(k)
          /\ \A id \in Id : id # k => (Exists(id)' <=> Exists(id))
          /\ \A id \in Id : Exists(id) => id < k
      <4>1. invoice'[k] # NoInvoice
        BY <3>1, <3>2 DEF NoInvoice
      <4> QED
        BY <1>2, <3>1, <3>2, <4>1 DEF Exists, Allocated, NextId, TypeOK, Id
    <3>4. ASSUME NEW a \in Address
          PROVE  Range(customerInvoices'[a]) = Owned(a)' /\ Ordered(customerInvoices'[a])
      <4> DEFINE list == customerInvoices[a]
      <4>1. list \in Seq(Id) /\ \A i \in DOMAIN list : list[i] \in Owned(a)
        BY <1>2, <2>0 DEF TypeOK, Range
      <4>2. CASE a # p[2]
        <5>1. customerInvoices'[a] = list
          BY <1>2, <3>1, <4>2 DEF Indexed, TypeOK
        <5>2. Owned(a)' = Owned(a)
          BY <3>1, <3>2, <3>3, <4>2
        <5> QED
          BY <2>0, <5>1, <5>2
      <4>3. CASE a = p[2]
        <5>1. customerInvoices'[a] = Append(list, k)
          BY <1>2, <3>1, <3>2, <4>3 DEF Indexed, TypeOK
        <5>2. Owned(a)' = Owned(a) \cup {k}
          BY <3>1, <3>2, <3>3, <4>3
        <5>3. Range(Append(list, k)) = Range(list) \cup {k}
          BY <4>1, RangeOfAppend
        <5>4. \A i \in DOMAIN list : list[i] < k /\ list[i] \in Nat
          BY <3>3, <4>1 DEF Id
        <5>5. Ordered(list)
          BY <2>0
        <5>6. Ordered(Append(list, k))
          BY <4>1, <5>4, <5>5
        <5> QED
          BY <2>0, <5>1, <5>2, <5>3, <5>6
      <4> QED
        BY <4>2, <4>3
    <3> QED
      BY <3>4 DEF CustomerIndexExact
  <2>3. CASE InvoiceStep
    <3>1. UNCHANGED customerInvoices
      BY <2>3, InvoiceEffect DEF InvoiceFrame, indexVars
    <3>2. \A a \in Address : Owned(a)' = Owned(a)
      BY <1>2, <2>3, PartiesKept
    <3> QED
      BY <2>0, <3>1, <3>2 DEF CustomerIndexExact
  <2> QED
    BY <1>2, <2>1, <2>2, <2>3 DEF Next
<1> QED
  BY <1>1, <1>2, TypeCorrect, AllocatedInv, PTL DEF Spec

-----------------------------------------------------------------------------
(* The tokens in escrow.                                                     *)

\* What invoice id accounts for of the contract's balance in token t.
Share(t) == [id \in Id |-> IF funding[id] = "transferred" /\ invoice[id].token = t
                           THEN invoice[id].amount ELSE 0]

\* Only a stored invoice was paid for.
PaidExist == \A id \in Id : funding[id] = "transferred" => Exists(id)

LEMMA ShareIsNat ==
  ASSUME TypeOK, PaidExist, NEW t
  PROVE  IsFiniteSet(Id) /\ \A id \in Id : Share(t)[id] \in Nat
<1>1. IsFiniteSet(Id)
  BY FS_Interval, InvoiceConstants DEF Id
<1>2. ASSUME NEW id \in Id PROVE Share(t)[id] \in Nat
  <2>1. funding[id] = "transferred" => invoice[id] \in InvoiceRecord
    BY DEF PaidExist, Exists, TypeOK
  <2> QED
    BY <2>1 DEF Share, InvoiceRecord
<1> QED
  BY <1>1, <1>2

\* The property, as a sum over the ids.
LEMMA EscrowIsSum ==
  EscrowAccounted <=> \A t \in Token : balance[t][Self] = SumFunctionOnSet(Share(t), Id)
<1>1. ASSUME NEW t PROVE DOMAIN Share(t) = Id
  BY DEF Share
<1> QED
  BY <1>1 DEF EscrowAccounted, SumFunction, Share

\* A status change keeps token and amount of a stored invoice.
LEMMA MovedKeepsMoney ==
  ASSUME TypeOK, NEW S \in SUBSET Id, NEW from, NEW to \in InvoiceStatus, Moved(S, from, to)
  PROVE  \A id \in Id : Exists(id) =>
           invoice'[id].token = invoice[id].token /\ invoice'[id].amount = invoice[id].amount
<1> SUFFICES ASSUME NEW id \in Id, Exists(id)
             PROVE  invoice'[id].token = invoice[id].token /\ invoice'[id].amount = invoice[id].amount
  OBVIOUS
<1>1. invoice[id] \in InvoiceRecord
  BY DEF Exists, TypeOK
<1>2. CASE id \in S
  BY <1>1, <1>2 DEF Moved, SetStatus, InvoiceRecord
<1>3. CASE id \notin S
  BY <1>3 DEF Moved, SetStatus
<1> QED
  BY <1>2, <1>3

\* Shares that stay the same, with the balance, keep the account exact.
LEMMA SameShares ==
  ASSUME EscrowAccounted, UNCHANGED balance,
         \A t \in Token, id \in Id : Share(t)'[id] = Share(t)[id]
  PROVE  EscrowAccounted'
<1>1. ASSUME NEW t \in Token PROVE Share(t)' = Share(t)
  BY DEF Share
<1>2. (\A t \in Token : balance[t][Self] = SumFunctionOnSet(Share(t), Id))'
  BY <1>1, EscrowIsSum
<1> QED
  BY <1>2, EscrowIsSum, PTL

\* Every step on stored invoices is an on-chain payment, or marks payments, or
\* changes statuses only.
LEMMA MoneyEffect ==
  ASSUME InvoiceStep
  PROVE  \/ \E id \in Id, payer \in Address : pay_invoice(payer, id)
         \/ /\ UNCHANGED balance
            /\ \E S \in SUBSET Id : Moved(S, "Pending", "Paid") /\ Fund(S, "marked")
         \/ /\ UNCHANGED <<balance, funding>>
            /\ \E S \in SUBSET Id, from, to \in InvoiceStatus : Moved(S, from, to)
<1>1. ASSUME NEW ids \in Batch, mark_paids(ids)
      PROVE  /\ UNCHANGED balance
             /\ \E S \in SUBSET Id : Moved(S, "Pending", "Paid") /\ Fund(S, "marked")
  BY <1>1 DEF mark_paids, Moved, Payable, IsPending, Exists
<1>2. ASSUME NEW ids \in Batch, batch_expire(ids)
      PROVE  /\ UNCHANGED <<balance, funding>>
             /\ \E S \in SUBSET Id, from, to \in InvoiceStatus : Moved(S, from, to)
  <2> DEFINE S == {id \in Range(ids) : IsPending(id) /\ ~NotExpired(id)}
  <2>1. S \in SUBSET Id /\ Moved(S, "Pending", "Expired")
    BY <1>2 DEF batch_expire, Moved, IsPending, Exists
  <2>2. "Pending" \in InvoiceStatus /\ "Expired" \in InvoiceStatus
    BY DEF InvoiceStatus
  <2>3. UNCHANGED <<balance, funding>>
    BY <1>2 DEF batch_expire, fundingVars
  <2> HIDE DEF S
  <2> QED
    BY <2>1, <2>2, <2>3
<1>3. ASSUME NEW id \in Id, NEW c \in Address,
             cancel_invoiced(id, c) \/ request_refund(id, c) \/ release_escrow(id, c)
      PROVE  /\ UNCHANGED <<balance, funding>>
             /\ \E S \in SUBSET Id, from, to \in InvoiceStatus : Moved(S, from, to)
  <2>1. UNCHANGED <<balance, funding>>
    BY <1>3 DEF cancel_invoiced, request_refund, release_escrow, fundingVars
  <2>2. \/ Moved({id}, "Pending", "Cancelled")
        \/ Moved({id}, "Paid", "RefundRequested")
        \/ Moved({id}, "RefundRequested", "Released")
    BY <1>3 DEF cancel_invoiced, request_refund, release_escrow, Moved, AfterCancel
  <2>3. {id} \in SUBSET Id /\ {"Pending", "Cancelled", "Paid", "RefundRequested", "Released"} \subseteq InvoiceStatus
    BY DEF InvoiceStatus
  <2> QED
    BY <2>1, <2>2, <2>3
<1> QED
  BY <1>1, <1>2, <1>3 DEF InvoiceStep

\* A payment adds its amount to the contract's balance and to the shares.
LEMMA PayAccounted ==
  ASSUME TypeOK, TypeOK', FundedXorDead, PaidExist, PaidExist', EscrowAccounted,
         NEW k \in Id, NEW payer \in Address, pay_invoice(payer, k)
  PROVE  EscrowAccounted'
<1> DEFINE token == invoice[k].token
           n == invoice[k].amount
<1>1. /\ Exists(k) /\ invoice[k] \in InvoiceRecord /\ invoice[k].status = "Pending"
      /\ Moved({k}, "Pending", "Paid") /\ Fund({k}, "transferred")
  BY DEF pay_invoice, Payable, IsPending, Exists, TypeOK, Moved
<1>2. token \in Token /\ n \in Nat /\ funding[k] = "none"
  BY <1>1 DEF InvoiceRecord, FundedXorDead
<1>3. /\ \A id \in Id : Exists(id) =>
           invoice'[id].token = invoice[id].token /\ invoice'[id].amount = invoice[id].amount
      /\ \A id \in Id : id # k => invoice'[id] = invoice[id] /\ funding'[id] = funding[id]
      /\ funding'[k] = "transferred"
  <2>1. {k} \in SUBSET Id /\ "Paid" \in InvoiceStatus
    BY DEF InvoiceStatus
  <2>2. \A id \in Id : Exists(id) =>
           invoice'[id].token = invoice[id].token /\ invoice'[id].amount = invoice[id].amount
    BY <1>1, <2>1, MovedKeepsMoney
  <2> QED
    BY <1>1, <2>2 DEF Moved, SetStatus, Fund
<1>4. /\ balance'[token][Self] = balance[token][Self] + n
      /\ \A t \in Token : t # token => balance'[t] = balance[t]
  <2>1. payer \in Holder /\ Self \in Holder /\ payer # Self
    BY InvoiceConstants DEF Holder
  <2>2. balance \in [Token -> [Holder -> Nat]]
    BY DEF TypeOK
  <2>3. balance' = [balance EXCEPT ![token] = [balance[token] EXCEPT ![payer] = balance[token][payer] - n,
                                                                    ![Self] = balance[token][Self] + n]]
    BY <1>2, <2>1, <2>2 DEF pay_invoice
  <2> HIDE DEF token, n
  <2> QED
    BY <1>2, <2>1, <2>2, <2>3
<1>5. ASSUME NEW t \in Token
      PROVE  balance'[t][Self] = SumFunctionOnSet(Share(t), Id)'
  <2>1. balance[t][Self] = SumFunctionOnSet(Share(t), Id)
    BY EscrowIsSum
  <2>2. PICK f : f = Share(t)
    OBVIOUS
  <2>3. PICK g : g = Share(t)'
    OBVIOUS
  <2>4. IsFiniteSet(Id) /\ \A id \in Id : f[id] \in Nat
    BY <2>2, ShareIsNat
  <2>5. \A id \in Id : g[id] \in Nat
    <3>1. (IsFiniteSet(Id) /\ \A id \in Id : Share(t)[id] \in Nat)'
      BY ShareIsNat, PTL
    <3> QED
      BY <2>3, <3>1
  <2>6. f[k] = 0 /\ g[k] = IF token = t THEN n ELSE 0
    BY <1>1, <1>2, <1>3, <2>2, <2>3 DEF Share
  <2>7. \A id \in Id : id # k => g[id] = f[id]
    BY <1>3, <2>2, <2>3 DEF Share
  <2>8. SumFunctionOnSet(g, Id) + f[k] = SumFunctionOnSet(f, Id) + g[k]
    BY <2>4, <2>5, <2>7, SumChange
  <2>9. SumFunctionOnSet(g, Id) \in Nat /\ SumFunctionOnSet(f, Id) \in Nat
    BY <2>4, <2>5, SumIsNat
  <2>10. SumFunctionOnSet(g, Id) = SumFunctionOnSet(f, Id) + (IF token = t THEN n ELSE 0)
    BY <1>2, <2>6, <2>8, <2>9
  <2>11. SumFunctionOnSet(Share(t), Id)' = SumFunctionOnSet(g, Id)
    BY <2>3
  <2> QED
    BY <1>2, <1>4, <2>1, <2>2, <2>9, <2>10, <2>11
<1>6. (\A t \in Token : balance[t][Self] = SumFunctionOnSet(Share(t), Id))'
  BY <1>5
<1> QED
  BY <1>6, EscrowIsSum, PTL

\* Every step keeps the account.
LEMMA EscrowStep ==
  ASSUME TypeOK, TypeOK', Allocated, FundedXorDead, PaidExist, EscrowAccounted, [Next]_vars
  PROVE  PaidExist' /\ EscrowAccounted'
<1>1. CASE AdminStep \/ Tick \/ Screen \/ UNCHANGED vars
  <2>1. UNCHANGED <<invoice, funding, balance>>
    BY <1>1, QuietEffect
  <2> QED
    BY <2>1, SameShares DEF PaidExist, Exists, Share
<1>2. CASE CreateStep
  <2>1. /\ NextId \in Id /\ invoice'[NextId] \in InvoiceRecord
        /\ \A id \in Id : id # NextId => invoice'[id] = invoice[id]
        /\ funding' = [funding EXCEPT ![NextId] = "none"]
        /\ UNCHANGED balance
    BY <1>2, CreateEffect
  <2>2. PICK k \in Id : k = NextId
    BY <2>1
  <2>3. ~Exists(k)
    BY <2>1, <2>2 DEF Allocated, NextId, TypeOK
  <2>4. funding[k] # "transferred" /\ funding'[k] = "none"
        /\ \A id \in Id : id # k => funding'[id] = funding[id]
    BY <2>1, <2>2, <2>3 DEF PaidExist, TypeOK
  <2>5. \A t \in Token, id \in Id : Share(t)'[id] = Share(t)[id]
    BY <2>1, <2>2, <2>4 DEF Share
  <2>6. PaidExist'
    BY <2>1, <2>2, <2>4 DEF PaidExist, Exists
  <2> QED
    BY <2>1, <2>5, <2>6, SameShares
<1>3. CASE InvoiceStep
  <2>1. \A id \in Id : Exists(id)' <=> Exists(id)
    BY <1>3, InvoiceStepExists
  <2>2. ASSUME NEW k \in Id, NEW payer \in Address, pay_invoice(payer, k)
        PROVE  PaidExist' /\ EscrowAccounted'
    <3>1. Exists(k) /\ \A id \in Id : id # k => funding'[id] = funding[id]
      BY <2>2 DEF pay_invoice, Payable, IsPending, Fund
    <3>2. PaidExist'
      BY <2>1, <3>1 DEF PaidExist
    <3> QED
      BY <2>2, <3>2, PayAccounted
  <2>3. ASSUME UNCHANGED balance, NEW S \in SUBSET Id, Moved(S, "Pending", "Paid"), Fund(S, "marked")
        PROVE  PaidExist' /\ EscrowAccounted'
    <3>1. \A id \in S : funding[id] = "none" /\ funding'[id] = "marked"
      BY <2>3 DEF Moved, FundedXorDead, Fund
    <3>2. \A id \in Id : id \notin S => funding'[id] = funding[id] /\ invoice'[id] = invoice[id]
      BY <2>3 DEF Fund, Moved, SetStatus
    <3>3. \A t \in Token, id \in Id : Share(t)'[id] = Share(t)[id]
      BY <3>1, <3>2 DEF Share
    <3>4. PaidExist'
      BY <2>1, <3>1, <3>2 DEF PaidExist
    <3> QED
      BY <2>3, <3>3, <3>4, SameShares
  <2>4. ASSUME UNCHANGED <<balance, funding>>, NEW S \in SUBSET Id, NEW from \in InvoiceStatus,
               NEW to \in InvoiceStatus, Moved(S, from, to)
        PROVE  PaidExist' /\ EscrowAccounted'
    <3>1. \A id \in Id : Exists(id) =>
            invoice'[id].token = invoice[id].token /\ invoice'[id].amount = invoice[id].amount
      BY <2>4, MovedKeepsMoney
    <3>2. \A t \in Token, id \in Id : Share(t)'[id] = Share(t)[id]
      BY <2>4, <3>1 DEF Share, PaidExist
    <3>3. PaidExist'
      BY <2>1, <2>4 DEF PaidExist
    <3> QED
      BY <2>4, <3>2, <3>3, SameShares
  <2> QED
    BY <1>3, <2>2, <2>3, <2>4, MoneyEffect
<1> QED
  BY <1>1, <1>2, <1>3 DEF Next

\* With initialize first, the tokens that the contract holds are exactly the amounts
\* of the invoices paid through pay_invoice, for any number of invoices, tokens and
\* payers.
THEOREM EscrowStaysAccounted == ASSUME MaxEarly = 0 PROVE Spec => []EscrowAccounted
<1>1. Init => PaidExist /\ EscrowAccounted
  <2> SUFFICES ASSUME Init PROVE PaidExist /\ EscrowAccounted
    OBVIOUS
  <2>1. \A id \in Id : funding[id] = "none"
    BY DEF Init
  <2>2. \A t \in Token : balance[t][Self] = 0
    BY DEF Init, Holder
  <2>3. IsFiniteSet(Id)
    BY FS_Interval, InvoiceConstants DEF Id
  <2>4. ASSUME NEW t \in Token PROVE SumFunctionOnSet(Share(t), Id) = 0
    <3>1. \A id \in Id : Share(t)[id] = 0
      BY <2>1 DEF Share
    <3> QED
      BY <2>3, <3>1, SumOfZeros
  <2> QED
    BY <2>1, <2>2, <2>4, EscrowIsSum DEF PaidExist
<1> QED
  BY <1>1, EscrowStep, TypeCorrect, AllocatedInv, FundedStaysXorDead, PTL DEF Spec
=============================================================================
