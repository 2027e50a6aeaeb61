-------------------------- MODULE ComplianceProofs --------------------------
(***************************************************************************)
(* What holds of Compliance for any addresses, batches, times and number of  *)
(* calls of initialize, and of Payments, its composition with the invoice    *)
(* contract.                                                                 *)
(***************************************************************************)
EXTENDS Payments, TLAPS

\* Every status call writes one verdict for a set of addresses, at a time at
\* which a limited permission has not run out.
LEMMA StatusEffect ==
  ASSUME StatusStep
  PROVE  \E S \in SUBSET Address, st \in AddressStatus :
           SetStatus(S, st) /\ (st.kind = "AllowedUntil" => now < st.until)
<1> USE ComplianceConstants
<1>1. /\ Allowed \in AddressStatus /\ Allowed.kind # "AllowedUntil"
      /\ Blocked \in AddressStatus /\ Blocked.kind # "AllowedUntil"
      /\ Cleared \in AddressStatus /\ Cleared.kind # "AllowedUntil"
  BY DEF AddressStatus, Allowed, Blocked, Cleared
<1>2. \A u \in Until : AllowedUntil(u) \in AddressStatus /\ AllowedUntil(u).until = u
  BY DEF AddressStatus, AllowedUntil
<1>3. \A list \in AddressList : Range(list) \subseteq Address
  BY DEF Range
<1>4. ASSUME NEW a \in Address, allow_address(a) \/ block_address(a) \/ clear_address(a)
      PROVE  \E st \in AddressStatus : SetStatus({a}, st) /\ st.kind # "AllowedUntil"
  BY <1>1, <1>4 DEF allow_address, block_address, clear_address
<1>5. ASSUME NEW a \in Address, NEW u \in Until, allow_address_until(a, u)
      PROVE  SetStatus({a}, AllowedUntil(u)) /\ now < u
  BY <1>5 DEF allow_address_until, check_not_past_expiry
<1>6. ASSUME NEW list \in AddressList, batch_block_addresses(list)
      PROVE  SetStatus(Range(list), Blocked)
  BY <1>6 DEF batch_block_addresses
<1>7. ASSUME NEW list \in AddressList, NEW u \in Until, batch_allow_addresses(list, u)
      PROVE  SetStatus(Range(list), AllowedUntil(u)) /\ now < u
  BY <1>7 DEF batch_allow_addresses, check_not_past_expiry
<1> HIDE DEF AllowedUntil, Allowed, Blocked, Cleared
<1>8. CASE \E a \in Address : allow_address(a) \/ block_address(a) \/ clear_address(a)
  <2>1. PICK a \in Address : allow_address(a) \/ block_address(a) \/ clear_address(a)
    BY <1>8
  <2>2. PICK st \in AddressStatus : SetStatus({a}, st) /\ st.kind # "AllowedUntil"
    BY <1>4, <2>1
  <2>3. {a} \in SUBSET Address
    OBVIOUS
  <2> QED
    BY <2>2, <2>3
<1>9. CASE \E a \in Address, u \in Until : allow_address_until(a, u)
  <2>1. PICK a \in Address, u \in Until : allow_address_until(a, u)
    BY <1>9
  <2>2. {a} \in SUBSET Address
    OBVIOUS
  <2> QED
    BY <1>2, <1>5, <2>1, <2>2
<1>10. CASE \E list \in AddressList : batch_block_addresses(list)
  BY <1>1, <1>3, <1>6, <1>10
<1>11. CASE \E list \in AddressList, u \in Until : batch_allow_addresses(list, u)
  BY <1>2, <1>3, <1>7, <1>11
<1> QED
  BY <1>8, <1>9, <1>10, <1>11 DEF StatusStep

\* The admin's calls and the clock leave every status alone, and the admin's
\* calls leave the clock alone.
LEMMA AdminEffect ==
  ASSUME AdminStep
  PROVE  /\ UNCHANGED <<status, now, pendingAdmin>>
         /\ paused /\ paused' => UNCHANGED <<admin, initialized>>
  BY DEF AdminStep, upgrade, initialize, transfer_admin, pause, unpause, check_not_paused

\* Type correctness: every status is one the contract can store, and nothing
\* ever fills PendingAdmin.
THEOREM TypeCorrect == Spec => []TypeOK
<1> USE ComplianceConstants
<1>1. Init => TypeOK
  <2>1. Cleared \in AddressStatus /\ 0 \in Time /\ 0 \in 0 .. MaxInitialize
    BY DEF AddressStatus, Time
  <2> QED
    BY <2>1 DEF Init, TypeOK
<1>2. TypeOK /\ [Next]_vars => TypeOK'
  <2> SUFFICES ASSUME TypeOK, [Next]_vars PROVE TypeOK'
    OBVIOUS
  <2>1. CASE AdminStep
    <3>1. UNCHANGED <<status, now, pendingAdmin>>
      BY <2>1, AdminEffect
    <3>2. admin' \in Address \cup {Absent} /\ wasm' \in Wasm
      BY <2>1 DEF AdminStep, upgrade, initialize, transfer_admin, pause, unpause, TypeOK
    <3>3. initialized' \in 0 .. MaxInitialize
      BY <2>1 DEF AdminStep, upgrade, initialize, transfer_admin, pause, unpause, TypeOK
    <3>4. paused' \in BOOLEAN
      BY <2>1, Zenon DEF AdminStep, upgrade, initialize, transfer_admin, pause, unpause, TypeOK
    <3> QED
      BY <3>1, <3>2, <3>3, <3>4 DEF TypeOK
  <2>2. CASE StatusStep
    <3>1. PICK S \in SUBSET Address, st \in AddressStatus : SetStatus(S, st)
      BY <2>2, StatusEffect
    <3> QED
      BY <3>1 DEF SetStatus, deployVars, TypeOK
  <2>3. CASE Tick
    BY <2>3 DEF Tick, deployVars, TypeOK, Time
  <2>4. CASE UNCHANGED vars
    BY <2>4 DEF vars, deployVars, TypeOK
  <2> QED
    BY <2>1, <2>2, <2>3, <2>4 DEF Next
<1> QED
  BY <1>1, <1>2, PTL DEF Spec

\* Neither the clock nor the admin ever turns a refusal into a permission: only
\* a status call for that address does.
THEOREM PermissionNeedsACall == Spec => OnlyCallsAllow
<1>1. ASSUME TypeOK, [Next]_vars, NEW a \in Address, ~is_allowed(a), is_allowed(a)'
      PROVE  status'[a] # status[a] /\ now' = now
  <2>1. CASE AdminStep
    BY <1>1, <2>1, AdminEffect DEF is_allowed
  <2>2. CASE StatusStep
    <3>1. now' = now
      BY <2>2, StatusEffect DEF SetStatus
    <3> QED
      BY <1>1, <3>1 DEF is_allowed
  <2>3. CASE Tick
    <3>1. status' = status /\ now' = now + 1 /\ now \in Nat
      BY <1>1, <2>3, ComplianceConstants DEF Tick, TypeOK, Time
    <3>2. status[a] # Allowed /\ (status[a].kind = "AllowedUntil" => ~(now < status[a].until))
      BY <1>1 DEF is_allowed
    <3>3. status[a].kind = "AllowedUntil" /\ now + 1 < status[a].until
      BY <1>1, <3>1, <3>2 DEF is_allowed
    <3>4. status[a].until \in Nat
      BY <1>1, <3>3, ComplianceConstants
      DEF TypeOK, AddressStatus, Allowed, Blocked, Cleared, AllowedUntil
    <3> QED
      BY <3>1, <3>2, <3>3, <3>4
  <2>4. CASE UNCHANGED vars
    BY <1>1, <2>4 DEF vars, is_allowed
  <2> QED
    BY <1>1, <2>1, <2>2, <2>3, <2>4 DEF Next
<1>2. TypeOK /\ [Next]_vars =>
        [\A a \in Address : ~is_allowed(a) /\ is_allowed(a)' =>
           status'[a] # status[a] /\ now' = now]_vars
  BY <1>1
<1> QED
  BY <1>2, TypeCorrect, PTL DEF Spec, OnlyCallsAllow

\* A time-limited permission holds at least in the second of the call that
\* grants it, whether granted alone or in a batch.
THEOREM GrantsTakeEffect == Spec => GrantTakesEffect
<1>1. ASSUME TypeOK, [Next]_vars, NEW a \in Address,
             status'[a] # status[a], status'[a].kind = "AllowedUntil"
      PROVE  is_allowed(a)'
  <2>1. StatusStep
    BY <1>1, AdminEffect DEF Next, Tick, vars, deployVars
  <2>2. PICK S \in SUBSET Address, st \in AddressStatus :
          SetStatus(S, st) /\ (st.kind = "AllowedUntil" => now < st.until)
    BY <2>1, StatusEffect
  <2>3. status'[a] = st /\ now' = now
    BY <1>1, <2>2 DEF SetStatus, TypeOK
  <2> QED
    BY <1>1, <2>2, <2>3 DEF is_allowed
<1>2. TypeOK /\ [Next]_vars =>
        [\A a \in Address :
           status'[a] # status[a] /\ status'[a].kind = "AllowedUntil" => is_allowed(a)']_vars
  BY <1>1
<1> QED
  BY <1>2, TypeCorrect, PTL DEF Spec, GrantTakesEffect

\* While the contract stays paused, statuses and admin stay and permissions can
\* only lapse.
THEOREM PauseStopsEverything == Spec => PauseFreezes
<1>1. ASSUME TypeOK, [Next]_vars, paused, paused'
      PROVE  /\ UNCHANGED <<admin, pendingAdmin, status, initialized>>
             /\ AllowedSet' \subseteq AllowedSet
  <2>1. ~StatusStep
    BY <1>1, StatusEffect DEF SetStatus, check_not_paused
  <2>2. UNCHANGED <<admin, pendingAdmin, status, initialized>>
    BY <1>1, <2>1, AdminEffect DEF Next, Tick, vars, deployVars
  <2>3. now' = now \/ now' = now + 1
    BY <1>1, <2>1, AdminEffect DEF Next, Tick, vars
  <2>4. ASSUME NEW a \in Address, is_allowed(a)'
        PROVE  is_allowed(a)
    <3>1. status'[a] = status[a]
      BY <2>2
    <3>2. now \in Nat
      BY <1>1, ComplianceConstants DEF TypeOK, Time
    <3>3. status[a].kind = "AllowedUntil" => status[a] = Allowed \/ status[a].until \in Nat
      BY <1>1, ComplianceConstants
      DEF TypeOK, AddressStatus, Allowed, Blocked, Cleared, AllowedUntil
    <3> QED
      BY <2>3, <2>4, <3>1, <3>2, <3>3 DEF is_allowed
  <2> QED
    BY <2>2, <2>4 DEF AllowedSet
<1>2. TypeOK /\ [Next]_vars =>
        [paused /\ paused' =>
           /\ UNCHANGED <<admin, pendingAdmin, status, initialized>>
           /\ AllowedSet' \subseteq AllowedSet]_vars
  BY <1>1
<1> QED
  BY <1>2, TypeCorrect, PTL DEF Spec, PauseFreezes

-----------------------------------------------------------------------------
(* The two contracts together (Payments).                                  *)

\* Calls to the compliance contract change none of the clock.
LEMMA ComplianceKeepsTime == ASSUME AdminStep \/ StatusStep PROVE now' = now
<1>1. CASE AdminStep
  BY <1>1, AdminEffect
<1>2. CASE StatusStep
  BY <1>2, StatusEffect DEF SetStatus
<1> QED
  BY <1>1, <1>2

\* The invoice contract beside the real compliance contract behaves as Invoice says it
\* does beside one that answers as it likes: what is shown of Invoice holds of it.
THEOREM ComposedIsInvoice == PaymentsSpec => Inv!Spec
<1>1. PaymentsInit => Inv!Init
  BY DEF PaymentsInit, AllowedSet, Inv!Init
<1>2. [PaymentsNext]_paymentsVars => [Inv!Next]_(Inv!vars)
  <2> SUFFICES ASSUME [PaymentsNext]_paymentsVars PROVE [Inv!Next]_(Inv!vars)
    OBVIOUS
  <2>0. AllowedSet' \in SUBSET Address
    BY DEF AllowedSet
  <2>1. CASE ComplianceCall
    <3>1. now' = now /\ UNCHANGED invoiceVars
      BY <2>1, ComplianceKeepsTime DEF ComplianceCall
    <3>2. Inv!Screen
      BY <2>0, <3>1 DEF invoiceVars, Inv!Screen, Inv!adminVars, Inv!configVars, Inv!indexVars,
                        Inv!fundingVars
    <3> QED
      BY <3>2 DEF Inv!Next
  <2>2. CASE InvoiceCall
    BY <2>2 DEF InvoiceCall, Inv!Next
  <2>3. CASE LedgerCloses
    <3>1. now < MaxTime /\ now' = now + 1 /\ UNCHANGED invoiceVars
      BY <2>3 DEF LedgerCloses, Tick
    <3>2. Inv!Tick
      BY <2>0, <3>1 DEF invoiceVars, Inv!Tick, Inv!adminVars, Inv!configVars, Inv!indexVars,
                        Inv!fundingVars
    <3> QED
      BY <3>2 DEF Inv!Next
  <2>4. CASE UNCHANGED paymentsVars
    <3>1. UNCHANGED <<status, now>> /\ UNCHANGED invoiceVars
      BY <2>4 DEF paymentsVars, vars
    <3>2. AllowedSet' = AllowedSet
      BY <3>1 DEF AllowedSet, is_allowed
    <3> QED
      BY <3>1, <3>2 DEF invoiceVars, Inv!vars, Inv!adminVars, Inv!configVars, Inv!indexVars,
                        Inv!fundingVars, Inv!worldVars
  <2> QED
    BY <2>1, <2>2, <2>3, <2>4 DEF PaymentsNext
<1> QED
  BY <1>1, <1>2, PTL DEF PaymentsSpec, Inv!Spec

\* What the screening argument needs of the invoice contract's storage: an invoice that
\* exists names its parties and its token, and every account has a balance.
PartyRecord ==
  [merchant : Address, customer : Address, amount : Amount, token : Token,
   status : Inv!InvoiceStatus, created_at : Time, expires_at : Expiry, reference : ReferenceLen]

StorageInv ==
  /\ now \in Time
  /\ invoice \in [Inv!Id -> PartyRecord \cup {Inv!NoInvoice}]
  /\ funding \in [Inv!Id -> {"none", "transferred", "marked"}]
  /\ DOMAIN balance = Token /\ \A t \in Token : DOMAIN balance[t] = Inv!Holder

LEMMA StorageInit == PaymentsInit => StorageInv
<1> SUFFICES ASSUME PaymentsInit PROVE StorageInv
  OBVIOUS
<1>1. 0 \in Time
  BY ComplianceConstants DEF Time
<1> QED
  BY <1>1 DEF PaymentsInit, Inv!Init, StorageInv

\* A call that sets the status of invoices keeps who their parties are.
LEMMA StatusKeepsParties ==
  ASSUME StorageInv, NEW S, NEW st \in Inv!InvoiceStatus, Inv!SetStatus(S, st),
         \A id \in S : id \in Inv!Id => invoice[id] # Inv!NoInvoice
  PROVE  /\ invoice' \in [Inv!Id -> PartyRecord \cup {Inv!NoInvoice}]
         /\ \A id \in Inv!Id : invoice[id] # Inv!NoInvoice =>
              /\ invoice'[id].merchant = invoice[id].merchant
              /\ invoice'[id].customer = invoice[id].customer
<1>1. invoice' = [id \in Inv!Id |-> IF id \in S THEN [invoice[id] EXCEPT !.status = st] ELSE invoice[id]]
  BY DEF Inv!SetStatus
<1>2. ASSUME NEW id \in Inv!Id, invoice[id] # Inv!NoInvoice
      PROVE  /\ invoice'[id] \in PartyRecord
             /\ invoice'[id].merchant = invoice[id].merchant
             /\ invoice'[id].customer = invoice[id].customer
  <2>1. PICK r \in PartyRecord : r = invoice[id]
    BY <1>2 DEF StorageInv
  <2>2. invoice'[id] = r \/ invoice'[id] = [r EXCEPT !.status = st]
    BY <1>1, <2>1
  <2> QED
    BY <2>1, <2>2 DEF PartyRecord
<1>3. \A id \in Inv!Id : invoice[id] = Inv!NoInvoice => invoice'[id] = Inv!NoInvoice
  BY <1>1
<1> QED
  BY <1>1, <1>2, <1>3

\* A new invoice is stored as its parties were given, and nothing else is.
LEMMA CreateEffect ==
  ASSUME StorageInv, Inv!CreateStep
  PROVE  \E id \in Inv!Id, m \in Address, c \in Address :
           /\ Inv!CompliancePasses(m) /\ Inv!CompliancePasses(c)
           /\ invoiceCount' = id /\ invoice'[id].merchant = m /\ invoice'[id].customer = c
           /\ funding' = [funding EXCEPT ![id] = "none"] /\ balance' = balance
           /\ invoice' \in [Inv!Id -> PartyRecord \cup {Inv!NoInvoice}]
<1>1. PICK p \in Parties, amount \in Amount, token \in Token, e \in Expiry, n \in Nonce, r \in ReferenceLen :
        Inv!create_invoice(p[1], p[2], amount, token, e, n, r)
  BY DEF Inv!CreateStep
<1>2. p[1] \in Address /\ p[2] \in Address
  BY PaymentsConstants
<1>3. PICK id \in Inv!Id : id = Inv!NextId
  BY <1>1 DEF Inv!create_invoice
<1>4. PICK new : new = Inv!NewInvoice(p[1], p[2], amount, token, e, r)
  OBVIOUS
<1>5. new \in PartyRecord /\ new.merchant = p[1] /\ new.customer = p[2]
  BY <1>2, <1>4 DEF Inv!NewInvoice, PartyRecord, StorageInv, Inv!InvoiceStatus
<1>6. /\ Inv!CompliancePasses(p[1]) /\ Inv!CompliancePasses(p[2])
      /\ invoiceCount' = id /\ invoice' = [invoice EXCEPT ![id] = new]
      /\ funding' = [funding EXCEPT ![id] = "none"] /\ balance' = balance
  BY <1>1, <1>3, <1>4 DEF Inv!create_invoice
<1>7. invoice'[id] = new /\ invoice' \in [Inv!Id -> PartyRecord \cup {Inv!NoInvoice}]
  BY <1>3, <1>5, <1>6 DEF StorageInv
<1> QED
  BY <1>2, <1>3, <1>5, <1>6, <1>7

\* A batch that is confirmed as paid: both parties of each invoice pass.
LEMMA MarkEffect ==
  ASSUME StorageInv, NEW ids, Inv!mark_paids(ids)
  PROVE  /\ invoiceCount' = invoiceCount /\ balance' = balance
         /\ invoice' \in [Inv!Id -> PartyRecord \cup {Inv!NoInvoice}]
         /\ funding' \in [Inv!Id -> {"none", "transferred", "marked"}]
         /\ \A id \in Inv!Id : funding'[id] = funding[id] \/
              /\ funding'[id] = "marked"
              /\ Inv!CompliancePasses(invoice'[id].merchant)
              /\ Inv!CompliancePasses(invoice'[id].customer)
<1>1. /\ \A id \in Range(ids) :
           /\ Inv!Payable(id)
           /\ Inv!CompliancePasses(invoice[id].merchant) /\ Inv!CompliancePasses(invoice[id].customer)
      /\ Inv!SetStatus(Range(ids), "Paid") /\ Inv!Fund(Range(ids), "marked")
      /\ balance' = balance /\ invoiceCount' = invoiceCount
  BY DEF Inv!mark_paids, Inv!InvoiceFrame, Inv!indexVars, Inv!Range, Range
<1>2. \A id \in Range(ids) : invoice[id] # Inv!NoInvoice
  BY <1>1 DEF Inv!Payable, Inv!IsPending, Inv!Exists
<1>3. "Paid" \in Inv!InvoiceStatus
  BY DEF Inv!InvoiceStatus
<1>4. /\ invoice' \in [Inv!Id -> PartyRecord \cup {Inv!NoInvoice}]
      /\ \A id \in Inv!Id : invoice[id] # Inv!NoInvoice =>
           /\ invoice'[id].merchant = invoice[id].merchant
           /\ invoice'[id].customer = invoice[id].customer
  BY <1>1, <1>2, <1>3, StatusKeepsParties
<1>5. funding' = [id \in Inv!Id |-> IF id \in Range(ids) THEN "marked" ELSE funding[id]]
  BY <1>1 DEF Inv!Fund
<1>6. funding' \in [Inv!Id -> {"none", "transferred", "marked"}]
  BY <1>5 DEF StorageInv
<1>7. ASSUME NEW id \in Inv!Id, funding'[id] # funding[id]
      PROVE  /\ funding'[id] = "marked"
             /\ Inv!CompliancePasses(invoice'[id].merchant)
             /\ Inv!CompliancePasses(invoice'[id].customer)
  <2>1. id \in Range(ids) /\ funding'[id] = "marked"
    BY <1>5, <1>7
  <2> QED
    BY <1>1, <1>2, <1>4, <2>1
<1> QED
  BY <1>1, <1>4, <1>6, <1>7

\* A payment on chain: only the payer's account and the contract's own move, in the
\* invoice's token.
LEMMA PayEffect ==
  ASSUME StorageInv, NEW payer \in Address, NEW id \in Inv!Id, Inv!pay_invoice(payer, id)
  PROVE  /\ invoiceCount' = invoiceCount
         /\ invoice' \in [Inv!Id -> PartyRecord \cup {Inv!NoInvoice}]
         /\ Inv!CompliancePasses(payer)
         /\ funding' = [funding EXCEPT ![id] = "transferred"]
         /\ \A a \in Address : balance'[invoice[id].token][a] # balance[invoice[id].token][a] => a = payer
         /\ DOMAIN balance' = Token /\ \A t \in Token : DOMAIN balance'[t] = Inv!Holder
<1>1. /\ Inv!Payable(id) /\ Inv!CompliancePasses(payer)
      /\ balance' = [balance EXCEPT ![invoice[id].token][payer] = @ - invoice[id].amount,
                                    ![invoice[id].token][Self] = @ + invoice[id].amount]
      /\ Inv!SetStatus({id}, "Paid") /\ Inv!Fund({id}, "transferred")
      /\ invoiceCount' = invoiceCount
  BY DEF Inv!pay_invoice, Inv!InvoiceFrame, Inv!indexVars
<1>2. invoice[id] # Inv!NoInvoice
  BY <1>1 DEF Inv!Payable, Inv!IsPending, Inv!Exists
<1>3. invoice' \in [Inv!Id -> PartyRecord \cup {Inv!NoInvoice}]
  <2>1. "Paid" \in Inv!InvoiceStatus
    BY DEF Inv!InvoiceStatus
  <2> QED
    BY <1>1, <1>2, <2>1, StatusKeepsParties
<1>4. funding' = [funding EXCEPT ![id] = "transferred"]
  BY <1>1 DEF Inv!Fund, StorageInv
<1>5. PICK t \in Token : t = invoice[id].token
  BY <1>2 DEF StorageInv, PartyRecord
<1>6. PICK u : u = invoice[id].amount
  OBVIOUS
<1>7. /\ balance' = [balance EXCEPT ![t][payer] = @ - u, ![t][Self] = @ + u]
      /\ DOMAIN balance = Token /\ \A s \in Token : DOMAIN balance[s] = Inv!Holder
  BY <1>1, <1>5, <1>6 DEF StorageInv
<1>8. DOMAIN balance' = Token /\ \A s \in Token : DOMAIN balance'[s] = Inv!Holder
  BY <1>5, <1>7
<1>9. \A a \in Address : balance'[t][a] # balance[t][a] => a = payer
  BY <1>5, <1>7, PaymentsConstants DEF Inv!Holder
<1> QED
  BY <1>1, <1>3, <1>4, <1>5, <1>8, <1>9

\* Every other call of the invoice contract funds and bills nothing.
LEMMA OtherEffect ==
  ASSUME StorageInv,
         \/ Inv!AdminStep
         \/ \E ids \in Batch : Inv!batch_expire(ids)
         \/ \E id \in Inv!Id, caller \in Address :
              \/ Inv!cancel_invoiced(id, caller) \/ Inv!request_refund(id, caller)
              \/ Inv!release_escrow(id, caller)
  PROVE  /\ invoiceCount' \in {invoiceCount, 0} /\ funding' = funding /\ balance' = balance
         /\ invoice' \in [Inv!Id -> PartyRecord \cup {Inv!NoInvoice}]
<1>1. CASE Inv!AdminStep
  <2>1. invoiceCount' \in {invoiceCount, 0} /\ funding' = funding /\ balance' = balance /\ invoice' = invoice
    BY <1>1 DEF Inv!AdminStep, Inv!upgrade, Inv!transfer_admin, Inv!accept_admin, Inv!initialize, Inv!pause,
                Inv!unpause, Inv!set_treasury, Inv!set_compliance, Inv!set_grace_window, Inv!ConfigFrame,
                Inv!indexVars, Inv!fundingVars
  <2> QED
    BY <2>1 DEF StorageInv
<1>2. ASSUME NEW ids \in Batch, Inv!batch_expire(ids)
      PROVE  /\ invoiceCount' = invoiceCount /\ funding' = funding /\ balance' = balance
             /\ invoice' \in [Inv!Id -> PartyRecord \cup {Inv!NoInvoice}]
  <2>1. PICK S : /\ Inv!SetStatus(S, "Expired")
                 /\ \A id \in S : invoice[id] # Inv!NoInvoice
                 /\ invoiceCount' = invoiceCount /\ funding' = funding /\ balance' = balance
    BY <1>2 DEF Inv!batch_expire, Inv!InvoiceFrame, Inv!indexVars, Inv!fundingVars, Inv!IsPending, Inv!Exists
  <2>2. "Expired" \in Inv!InvoiceStatus
    BY DEF Inv!InvoiceStatus
  <2> QED
    BY <2>1, <2>2, StatusKeepsParties
<1>3. ASSUME NEW id \in Inv!Id, NEW caller \in Address,
             \/ Inv!cancel_invoiced(id, caller) \/ Inv!request_refund(id, caller)
             \/ Inv!release_escrow(id, caller)
      PROVE  /\ invoiceCount' = invoiceCount /\ funding' = funding /\ balance' = balance
             /\ invoice' \in [Inv!Id -> PartyRecord \cup {Inv!NoInvoice}]
  <2>1. PICK st \in Inv!InvoiceStatus :
          /\ Inv!SetStatus({id}, st) /\ invoice[id] # Inv!NoInvoice
          /\ invoiceCount' = invoiceCount /\ funding' = funding /\ balance' = balance
    BY <1>3 DEF Inv!cancel_invoiced, Inv!request_refund, Inv!release_escrow, Inv!AfterCancel,
                Inv!InvoiceFrame, Inv!indexVars, Inv!fundingVars, Inv!Exists, Inv!InvoiceStatus
  <2> QED
    BY <2>1, StatusKeepsParties
<1> QED
  BY <1>1, <1>2, <1>3

LEMMA StorageStep == StorageInv /\ [PaymentsNext]_paymentsVars => StorageInv'
<1> SUFFICES ASSUME StorageInv, [PaymentsNext]_paymentsVars PROVE StorageInv'
  OBVIOUS
<1>1. CASE UNCHANGED <<invoice, funding, balance>> /\ now' \in Time
  BY <1>1 DEF StorageInv
<1>2. CASE ComplianceCall
  BY <1>1, <1>2, ComplianceKeepsTime DEF ComplianceCall, invoiceVars, StorageInv
<1>3. CASE LedgerCloses
  BY <1>1, <1>3, ComplianceConstants DEF LedgerCloses, Tick, invoiceVars, StorageInv, Time
<1>4. CASE UNCHANGED paymentsVars
  BY <1>1, <1>4 DEF paymentsVars, invoiceVars, vars, StorageInv
<1>5. CASE InvoiceCall
  <2>1. now' = now
    BY <1>5 DEF InvoiceCall, vars
  <2>2. CASE Inv!CreateStep
    BY <2>1, <2>2, CreateEffect DEF StorageInv
  <2>3. ASSUME NEW ids \in Batch, Inv!mark_paids(ids) PROVE StorageInv'
    BY <2>1, <2>3, MarkEffect DEF StorageInv
  <2>4. ASSUME NEW payer \in Address, NEW id \in Inv!Id, Inv!pay_invoice(payer, id) PROVE StorageInv'
    <3>1. /\ invoice' \in [Inv!Id -> PartyRecord \cup {Inv!NoInvoice}]
          /\ funding' = [funding EXCEPT ![id] = "transferred"]
          /\ DOMAIN balance' = Token /\ \A t \in Token : DOMAIN balance'[t] = Inv!Holder
      BY <2>4, PayEffect
    <3> QED
      BY <2>1, <3>1 DEF StorageInv
  <2>5. ASSUME \/ Inv!AdminStep
               \/ \E ids \in Batch : Inv!batch_expire(ids)
               \/ \E id \in Inv!Id, caller \in Address :
                    \/ Inv!cancel_invoiced(id, caller) \/ Inv!request_refund(id, caller)
                    \/ Inv!release_escrow(id, caller)
        PROVE  StorageInv'
    BY <2>1, <2>5, OtherEffect DEF StorageInv
  <2> QED
    BY <1>5, <2>2, <2>3, <2>4, <2>5 DEF InvoiceCall, Inv!InvoiceStep
<1> QED
  BY <1>2, <1>3, <1>4, <1>5 DEF PaymentsNext

\* A pass by the configured contract is a permission that has not run out.
LEMMA PassIsPermission ==
  ASSUME complianceContract = ComplianceContract, NEW a, Inv!CompliancePasses(a)
  PROVE  /\ status[a].kind \in {"Allowed", "AllowedUntil"}
         /\ status[a].kind = "AllowedUntil" => now < status[a].until
<1>1. a \in AllowedSet
  BY PaymentsConstants DEF Inv!CompliancePasses
<1> QED
  BY <1>1 DEF AllowedSet, is_allowed, Allowed

\* Nobody is billed, bills, is confirmed as paid or pays on a permission that the
\* configured compliance contract no longer gives, for any addresses, invoices, batches
\* and order of calls to the two contracts (invoice/src/lib.rs asks is_allowed in the
\* very call that relies on it; compliance/src/lib.rs answers from its storage and the
\* ledger's clock).
THEOREM PartiesAreScreened == PaymentsSpec => ScreenedParties
<1>1. ASSUME StorageInv, [PaymentsNext]_paymentsVars, complianceContract = ComplianceContract,
             NEW id \in Inv!Id, NEW a \in Relied(id)
      PROVE  Inv!CompliancePasses(a)
  <2>0. id # 0 /\ funding \in [Inv!Id -> {"none", "transferred", "marked"}]
    <3>1. id # 0
      BY PaymentsConstants DEF Inv!Id
    <3> QED
      BY <1>1, <3>1 DEF StorageInv
  <2>1. ASSUME invoiceCount' \in {invoiceCount, 0}, funding' = funding PROVE FALSE
    BY <1>1, <2>0, <2>1 DEF Relied, Billed, Confirmed, PaidOnChain
  <2>2. ASSUME ComplianceCall \/ LedgerCloses \/ UNCHANGED paymentsVars PROVE FALSE
    BY <2>1, <2>2 DEF ComplianceCall, LedgerCloses, paymentsVars, invoiceVars
  <2>3. CASE Inv!CreateStep
    <3>1. PICK i \in Inv!Id, m \in Address, c \in Address :
            /\ Inv!CompliancePasses(m) /\ Inv!CompliancePasses(c)
            /\ invoiceCount' = i /\ invoice'[i].merchant = m /\ invoice'[i].customer = c
            /\ funding' = [funding EXCEPT ![i] = "none"]
      BY <1>1, <2>3, CreateEffect
    <3>2. ~Confirmed(id) /\ ~PaidOnChain(id)
      BY <2>0, <3>1 DEF Confirmed, PaidOnChain
    <3>3. Billed(id) /\ a \in {invoice'[id].merchant, invoice'[id].customer}
      BY <1>1, <3>2 DEF Relied
    <3>4. id = i
      BY <3>1, <3>3 DEF Billed
    <3> QED
      BY <3>1, <3>3, <3>4
  <2>4. ASSUME NEW ids \in Batch, Inv!mark_paids(ids) PROVE Inv!CompliancePasses(a)
    <3>1. /\ invoiceCount' = invoiceCount
          /\ funding'[id] = funding[id] \/
               /\ funding'[id] = "marked"
               /\ Inv!CompliancePasses(invoice'[id].merchant)
               /\ Inv!CompliancePasses(invoice'[id].customer)
      BY <1>1, <2>4, MarkEffect
    <3>2. ~Billed(id) /\ ~PaidOnChain(id)
      BY <2>0, <3>1 DEF Billed, PaidOnChain
    <3>3. Confirmed(id) /\ a \in {invoice'[id].merchant, invoice'[id].customer}
      BY <1>1, <3>2 DEF Relied
    <3> QED
      BY <3>1, <3>3 DEF Confirmed
  <2>5. ASSUME NEW payer \in Address, NEW i \in Inv!Id, Inv!pay_invoice(payer, i)
        PROVE  Inv!CompliancePasses(a)
    <3>1. /\ invoiceCount' = invoiceCount /\ Inv!CompliancePasses(payer)
          /\ funding' = [funding EXCEPT ![i] = "transferred"]
          /\ \A b \in Address : balance'[invoice[i].token][b] # balance[invoice[i].token][b] => b = payer
      BY <1>1, <2>5, PayEffect
    <3>2. ~Billed(id) /\ ~Confirmed(id)
      BY <2>0, <3>1 DEF Billed, Confirmed
    <3>3. PaidOnChain(id) /\ a \in Address
          /\ balance'[invoice[id].token][a] # balance[invoice[id].token][a]
      BY <1>1, <3>2 DEF Relied
    <3>4. id = i
      BY <2>0, <3>1, <3>3 DEF PaidOnChain
    <3>5. a = payer
      BY <3>1, <3>3, <3>4
    <3> QED
      BY <3>1, <3>5
  <2>6. ASSUME \/ Inv!AdminStep
               \/ \E ids \in Batch : Inv!batch_expire(ids)
               \/ \E i \in Inv!Id, caller \in Address :
                    \/ Inv!cancel_invoiced(i, caller) \/ Inv!request_refund(i, caller)
                    \/ Inv!release_escrow(i, caller)
        PROVE  FALSE
    BY <1>1, <2>1, <2>6, OtherEffect
  <2> QED
    BY <1>1, <2>2, <2>3, <2>4, <2>5, <2>6 DEF PaymentsNext, InvoiceCall, Inv!InvoiceStep
<1>2. StorageInv /\ [PaymentsNext]_paymentsVars =>
        [complianceContract = ComplianceContract =>
           \A id \in Inv!Id : \A a \in Relied(id) :
             /\ status[a].kind \in {"Allowed", "AllowedUntil"}
             /\ status[a].kind = "AllowedUntil" => now < status[a].until]_paymentsVars
  BY <1>1, PassIsPermission
<1> QED
  BY <1>2, StorageInit, StorageStep, PTL DEF PaymentsSpec, ScreenedParties
=============================================================================
