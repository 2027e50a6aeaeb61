--------------------------- MODULE TreasuryProofs ---------------------------
(***************************************************************************)
(* Machine-checked proofs about the treasury contract, for every set of     *)
(* addresses, tokens and inputs and every bound.                            *)
(***************************************************************************)
EXTENDS Treasury, SumTheorems, TLAPS

\* Storage starts well typed.
LEMMA InitType == Init => TypeOK
<1> SUFFICES ASSUME Init PROVE TypeOK
  OBVIOUS
<1> USE TreasuryConstants DEF Init
<1>1. /\ signer \in [Address -> U64] /\ signerList \in [Address -> Nat] /\ threshold \in U64
      /\ settlementTtl \in U64 \ {0}
      /\ nextSettlementId \in 1 .. MaxSettlements + 1
  BY DEF U64
<1>2. settlement \in [Id -> Settlement \cup {NoSettlement}] /\ credit \in [Id -> [Address -> U64]]
  BY DEF U64
<1>3. /\ dailyLimit \in [Token -> U64]
      /\ withdrawWindow \in [Token -> WithdrawWindow \cup {NoWindow}]
      /\ tokenAllowlist \in SUBSET Token
  BY DEF U64
<1>4. balance \in [Token -> [Holder -> Nat]]
  OBVIOUS
<1>5. /\ now \in Time /\ initialized \in 0 .. MaxInitialize
      /\ outflow \in [Token -> [Time -> Nat]] /\ limitSince \in [Token -> Time]
  BY DEF Time
<1> QED
  BY <1>1, <1>2, <1>3, <1>4, <1>5 DEF TypeOK

\* A token transfer keeps the ledgers well typed.
LEMMA TransferType ==
  ASSUME TypeOK, NEW t \in Token, NEW from \in Holder, NEW to \in Holder, NEW n \in U64,
         from # to, Transfer(t, from, to, n)
  PROVE  balance' \in [Token -> [Holder -> Nat]]
<1>1. n \in Nat /\ balance[t][from] - n \in Nat /\ balance[t][to] + n \in Nat
  BY TreasuryConstants DEF TypeOK, Transfer, U64
<1>2. balance' = [balance EXCEPT ![t] =
                   [balance[t] EXCEPT ![from] = balance[t][from] - n,
                                      ![to] = balance[t][to] + n]]
  BY DEF TypeOK, Transfer
<1> QED
  BY <1>1, <1>2 DEF TypeOK

\* The entries of one address in initialize's argument, once the duplicate
\* check has passed: none or one, and the entry carries a u64 weight.
LEMMA ListedEntries ==
  ASSUME NEW s \in Seq(Address \X U64), NEW a,
         \A i, j \in DOMAIN s : s[i][1] = s[j][1] => i = j
  PROVE  LET L == {i \in DOMAIN s : s[i][1] = a} IN
         /\ Cardinality(L) \in 0 .. 1
         /\ L # {} => Cardinality(L) = 1 /\ s[CHOOSE i \in L : TRUE][2] \in U64
<1> DEFINE L == {i \in DOMAIN s : s[i][1] = a}
<1>1. CASE L = {}
  <2>1. Cardinality(L) = 0
    BY <1>1, FS_EmptySet, Zenon
  <2> QED
    BY <1>1, <2>1
<1>2. CASE L # {}
  <2>1. PICK k \in L : TRUE
    BY <1>2
  <2>2. L = {k}
    BY <2>1
  <2>3. Cardinality(L) = 1
    BY <2>2, FS_Singleton, Zenon
  <2>4. (CHOOSE i \in L : TRUE) = k
    BY <2>2
  <2>5. s[k][2] \in U64
    BY <2>1
  <2> QED
    BY <2>3, <2>4, <2>5
<1> QED
  <2>1. /\ Cardinality(L) \in 0 .. 1
        /\ L # {} => Cardinality(L) = 1 /\ s[CHOOSE i \in L : TRUE][2] \in U64
    BY <1>1, <1>2
  <2> QED
    BY <2>1, Zenon

\* The admin's, deployment and pause entry points keep every variable in its type.
LEMMA AdminType == TypeOK /\ AdminStep => TypeOK'
<1> SUFFICES ASSUME TypeOK, AdminStep PROVE TypeOK'
  OBVIOUS
<1> USE TreasuryConstants DEF adminVars, signerVars, proposalVars, vaultVars
<1>1. ASSUME NEW h \in Wasm, NEW c \in Address, upgrade(c, h) PROVE TypeOK'
  BY <1>1 DEF TypeOK, upgrade
<1>2. ASSUME NEW a \in Nominee, NEW c \in Address, transfer_admin(c, a) PROVE TypeOK'
  BY <1>2 DEF TypeOK, transfer_admin
<1>3. ASSUME NEW c \in Address, accept_admin(c) PROVE TypeOK'
  BY <1>3 DEF TypeOK, accept_admin
<1>4. ASSUME NEW s \in SignerLists, NEW th \in Threshold, NEW c \in Address, initialize(s, th, c)
      PROVE TypeOK'
  <2> DEFINE L(a) == {i \in DOMAIN s : s[i][1] = a}
  <2>1. \A a \in Address : /\ Cardinality(L(a)) \in Nat
                           /\ L(a) # {} => s[CHOOSE i \in L(a) : TRUE][2] \in U64
    <3> SUFFICES ASSUME NEW a \in Address
                 PROVE  /\ Cardinality(L(a)) \in Nat
                        /\ L(a) # {} => s[CHOOSE i \in L(a) : TRUE][2] \in U64
      OBVIOUS
    <3>1. s \in Seq(Address \X U64)
      OBVIOUS
    <3>2. \A i, j \in DOMAIN s : s[i][1] = s[j][1] => i = j
      BY <1>4 DEF initialize
    <3>3. /\ Cardinality(L(a)) \in 0 .. 1
          /\ L(a) # {} => s[CHOOSE i \in L(a) : TRUE][2] \in U64
      BY <3>1, <3>2, ListedEntries, Zenon
    <3> QED
      BY <3>3
  <2>2. signer' = [a \in Address |-> IF L(a) = {} THEN signer[a]
                                     ELSE s[CHOOSE i \in L(a) : TRUE][2]]
    BY <1>4 DEF initialize
  <2>3. signer' \in [Address -> U64]
    BY <2>1, <2>2 DEF TypeOK
  <2>4. signerList' = [a \in Address |-> Cardinality(L(a))]
    BY <1>4 DEF initialize
  <2>5. signerList' \in [Address -> Nat]
    BY <2>1, <2>4
  <2>6. /\ admin' \in Address \cup {NoAddress} /\ threshold' \in U64 /\ paused' \in BOOLEAN
    BY <1>4 DEF TypeOK, initialize
  <2>7. /\ nextSettlementId' \in 1 .. MaxSettlements + 1
        /\ initialized' \in 0 .. MaxInitialize
    <3>1. nextSettlementId' = 1 /\ initialized' = initialized + 1 /\ initialized < MaxInitialize
      BY <1>4 DEF initialize
    <3> QED
      BY <3>1 DEF TypeOK
  <2> QED
    BY <1>4, <2>3, <2>5, <2>6, <2>7 DEF TypeOK, initialize
<1>5. ASSUME NEW c \in Address, pause(c) PROVE TypeOK'
  BY <1>5 DEF TypeOK, pause
<1>6. ASSUME NEW c \in Address, unpause(c) PROVE TypeOK'
  BY <1>6 DEF TypeOK, unpause
<1> QED
  BY <1>1, <1>2, <1>3, <1>4, <1>5, <1>6 DEF AdminStep

\* Signer registration, rotation and threshold changes keep every variable in its type.
LEMMA SignerType == TypeOK /\ SignerStep => TypeOK'
<1> SUFFICES ASSUME TypeOK, SignerStep PROVE TypeOK'
  OBVIOUS
<1> USE TreasuryConstants DEF adminVars, signerVars, proposalVars, vaultVars
<1>1. ASSUME NEW c \in Address, NEW a \in Address, NEW w \in Weight, set_signer(c, a, w)
      PROVE TypeOK'
  BY <1>1 DEF TypeOK, set_signer, Listed
<1>2. ASSUME NEW c \in Address, NEW a \in Address, NEW b \in Address, NEW w \in Weight,
             rotate_signer(c, a, b, w)
      PROVE TypeOK'
  <2>1. signer' \in [Address -> U64]
    BY <1>2 DEF TypeOK, rotate_signer, U64
  <2>2. signerList' \in [Address -> Nat]
    BY <1>2 DEF TypeOK, rotate_signer, Listed
  <2> QED
    BY <1>2, <2>1, <2>2 DEF TypeOK, rotate_signer
<1>3. ASSUME NEW c \in Address, NEW th \in Threshold, update_threshold(c, th) PROVE TypeOK'
  BY <1>3 DEF TypeOK, update_threshold
<1> QED
  BY <1>1, <1>2, <1>3 DEF SignerStep

\* Rewriting one field of a stored settlement with a value of its type keeps
\* the store well typed.
LEMMA StoredType ==
  ASSUME TypeOK, NEW id \in Id, Exists(id)
  PROVE  settlement[id] \in Settlement
  BY DEF TypeOK, Exists

LEMMA StatusType ==
  ASSUME TypeOK, NEW id \in Id, Exists(id), NEW st \in SettlementStatus, SetStatus(id, st)
  PROVE  settlement' \in [Id -> Settlement \cup {NoSettlement}]
<1>1. settlement[id] \in Settlement
  BY StoredType
<1>2. [settlement[id] EXCEPT !.status = st] \in Settlement
  BY <1>1 DEF Settlement
<1>3. settlement' = [settlement EXCEPT ![id] = [settlement[id] EXCEPT !.status = st]]
  BY DEF SetStatus, TypeOK
<1> QED
  BY <1>2, <1>3 DEF TypeOK

\* Every settlement entry point keeps every variable in its type.
LEMMA SettlementType == TypeOK /\ SettlementStep => TypeOK'
<1> SUFFICES ASSUME TypeOK, SettlementStep PROVE TypeOK'
  OBVIOUS
<1> USE TreasuryConstants DEF adminVars, signerVars, proposalVars, vaultVars
<1>1. ASSUME NEW c \in Address, NEW ttl \in Ttl, set_settlement_ttl(c, ttl) PROVE TypeOK'
  BY <1>1 DEF TypeOK, set_settlement_ttl, ValidTtl
<1>2. ASSUME NEW c \in Address, NEW t \in Token, NEW n \in Amount, NEW m \in Address,
             propose_settlement(c, t, n, m)
      PROVE TypeOK'
  <2>1. NewSettlement(c, t, n, m) \in Settlement
    BY <1>2 DEF propose_settlement, NewSettlement, Settlement, SettlementStatus, U64
  <2>2. settlement' \in [Id -> Settlement \cup {NoSettlement}]
    BY <1>2, <2>1 DEF propose_settlement, NewId, TypeOK
  <2>3. credit' \in [Id -> [Address -> U64]]
    BY <1>2 DEF propose_settlement, NewId, TypeOK, U64
  <2>4. nextSettlementId' \in 1 .. MaxSettlements + 1
    BY <1>2 DEF propose_settlement, NewId, Id
  <2> QED
    BY <1>2, <2>2, <2>3, <2>4 DEF propose_settlement, TypeOK
<1>3. ASSUME NEW c \in Address, NEW id \in Id, cancel_settlement(c, id) PROVE TypeOK'
  <2>1. settlement' \in [Id -> Settlement \cup {NoSettlement}]
    BY <1>3, StatusType DEF cancel_settlement, IsPending, SettlementStatus
  <2> QED
    BY <1>3, <2>1 DEF cancel_settlement, SettlementFrame, TypeOK
<1>4. ASSUME NEW c \in Address, NEW id \in Id, approve_settlement(c, id) PROVE TypeOK'
  <2>1. settlement[id] \in Settlement
    BY <1>4, StoredType DEF approve_settlement, IsPending
  <2>2. [settlement[id] EXCEPT !.approval_weight = @ + signer[c]] \in Settlement
    BY <1>4, <2>1 DEF approve_settlement, Settlement
  <2>3. settlement' = [settlement EXCEPT
                         ![id] = [settlement[id] EXCEPT !.approval_weight = @ + signer[c]]]
    BY <1>4 DEF approve_settlement, TypeOK
  <2>4. settlement' \in [Id -> Settlement \cup {NoSettlement}]
    BY <2>2, <2>3 DEF TypeOK
  <2>5. credit' \in [Id -> [Address -> U64]]
    BY <1>4 DEF approve_settlement, TypeOK
  <2> QED
    BY <1>4, <2>4, <2>5 DEF approve_settlement, SettlementFrame, TypeOK
<1>5. ASSUME NEW c \in Address, NEW id \in Id, execute_settlement(c, id) PROVE TypeOK'
  <2>1. settlement' \in [Id -> Settlement \cup {NoSettlement}]
    BY <1>5, StatusType DEF execute_settlement, Executable, IsPending, SettlementStatus
  <2> QED
    BY <1>5, <2>1 DEF execute_settlement, SettlementFrame, TypeOK
<1>6. ASSUME NEW c \in Address, NEW id \in Id, raise_dispute(c, id) PROVE TypeOK'
  <2>1. settlement' \in [Id -> Settlement \cup {NoSettlement}]
    BY <1>6, StatusType DEF raise_dispute, SettlementStatus
  <2> QED
    BY <1>6, <2>1 DEF raise_dispute, SettlementFrame, TypeOK
<1>7. ASSUME NEW c \in Address, NEW id \in Id, NEW favor \in BOOLEAN,
             resolve_dispute(c, id, favor)
      PROVE TypeOK'
  <2>1. settlement' \in [Id -> Settlement \cup {NoSettlement}]
    BY <1>7, StatusType DEF resolve_dispute, SettlementStatus
  <2> QED
    BY <1>7, <2>1 DEF resolve_dispute, SettlementFrame, TypeOK
<1>8. ASSUME NEW c \in Address, NEW id \in Id, NEW m \in Address,
             update_settlement_merchant(c, id, m)
      PROVE TypeOK'
  <2>1. settlement[id] \in Settlement
    BY <1>8, StoredType DEF update_settlement_merchant, IsPending
  <2>2. [settlement[id] EXCEPT !.merchant = m] \in Settlement
    BY <2>1 DEF Settlement
  <2>3. settlement' = [settlement EXCEPT ![id] = [settlement[id] EXCEPT !.merchant = m]]
    BY <1>8 DEF update_settlement_merchant, TypeOK
  <2>4. settlement' \in [Id -> Settlement \cup {NoSettlement}]
    BY <2>2, <2>3 DEF TypeOK
  <2> QED
    BY <1>8, <2>4 DEF update_settlement_merchant, SettlementFrame, TypeOK
<1> QED
  BY <1>1, <1>2, <1>3, <1>4, <1>5, <1>6, <1>7, <1>8 DEF SettlementStep

\* The vault's entry points keep every variable in its type.
LEMMA VaultType == TypeOK /\ VaultStep => TypeOK'
<1> SUFFICES ASSUME TypeOK, VaultStep PROVE TypeOK'
  OBVIOUS
<1> USE TreasuryConstants DEF adminVars, signerVars, proposalVars, vaultVars
<1>0. Self \in Holder /\ Self \notin Address /\ Address \subseteq Holder
  BY DEF Self, Holder
<1>1. ASSUME NEW c \in Address, NEW t \in Token, add_token_to_allowlist(c, t) PROVE TypeOK'
  BY <1>1 DEF TypeOK, add_token_to_allowlist
<1>2. ASSUME NEW c \in Address, NEW t \in Token, remove_token_from_allowlist(c, t) PROVE TypeOK'
  BY <1>2 DEF TypeOK, remove_token_from_allowlist
<1>3. ASSUME NEW c \in Address, NEW t \in Token, NEW n \in Amount, deposit(c, t, n) PROVE TypeOK'
  <2>1. balance' \in [Token -> [Holder -> Nat]]
    BY <1>0, <1>3, TransferType DEF deposit
  <2> QED
    BY <1>3, <2>1 DEF deposit, TypeOK
<1>4. ASSUME NEW c \in Address, NEW t \in Token, NEW n \in Limit,
             set_daily_withdraw_limit(c, t, n)
      PROVE TypeOK'
  <2>1. withdrawWindow' \in [Token -> WithdrawWindow \cup {NoWindow}]
    BY <1>4 DEF set_daily_withdraw_limit, WindowUnder, TypeOK
  <2> QED
    BY <1>4, <2>1 DEF set_daily_withdraw_limit, TypeOK
<1>5. ASSUME NEW c \in Address, NEW t \in Token, NEW to \in Address, NEW n \in Amount,
             withdraw(c, t, to, n)
      PROVE TypeOK'
  <2>1. balance' \in [Token -> [Holder -> Nat]]
    BY <1>0, <1>5, TransferType DEF withdraw
  <2>2. CurrentWindow(t) \in WithdrawWindow
    BY DEF CurrentWindow, WithdrawWindow, TypeOK, U64
  <2>3. ASSUME SpentWindow(t, n).spent <= dailyLimit[t] PROVE SpentWindow(t, n) \in WithdrawWindow
    <3>1. PICK w \in WithdrawWindow : w = CurrentWindow(t)
      BY <2>2
    <3>2. SpentWindow(t, n) = [w EXCEPT !.spent = w.spent + n]
      BY <3>1 DEF SpentWindow, WithdrawWindow
    <3>3. w.spent \in Nat /\ n \in Nat /\ dailyLimit[t] \in U64 /\ w.window_start \in Time
      BY DEF WithdrawWindow, TypeOK, U64
    <3>4. w.spent + n \in U64
      BY <2>3, <3>2, <3>3 DEF U64, WithdrawWindow
    <3> QED
      BY <3>2, <3>4 DEF WithdrawWindow
  <2>4. withdrawWindow' \in [Token -> WithdrawWindow \cup {NoWindow}]
    BY <1>5, <2>3 DEF withdraw, TypeOK
  <2>5. outflow[t][now] + n \in Nat
    BY DEF TypeOK, U64
  <2>6. outflow' = [outflow EXCEPT ![t] = [outflow[t] EXCEPT ![now] = outflow[t][now] + n]]
    BY <1>5 DEF withdraw, TypeOK
  <2>7. outflow' \in [Token -> [Time -> Nat]]
    BY <2>5, <2>6 DEF TypeOK
  <2> QED
    BY <1>5, <2>1, <2>4, <2>7 DEF withdraw, TypeOK
<1> QED
  BY <1>1, <1>2, <1>3, <1>4, <1>5 DEF VaultStep

\* Every step of the contract, and of the ledger's clock, keeps every variable
\* in its type.
LEMMA NextType == TypeOK /\ [Next]_vars => TypeOK'
<1> SUFFICES ASSUME TypeOK, [Next]_vars PROVE TypeOK'
  OBVIOUS
<1>1. CASE Tick
  BY <1>1, TreasuryConstants
  DEF Tick, TypeOK, Time, adminVars, signerVars, proposalVars, vaultVars
<1>2. CASE UNCHANGED vars
  BY <1>2 DEF vars, TypeOK, adminVars, signerVars, proposalVars, vaultVars
<1> QED
  BY <1>1, <1>2, AdminType, SignerType, SettlementType, VaultType DEF Next

\* Type correctness: u64 fields stay in range (the checked additions of
\* approve_settlement, propose_settlement and withdraw are enough), ids stay
\* within the counter's range and balances never go negative.
THEOREM TypeCorrect == Spec => []TypeOK
  BY InitType, NextType, PTL DEF Spec
-----------------------------------------------------------------------------
(* Governance: the signer list and the admin handover.                       *)

\* The steps that touch the admin, the nominee, the signers or the count of
\* initializations.
LEMMA GovernanceSteps ==
  ASSUME [Next]_vars
  PROVE  \/ UNCHANGED <<admin, pendingAdmin, nominatedBy, signer, signerList, initialized>>
         \/ \E c \in Address, a \in Nominee : transfer_admin(c, a)
         \/ \E c \in Address : accept_admin(c)
         \/ \E c \in Address, s \in SignerLists, th \in Threshold : initialize(s, th, c)
         \/ \E c, a \in Address, w \in Weight : set_signer(c, a, w)
         \/ \E c, a, b \in Address, w \in Weight : rotate_signer(c, a, b, w)
<1> USE DEF adminVars, signerVars, SettlementFrame
<1> DEFINE Same == UNCHANGED <<admin, pendingAdmin, nominatedBy, signer, signerList, initialized>>
<1>1. CASE AdminStep
  BY <1>1 DEF AdminStep, upgrade, pause, unpause
<1>2. CASE SignerStep
  BY <1>2 DEF SignerStep, update_threshold
<1>3. CASE SettlementStep
  <2>1. Same
    BY <1>3 DEF SettlementStep, set_settlement_ttl, propose_settlement, cancel_settlement,
       approve_settlement, execute_settlement, raise_dispute, resolve_dispute,
       update_settlement_merchant
  <2> QED
    BY <2>1
<1>4. CASE VaultStep
  <2>1. Same
    BY <1>4 DEF VaultStep, add_token_to_allowlist, remove_token_from_allowlist, deposit,
       set_daily_withdraw_limit, withdraw
  <2> QED
    BY <2>1
<1>5. CASE Tick \/ UNCHANGED vars
  BY <1>5 DEF Tick, vars
<1> QED
  BY <1>1, <1>2, <1>3, <1>4, <1>5 DEF Next

\* What the handover and the signer entry points preserve together:
\* SignerListInSync and NominationIsCurrent hold across the first initialize
\* only because storage was empty before it.
GovernanceInv == TypeOK /\ Undeployed /\ SignerListInSync /\ NominationIsCurrent

LEMMA GovernanceStep == GovernanceInv /\ [Next]_vars => GovernanceInv'
<1> SUFFICES ASSUME GovernanceInv, [Next]_vars
             PROVE  Undeployed' /\ SignerListInSync' /\ NominationIsCurrent'
  BY NextType DEF GovernanceInv
<1> USE TreasuryConstants DEF GovernanceInv, check_admin
<1>1. CASE UNCHANGED <<admin, pendingAdmin, nominatedBy, signer, signerList, initialized>>
  BY <1>1 DEF Undeployed, SignerListInSync, NominationIsCurrent
<1>2. ASSUME NEW c \in Address, NEW a \in Nominee, transfer_admin(c, a)
      PROVE  Undeployed' /\ SignerListInSync' /\ NominationIsCurrent'
  BY <1>2 DEF transfer_admin, signerVars, Undeployed, SignerListInSync, NominationIsCurrent
<1>3. ASSUME NEW c \in Address, accept_admin(c)
      PROVE  Undeployed' /\ SignerListInSync' /\ NominationIsCurrent'
  BY <1>3 DEF accept_admin, signerVars, Undeployed, SignerListInSync, NominationIsCurrent
<1>4. ASSUME NEW c \in Address, NEW s \in SignerLists, NEW th \in Threshold, initialize(s, th, c)
      PROVE  Undeployed' /\ SignerListInSync' /\ NominationIsCurrent'
  <2> DEFINE L(a) == {i \in DOMAIN s : s[i][1] = a}
  <2>1. initialized \in Nat /\ initialized' = initialized + 1
    BY <1>4 DEF initialize, TypeOK
  <2>2. ASSUME initialized' <= 1 PROVE initialized = 0
    BY <2>1, <2>2
  <2>3. s \in Seq(Address \X U64) /\ \A i, j \in DOMAIN s : s[i][1] = s[j][1] => i = j
    BY <1>4 DEF initialize
  <2>4. \A a \in Address : Cardinality(L(a)) \in 0 .. 1 /\ (L(a) # {} => Cardinality(L(a)) = 1)
    <3> SUFFICES ASSUME NEW a \in Address
                 PROVE  Cardinality(L(a)) \in 0 .. 1 /\ (L(a) # {} => Cardinality(L(a)) = 1)
      OBVIOUS
    <3> QED
      BY <2>3, ListedEntries, Zenon
  <2>5. \A a \in Address : /\ signerList'[a] = Cardinality(L(a))
                           /\ L(a) = {} => signer'[a] = signer[a]
    BY <1>4 DEF initialize
  <2>6. SignerListInSync'
    <3> SUFFICES ASSUME initialized' <= 1, NEW a \in Address
                 PROVE  signerList'[a] <= 1 /\ (signer'[a] > 0 => signerList'[a] = 1)
      BY DEF SignerListInSync
    <3>1. signer[a] = 0
      BY <2>2 DEF Undeployed
    <3> HIDE DEF L
    <3>2. CASE L(a) = {}
      BY <2>4, <2>5, <3>1, <3>2
    <3>3. CASE L(a) # {}
      BY <2>4, <2>5, <3>3
    <3> QED
      BY <3>2, <3>3
  <2>7. NominationIsCurrent'
    BY <1>4, <2>2 DEF initialize, Undeployed, NominationIsCurrent
  <2> QED
    BY <2>1, <2>6, <2>7 DEF Undeployed
<1>5. ASSUME NEW c \in Address, NEW a \in Address, NEW w \in Weight, set_signer(c, a, w)
      PROVE  Undeployed' /\ SignerListInSync' /\ NominationIsCurrent'
  BY <1>5 DEF set_signer, Listed, adminVars, TypeOK, Undeployed, SignerListInSync,
     NominationIsCurrent
<1>6. ASSUME NEW c \in Address, NEW a \in Address, NEW b \in Address, NEW w \in Weight,
             rotate_signer(c, a, b, w)
      PROVE  Undeployed' /\ SignerListInSync' /\ NominationIsCurrent'
  <2>1. initialized # 0
    BY <1>6 DEF rotate_signer, Undeployed
  <2>2. \A x \in Address :
          /\ signer'[x] = IF x = b THEN w ELSE IF x = a THEN 0 ELSE signer[x]
          /\ signerList'[x] = IF x = b THEN (IF b = a \/ signerList[b] = 0 THEN 1
                                             ELSE signerList[b])
                              ELSE IF x = a THEN 0 ELSE signerList[x]
    BY <1>6 DEF rotate_signer, Listed, TypeOK
  <2>3. initialized' = initialized /\ UNCHANGED adminVars
    BY <1>6 DEF rotate_signer
  <2>4. SignerListInSync'
    BY <2>2, <2>3 DEF SignerListInSync, TypeOK
  <2> QED
    BY <2>1, <2>3, <2>4 DEF Undeployed, NominationIsCurrent, adminVars
<1> QED
  BY <1>1, <1>2, <1>3, <1>4, <1>5, <1>6, GovernanceSteps

LEMMA GovernanceAlways == Spec => []GovernanceInv
<1>1. Init => GovernanceInv
  BY InitType DEF Init, GovernanceInv, Undeployed, SignerListInSync, NominationIsCurrent
<1> QED
  BY <1>1, GovernanceStep, PTL DEF Spec

\* While initialize ran once, the list that total_signer_weight sums over holds
\* every weighted signer exactly once, after any sequence of set_signer and
\* rotate_signer calls.
THEOREM SignerListStaysInSync == Spec => []SignerListInSync
  BY GovernanceAlways, PTL DEF GovernanceInv

\* While initialize ran once, a nomination open for accept_admin was made by
\* the admin in office.
THEOREM NominationStaysCurrent == Spec => []NominationIsCurrent
  BY GovernanceAlways, PTL DEF GovernanceInv

\* No admin and no weight exist before the first initialize.
THEOREM NothingBeforeInitialize == Spec => []Undeployed
  BY GovernanceAlways, PTL DEF GovernanceInv
-----------------------------------------------------------------------------
(* Settlements.                                                              *)

\* A step that only moves the stored settlement id to status st, with the
\* guard of the entry point that does so.
StatusChange(id, st) ==
  /\ Exists(id)
  /\ SetStatus(id, st)
  /\ UNCHANGED <<credit, nextSettlementId, initialized>>
  /\ \/ st = "Cancelled" /\ settlement[id].status = "Pending" /\ UNCHANGED disputed
     \/ st = "Executed" /\ Executable(id) /\ UNCHANGED disputed
     \/ st = "OnHold" /\ disputed' = disputed \cup {id}
     \/ /\ st \in {"Pending", "Cancelled"} /\ settlement[id].status = "OnHold"
        /\ disputed' = disputed \ {id}

\* A step that reaches no stored settlement, and what it may do to the counter.
StoreUntouched ==
  /\ UNCHANGED <<settlement, credit, disputed>>
  /\ \/ UNCHANGED <<nextSettlementId, initialized>>
     \/ nextSettlementId' = 1 /\ initialized' = initialized + 1

\* The steps that touch the settlement store, the votes or the id counter.
LEMMA SettlementSteps ==
  ASSUME [Next]_vars
  PROVE  \/ StoreUntouched
         \/ \E c, m \in Address, t \in Token, n \in Amount : propose_settlement(c, t, n, m)
         \/ \E c \in Address, id \in Id : approve_settlement(c, id)
         \/ \E c, m \in Address, id \in Id : update_settlement_merchant(c, id, m)
         \/ \E id \in Id, st \in SettlementStatus : StatusChange(id, st)
<1> USE DEF proposalVars
<1>1. CASE AdminStep
  <2>1. StoreUntouched
    BY <1>1 DEF AdminStep, upgrade, transfer_admin, accept_admin, initialize, pause, unpause,
       StoreUntouched
  <2> QED
    BY <2>1
<1>2. CASE SignerStep
  <2>1. StoreUntouched
    BY <1>2 DEF SignerStep, set_signer, rotate_signer, update_threshold, StoreUntouched
  <2> QED
    BY <2>1
<1>3. CASE SettlementStep
  <2>1. ASSUME NEW c \in Address, NEW ttl \in Ttl, set_settlement_ttl(c, ttl)
        PROVE  StoreUntouched
    BY <2>1 DEF set_settlement_ttl, StoreUntouched
  <2>2. ASSUME NEW c \in Address, NEW id \in Id, cancel_settlement(c, id)
        PROVE  StatusChange(id, "Cancelled")
    BY <2>2 DEF cancel_settlement, IsPending, SettlementFrame, StatusChange
  <2>3. ASSUME NEW c \in Address, NEW id \in Id, execute_settlement(c, id)
        PROVE  StatusChange(id, "Executed")
    BY <2>3 DEF execute_settlement, Executable, IsPending, SettlementFrame, StatusChange
  <2>4. ASSUME NEW c \in Address, NEW id \in Id, raise_dispute(c, id)
        PROVE  StatusChange(id, "OnHold")
    BY <2>4 DEF raise_dispute, SettlementFrame, StatusChange
  <2>5. ASSUME NEW c \in Address, NEW id \in Id, NEW favor \in BOOLEAN,
               resolve_dispute(c, id, favor)
        PROVE  StatusChange(id, IF favor THEN "Pending" ELSE "Cancelled")
    BY <2>5 DEF resolve_dispute, SettlementFrame, StatusChange
  <2>6. {"Pending", "Cancelled", "Executed", "OnHold"} \subseteq SettlementStatus
    BY DEF SettlementStatus
  <2> QED
    BY <1>3, <2>1, <2>2, <2>3, <2>4, <2>5, <2>6 DEF SettlementStep
<1>4. CASE VaultStep
  <2>1. StoreUntouched
    BY <1>4 DEF VaultStep, add_token_to_allowlist, remove_token_from_allowlist, deposit,
       set_daily_withdraw_limit, withdraw, StoreUntouched
  <2> QED
    BY <2>1
<1>5. CASE Tick \/ UNCHANGED vars
  BY <1>5 DEF Tick, vars, StoreUntouched
<1> QED
  BY <1>1, <1>2, <1>3, <1>4, <1>5 DEF Next

\* What each of those steps does to the stored record of any id.
LEMMA StatusEffect ==
  ASSUME TypeOK, NEW id \in Id, NEW st \in SettlementStatus, StatusChange(id, st),
         NEW k \in Id
  PROVE  settlement'[k] = IF k = id THEN [settlement[k] EXCEPT !.status = st] ELSE settlement[k]
  BY DEF TypeOK, StatusChange, SetStatus

LEMMA ApproveEffect ==
  ASSUME TypeOK, NEW c \in Address, NEW id \in Id, approve_settlement(c, id), NEW k \in Id
  PROVE  /\ settlement'[k] = IF k = id THEN [settlement[k] EXCEPT !.approval_weight = @ + signer[c]]
                             ELSE settlement[k]
         /\ \A a \in Address :
              credit'[k][a] = IF k = id /\ a = c /\ signer[c] > credit[id][c] THEN signer[c]
                              ELSE credit[k][a]
         /\ UNCHANGED <<nextSettlementId, disputed, initialized>>
  BY DEF TypeOK, approve_settlement, SettlementFrame

LEMMA MerchantEffect ==
  ASSUME TypeOK, NEW c \in Address, NEW m \in Address, NEW id \in Id,
         update_settlement_merchant(c, id, m), NEW k \in Id
  PROVE  /\ settlement'[k] = IF k = id THEN [settlement[k] EXCEPT !.merchant = m]
                             ELSE settlement[k]
         /\ UNCHANGED <<credit, nextSettlementId, disputed, initialized>>
  BY DEF TypeOK, update_settlement_merchant, SettlementFrame

LEMMA ProposeEffect ==
  ASSUME TypeOK, NEW c \in Address, NEW m \in Address, NEW t \in Token, NEW n \in Amount,
         propose_settlement(c, t, n, m), NEW k \in Id
  PROVE  /\ settlement'[k] = IF k = nextSettlementId THEN NewSettlement(c, t, n, m)
                             ELSE settlement[k]
         /\ credit'[k] = IF k = nextSettlementId THEN [a \in Address |-> 0] ELSE credit[k]
         /\ nextSettlementId' = nextSettlementId + 1 /\ UNCHANGED initialized
         /\ disputed' = disputed \ {nextSettlementId}
  BY DEF TypeOK, propose_settlement, NewId

\* A stored record keeps being stored when one of its fields is rewritten.
LEMMA StillStored ==
  ASSUME NEW s \in Settlement
  PROVE  /\ \A st : [s EXCEPT !.status = st] # NoSettlement
         /\ \A w : [s EXCEPT !.approval_weight = w] # NoSettlement
         /\ \A m : [s EXCEPT !.merchant = m] # NoSettlement
<1>1. ASSUME NEW st PROVE [s EXCEPT !.status = st] # NoSettlement
  <2>1. "token" \in DOMAIN [s EXCEPT !.status = st]
    BY DEF Settlement
  <2> QED
    BY <2>1 DEF NoSettlement
<1>2. ASSUME NEW w PROVE [s EXCEPT !.approval_weight = w] # NoSettlement
  <2>1. "token" \in DOMAIN [s EXCEPT !.approval_weight = w]
    BY DEF Settlement
  <2> QED
    BY <2>1 DEF NoSettlement
<1>3. ASSUME NEW m PROVE [s EXCEPT !.merchant = m] # NoSettlement
  <2>1. "token" \in DOMAIN [s EXCEPT !.merchant = m]
    BY DEF Settlement
  <2> QED
    BY <2>1 DEF NoSettlement
<1> QED
  BY <1>1, <1>2, <1>3

\* The id counter and the votes are inductive together with the types.
SettlementInv == TypeOK /\ IdsAllocated /\ WeightHasVoters

LEMMA SettlementStepInv == SettlementInv /\ [Next]_vars => SettlementInv'
<1> SUFFICES ASSUME SettlementInv, [Next]_vars PROVE IdsAllocated' /\ WeightHasVoters'
  BY NextType DEF SettlementInv
<1> USE TreasuryConstants DEF SettlementInv
<1>0. TypeOK'
  BY NextType
<1>1. CASE StoreUntouched
  <2>1. IdsAllocated'
    BY <1>1 DEF StoreUntouched, IdsAllocated, Exists, TypeOK, Id
  <2>2. WeightHasVoters'
    BY <1>1 DEF StoreUntouched, WeightHasVoters, Exists
  <2> QED
    BY <2>1, <2>2
<1>2. ASSUME NEW c \in Address, NEW m \in Address, NEW t \in Token, NEW n \in Amount,
             propose_settlement(c, t, n, m)
      PROVE  IdsAllocated' /\ WeightHasVoters'
  <2>1. NewSettlement(c, t, n, m) # NoSettlement
    <3>1. "token" \in DOMAIN NewSettlement(c, t, n, m)
      BY DEF NewSettlement
    <3> QED
      BY <3>1 DEF NoSettlement
  <2>2. NewSettlement(c, t, n, m).approval_weight = 0
    BY DEF NewSettlement
  <2>3. IdsAllocated'
    BY <1>2, <2>1, ProposeEffect DEF IdsAllocated, Exists, TypeOK, Id
  <2>4. WeightHasVoters'
    BY <1>2, <2>2, ProposeEffect DEF WeightHasVoters, Exists
  <2> QED
    BY <2>3, <2>4
<1>3. ASSUME NEW c \in Address, NEW id \in Id, approve_settlement(c, id)
      PROVE  IdsAllocated' /\ WeightHasVoters'
  <2>1. settlement[id] \in Settlement
    BY <1>3, StoredType DEF approve_settlement, IsPending
  <2>e. \A k \in Id :
          /\ settlement'[k] = IF k = id
                               THEN [settlement[k] EXCEPT !.approval_weight = @ + signer[c]]
                               ELSE settlement[k]
          /\ \A a \in Address :
               credit'[k][a] = IF k = id /\ a = c /\ signer[c] > credit[id][c] THEN signer[c]
                               ELSE credit[k][a]
    BY <1>3, ApproveEffect
  <2>u. UNCHANGED <<nextSettlementId, initialized>>
    BY <1>3 DEF approve_settlement, SettlementFrame
  <2>x. Exists(id)
    BY <1>3 DEF approve_settlement, IsPending
  <2>k. \A k \in Id : Exists(k)' <=> Exists(k)
    <3>1. \A k \in Id : k # id => settlement'[k] = settlement[k]
      BY <2>e
    <3>2. PICK w : settlement'[id] = [settlement[id] EXCEPT !.approval_weight = w]
      BY <2>e
    <3>3. settlement'[id] # NoSettlement
      BY <2>1, <3>2, StillStored, Zenon
    <3> QED
      BY <2>x, <3>1, <3>3 DEF Exists
  <2>2. IdsAllocated'
    BY <2>k, <2>u DEF IdsAllocated
  <2>3. WeightHasVoters'
    <3> SUFFICES ASSUME NEW k \in Id, Exists(k)'
                 PROVE  /\ \A a \in Address : credit'[k][a] <= settlement'[k].approval_weight
                        /\ settlement'[k].approval_weight > 0
                             => \E a \in Address : credit'[k][a] > 0
      BY DEF WeightHasVoters
    <3>1. CASE k # id
      <4>1. settlement'[k] = settlement[k] /\ Exists(k)
        BY <2>e, <2>k, <3>1
      <4>2. \A a \in Address : credit'[k][a] = credit[k][a]
        BY <2>e, <3>1
      <4> QED
        BY <4>1, <4>2 DEF WeightHasVoters
    <3>2. CASE k = id
      <4>1. /\ settlement[id].approval_weight \in Nat /\ signer[c] \in Nat
            /\ \A a \in Address : credit[id][a] \in Nat
        BY <2>1 DEF Settlement, TypeOK, U64
      <4>2. settlement'[id].approval_weight = settlement[id].approval_weight + signer[c]
        BY <2>1, <2>e DEF Settlement
      <4>3. \A a \in Address : credit'[id][a] = IF a = c /\ signer[c] > credit[id][c]
                                                THEN signer[c] ELSE credit[id][a]
        BY <2>e
      <4>4. /\ \A a \in Address : credit[id][a] <= settlement[id].approval_weight
            /\ settlement[id].approval_weight > 0 => \E a \in Address : credit[id][a] > 0
        BY <1>3 DEF WeightHasVoters, approve_settlement, IsPending
      <4>5. \A a \in Address : credit'[id][a] <= settlement'[id].approval_weight
        BY <4>1, <4>2, <4>3, <4>4
      <4>6. CASE signer[c] > 0
        <5>1. credit'[id][c] > 0
          BY <4>1, <4>3, <4>6
        <5> QED
          BY <3>2, <4>5, <5>1
      <4>7. CASE signer[c] = 0
        <5>1. settlement'[id].approval_weight = settlement[id].approval_weight
          BY <4>1, <4>2, <4>7
        <5>2. \A a \in Address : credit'[id][a] = credit[id][a]
          BY <4>1, <4>3, <4>7
        <5> QED
          BY <3>2, <4>4, <4>5, <5>1, <5>2
      <4> QED
        BY <4>1, <4>6, <4>7
    <3> QED
      BY <3>1, <3>2
  <2> QED
    BY <2>2, <2>3
<1>4. ASSUME NEW c \in Address, NEW m \in Address, NEW id \in Id,
             update_settlement_merchant(c, id, m)
      PROVE  IdsAllocated' /\ WeightHasVoters'
  <2>1. settlement[id] \in Settlement
    BY <1>4, StoredType DEF update_settlement_merchant, IsPending
  <2>2. Exists(id) /\ [settlement[id] EXCEPT !.merchant = m].approval_weight
                        = settlement[id].approval_weight
    BY <1>4, <2>1 DEF update_settlement_merchant, IsPending, Settlement
  <2>e. \A k \in Id : settlement'[k] = IF k = id THEN [settlement[k] EXCEPT !.merchant = m]
                                         ELSE settlement[k]
    BY <1>4, MerchantEffect
  <2>u. UNCHANGED <<credit, nextSettlementId, initialized>>
    BY <1>4 DEF update_settlement_merchant, SettlementFrame
  <2>k. \A k \in Id : Exists(k)' <=> Exists(k)
    BY <2>1, <2>2, <2>e, StillStored DEF Exists
  <2>w. \A k \in Id : settlement'[k].approval_weight = settlement[k].approval_weight
    BY <2>2, <2>e
  <2> QED
    BY <2>k, <2>u, <2>w DEF IdsAllocated, WeightHasVoters
<1>5. ASSUME NEW id \in Id, NEW st \in SettlementStatus, StatusChange(id, st)
      PROVE  IdsAllocated' /\ WeightHasVoters'
  <2>1. settlement[id] \in Settlement
    BY <1>5, StoredType DEF StatusChange
  <2>2. Exists(id) /\ [settlement[id] EXCEPT !.status = st].approval_weight
                        = settlement[id].approval_weight
    BY <1>5, <2>1 DEF StatusChange, Settlement
  <2>3. UNCHANGED <<credit, nextSettlementId, initialized>>
    BY <1>5 DEF StatusChange
  <2>e. \A k \in Id : settlement'[k] = IF k = id THEN [settlement[k] EXCEPT !.status = st]
                                         ELSE settlement[k]
    BY <1>5, StatusEffect
  <2>k. \A k \in Id : Exists(k)' <=> Exists(k)
    BY <2>1, <2>2, <2>e, StillStored DEF Exists
  <2>w. \A k \in Id : settlement'[k].approval_weight = settlement[k].approval_weight
    BY <2>2, <2>e
  <2> QED
    BY <2>3, <2>k, <2>w DEF IdsAllocated, WeightHasVoters
<1> QED
  BY <1>1, <1>2, <1>3, <1>4, <1>5, SettlementSteps

LEMMA SettlementAlways == Spec => []SettlementInv
<1>1. Init => SettlementInv
  BY InitType, TreasuryConstants DEF Init, SettlementInv, IdsAllocated, WeightHasVoters, Exists, Id
<1> QED
  BY <1>1, SettlementStepInv, PTL DEF Spec

\* Every id below the counter names a stored settlement, and nothing is stored
\* at or above it until initialize resets the counter.
THEOREM IdsStayAllocated == Spec => []IdsAllocated
  BY SettlementAlways, PTL DEF SettlementInv

\* No settlement carries approval weight that nobody voted, through any number
\* of disputes, resolutions and signer changes.
THEOREM WeightAlwaysHasVoters == Spec => []WeightHasVoters
  BY SettlementAlways, PTL DEF SettlementInv

\* One step, seen from one stored settlement.
LEMMA SettlementActions ==
  ASSUME SettlementInv, [Next]_vars, NEW k \in Id
  PROVE  TermsKept(k) /\ ExecutedWithQuorum(k)
<1> USE DEF SettlementInv
<1>0. /\ Exists(k) => settlement[k] \in Settlement
      /\ k < nextSettlementId => Exists(k)
  BY StoredType DEF IdsAllocated
<1>1. ASSUME settlement'[k] = settlement[k]
      PROVE  TermsKept(k) /\ ExecutedWithQuorum(k)
  <2>1. TermsKept(k)
    BY <1>0, <1>1 DEF TermsKept, Settlement, U64
  <2>2. ExecutedWithQuorum(k)
    BY <1>1 DEF ExecutedWithQuorum
  <2> QED
    BY <2>1, <2>2
<1>2. CASE StoreUntouched
  BY <1>1, <1>2 DEF StoreUntouched
<1>3. ASSUME NEW c \in Address, NEW m \in Address, NEW t \in Token, NEW n \in Amount,
             propose_settlement(c, t, n, m)
      PROVE  TermsKept(k) /\ ExecutedWithQuorum(k)
  <2>1. CASE k # nextSettlementId
    BY <1>1, <1>3, <2>1, ProposeEffect
  <2>2. CASE k = nextSettlementId
    <3>1. settlement'[k].status = "Pending"
      <4>1. settlement'[k] = NewSettlement(c, t, n, m)
        BY <1>3, <2>2, ProposeEffect
      <4> QED
        BY <4>1 DEF NewSettlement
    <3>2. ~(k < nextSettlementId)
      BY <2>2 DEF TypeOK
    <3> QED
      BY <3>1, <3>2 DEF TermsKept, ExecutedWithQuorum
  <2> QED
    BY <2>1, <2>2
<1>4. ASSUME NEW c \in Address, NEW id \in Id, approve_settlement(c, id)
      PROVE  TermsKept(k) /\ ExecutedWithQuorum(k)
  <2>1. CASE k # id
    <3>1. settlement'[k] = settlement[k]
      BY <1>4, <2>1, ApproveEffect
    <3> QED
      BY <1>1, <3>1
  <2>2. CASE k = id
    <3>1. Exists(k) /\ settlement[k] \in Settlement /\ settlement[k].status = "Pending"
      BY <1>0, <1>4, <2>2 DEF approve_settlement, IsPending
    <3>2. settlement'[k] = [settlement[k] EXCEPT !.approval_weight = @ + signer[c]]
      BY <1>4, <2>2, ApproveEffect
    <3>3. signer[c] \in Nat /\ settlement[k].approval_weight \in Nat
      BY <3>1 DEF TypeOK, Settlement, U64
    <3>4. TermsKept(k)
      BY <3>1, <3>2, <3>3 DEF TermsKept, Settlement
    <3>5. ExecutedWithQuorum(k)
      BY <3>1, <3>2 DEF ExecutedWithQuorum, Settlement
    <3> QED
      BY <3>4, <3>5
  <2> QED
    BY <2>1, <2>2
<1>5. ASSUME NEW c \in Address, NEW m \in Address, NEW id \in Id,
             update_settlement_merchant(c, id, m)
      PROVE  TermsKept(k) /\ ExecutedWithQuorum(k)
  <2>1. CASE k # id
    <3>1. settlement'[k] = settlement[k]
      BY <1>5, <2>1 DEF update_settlement_merchant, TypeOK
    <3> QED
      BY <1>1, <3>1
  <2>2. CASE k = id
    <3>1. Exists(k) /\ settlement[k] \in Settlement /\ settlement[k].status = "Pending"
      BY <1>0, <1>5, <2>2 DEF update_settlement_merchant, IsPending
    <3>2. settlement'[k] = [settlement[k] EXCEPT !.merchant = m]
      BY <1>5, <2>2, MerchantEffect
    <3>3. TermsKept(k)
      BY <3>1, <3>2 DEF TermsKept, Settlement, U64
    <3>4. ExecutedWithQuorum(k)
      BY <3>1, <3>2 DEF ExecutedWithQuorum, Settlement
    <3> QED
      BY <3>3, <3>4
  <2> QED
    BY <2>1, <2>2
<1>6. ASSUME NEW id \in Id, NEW st \in SettlementStatus, StatusChange(id, st)
      PROVE  TermsKept(k) /\ ExecutedWithQuorum(k)
  <2>1. CASE k # id
    <3>1. settlement'[k] = settlement[k]
      BY <1>6, <2>1, StatusEffect
    <3> QED
      BY <1>1, <3>1
  <2>2. CASE k = id
    <3>1. Exists(k) /\ settlement[k] \in Settlement
      BY <1>0, <1>6, <2>2 DEF StatusChange
    <3>2. settlement'[k] = [settlement[k] EXCEPT !.status = st]
      BY <1>6, <2>2, StatusEffect
    <3>3. TermsKept(k)
      BY <3>1, <3>2 DEF TermsKept, Settlement, U64
    <3>4. ExecutedWithQuorum(k)
      <4> SUFFICES ASSUME settlement'[k].status = "Executed"
                   PROVE  ExecutedWithQuorum(k)
        BY DEF ExecutedWithQuorum
      <4>1. st = "Executed"
        BY <3>1, <3>2 DEF Settlement
      <4>2. Executable(k)
        BY <1>6, <2>2, <4>1 DEF StatusChange
      <4>3. threshold \in Nat /\ settlement[k].approval_weight \in Nat
        BY <3>1 DEF TypeOK, Settlement, U64
      <4>4. threshold > 0 => settlement[k].approval_weight > 0
        BY <4>2, <4>3 DEF Executable
      <4>5. threshold > 0 => \E a \in Address : credit[k][a] > 0
        BY <3>1, <4>4 DEF WeightHasVoters
      <4> QED
        BY <4>2, <4>5 DEF ExecutedWithQuorum, Executable, NotExpired
    <3> QED
      BY <3>3, <3>4
  <2> QED
    BY <2>1, <2>2
<1> QED
  BY <1>2, <1>3, <1>4, <1>5, <1>6, SettlementSteps

\* The terms signers vote on cannot change under their votes.
THEOREM TermsStayFixed == Spec => ProposalTermsFixed
<1>1. SettlementInv /\ [Next]_vars => [\A id \in Id : TermsKept(id)]_vars
  BY SettlementActions
<1> QED
  BY <1>1, SettlementAlways, PTL DEF Spec, ProposalTermsFixed

\* An open dispute shows in the status.
Held == \A id \in disputed : settlement[id].status = "OnHold"

HeldInv == SettlementInv /\ Held

\* One step, seen from one disputed settlement.
LEMMA HeldActions ==
  ASSUME HeldInv, [Next]_vars, NEW k \in disputed
  PROVE  HeldUntilResolved(k)
<1> USE DEF HeldInv, SettlementInv
<1>0. /\ k \in Id /\ settlement[k].status = "OnHold" /\ Exists(k)
      /\ settlement[k] \in Settlement
  <2>1. k \in Id /\ settlement[k].status = "OnHold"
    BY DEF Held, TypeOK
  <2>2. Exists(k)
    BY <2>1 DEF Exists, NoSettlement
  <2> QED
    BY <2>1, <2>2, StoredType
<1>1. ASSUME settlement'[k] = settlement[k], k \in disputed' PROVE HeldUntilResolved(k)
  BY <1>0, <1>1 DEF HeldUntilResolved
<1>2. CASE StoreUntouched
  BY <1>1, <1>2 DEF StoreUntouched
<1>3. ASSUME NEW c \in Address, NEW m \in Address, NEW t \in Token, NEW n \in Amount,
             propose_settlement(c, t, n, m)
      PROVE  HeldUntilResolved(k)
  <2>1. CASE k # nextSettlementId
    BY <1>0, <1>1, <1>3, <2>1, ProposeEffect
  <2>2. CASE k = nextSettlementId
    <3>1. initialized > 0
      BY <1>0, <2>2, TreasuryConstants DEF IdsAllocated, TypeOK
    <3>2. k \notin disputed'
      BY <1>0, <1>3, <2>2, ProposeEffect
    <3> QED
      BY <1>0, <2>2, <3>1, <3>2 DEF HeldUntilResolved
  <2> QED
    BY <2>1, <2>2
<1>4. ASSUME NEW c \in Address, NEW id \in Id, approve_settlement(c, id)
      PROVE  HeldUntilResolved(k)
  <2>1. k # id
    BY <1>0, <1>4 DEF approve_settlement, IsPending
  <2> QED
    BY <1>0, <1>1, <1>4, <2>1, ApproveEffect
<1>5. ASSUME NEW c \in Address, NEW m \in Address, NEW id \in Id,
             update_settlement_merchant(c, id, m)
      PROVE  HeldUntilResolved(k)
  <2>1. k # id
    BY <1>0, <1>5 DEF update_settlement_merchant, IsPending
  <2>2. settlement'[k] = settlement[k] /\ disputed' = disputed
    BY <1>0, <1>5, <2>1 DEF update_settlement_merchant, TypeOK
  <2> QED
    BY <1>1, <2>2
<1>6. ASSUME NEW id \in Id, NEW st \in SettlementStatus, StatusChange(id, st)
      PROVE  HeldUntilResolved(k)
  <2>1. settlement'[k] = IF k = id THEN [settlement[k] EXCEPT !.status = st] ELSE settlement[k]
    BY <1>0, <1>6, StatusEffect
  <2>2. CASE k # id
    BY <1>1, <1>6, <2>1, <2>2 DEF StatusChange
  <2>3. CASE k = id /\ st = "OnHold" /\ disputed' = disputed \cup {id}
    <3>1. settlement'[k] = settlement[k]
      BY <1>0, <2>1, <2>3 DEF Settlement
    <3> QED
      BY <1>1, <2>3, <3>1
  <2>4. CASE k = id /\ st \in {"Pending", "Cancelled"} /\ disputed' = disputed \ {id}
    <3>1. settlement'[k] = [settlement[k] EXCEPT !.status = st] /\ k \notin disputed'
      BY <2>1, <2>4
    <3>2. st = "Pending" \/ st = "Cancelled"
      BY <2>4
    <3>3. \E st2 \in {"Pending", "Cancelled"} :
            settlement'[k] = [settlement[k] EXCEPT !.status = st2]
      BY <3>1, <3>2, Zenon
    <3> QED
      BY <1>0, <3>1, <3>3 DEF HeldUntilResolved
  <2>5. CASE k = id
    <3>1. ~(settlement[id].status = "Pending" \/ Executable(id))
      BY <1>0, <2>5 DEF Executable, IsPending
    <3> QED
      BY <1>6, <2>3, <2>4, <2>5, <3>1 DEF StatusChange
  <2> QED
    BY <2>2, <2>5
<1> QED
  BY <1>2, <1>3, <1>4, <1>5, <1>6, SettlementSteps

LEMMA HeldStepInv == HeldInv /\ [Next]_vars => HeldInv'
<1> SUFFICES ASSUME HeldInv, [Next]_vars, NEW k \in disputed' PROVE settlement'[k].status = "OnHold"
  BY SettlementStepInv DEF HeldInv, Held
<1>1. CASE k \in disputed
  BY <1>1, HeldActions DEF HeldUntilResolved
<1>2. CASE k \notin disputed
  <2> USE DEF HeldInv, SettlementInv
  <2>1. ~StoreUntouched
    BY <1>2 DEF StoreUntouched
  <2>2. ~\E c, m \in Address, t \in Token, n \in Amount : propose_settlement(c, t, n, m)
    BY <1>2 DEF propose_settlement
  <2>3. ~\E c \in Address, id \in Id : approve_settlement(c, id)
    BY <1>2 DEF approve_settlement
  <2>4. ~\E c, m \in Address, id \in Id : update_settlement_merchant(c, id, m)
    BY <1>2 DEF update_settlement_merchant
  <2>5. PICK id \in Id, st \in SettlementStatus : StatusChange(id, st)
    BY <2>1, <2>2, <2>3, <2>4, SettlementSteps
  <2>6. k = id /\ st = "OnHold" /\ Exists(id)
    BY <1>2, <2>5 DEF StatusChange
  <2>7. settlement[k] \in Settlement
    BY <2>6, StoredType
  <2>8. settlement'[k] = [settlement[k] EXCEPT !.status = "OnHold"]
    BY <2>5, <2>6, StatusEffect
  <2> QED
    BY <2>7, <2>8 DEF Settlement
<1> QED
  BY <1>1, <1>2

LEMMA HeldAlways == Spec => []HeldInv
<1>1. Init => Held
  BY DEF Init, Held
<1>2. Init => HeldInv
  BY <1>1, InitType, TreasuryConstants
     DEF Init, HeldInv, SettlementInv, IdsAllocated, WeightHasVoters, Exists, Id
<1> QED
  BY <1>2, HeldStepInv, PTL DEF Spec

\* Between raise_dispute and resolve_dispute nothing reaches the settlement, except a
\* proposal stored over it after initialize restarted the ids.
THEOREM DisputedStaysFrozen == Spec => HoldFreezes
<1>1. HeldInv /\ [Next]_vars => [\A id \in Id : HeldUntilResolved(id)]_vars
  BY HeldActions DEF HeldUntilResolved
<1> QED
  BY <1>1, HeldAlways, PTL DEF Spec, HoldFreezes

\* Whatever happened to the proposal before, an execution is in time, meets
\* the threshold in force and rests on a vote.
THEOREM ExecutionNeedsQuorum == Spec => ExecutionHasQuorum
<1>1. SettlementInv /\ [Next]_vars => [\A id \in Id : ExecutedWithQuorum(id)]_vars
  BY SettlementActions
<1> QED
  BY <1>1, SettlementAlways, PTL DEF Spec, ExecutionHasQuorum
-----------------------------------------------------------------------------
(* Pause and the withdrawal window.                                          *)

\* No entry point but unpause and initialize gets through a pause.
THEOREM PauseStopsEverything == Spec => PauseFreezes
<1>1. [Next]_vars /\ paused /\ paused'
        => UNCHANGED <<adminVars, signerVars, proposalVars, vaultVars, initialized>>
  <2> SUFFICES ASSUME [Next]_vars, paused, paused'
               PROVE  UNCHANGED <<adminVars, signerVars, proposalVars, vaultVars, initialized>>
    OBVIOUS
  <2> USE DEF check_not_paused
  <2>1. CASE AdminStep
    BY <2>1 DEF AdminStep, upgrade, transfer_admin, accept_admin, initialize, pause, unpause
  <2>2. CASE SignerStep
    BY <2>2 DEF SignerStep, set_signer, rotate_signer, update_threshold
  <2>3. CASE SettlementStep
    BY <2>3 DEF SettlementStep, set_settlement_ttl, propose_settlement, cancel_settlement,
       approve_settlement, execute_settlement, Executable, raise_dispute, resolve_dispute,
       update_settlement_merchant
  <2>4. CASE VaultStep
    BY <2>4 DEF VaultStep, add_token_to_allowlist, remove_token_from_allowlist, deposit,
       set_daily_withdraw_limit, withdraw
  <2>5. CASE Tick \/ UNCHANGED vars
    BY <2>5 DEF Tick, vars
  <2> QED
    BY <2>1, <2>2, <2>3, <2>4, <2>5 DEF Next
<1> QED
  BY <1>1, PTL DEF Spec, PauseFreezes

LEMMA WindowStep == TypeOK /\ WindowHasLimit /\ [Next]_vars => WindowHasLimit'
<1> SUFFICES ASSUME TypeOK, WindowHasLimit, [Next]_vars PROVE WindowHasLimit'
  OBVIOUS
<1> USE TreasuryConstants
<1> DEFINE Same == UNCHANGED <<dailyLimit, withdrawWindow, now>>
<1>1. CASE Same
  BY <1>1 DEF WindowHasLimit
<1>2. CASE AdminStep \/ SignerStep \/ SettlementStep
  <2>1. Same
    BY <1>2 DEF AdminStep, upgrade, transfer_admin, accept_admin, initialize, pause, unpause,
       SignerStep, set_signer, rotate_signer, update_threshold, SettlementStep, set_settlement_ttl,
       propose_settlement, cancel_settlement, approve_settlement, execute_settlement,
       raise_dispute, resolve_dispute, update_settlement_merchant, SettlementFrame, vaultVars
  <2> QED
    BY <1>1, <2>1
<1>3. ASSUME NEW c \in Address, NEW t \in Token,
             \/ add_token_to_allowlist(c, t) \/ remove_token_from_allowlist(c, t)
             \/ \E n \in Amount : deposit(c, t, n)
      PROVE  WindowHasLimit'
  <2>1. Same
    BY <1>3 DEF add_token_to_allowlist, remove_token_from_allowlist, deposit
  <2> QED
    BY <1>1, <2>1
<1>4. ASSUME NEW c \in Address, NEW t \in Token, NEW n \in Limit,
             set_daily_withdraw_limit(c, t, n)
      PROVE  WindowHasLimit'
  BY <1>4 DEF set_daily_withdraw_limit, WindowUnder, WindowHasLimit, TypeOK, U64
<1>5. ASSUME NEW c \in Address, NEW t \in Token, NEW to \in Address, NEW n \in Amount,
             withdraw(c, t, to, n)
      PROVE  WindowHasLimit'
  <2>1. CurrentWindow(t) \in WithdrawWindow /\ CurrentWindow(t).window_start <= now
    BY DEF CurrentWindow, WithdrawWindow, WindowHasLimit, TypeOK, U64, Time
  <2>2. SpentWindow(t, n).window_start <= now
    BY <2>1 DEF SpentWindow, WithdrawWindow
  <2>3. dailyLimit[t] # 0 => dailyLimit[t] > 0
    BY DEF TypeOK, U64
  <2> QED
    BY <1>5, <2>2, <2>3 DEF withdraw, WindowHasLimit, TypeOK
<1>6. CASE Tick
  BY <1>6 DEF Tick, vaultVars, WindowHasLimit, TypeOK, Time, WithdrawWindow
<1>7. CASE UNCHANGED vars
  BY <1>1, <1>7 DEF vars, vaultVars
<1> QED
  BY <1>2, <1>3, <1>4, <1>5, <1>6, <1>7 DEF Next, VaultStep

\* A withdrawal window always belongs to a configured cap and never starts in
\* the future.
THEOREM WindowAlwaysHasLimit == Spec => []WindowHasLimit
<1>1. Init => WindowHasLimit
  BY DEF Init, WindowHasLimit
<1> QED
  BY <1>1, TypeCorrect, WindowStep, PTL DEF Spec

-----------------------------------------------------------------------------
(* The withdrawals of a rolling window.                                      *)

\* The times after "since" that fall in a window which started at "start", and the
\* ones within WINDOW_SECONDS before it.
InWindow(start, since) == {s \in Time : s > since /\ s >= start}
JustBefore(start, since) == {s \in Time : s > since /\ s < start /\ start < s + WINDOW_SECONDS}

\* Nothing is withdrawn in the future.
Clear(out, n) == \A s \in Time : s > n => out[s] = 0

\* What the window w says of the withdrawals "out" since the cap was set: it counts
\* all that left after its start, nothing left once it was over, and what left just
\* before it was one window's worth.
Metered(out, w, limit, since) ==
  /\ w = NoWindow => Clear(out, since)
  /\ w # NoWindow =>
       /\ SumFunctionOnSet(out, InWindow(w.window_start, since)) <= w.spent
       /\ SumFunctionOnSet(out, InWindow(w.window_start, since)) <= limit
       /\ SumFunctionOnSet(out, JustBefore(w.window_start, since)) <= limit
       /\ \A s \in Time : s > since /\ s >= w.window_start + WINDOW_SECONDS => out[s] = 0

OutflowInv ==
  \A t \in Token :
    /\ Clear(outflow[t], now)
    /\ dailyLimit[t] > 0 => Metered(outflow[t], withdrawWindow[t], dailyLimit[t], limitSince[t])

LEMMA TimesFinite ==
  /\ IsFiniteSet(Time) /\ Time \subseteq Nat
  /\ \A S \in SUBSET Time : IsFiniteSet(S)
<1>1. IsFiniteSet(Time)
  BY FS_Interval, TreasuryConstants DEF Time
<1>2. Time \subseteq Nat
  BY TreasuryConstants DEF Time
<1> QED
  BY <1>1, <1>2, FS_Subset

LEMMA WindowIsRecord ==
  ASSUME NEW start \in Time, NEW spent \in Nat
  PROVE  [window_start |-> start, spent |-> spent] # NoWindow
<1>1. DOMAIN [window_start |-> start, spent |-> spent] = {"window_start", "spent"}
  OBVIOUS
<1>2. DOMAIN NoWindow = {"spent"}
  BY DEF NoWindow
<1> QED
  BY <1>1, <1>2

\* A cap that is set now meters nothing yet, whatever window it finds.
LEMMA MeteredFromNow ==
  ASSUME NEW out \in [Time -> Nat], NEW n \in Time, Clear(out, n), NEW limit \in Nat,
         NEW w \in WithdrawWindow \cup {NoWindow}
  PROVE  Metered(out, w, limit, n)
<1>1. ASSUME NEW S \in SUBSET Time, \A s \in S : s > n PROVE SumFunctionOnSet(out, S) = 0
  <2>1. \A s \in S : out[s] = 0
    BY <1>1 DEF Clear
  <2> QED
    BY <2>1, TimesFinite, SumOfZeros
<1>2. CASE w = NoWindow
  BY <1>2 DEF Metered
<1>3. CASE w # NoWindow
  <2>1. w.window_start \in Time /\ w.spent \in Nat
    BY <1>3 DEF WithdrawWindow, U64
  <2>2. /\ SumFunctionOnSet(out, InWindow(w.window_start, n)) = 0
        /\ SumFunctionOnSet(out, JustBefore(w.window_start, n)) = 0
    BY <1>1 DEF InWindow, JustBefore
  <2> QED
    BY <1>3, <2>1, <2>2 DEF Metered, Clear
<1> QED
  BY <1>2, <1>3

\* A withdrawal of n at time m that the window w, which is still open, has room for.
LEMMA MeteredOpen ==
  ASSUME NEW out \in [Time -> Nat], NEW m \in Time, NEW n \in Nat, NEW limit \in Nat,
         NEW since \in Time, NEW start \in Time, NEW spent \in Nat,
         start <= m, m < start + WINDOW_SECONDS, spent + n <= limit,
         Metered(out, [window_start |-> start, spent |-> spent], limit, since)
  PROVE  Metered([out EXCEPT ![m] = out[m] + n],
                 [window_start |-> start, spent |-> spent + n], limit, since)
<1> DEFINE out2 == [out EXCEPT ![m] = out[m] + n]
           w == [window_start |-> start, spent |-> spent]
           w2 == [window_start |-> start, spent |-> spent + n]
           I == InWindow(start, since)
           J == JustBefore(start, since)
<1>1. w # NoWindow /\ w2 # NoWindow /\ spent + n \in Nat
  BY WindowIsRecord
<1>2. /\ SumFunctionOnSet(out, I) <= spent
      /\ SumFunctionOnSet(out, J) <= limit
      /\ \A s \in Time : s > since /\ s >= start + WINDOW_SECONDS => out[s] = 0
  <2>1. w.window_start = start /\ w.spent = spent
    OBVIOUS
  <2> HIDE DEF w
  <2> QED
    BY <1>1, <2>1 DEF Metered, w
<1>3. I \in SUBSET Time /\ J \in SUBSET Time /\ IsFiniteSet(I) /\ IsFiniteSet(J) /\ m \notin J
  <2>1. I \in SUBSET Time /\ J \in SUBSET Time /\ m \notin J
    BY TreasuryConstants DEF InWindow, JustBefore, Time
  <2> QED
    BY <2>1, TimesFinite
<1>4. (\A s \in Time : s # m => out2[s] = out[s]) /\ out2[m] = out[m] + n
  OBVIOUS
<1> HIDE DEF out2, I, J, w, w2
<1>5. /\ SumFunctionOnSet(out2, I) <= SumFunctionOnSet(out, I) + n
      /\ SumFunctionOnSet(out, I) \in Nat /\ SumFunctionOnSet(out2, I) \in Nat
  BY <1>3, <1>4, SumGrows
<1>6. SumFunctionOnSet(out2, J) = SumFunctionOnSet(out, J)
  BY <1>3, <1>4, SumGrows
<1>7. \A s \in Time : s > since /\ s >= start + WINDOW_SECONDS => out2[s] = 0
  <2> SUFFICES ASSUME NEW s \in Time, s > since, s >= start + WINDOW_SECONDS PROVE out2[s] = 0
    OBVIOUS
  <2>1. s # m
    BY TreasuryConstants DEF Time
  <2> QED
    BY <1>2, <1>4, <2>1
<1>8. SumFunctionOnSet(out2, I) <= spent + n /\ SumFunctionOnSet(out2, I) <= limit
  BY <1>2, <1>5
<1>9. w2.window_start = start /\ w2.spent = spent + n
  BY DEF w2
<1>10. Metered(out2, w2, limit, since)
  BY <1>1, <1>2, <1>6, <1>7, <1>8, <1>9 DEF Metered, I, J
<1> QED
  BY <1>10 DEF out2, w2

\* A withdrawal of n at time m that opens a new window: there was none, or the one
\* stored is over.
LEMMA MeteredNew ==
  ASSUME NEW out \in [Time -> Nat], NEW m \in Time, NEW n \in Nat, NEW limit \in Nat,
         NEW since \in Time, NEW w \in WithdrawWindow \cup {NoWindow},
         w # NoWindow => w.window_start + WINDOW_SECONDS <= m,
         Clear(out, m), n <= limit, Metered(out, w, limit, since)
  PROVE  Metered([out EXCEPT ![m] = out[m] + n], [window_start |-> m, spent |-> n], limit, since)
<1> DEFINE out2 == [out EXCEPT ![m] = out[m] + n]
           w2 == [window_start |-> m, spent |-> n]
           I == InWindow(m, since)
           J == JustBefore(m, since)
<1>1. w2 # NoWindow /\ w2.window_start = m /\ w2.spent = n
  BY WindowIsRecord
<1>2. I \in SUBSET Time /\ J \in SUBSET Time /\ IsFiniteSet(I) /\ IsFiniteSet(J) /\ m \notin J
  <2>1. I \in SUBSET Time /\ J \in SUBSET Time /\ m \notin J
    BY TimesFinite DEF InWindow, JustBefore
  <2> QED
    BY <2>1, TimesFinite
<1>3. (\A s \in Time : s # m => out2[s] = out[s]) /\ out2[m] = out[m] + n
  OBVIOUS
<1>4. \A s \in I : out[s] = 0
  <2> SUFFICES ASSUME NEW s \in I PROVE out[s] = 0
    OBVIOUS
  <2>1. s \in Time /\ s > since /\ s >= m /\ s \in Nat /\ m \in Nat
    BY TimesFinite DEF InWindow
  <2>2. CASE w = NoWindow
    BY <2>1, <2>2 DEF Metered, Clear
  <2>3. CASE w # NoWindow
    <3>1. w.window_start \in Nat
      BY <2>3, TimesFinite DEF WithdrawWindow
    <3>2. s >= w.window_start + WINDOW_SECONDS
      BY <2>1, <2>3, <3>1, TreasuryConstants
    <3> QED
      BY <2>1, <2>3, <3>2 DEF Metered
  <2> QED
    BY <2>2, <2>3
<1>5. SumFunctionOnSet(out, J) <= limit
  <2>1. CASE w = NoWindow
    <3>1. \A s \in J : out[s] = 0
      BY <2>1 DEF Metered, Clear, JustBefore
    <3>2. SumFunctionOnSet(out, J) = 0
      <4> HIDE DEF J
      <4> QED
        BY <1>2, <3>1, SumOfZeros
    <3> QED
      BY <3>2
  <2>2. CASE w # NoWindow
    <3> DEFINE K == InWindow(w.window_start, since)
    <3>1. w.window_start \in Nat
      BY <2>2, TimesFinite DEF WithdrawWindow
    <3>2. J \in SUBSET K /\ IsFiniteSet(K) /\ \A s \in K : out[s] \in Nat
      <4>1. ASSUME NEW s \in J PROVE s \in K
        <5>1. s \in Nat /\ m \in Nat /\ s \in Time /\ s > since /\ s < m /\ m < s + WINDOW_SECONDS
          BY TimesFinite DEF JustBefore
        <5>2. s >= w.window_start
          BY <2>2, <3>1, <5>1, TreasuryConstants
        <5> QED
          BY <5>1, <5>2 DEF InWindow
      <4>2. K \in SUBSET Time
        BY DEF InWindow
      <4>3. IsFiniteSet(K)
        BY <4>2, TimesFinite
      <4> QED
        BY <4>1, <4>2, <4>3
    <3>3. SumFunctionOnSet(out, K) <= limit
      BY <2>2 DEF Metered
    <3> HIDE DEF J, K
    <3>4. SumFunctionOnSet(out, J) <= SumFunctionOnSet(out, K)
      BY <3>2, SumSubset
    <3>5. SumFunctionOnSet(out, J) \in Nat /\ SumFunctionOnSet(out, K) \in Nat
      BY <1>2, <3>2, SumIsNat
    <3> QED
      BY <3>3, <3>4, <3>5
  <2> QED
    BY <2>1, <2>2
<1> HIDE DEF out2, I, J, w2
<1>6. /\ SumFunctionOnSet(out2, I) <= SumFunctionOnSet(out, I) + n
      /\ SumFunctionOnSet(out2, I) \in Nat
  BY <1>2, <1>3, SumGrows
<1>7. SumFunctionOnSet(out, I) = 0
  BY <1>2, <1>4, SumOfZeros
<1>8. SumFunctionOnSet(out2, J) = SumFunctionOnSet(out, J)
  BY <1>2, <1>3, SumGrows
<1>9. SumFunctionOnSet(out2, I) <= n /\ SumFunctionOnSet(out2, I) <= limit
  BY <1>6, <1>7
<1>10. \A s \in Time : s > since /\ s >= m + WINDOW_SECONDS => out2[s] = 0
  <2> SUFFICES ASSUME NEW s \in Time, s >= m + WINDOW_SECONDS PROVE out2[s] = 0
    OBVIOUS
  <2>1. s # m /\ s > m
    BY TimesFinite, TreasuryConstants
  <2> QED
    BY <1>3, <2>1 DEF Clear
<1>11. Metered(out2, w2, limit, since)
  BY <1>1, <1>5, <1>8, <1>9, <1>10 DEF Metered, I, J
<1> QED
  BY <1>11 DEF out2, w2

\* What a metered cap promises once it is a whole window old.
LEMMA MeteredBound ==
  ASSUME NEW out \in [Time -> Nat], NEW n \in Time, NEW limit \in Nat, NEW since \in Time,
         NEW w \in WithdrawWindow \cup {NoWindow}, w # NoWindow => w.window_start <= n,
         since + WINDOW_SECONDS <= n, Metered(out, w, limit, since)
  PROVE  SumFunctionOnSet(out, {s \in Time : s <= n /\ n < s + WINDOW_SECONDS}) <= 2 * limit
<1> DEFINE R == {s \in Time : s <= n /\ n < s + WINDOW_SECONDS}
<1>1. ASSUME NEW s \in R PROVE s \in Time /\ s > since /\ s \in Nat /\ n < s + WINDOW_SECONDS
  BY TimesFinite, TreasuryConstants
<1>2. R \in SUBSET Time /\ IsFiniteSet(R)
  BY TimesFinite
<1>3. CASE w = NoWindow
  <2>1. \A s \in R : out[s] = 0
    BY <1>1, <1>3 DEF Metered, Clear
  <2>2. SumFunctionOnSet(out, R) = 0
    <3> HIDE DEF R
    <3> QED
      BY <1>2, <2>1, SumOfZeros
  <2> QED
    BY <2>2
<1>4. CASE w # NoWindow
  <2> DEFINE I == InWindow(w.window_start, since)
             J == JustBefore(w.window_start, since)
  <2>1. w.window_start \in Nat /\ n \in Nat
    BY <1>4, TimesFinite DEF WithdrawWindow
  <2>2. I \in SUBSET Time /\ J \in SUBSET Time /\ IsFiniteSet(I) /\ IsFiniteSet(J)
    <3>1. I \in SUBSET Time /\ J \in SUBSET Time
      BY DEF InWindow, JustBefore
    <3> QED
      BY <3>1, TimesFinite
  <2>3. R \subseteq I \cup J
    <3> SUFFICES ASSUME NEW s \in R PROVE s \in I \cup J
      OBVIOUS
    <3>1. s \in Time /\ s > since /\ s \in Nat /\ n < s + WINDOW_SECONDS
      BY <1>1
    <3>2. s < w.window_start => w.window_start < s + WINDOW_SECONDS
      BY <1>4, <2>1, <3>1, TreasuryConstants
    <3>3. s >= w.window_start \/ s < w.window_start
      BY <2>1, <3>1
    <3> QED
      BY <3>1, <3>2, <3>3 DEF InWindow, JustBefore
  <2>4. SumFunctionOnSet(out, I) <= limit /\ SumFunctionOnSet(out, J) <= limit
    BY <1>4 DEF Metered
  <2> HIDE DEF I, J, R
  <2>5. SumFunctionOnSet(out, R) <= SumFunctionOnSet(out, I) + SumFunctionOnSet(out, J)
    BY <2>2, <2>3, SumCover
  <2>6. SumFunctionOnSet(out, I) \in Nat /\ SumFunctionOnSet(out, J) \in Nat /\ SumFunctionOnSet(out, R) \in Nat
    BY <1>2, <2>2, SumIsNat
  <2>7. SumFunctionOnSet(out, R) <= 2 * limit
    BY <2>4, <2>5, <2>6
  <2> QED
    BY <2>7 DEF R
<1> QED
  BY <1>3, <1>4

\* The steps that touch neither caps, windows, withdrawals nor the clock.
OutflowSame == UNCHANGED <<dailyLimit, withdrawWindow, limitSince, outflow, now>>

LEMMA OutflowSteps ==
  ASSUME [Next]_vars
  PROVE  \/ OutflowSame
         \/ Tick
         \/ \E c \in Address, t \in Token :
              \/ \E n \in Limit : set_daily_withdraw_limit(c, t, n)
              \/ \E to \in Address, n \in Amount : withdraw(c, t, to, n)
<1>1. CASE AdminStep \/ SignerStep
  BY <1>1 DEF OutflowSame, AdminStep, upgrade, transfer_admin, accept_admin, initialize, pause,
     unpause, SignerStep, set_signer, rotate_signer, update_threshold, vaultVars
<1>4. CASE SettlementStep
  BY <1>4 DEF OutflowSame, SettlementStep, set_settlement_ttl, propose_settlement,
     cancel_settlement, approve_settlement, execute_settlement, raise_dispute, resolve_dispute,
     update_settlement_merchant, SettlementFrame, vaultVars
<1>2. CASE VaultStep
  <2>1. ASSUME NEW c \in Address, NEW t \in Token,
               \/ add_token_to_allowlist(c, t) \/ remove_token_from_allowlist(c, t)
               \/ \E n \in Amount : deposit(c, t, n)
        PROVE  OutflowSame
    BY <2>1 DEF OutflowSame, add_token_to_allowlist, remove_token_from_allowlist, deposit
  <2> QED
    BY <1>2, <2>1 DEF VaultStep
<1>3. CASE UNCHANGED vars
  BY <1>3 DEF vars, vaultVars, OutflowSame
<1> QED
  BY <1>1, <1>2, <1>3, <1>4 DEF Next

\* The types of what the invariant speaks of.
LEMMA OutflowTypes ==
  ASSUME TypeOK, NEW t \in Token
  PROVE  /\ outflow[t] \in [Time -> Nat] /\ now \in Time /\ now \in Nat
         /\ dailyLimit[t] \in Nat /\ limitSince[t] \in Time
         /\ withdrawWindow[t] \in WithdrawWindow \cup {NoWindow}
BY TreasuryConstants DEF TypeOK, U64, Time

\* A new cap.
LEMMA LimitMetered ==
  ASSUME TypeOK, OutflowInv, NEW c, NEW t \in Token, NEW n \in Limit, set_daily_withdraw_limit(c, t, n)
  PROVE  OutflowInv'
<1>1. /\ UNCHANGED <<outflow, now>>
      /\ dailyLimit' = [dailyLimit EXCEPT ![t] = n]
      /\ withdrawWindow' = [withdrawWindow EXCEPT ![t] = WindowUnder(t, n)]
      /\ limitSince' = [limitSince EXCEPT ![t] = now]
  BY DEF set_daily_withdraw_limit
<1>2. ASSUME NEW k \in Token
      PROVE  /\ Clear(outflow'[k], now')
             /\ dailyLimit'[k] > 0
                  => Metered(outflow'[k], withdrawWindow'[k], dailyLimit'[k], limitSince'[k])
  <2>1. Clear(outflow[k], now)
    BY DEF OutflowInv
  <2>2. CASE k # t
    <3>1. /\ dailyLimit'[k] = dailyLimit[k] /\ withdrawWindow'[k] = withdrawWindow[k]
          /\ limitSince'[k] = limitSince[k]
      BY <1>1, <2>2 DEF TypeOK
    <3> QED
      BY <1>1, <3>1 DEF OutflowInv
  <2>3. CASE k = t
    <3>1. /\ dailyLimit'[k] = n /\ withdrawWindow'[k] = WindowUnder(t, n) /\ limitSince'[k] = now
      BY <1>1, <2>3 DEF TypeOK
    <3>2. n \in Nat /\ WindowUnder(t, n) \in WithdrawWindow \cup {NoWindow}
      BY TreasuryConstants, OutflowTypes DEF U64, WindowUnder
    <3>3. Metered(outflow[k], WindowUnder(t, n), n, now)
      BY <2>1, <3>2, OutflowTypes, MeteredFromNow
    <3> QED
      BY <1>1, <2>1, <3>1, <3>3
  <2> QED
    BY <2>2, <2>3
<1> QED
  BY <1>2 DEF OutflowInv

\* A withdrawal.
LEMMA WithdrawalMetered ==
  ASSUME TypeOK, WindowHasLimit, OutflowInv, NEW c, NEW t \in Token, NEW to, NEW n \in Amount,
         withdraw(c, t, to, n)
  PROVE  OutflowInv'
<1> DEFINE out == outflow[t]
           out2 == [out EXCEPT ![now] = out[now] + n]
           w == withdrawWindow[t]
<1>1. /\ out \in [Time -> Nat] /\ now \in Time /\ now \in Nat /\ n \in Nat
      /\ dailyLimit[t] \in Nat /\ limitSince[t] \in Time /\ w \in WithdrawWindow \cup {NoWindow}
  BY TreasuryConstants, OutflowTypes DEF U64
<1>2. /\ UNCHANGED <<dailyLimit, limitSince, now>>
      /\ outflow' = [outflow EXCEPT ![t] = out2]
      /\ outflow'[t] = out2
      /\ \A k \in Token : k # t => outflow'[k] = outflow[k]
  BY DEF withdraw, TypeOK
<1>3. Clear(out, now) /\ Clear(out2, now)
  <2>1. Clear(out, now)
    BY DEF OutflowInv
  <2>2. \A s \in Time : s > now => out2[s] = out[s]
    BY <1>1
  <2> HIDE DEF out, out2
  <2> QED
    BY <2>1, <2>2 DEF Clear
<1>4. ASSUME NEW k \in Token, k # t
      PROVE  /\ Clear(outflow'[k], now')
             /\ dailyLimit'[k] > 0
                  => Metered(outflow'[k], withdrawWindow'[k], dailyLimit'[k], limitSince'[k])
  <2>1. withdrawWindow'[k] = withdrawWindow[k]
    BY <1>4 DEF withdraw, TypeOK
  <2> QED
    BY <1>2, <1>4, <2>1 DEF OutflowInv
<1>5. ASSUME dailyLimit[t] > 0
      PROVE  Metered(out2, withdrawWindow'[t], dailyLimit[t], limitSince[t])
  <2>1. Metered(out, w, dailyLimit[t], limitSince[t])
    BY <1>5 DEF OutflowInv
  <2>2. /\ SpentWindow(t, n).spent <= dailyLimit[t]
        /\ withdrawWindow'[t] = SpentWindow(t, n)
    <3>1. dailyLimit[t] # 0
      BY <1>1, <1>5
    <3> QED
      BY <3>1 DEF withdraw, TypeOK
  <2>3. w # NoWindow => /\ w.window_start \in Time /\ w.window_start \in Nat /\ w.spent \in Nat
                        /\ w = [window_start |-> w.window_start, spent |-> w.spent]
                        /\ w.window_start <= now
    <3>1. ASSUME w # NoWindow
          PROVE  /\ w.window_start \in Time /\ w.window_start \in Nat /\ w.spent \in Nat
                 /\ w = [window_start |-> w.window_start, spent |-> w.spent]
      <4>1. PICK r \in WithdrawWindow : r = w
        BY <1>1, <3>1
      <4> HIDE DEF w
      <4>2. /\ r.window_start \in Time /\ r.spent \in U64
            /\ r = [window_start |-> r.window_start, spent |-> r.spent]
        BY DEF WithdrawWindow
      <4> QED
        BY <4>1, <4>2, TimesFinite DEF U64
    <3>2. w # NoWindow => w.window_start <= now
      BY DEF WindowHasLimit
    <3> QED
      BY <3>1, <3>2
  <2>4. CASE w # NoWindow /\ now - w.window_start < WINDOW_SECONDS
    <3>1. PICK start \in Time, spent \in Nat :
            /\ w = [window_start |-> start, spent |-> spent]
            /\ start <= now /\ start = w.window_start /\ start \in Nat
      BY <2>3, <2>4
    <3>2. CurrentWindow(t) = [window_start |-> start, spent |-> spent]
      BY <2>4, <3>1 DEF CurrentWindow
    <3>3. SpentWindow(t, n) = [window_start |-> start, spent |-> spent + n]
      BY <3>2 DEF SpentWindow
    <3>4. spent + n <= dailyLimit[t]
      BY <2>2, <3>3
    <3>5. now < start + WINDOW_SECONDS
      BY <1>1, <2>4, <3>1, TreasuryConstants
    <3>6. Metered(out, [window_start |-> start, spent |-> spent], dailyLimit[t], limitSince[t])
      BY <2>1, <3>1
    <3> HIDE DEF out, w
    <3>7. Metered([out EXCEPT ![now] = out[now] + n], [window_start |-> start, spent |-> spent + n],
                  dailyLimit[t], limitSince[t])
      BY <1>1, <3>1, <3>4, <3>5, <3>6, MeteredOpen
    <3> QED
      BY <2>2, <3>3, <3>7
  <2>5. CASE ~(w # NoWindow /\ now - w.window_start < WINDOW_SECONDS)
    <3>1. CurrentWindow(t) = [window_start |-> now, spent |-> 0]
      BY <2>5 DEF CurrentWindow
    <3>2. SpentWindow(t, n) = [window_start |-> now, spent |-> n]
      <4>1. 0 + n = n
        BY <1>1
      <4> QED
        BY <3>1, <4>1 DEF SpentWindow
    <3>3. n <= dailyLimit[t]
      BY <2>2, <3>2
    <3>4. w # NoWindow => w.window_start + WINDOW_SECONDS <= now
      BY <1>1, <2>3, <2>5, TreasuryConstants
    <3> HIDE DEF out, w
    <3>5. Metered([out EXCEPT ![now] = out[now] + n], [window_start |-> now, spent |-> n],
                  dailyLimit[t], limitSince[t])
      BY <1>1, <1>3, <2>1, <3>3, <3>4, MeteredNew
    <3> QED
      BY <2>2, <3>2, <3>5
  <2> QED
    BY <2>4, <2>5
<1> HIDE DEF out2
<1>6. /\ Clear(outflow'[t], now')
      /\ dailyLimit'[t] > 0
           => Metered(outflow'[t], withdrawWindow'[t], dailyLimit'[t], limitSince'[t])
  BY <1>2, <1>3, <1>5
<1> QED
  BY <1>4, <1>6 DEF OutflowInv

\* Every step keeps the meters.
LEMMA OutflowStep == TypeOK /\ WindowHasLimit /\ OutflowInv /\ [Next]_vars => OutflowInv'
<1> SUFFICES ASSUME TypeOK, WindowHasLimit, OutflowInv, [Next]_vars PROVE OutflowInv'
  OBVIOUS
<1>1. CASE OutflowSame
  BY <1>1 DEF OutflowSame, OutflowInv, Clear, Metered
<1>2. CASE Tick
  <2>1. /\ UNCHANGED <<dailyLimit, withdrawWindow, limitSince, outflow>>
        /\ now' = now + 1 /\ now \in Nat
    BY <1>2, TreasuryConstants DEF Tick, vaultVars, TypeOK, Time
  <2>2. ASSUME NEW t \in Token PROVE Clear(outflow[t], now')
    <3> SUFFICES ASSUME NEW s \in Time, s > now' PROVE outflow[t][s] = 0
      BY DEF Clear
    <3>1. s \in Nat
      BY TimesFinite
    <3>2. s > now
      BY <2>1, <3>1
    <3> QED
      BY <3>2 DEF OutflowInv, Clear
  <2> QED
    BY <2>1, <2>2 DEF OutflowInv
<1> QED
  BY <1>1, <1>2, OutflowSteps, LimitMetered, WithdrawalMetered

\* The daily cap bounds every rolling window by two caps, for every cap, window length
\* and sequence of withdrawals, changes of the cap and ticks of the clock.
THEOREM RollingOutflowStaysBounded == Spec => []RollingOutflowBounded
<1>1. Init => OutflowInv
  <2> SUFFICES ASSUME Init, NEW t \in Token PROVE Clear(outflow[t], now) /\ ~(dailyLimit[t] > 0)
    BY DEF OutflowInv
  <2>1. (\A s \in Time : outflow[t][s] = 0) /\ dailyLimit[t] = 0
    BY DEF Init
  <2> QED
    BY <2>1 DEF Clear
<1>2. TypeOK /\ WindowHasLimit /\ OutflowInv => RollingOutflowBounded
  <2> SUFFICES ASSUME TypeOK, WindowHasLimit, OutflowInv, NEW t \in Token,
                      dailyLimit[t] > 0, limitSince[t] + WINDOW_SECONDS <= now
               PROVE  RecentOutflow(t) <= 2 * dailyLimit[t]
    BY DEF RollingOutflowBounded
  <2>1. Metered(outflow[t], withdrawWindow[t], dailyLimit[t], limitSince[t])
    BY DEF OutflowInv
  <2>2. withdrawWindow[t] # NoWindow => withdrawWindow[t].window_start <= now
    BY DEF WindowHasLimit
  <2> QED
    BY <2>1, <2>2, OutflowTypes, MeteredBound DEF RecentOutflow
<1> QED
  BY <1>1, <1>2, OutflowStep, TypeCorrect, WindowAlwaysHasLimit, PTL DEF Spec
=============================================================================
