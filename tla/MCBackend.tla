------------------------------ MODULE MCBackend ------------------------------
(***************************************************************************)
(* Six parts of the backend that share no state with one another, for TLC.    *)
(* A behaviour of all of them, seen through the variables of one part, is a  *)
(* behaviour of that part with stuttering, so it is enough to let one part   *)
(* move at a time: "part" is chosen once, in the initial state.              *)
(***************************************************************************)
EXTENDS InvoiceApi, InvoiceActions, Disputes, BalanceCache, ApiKeys, InvoicePages

CONSTANTS r1, r2, p1, p2, b1, b2

VARIABLE part

\* Requests, processes and bodies are interchangeable, so the first request can
\* be fixed: the other has the same body or another, reaches the same process or
\* another, and carries the key or, once, does not.
TwoRequests ==
  {[r \in CreateRequest |-> IF r = r1 THEN [body |-> b1, process |-> p1, keyed |-> TRUE]
                                      ELSE other] :
     other \in [body : Body, process : Process, keyed : {TRUE}]
               \cup {[body |-> b1, process |-> p1, keyed |-> FALSE]}}

backendVars == <<part, apiVars, actionVars, disputeVars, cacheVars, keyVars, pageVars>>

PartsInit ==
  /\ part \in {"create", "actions", "disputes", "cache", "keys", "pages"}
  /\ ApiInit /\ ActionsInit /\ DisputesInit /\ CacheInit /\ KeysInit /\ PagesInit
  /\ part # "create" => redis /\ Cardinality({request[r] : r \in CreateRequest}) = 1
  /\ part # "cache" => onChain = Dead.value

PartsNext ==
  /\ \/ /\ part = "create" /\ ApiNext
        /\ UNCHANGED <<actionVars, disputeVars, cacheVars, keyVars, pageVars>>
     \/ /\ part = "actions" /\ ActionsNext
        /\ UNCHANGED <<apiVars, disputeVars, cacheVars, keyVars, pageVars>>
     \/ /\ part = "disputes" /\ DisputesNext
        /\ UNCHANGED <<apiVars, actionVars, cacheVars, keyVars, pageVars>>
     \/ /\ part = "cache" /\ CacheNext
        /\ UNCHANGED <<apiVars, actionVars, disputeVars, keyVars, pageVars>>
     \/ /\ part = "keys" /\ KeysNext
        /\ UNCHANGED <<apiVars, actionVars, disputeVars, cacheVars, pageVars>>
     \/ /\ part = "pages" /\ PagesNext
        /\ UNCHANGED <<apiVars, actionVars, disputeVars, cacheVars, keyVars>>
  /\ UNCHANGED part

\* The fairness of the parts (ApiFairness, ActionsFairness and CacheFairness),
\* each asked only of the part that moves.
PartsSpec ==
  /\ PartsInit /\ [][PartsNext]_backendVars
  /\ \A r \in CreateRequest :
       /\ WF_apiVars(part = "create" /\ at[r] # "idle" /\ Step(r))
       /\ WF_apiVars(part = "create" /\ FinalCalls(r))
  /\ WF_apiVars(part = "create" /\ LockExpires)
  /\ \A r \in Reader : WF_actionVars(part = "actions" /\ ReaderStep(r))
  /\ WF_actionVars(part = "actions" /\ IndexEvent)
  /\ WF_cacheVars(part = "cache" /\ PassTime) /\ WF_cacheVars(part = "cache" /\ Evict)
  /\ \A r \in BalanceReader : WF_cacheVars(part = "cache" /\ (RpcAnswers(r) \/ StoreBalance(r)))
=============================================================================
