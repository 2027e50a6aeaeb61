------------------------------ MODULE Disputes ------------------------------
(***************************************************************************)
(* The dispute endpoints (comebackhere-backend/src/routes/disputes.ts): a    *)
(* map in the memory of the process, from a dispute to its votes, tallies    *)
(* and outcome.  Nothing is persisted, so a restart forgets every dispute.   *)
(* Handlers run without awaiting anything: each is one step.                 *)
(***************************************************************************)
EXTENDS Naturals, FiniteSets, FiniteSetsExt

CONSTANTS
  Dispute,          \* dispute ids
  Voter,            \* signer addresses
  VoteWeight,       \* weights that requests carry
  VOTE_THRESHOLD,
  MaxRestarts       \* bound on restarts

ASSUME DisputesAssumption ==
  VoteWeight \subseteq Nat /\ VOTE_THRESHOLD \in Nat /\ MaxRestarts \in Nat

VARIABLES
  disputes,     \* disputes[d]: its votes, tallies and outcome
  everRaised,   \* ids handed out so far
  restarts

disputeVars == <<disputes, everRaised, restarts>>

Side == {"ResolvedClaimant", "ResolvedCounterparty"}

\* A vote is who, for whom, with which weight; an outcome is "none" until a side
\* reaches the threshold.
Vote == [signer : Voter, vote : Side, weight : VoteWeight]
NewDispute == [exists |-> TRUE, votes |-> {}, claimant |-> 0, counterparty |-> 0, outcome |-> "none"]
Forgotten  == [NewDispute EXCEPT !.exists = FALSE]

DisputesInit ==
  /\ disputes = [d \in Dispute |-> Forgotten] /\ everRaised = {} /\ restarts = 0

\* POST /: an id that is not in use, made of the settlement and the time.
CreateDispute ==
  /\ \E d \in Dispute \ everRaised :
       /\ disputes' = [disputes EXCEPT ![d] = NewDispute]
       /\ everRaised' = everRaised \cup {d}
  /\ UNCHANGED restarts

\* A handler that takes votes on a resolved dispute.
Mut_CastVote(d, s, side, w) ==
  LET record == disputes[d]
      tally  == [record EXCEPT
                   !.votes = @ \cup {[signer |-> s, vote |-> side, weight |-> w]},
                   !.claimant = IF side = "ResolvedClaimant" THEN @ + w ELSE @,
                   !.counterparty = IF side = "ResolvedCounterparty" THEN @ + w ELSE @] IN
  /\ record.exists
  /\ \A v \in record.votes : v.signer # s
  /\ disputes' = [disputes EXCEPT ![d] =
       [tally EXCEPT !.outcome = IF tally.claimant >= VOTE_THRESHOLD THEN "ResolvedClaimant"
                                 ELSE IF tally.counterparty >= VOTE_THRESHOLD
                                        THEN "ResolvedCounterparty" ELSE @]]
  /\ UNCHANGED <<everRaised, restarts>>

\* POST /:id/vote: 404 without the dispute, 409 when it is resolved or the signer
\* has voted; otherwise the vote is counted and the first side to reach the
\* threshold wins, the claimant looked at first.
CastVote(d, s, side, w) ==
  LET record == disputes[d]
      tally  == [record EXCEPT
                   !.votes = @ \cup {[signer |-> s, vote |-> side, weight |-> w]},
                   !.claimant = IF side = "ResolvedClaimant" THEN @ + w ELSE @,
                   !.counterparty = IF side = "ResolvedCounterparty" THEN @ + w ELSE @] IN
  /\ record.exists
  /\ record.outcome = "none"
  /\ \A v \in record.votes : v.signer # s
  /\ disputes' = [disputes EXCEPT ![d] =
       [tally EXCEPT !.outcome = IF tally.claimant >= VOTE_THRESHOLD THEN "ResolvedClaimant"
                                 ELSE IF tally.counterparty >= VOTE_THRESHOLD
                                        THEN "ResolvedCounterparty" ELSE @]]
  /\ UNCHANGED <<everRaised, restarts>>

\* The process restarts and the map is empty.
RestartDisputes ==
  /\ restarts < MaxRestarts /\ restarts' = restarts + 1
  /\ disputes' = [d \in Dispute |-> Forgotten]
  /\ UNCHANGED everRaised

DisputesNext ==
  \/ CreateDispute \/ RestartDisputes
  \/ \E d \in Dispute, s \in Voter, side \in Side, w \in VoteWeight : CastVote(d, s, side, w)

DisputesSpec == DisputesInit /\ [][DisputesNext]_disputeVars

\* The weight that distinct signers gave a side.
Backing(d, side) ==
  MapThenSumSet(LAMBDA v : v.weight, {v \in disputes[d].votes : v.vote = side})

\* However votes of different signers and weights interleave, a dispute is resolved
\* exactly when one side has the threshold behind it, it is resolved for that side,
\* and the other side can never have it too: the tallies agree with the votes and
\* no signer counts twice (disputes.ts:396-418).
OutcomeEarned ==
  \A d \in Dispute :
    LET earned == {side \in Side : Backing(d, side) >= VOTE_THRESHOLD} IN
    /\ earned = IF disputes[d].outcome = "none" THEN {} ELSE {disputes[d].outcome}
    /\ Cardinality(disputes[d].votes) = Cardinality({v.signer : v \in disputes[d].votes})
=============================================================================
