--------------------------- MODULE ConsensusCore ---------------------------
(***************************************************************************)
(* The effect-free core of consensus: one ConsensusState and the pure      *)
(* transition functions over it (aura-consensus/src/core).  A transition   *)
(* that returns NotEnabled leaves the state alone, so its conditions are   *)
(* guards here.                                                            *)
(*                                                                         *)
(* Abstractions: an operation result is a member of Result, the share data *)
(* and the hash-based commit signature are left out (no transition reads   *)
(* them), and the instance, operation and prestate identifiers are fixed.  *)
(***************************************************************************)
EXTENDS Naturals, Sequences, FiniteSets

CONSTANTS
  Authority,      \* authorities that may be named as witnesses
  Result,         \* result identifiers a share may vote for
  NoResult,       \* commit_fact = None
  MaxBatch        \* longest batch handed to gossip_shares

ASSUME AuthorityAssumption == IsFiniteSet(Authority)
ASSUME NoResultAssumption == NoResult \notin Result
ASSUME BatchAssumption == MaxBatch \in Nat

VARIABLES
  phase,          \* ConsensusState.phase, "Absent" before start_consensus
  witnesses,      \* eligible witnesses
  threshold,      \* NonZeroU16
  proposals,      \* the Vec<ShareProposal>
  commitFact,     \* result of the commit fact, or NoResult
  fallbackTimerActive,
  equivocators

vars == <<phase, witnesses, threshold, proposals, commitFact,
          fallbackTimerActive, equivocators>>

Phases == {"Absent", "FastPathActive", "FallbackActive", "Committed", "Failed"}

ShareProposal == [witness : Authority, result : Result]

-----------------------------------------------------------------------------
(* Queries of ConsensusState, taking the proposals they look at. *)

(* Mutant: nobody is remembered as having voted. *)
HasProposalForgotten(w) == FALSE

HasProposal(w) == \E i \in DOMAIN proposals : proposals[i].witness = w

VotesFor(ps, r) == {i \in DOMAIN ps : ps[i].result = r}

CountFor(ps, r) == Cardinality(VotesFor(ps, r))

ThresholdMet(ps) == \E r \in Result : CountFor(ps, r) >= threshold

(* max_by_key over a HashMap: any result with the highest count may win. *)
MajorityResults(ps) ==
  {r \in Result : /\ CountFor(ps, r) >= threshold
                  /\ \A s \in Result : CountFor(ps, s) <= CountFor(ps, r)}

(* Mutant: anything short of failure counts as active. *)
IsActiveUntilFailed == phase \notin {"Absent", "Failed"}

IsActive == phase \in {"FastPathActive", "FallbackActive"}

IsTerminal == phase \in {"Committed", "Failed"}

(* check_invariants, which the protocol asserts of its mirrored state. *)
CheckInvariants ==
  /\ threshold >= 1
  /\ Cardinality(witnesses) >= threshold
  /\ \A i \in DOMAIN proposals : proposals[i].witness \in witnesses
  /\ equivocators \subseteq witnesses
  /\ phase = "Committed" => commitFact # NoResult

-----------------------------------------------------------------------------

Init ==
  /\ phase = "Absent"
  /\ witnesses = {}
  /\ threshold = 1
  /\ proposals = <<>>
  /\ commitFact = NoResult
  /\ fallbackTimerActive = FALSE
  /\ equivocators = {}

(* start_consensus with ConsensusState::new. *)
StartConsensus(ws, k, fast) ==
  /\ phase = "Absent"
  /\ Cardinality(ws) >= k
  /\ phase' = IF fast THEN "FastPathActive" ELSE "FallbackActive"
  /\ witnesses' = ws
  /\ threshold' = k
  /\ fallbackTimerActive' = ~fast
  /\ UNCHANGED <<proposals, commitFact, equivocators>>

(* apply_share.  A second share of a witness is refused before it is       *)
(* compared with the first, so the conflicting branch is never taken.      *)
ApplyShare(w, r) ==
  LET conflicting == \E i \in DOMAIN proposals :
                        /\ proposals[i].witness = w
                        /\ proposals[i].result # r
      after == IF conflicting
                 THEN proposals
                 ELSE Append(proposals, [witness |-> w, result |-> r])
  IN /\ w \in witnesses
     /\ ~HasProposal(w)
     /\ IsActive
     /\ w \notin equivocators
     /\ proposals' = after
     /\ equivocators' = IF conflicting THEN equivocators \cup {w} ELSE equivocators
     /\ \/ /\ ThresholdMet(after)
           /\ phase' = "Committed"
           /\ commitFact' \in MajorityResults(after)
        \/ /\ ~ThresholdMet(after)
           /\ UNCHANGED <<phase, commitFact>>
     /\ UNCHANGED <<witnesses, threshold, fallbackTimerActive>>

TriggerFallback ==
  /\ phase = "FastPathActive"
  /\ phase' = "FallbackActive"
  /\ fallbackTimerActive' = TRUE
  /\ UNCHANGED <<witnesses, threshold, proposals, commitFact, equivocators>>

(* The filter of gossip_shares tests every share against the state before  *)
(* the batch, so a batch that names a new witness twice passes whole.      *)
Admissible(p) ==
  /\ p.witness \in witnesses
  /\ p.witness \notin equivocators
  /\ ~HasProposal(p.witness)

(* Mutant: gossip_shares merges a batch that reaches the threshold. *)
GossipSharesUnchecked(valid) ==
  /\ phase = "FallbackActive"
  /\ valid # <<>>
  /\ \A i \in DOMAIN valid : Admissible(valid[i])
  /\ proposals' = proposals \o valid
  /\ UNCHANGED <<phase, witnesses, threshold, commitFact,
                 fallbackTimerActive, equivocators>>

(* gossip_shares on a batch whose admissible shares, in order, are valid.  *)
(* Filtering a batch can give every sequence of admissible shares and no   *)
(* other, so the action ranges over the filtered batches.                  *)
GossipShares(valid) ==
  /\ phase = "FallbackActive"
  /\ valid # <<>>
  /\ \A i \in DOMAIN valid : Admissible(valid[i])
  /\ ~ThresholdMet(proposals \o valid)
  /\ proposals' = proposals \o valid
  /\ UNCHANGED <<phase, witnesses, threshold, commitFact,
                 fallbackTimerActive, equivocators>>

(* Mutant: completion one share early. *)
CompleteViaFallbackEarly(r) ==
  /\ phase = "FallbackActive"
  /\ CountFor(proposals, r) + 1 >= threshold
  /\ phase' = "Committed"
  /\ commitFact' = r
  /\ UNCHANGED <<witnesses, threshold, proposals, fallbackTimerActive,
                 equivocators>>

CompleteViaFallback(r) ==
  /\ phase = "FallbackActive"
  /\ CountFor(proposals, r) >= threshold
  /\ phase' = "Committed"
  /\ commitFact' = r
  /\ UNCHANGED <<witnesses, threshold, proposals, fallbackTimerActive,
                 equivocators>>

FailConsensus ==
  /\ phase \notin {"Absent", "Committed", "Failed"}
  /\ phase' = "Failed"
  /\ UNCHANGED <<witnesses, threshold, proposals, commitFact,
                 fallbackTimerActive, equivocators>>

-----------------------------------------------------------------------------

DistinctWitnesses(batch) ==
  \A i, j \in DOMAIN batch : batch[i].witness = batch[j].witness => i = j

Batches == UNION {[1..n -> ShareProposal] : n \in 1..MaxBatch}

(* Mutant: a threshold of zero is accepted. *)
StartZeroThreshold ==
  \E ws \in SUBSET Authority, k \in 0..Cardinality(Authority), fast \in BOOLEAN :
    StartConsensus(ws, k, fast)

Start == \E ws \in SUBSET Authority, k \in 1..Cardinality(Authority), fast \in BOOLEAN :
           StartConsensus(ws, k, fast)

Next ==
  \/ Start
  \/ \E w \in Authority, r \in Result : ApplyShare(w, r)
  \/ TriggerFallback
  \/ \E batch \in Batches : GossipShares(batch)
  \/ \E r \in Result : CompleteViaFallback(r)
  \/ FailConsensus

Spec == Init /\ [][Next]_vars

(* The states ProtocolInstance::sync_core_state leaves: an instance that   *)
(* started on the fast path, with one proposal per signature held by the   *)
(* tracker, all for the operation's own result.                            *)
SyncedInit ==
  /\ phase = "FastPathActive"
  /\ witnesses \in SUBSET Authority
  /\ threshold \in 1..Cardinality(witnesses)
  /\ \E r \in Result, n \in 0..Cardinality(witnesses) :
       proposals \in {ps \in [1..n -> [witness : witnesses, result : {r}]] :
                        DistinctWitnesses(ps)}
  /\ commitFact = NoResult
  /\ fallbackTimerActive = FALSE
  /\ equivocators = {}

(* An instance of the transition functions, started by start_consensus or  *)
(* left by sync_core_state.                                                *)
AnySpec == (Init \/ SyncedInit) /\ [][Next]_vars

-----------------------------------------------------------------------------
(* Properties *)

(* Every field of ConsensusState keeps its Rust type. *)
TypeOK ==
  /\ phase \in Phases
  /\ witnesses \in SUBSET Authority
  /\ threshold \in Nat \ {0}
  /\ proposals \in Seq(ShareProposal)
  /\ commitFact \in Result \cup {NoResult}
  /\ fallbackTimerActive \in BOOLEAN
  /\ equivocators \in SUBSET Authority

(* While an instance is active no result has collected threshold shares:   *)
(* apply_share commits at once and gossip_shares refuses the batch.  Hence *)
(* the winner apply_share picks out of a HashMap is never a tie-break.     *)
NoPendingWinner == IsActive => \A r \in Result : CountFor(proposals, r) < threshold

(* A commit fact names a result with threshold shares, and exactly the     *)
(* committed phase carries one (check_threshold_met, check_invariants).    *)
CommitRequiresThreshold ==
  /\ phase = "Committed" <=> commitFact # NoResult
  /\ commitFact # NoResult => CountFor(proposals, commitFact) >= threshold

(* Agreement inside an instance: when one result is committed no other     *)
(* result has threshold shares, whatever order shares, gossip batches and  *)
(* the fallback trigger came in, and even for thresholds of at most half   *)
(* of the witnesses (check_agreement).                                     *)
WinnerIsUnique ==
  commitFact # NoResult =>
    \A r \in Result \ {commitFact} : CountFor(proposals, r) < threshold

(* Agreement for an instance that only the transition functions drive:     *)
(* from start_consensus on there is never a pending winner nor a second    *)
(* one.  It says nothing of the states sync_core_state leaves, where the   *)
(* mirrored shares may already have reached the threshold.                 *)
AgreementFromStart ==
  phase = "Absent" => [](NoPendingWinner /\ WinnerIsUnique)

(* Attesters of a result: the distinct witnesses behind its shares. *)
Attesters(r) == {w \in Authority : \E i \in DOMAIN proposals :
                    proposals[i] = [witness |-> w, result |-> r]}

(* "commits have threshold attesters": as many distinct witnesses as the   *)
(* threshold voted for the committed result, all of them eligible and none *)
(* of them a recorded equivocator.  A gossip batch that repeats a witness  *)
(* refutes it.                                                             *)
CommitHasThresholdAttesters ==
  commitFact # NoResult =>
    /\ Cardinality(Attesters(commitFact)) >= threshold
    /\ Attesters(commitFact) \subseteq witnesses \ equivocators

(* Commits have threshold attesters in every instance that never fell      *)
(* back: until the fallback timer is set only apply_share adds proposals,  *)
(* to those start_consensus or sync_core_state left, and it refuses the    *)
(* second share of a witness whatever result it names.                     *)
FastPathAttesters == ~fallbackTimerActive => CommitHasThresholdAttesters

(* Late shares, gossip, fallback and failure never change a decision: a    *)
(* terminal instance keeps its phase, its proposals and its commit fact.   *)
DecisionIsFinal ==
  [][IsTerminal => UNCHANGED <<phase, proposals, commitFact, witnesses, threshold>>]_vars

-----------------------------------------------------------------------------
(* Strengthenings that make the safety properties inductive. *)

(* Shares come from witnesses only, and nobody has voted before the start. *)
ProposalsFromWitnesses ==
  /\ \A i \in DOMAIN proposals : proposals[i].witness \in witnesses
  /\ phase = "Absent" => proposals = <<>>

(* The equivocation branch of apply_share is dead: a second share of a     *)
(* witness is refused before it is compared with the first.                *)
NoEquivocators == equivocators = {}

(* start_consensus refuses a threshold that cannot be reached. *)
ThresholdReachable == phase # "Absent" => Cardinality(witnesses) >= threshold

(* What holds from every start, mirrored states included. *)
AnyInv ==
  /\ TypeOK
  /\ ProposalsFromWitnesses
  /\ NoEquivocators
  /\ ThresholdReachable
  /\ CommitRequiresThreshold

(* Agreement and threshold, the inductive form. *)
AgreementInv ==
  /\ TypeOK
  /\ ProposalsFromWitnesses
  /\ NoEquivocators
  /\ NoPendingWinner
  /\ CommitRequiresThreshold
  /\ WinnerIsUnique

(* One vote per witness, which a gossip batch that repeats one breaks. *)
OneVotePerWitness == DistinctWitnesses(proposals)

(* While the timer is off there was no fallback, hence no gossip. *)
FastPathOneVote ==
  /\ phase = "FallbackActive" => fallbackTimerActive
  /\ phase = "Absent" => ~fallbackTimerActive
  /\ ~fallbackTimerActive => OneVotePerWitness

=============================================================================
