------------------------ MODULE ConsensusCoreProofs ------------------------
(***************************************************************************)
(* Proofs about ConsensusCore for every finite set of authorities, every   *)
(* set of results and every bound on gossip batches.                       *)
(***************************************************************************)
EXTENDS ConsensusCore, FiniteSetTheorems, SequenceTheorems, TLAPS

(* Counting votes gives a natural number, zero on no proposals. *)
LEMMA CountType ==
  ASSUME NEW ps \in Seq(ShareProposal), NEW r
  PROVE  /\ IsFiniteSet(VotesFor(ps, r))
         /\ CountFor(ps, r) \in Nat
<1>1. DOMAIN ps = 1..Len(ps) /\ Len(ps) \in Nat
  BY LenProperties
<1>2. IsFiniteSet(1..Len(ps))
  BY <1>1, FS_Interval
<1>3. IsFiniteSet(VotesFor(ps, r))
  BY <1>1, <1>2, FS_Subset DEF VotesFor
<1>. QED
  BY <1>3, FS_CardinalityType DEF CountFor

(* No proposals, no votes. *)
LEMMA CountEmpty == ASSUME NEW r PROVE CountFor(<<>>, r) = 0
<1>1. VotesFor(<<>>, r) = {}
  BY DEF VotesFor
<1>. QED
  BY <1>1, FS_EmptySet DEF CountFor

(* A share for one result leaves the count of every other result alone. *)
LEMMA CountOther ==
  ASSUME NEW ps \in Seq(ShareProposal), NEW p \in ShareProposal,
         NEW s \in Result, s # p.result
  PROVE  CountFor(Append(ps, p), s) = CountFor(ps, s)
<1>1. /\ DOMAIN Append(ps, p) = 1..(Len(ps) + 1)
      /\ DOMAIN ps = 1..Len(ps)
      /\ Len(ps) \in Nat
  BY AppendProperties, LenProperties
<1>2. \A i \in DOMAIN ps : Append(ps, p)[i] = ps[i]
  BY AppendProperties
<1>3. Append(ps, p)[Len(ps) + 1] = p
  BY AppendProperties
<1>4. VotesFor(Append(ps, p), s) = VotesFor(ps, s)
  BY <1>1, <1>2, <1>3 DEF VotesFor
<1>. QED
  BY <1>4 DEF CountFor

(* A gossiped batch is a sequence of shares. *)
LEMMA BatchType == ASSUME NEW batch \in Batches PROVE batch \in Seq(ShareProposal)
<1>1. PICK n \in 1..MaxBatch : batch \in [1..n -> ShareProposal]
  BY DEF Batches
<1>. QED
  BY <1>1, BatchAssumption

-----------------------------------------------------------------------------

(* A new or synchronised instance is well-formed. *)
LEMMA TypeInit == Init => TypeOK
<1>. SUFFICES ASSUME Init PROVE TypeOK
  OBVIOUS
<1>1. proposals \in Seq(ShareProposal)
  BY EmptySeq DEF Init
<1>2. threshold \in Nat \ {0}
  BY DEF Init
<1>. QED
  BY <1>1, <1>2 DEF Init, TypeOK, Phases

(* Every transition function keeps the fields well-formed. *)
LEMMA TypeNext == TypeOK /\ [Next]_vars => TypeOK'
<1>. SUFFICES ASSUME TypeOK, [Next]_vars PROVE TypeOK'
  OBVIOUS
<1>. USE DEF TypeOK, Phases
<1>1. CASE Start
  BY <1>1, FS_CardinalityType, AuthorityAssumption DEF Start, StartConsensus
<1>2. ASSUME NEW w \in Authority, NEW r \in Result, ApplyShare(w, r) PROVE TypeOK'
  <2>1. [witness |-> w, result |-> r] \in ShareProposal
    BY DEF ShareProposal
  <2>2. proposals' \in Seq(ShareProposal)
    BY <1>2, <2>1, AppendProperties DEF ApplyShare
  <2>3. phase' \in Phases /\ commitFact' \in Result \cup {NoResult}
    BY <1>2 DEF ApplyShare, MajorityResults
  <2>4. equivocators' \in SUBSET Authority
    BY <1>2 DEF ApplyShare
  <2>. QED
    BY <1>2, <2>2, <2>3, <2>4 DEF ApplyShare
<1>4. CASE TriggerFallback
  BY <1>4 DEF TriggerFallback
<1>5. ASSUME NEW batch \in Batches, GossipShares(batch) PROVE TypeOK'
  BY <1>5, BatchType, ConcatProperties DEF GossipShares
<1>6. ASSUME NEW r \in Result, CompleteViaFallback(r) PROVE TypeOK'
  BY <1>6 DEF CompleteViaFallback
<1>7. CASE FailConsensus
  BY <1>7 DEF FailConsensus
<1>8. CASE UNCHANGED vars
  BY <1>8 DEF vars
<1>. QED
  BY <1>1, <1>2, <1>4, <1>5, <1>6, <1>7, <1>8 DEF Next

-----------------------------------------------------------------------------

(* A new instance satisfies the strengthened agreement. *)
LEMMA AgreementInit == Init => AgreementInv
<1>. SUFFICES ASSUME Init PROVE AgreementInv
  OBVIOUS
<1>1. TypeOK
  BY TypeInit
<1>2. ProposalsFromWitnesses /\ NoEquivocators
  BY DEF Init, ProposalsFromWitnesses, NoEquivocators
<1>3. NoPendingWinner /\ CommitRequiresThreshold /\ WinnerIsUnique
  BY DEF Init, NoPendingWinner, CommitRequiresThreshold, WinnerIsUnique, IsActive
<1>. QED
  BY <1>1, <1>2, <1>3 DEF AgreementInv

(* A share that passes the guards of apply_share is never an equivocation. *)
LEMMA ShareAppended ==
  ASSUME NEW w \in Authority, NEW r \in Result, ApplyShare(w, r)
  PROVE  /\ proposals' = Append(proposals, [witness |-> w, result |-> r])
         /\ equivocators' = equivocators
<1>1. ~ \E i \in DOMAIN proposals : proposals[i].witness = w /\ proposals[i].result # r
  BY DEF ApplyShare, HasProposal
<1>. QED
  BY <1>1 DEF ApplyShare

(* Only witnesses get shares into the state, and nobody is recorded as an  *)
(* equivocator.                                                            *)
LEMMA SharesNext ==
  ASSUME TypeOK, ProposalsFromWitnesses, NoEquivocators, [Next]_vars
  PROVE  ProposalsFromWitnesses' /\ NoEquivocators'
<1>1. CASE Start
  BY <1>1 DEF Start, StartConsensus, ProposalsFromWitnesses, NoEquivocators
<1>2. ASSUME NEW w \in Authority, NEW r \in Result, ApplyShare(w, r)
      PROVE  ProposalsFromWitnesses' /\ NoEquivocators'
  <2>1. /\ proposals' = Append(proposals, [witness |-> w, result |-> r])
        /\ equivocators' = equivocators
    BY <1>2, ShareAppended
  <2>2. w \in witnesses /\ witnesses' = witnesses /\ phase' # "Absent"
    BY <1>2 DEF ApplyShare, IsActive
  <2>3. [witness |-> w, result |-> r] \in ShareProposal
    BY DEF ShareProposal
  <2>4. ASSUME NEW i \in DOMAIN proposals' PROVE proposals'[i].witness \in witnesses
    BY <2>1, <2>2, <2>3, AppendProperties DEF ProposalsFromWitnesses, TypeOK
  <2>. QED
    BY <2>1, <2>2, <2>4 DEF ProposalsFromWitnesses, NoEquivocators
<1>3. ASSUME NEW batch \in Batches, GossipShares(batch)
      PROVE  ProposalsFromWitnesses' /\ NoEquivocators'
  <2>1. /\ proposals' = proposals \o batch
        /\ phase = "FallbackActive"
        /\ UNCHANGED <<phase, witnesses, equivocators>>
    BY <1>3 DEF GossipShares
  <2>2. \A i \in DOMAIN batch : batch[i].witness \in witnesses
    BY <1>3 DEF GossipShares, Admissible
  <2>3. \A i \in DOMAIN (proposals \o batch) : (proposals \o batch)[i].witness \in witnesses
    BY <2>2, BatchType, ConcatProperties, LenProperties DEF ProposalsFromWitnesses, TypeOK
  <2>. QED
    BY <2>1, <2>3 DEF ProposalsFromWitnesses, NoEquivocators
<1>4. ASSUME NEW r \in Result, CompleteViaFallback(r)
      PROVE  ProposalsFromWitnesses' /\ NoEquivocators'
  BY <1>4 DEF CompleteViaFallback, ProposalsFromWitnesses, NoEquivocators
<1>5. CASE TriggerFallback \/ FailConsensus \/ UNCHANGED vars
  BY <1>5 DEF TriggerFallback, FailConsensus, vars, ProposalsFromWitnesses, NoEquivocators
<1>. QED
  BY <1>1, <1>2, <1>3, <1>4, <1>5 DEF Next

(* Only its own result can reach the threshold with a share. *)
LEMMA ApplyShareStep ==
  ASSUME AgreementInv, NEW w \in Authority, NEW r \in Result, ApplyShare(w, r)
  PROVE  \A s \in Result \ {r} : CountFor(proposals', s) < threshold
<1>. SUFFICES ASSUME NEW s \in Result \ {r} PROVE CountFor(proposals', s) < threshold
  OBVIOUS
<1>1. [witness |-> w, result |-> r] \in ShareProposal
  BY DEF ShareProposal
<1>2. proposals' = Append(proposals, [witness |-> w, result |-> r])
  BY ShareAppended
<1>3. CountFor(proposals', s) = CountFor(proposals, s)
  BY <1>1, <1>2, CountOther DEF AgreementInv, TypeOK
<1>. QED
  BY <1>3 DEF AgreementInv, NoPendingWinner, ApplyShare

(* Every transition function keeps the strengthened agreement. *)
LEMMA AgreementNext == AgreementInv /\ [Next]_vars => AgreementInv'
<1>. SUFFICES ASSUME AgreementInv, [Next]_vars PROVE AgreementInv'
  OBVIOUS
<1>0. TypeOK /\ TypeOK'
  BY TypeNext DEF AgreementInv
<1>s. ProposalsFromWitnesses' /\ NoEquivocators'
  BY SharesNext DEF AgreementInv
<1>1. CASE Start
  <2>. PICK ws \in SUBSET Authority, k \in 1..Cardinality(Authority), fast \in BOOLEAN :
         StartConsensus(ws, k, fast)
    BY <1>1 DEF Start
  <2>1. proposals = <<>> /\ proposals' = proposals /\ threshold' \in Nat \ {0}
    BY <1>0 DEF StartConsensus, AgreementInv, ProposalsFromWitnesses, TypeOK
  <2>2. commitFact' = NoResult /\ phase' \in {"FastPathActive", "FallbackActive"}
    BY DEF StartConsensus, AgreementInv, CommitRequiresThreshold
  <2>4. NoPendingWinner'
    BY <2>1, CountEmpty DEF NoPendingWinner
  <2>5. CommitRequiresThreshold' /\ WinnerIsUnique'
    BY <2>2 DEF CommitRequiresThreshold, WinnerIsUnique
  <2>. QED
    BY <1>0, <1>s, <2>4, <2>5 DEF AgreementInv
<1>2. ASSUME NEW w \in Authority, NEW r \in Result, ApplyShare(w, r) PROVE AgreementInv'
  <2>0. proposals' = Append(proposals, [witness |-> w, result |-> r])
    BY <1>2, ShareAppended
  <2>1. \A s \in Result \ {r} : CountFor(proposals', s) < threshold
    BY <1>2, ApplyShareStep
  <2>2. /\ phase \in {"FastPathActive", "FallbackActive"}
        /\ w \in witnesses
        /\ UNCHANGED <<witnesses, threshold>>
    BY <1>2 DEF ApplyShare, IsActive
  <2>3. commitFact = NoResult
    BY <2>2 DEF AgreementInv, CommitRequiresThreshold
  <2>5. CASE ThresholdMet(proposals') /\ phase' = "Committed" /\ commitFact' \in MajorityResults(proposals')
    <3>1. commitFact' \in Result /\ CountFor(proposals', commitFact') >= threshold
      BY <2>5 DEF MajorityResults
    <3>2. \A s \in Result : CountFor(proposals', s) \in Nat
      BY <1>0, CountType DEF TypeOK
    <3>3. commitFact' = r
      BY <1>0, <2>1, <3>1, <3>2 DEF TypeOK
    <3>4. CommitRequiresThreshold' /\ WinnerIsUnique'
      BY <2>1, <2>2, <2>5, <3>1, <3>3, NoResultAssumption
         DEF CommitRequiresThreshold, WinnerIsUnique
    <3>5. NoPendingWinner'
      BY <2>5 DEF NoPendingWinner, IsActive
    <3>. QED
      BY <1>0, <1>s, <3>4, <3>5 DEF AgreementInv
  <2>6. CASE ~ThresholdMet(proposals') /\ UNCHANGED <<phase, commitFact>>
    <3>1. \A s \in Result : CountFor(proposals', s) \in Nat
      BY <1>0, CountType DEF TypeOK
    <3>2. NoPendingWinner'
      BY <1>0, <2>2, <2>6, <3>1 DEF NoPendingWinner, ThresholdMet, TypeOK
    <3>3. CommitRequiresThreshold' /\ WinnerIsUnique'
      BY <2>2, <2>3, <2>6 DEF CommitRequiresThreshold, WinnerIsUnique
    <3>. QED
      BY <1>0, <1>s, <3>2, <3>3 DEF AgreementInv
  <2>. QED
    BY <1>2, <2>0, <2>5, <2>6, ShareAppended DEF ApplyShare
<1>4. CASE TriggerFallback
  BY <1>0, <1>s, <1>4 DEF TriggerFallback, AgreementInv, NoPendingWinner,
     CommitRequiresThreshold, WinnerIsUnique, IsActive
<1>5. ASSUME NEW batch \in Batches, GossipShares(batch) PROVE AgreementInv'
  <2>1. /\ proposals' = proposals \o batch
        /\ phase = "FallbackActive"
        /\ UNCHANGED <<phase, witnesses, threshold, commitFact, equivocators>>
    BY <1>5 DEF GossipShares
  <2>3. NoPendingWinner'
    <3>1. \A s \in Result : CountFor(proposals', s) \in Nat
      BY <1>0, CountType DEF TypeOK
    <3>. QED
      BY <1>0, <1>5, <2>1, <3>1 DEF GossipShares, NoPendingWinner, ThresholdMet, TypeOK
  <2>4. commitFact = NoResult
    BY <2>1 DEF AgreementInv, CommitRequiresThreshold
  <2>5. CommitRequiresThreshold' /\ WinnerIsUnique'
    BY <2>1, <2>4 DEF CommitRequiresThreshold, WinnerIsUnique
  <2>. QED
    BY <1>0, <1>s, <2>3, <2>5 DEF AgreementInv
<1>6. ASSUME NEW r \in Result, CompleteViaFallback(r) PROVE AgreementInv'
  <2>1. CountFor(proposals, r) \in Nat /\ threshold \in Nat
    BY <1>0, CountType DEF TypeOK
  <2>2. CountFor(proposals, r) < threshold
    BY <1>6 DEF AgreementInv, NoPendingWinner, CompleteViaFallback, IsActive
  <2>. QED
    BY <1>6, <2>1, <2>2 DEF CompleteViaFallback
<1>7. CASE FailConsensus
  BY <1>0, <1>s, <1>7 DEF FailConsensus, AgreementInv, NoPendingWinner,
     CommitRequiresThreshold, WinnerIsUnique, IsActive, TypeOK, Phases
<1>8. CASE UNCHANGED vars
  BY <1>0, <1>s, <1>8 DEF vars, AgreementInv, NoPendingWinner,
     CommitRequiresThreshold, WinnerIsUnique, IsActive
<1>. QED
  BY <1>1, <1>2, <1>4, <1>5, <1>6, <1>7, <1>8 DEF Next

(* Agreement: in an instance driven by the transition functions alone a    *)
(* committed result is the only one with threshold shares, for any number  *)
(* of witnesses and any threshold; and an active instance has none.        *)
THEOREM Agreement == AnySpec => AgreementFromStart
<1>1. AgreementInv => NoPendingWinner /\ WinnerIsUnique
  BY DEF AgreementInv
<1>2. (Init \/ SyncedInit) /\ phase = "Absent" => Init
  BY DEF SyncedInit
<1>. QED
  BY <1>1, <1>2, AgreementInit, AgreementNext, PTL DEF AnySpec, AgreementFromStart

-----------------------------------------------------------------------------
(* From every start, the states sync_core_state leaves included. *)

(* Those states are well-formed, and nothing is decided in them. *)
LEMMA SyncedInitInv == SyncedInit => AnyInv /\ OneVotePerWitness
<1>. SUFFICES ASSUME SyncedInit PROVE AnyInv /\ OneVotePerWitness
  OBVIOUS
<1>1. IsFiniteSet(witnesses) /\ Cardinality(witnesses) \in Nat
  BY FS_Subset, FS_CardinalityType, AuthorityAssumption DEF SyncedInit
<1>2. PICK r \in Result, n \in 0..Cardinality(witnesses) :
        /\ proposals \in [1..n -> [witness : witnesses, result : {r}]]
        /\ DistinctWitnesses(proposals)
  BY DEF SyncedInit
<1>3. proposals \in [1..n -> ShareProposal]
  BY <1>2 DEF SyncedInit, ShareProposal
<1>4. n \in Nat
  BY <1>1
<1>5. proposals \in Seq(ShareProposal)
  BY <1>3, <1>4
<1>6. threshold \in Nat \ {0} /\ ThresholdReachable
  BY <1>1 DEF SyncedInit, ThresholdReachable
<1>7. ProposalsFromWitnesses /\ NoEquivocators
  BY <1>2 DEF SyncedInit, ProposalsFromWitnesses, NoEquivocators
<1>8. TypeOK /\ CommitRequiresThreshold
  BY <1>5, <1>6 DEF SyncedInit, TypeOK, Phases, CommitRequiresThreshold
<1>. QED
  BY <1>2, <1>6, <1>7, <1>8 DEF AnyInv, OneVotePerWitness

(* A step commits only with the threshold, whatever shares it started      *)
(* from.                                                                   *)
LEMMA CommitNext ==
  ASSUME TypeOK, CommitRequiresThreshold, [Next]_vars
  PROVE  CommitRequiresThreshold'
<1>. USE DEF CommitRequiresThreshold
<1>1. CASE Start
  BY <1>1, NoResultAssumption DEF Start, StartConsensus
<1>2. ASSUME NEW w \in Authority, NEW r \in Result, ApplyShare(w, r)
      PROVE  CommitRequiresThreshold'
  BY <1>2, NoResultAssumption DEF ApplyShare, MajorityResults, IsActive
<1>3. CASE TriggerFallback
  BY <1>3 DEF TriggerFallback
<1>4. ASSUME NEW batch \in Batches, GossipShares(batch) PROVE CommitRequiresThreshold'
  BY <1>4 DEF GossipShares
<1>5. ASSUME NEW r \in Result, CompleteViaFallback(r) PROVE CommitRequiresThreshold'
  BY <1>5, NoResultAssumption DEF CompleteViaFallback
<1>6. CASE FailConsensus
  BY <1>6 DEF FailConsensus
<1>7. CASE UNCHANGED vars
  BY <1>7 DEF vars, CountFor, VotesFor
<1>. QED
  BY <1>1, <1>2, <1>3, <1>4, <1>5, <1>6, <1>7 DEF Next

(* Witnesses and threshold are set together and stay. *)
LEMMA ReachableNext ==
  ASSUME TypeOK, ThresholdReachable, [Next]_vars
  PROVE  ThresholdReachable'
<1>1. CASE Start
  BY <1>1 DEF Start, StartConsensus, ThresholdReachable
<1>2. CASE UNCHANGED <<witnesses, threshold>> /\ (phase' = "Absent" <=> phase = "Absent")
  BY <1>2 DEF ThresholdReachable
<1>3. ASSUME NEW w \in Authority, NEW r \in Result, ApplyShare(w, r)
      PROVE  ThresholdReachable'
  BY <1>3 DEF ApplyShare, IsActive, ThresholdReachable
<1>4. ASSUME NEW batch \in Batches, GossipShares(batch) PROVE ThresholdReachable'
  BY <1>4, <1>2 DEF GossipShares
<1>5. ASSUME NEW r \in Result, CompleteViaFallback(r) PROVE ThresholdReachable'
  BY <1>5, <1>2 DEF CompleteViaFallback
<1>6. CASE TriggerFallback \/ FailConsensus \/ UNCHANGED vars
  BY <1>2, <1>6 DEF TriggerFallback, FailConsensus, vars
<1>. QED
  BY <1>1, <1>3, <1>4, <1>5, <1>6 DEF Next

(* AnyInv holds however an instance came about. *)
LEMMA AnyInvariance == AnySpec => []AnyInv
<1>1. Init => AnyInv
  BY AgreementInit DEF AgreementInv, AnyInv, Init, ThresholdReachable
<1>2. AnyInv /\ [Next]_vars => AnyInv'
  BY TypeNext, SharesNext, ReachableNext, CommitNext DEF AnyInv
<1>. QED
  BY <1>1, <1>2, SyncedInitInv, PTL DEF AnySpec

(* Every reachable ConsensusState is well typed, from either start. *)
THEOREM TypeCorrect == AnySpec => []TypeOK
  BY AnyInvariance, PTL DEF AnyInv

(* However an instance came about, also from a mirrored state that already *)
(* holds threshold shares, a commit fact has threshold shares behind it.   *)
THEOREM CommitBacked == AnySpec => []CommitRequiresThreshold
  BY AnyInvariance, PTL DEF AnyInv

(* check_invariants succeeds on every instance there is: no sequence of    *)
(* transition functions, from either start, makes a state it refuses.      *)
THEOREM ChecksSucceed == AnySpec => [](phase # "Absent" => CheckInvariants)
<1>1. AnyInv => (phase # "Absent" => CheckInvariants)
  <2>. SUFFICES ASSUME AnyInv, phase # "Absent" PROVE CheckInvariants
    OBVIOUS
  <2>1. threshold >= 1 /\ Cardinality(witnesses) >= threshold
    BY DEF AnyInv, TypeOK, ThresholdReachable
  <2>. QED
    BY <2>1 DEF AnyInv, CheckInvariants, ProposalsFromWitnesses, NoEquivocators,
       CommitRequiresThreshold
<1>. QED
  BY <1>1, AnyInvariance, PTL

-----------------------------------------------------------------------------

(* complete_via_fallback is never enabled on an instance built by          *)
(* start_consensus and driven by the transition functions: no step of the  *)
(* core completes through it.                                              *)
THEOREM FallbackNeverCompletes ==
  Spec => [][~ \E r \in Result : CompleteViaFallback(r)]_vars
<1>1. AgreementInv => ~ \E r \in Result : CompleteViaFallback(r)
  <2>. SUFFICES ASSUME AgreementInv, NEW r \in Result, CompleteViaFallback(r) PROVE FALSE
    OBVIOUS
  <2>1. CountFor(proposals, r) \in Nat /\ threshold \in Nat
    BY CountType DEF AgreementInv, TypeOK
  <2>2. CountFor(proposals, r) < threshold
    BY DEF AgreementInv, NoPendingWinner, CompleteViaFallback, IsActive
  <2>. QED
    BY <2>1, <2>2 DEF CompleteViaFallback
<1>. QED
  BY <1>1, AgreementInit, AgreementNext, PTL DEF Spec

(* A terminal instance never changes again. *)
THEOREM Finality == AnySpec => DecisionIsFinal
<1>1. [Next]_vars =>
        [IsTerminal => UNCHANGED <<phase, proposals, commitFact, witnesses, threshold>>]_vars
  <2>. SUFFICES ASSUME Next, IsTerminal
                PROVE  UNCHANGED <<phase, proposals, commitFact, witnesses, threshold>>
    OBVIOUS
  <2>. QED
    BY DEF Next, Start, StartConsensus, ApplyShare, TriggerFallback,
       GossipShares, CompleteViaFallback, FailConsensus, IsTerminal, IsActive
<1>. QED
  BY <1>1, PTL DEF AnySpec, DecisionIsFinal

-----------------------------------------------------------------------------

(* A step keeps one vote per witness unless it gossips a batch that names  *)
(* one witness twice.                                                      *)
LEMMA OneVoteNext ==
  ASSUME TypeOK, OneVotePerWitness, [Next]_vars,
         \A batch \in Batches : GossipShares(batch) => DistinctWitnesses(batch)
  PROVE  OneVotePerWitness'
<1>. USE DEF OneVotePerWitness, DistinctWitnesses
<1>1. ASSUME NEW w \in Authority, NEW r \in Result, ApplyShare(w, r) PROVE OneVotePerWitness'
  <2>1. proposals' = Append(proposals, [witness |-> w, result |-> r])
    BY <1>1, ShareAppended
  <2>2. \A i \in DOMAIN proposals : proposals[i].witness # w
    BY <1>1 DEF ApplyShare, HasProposal
  <2>3. [witness |-> w, result |-> r] \in ShareProposal
    BY DEF ShareProposal
  <2>. QED
    BY <2>1, <2>2, <2>3, AppendProperties, LenProperties DEF TypeOK
<1>2. ASSUME NEW batch \in Batches, GossipShares(batch) PROVE OneVotePerWitness'
  <2>1. proposals' = proposals \o batch /\ DistinctWitnesses(batch)
    BY <1>2, SMTT(30) DEF GossipShares
  <2>2. \A i \in DOMAIN proposals, j \in DOMAIN batch :
          proposals[i].witness # batch[j].witness
    BY <1>2 DEF GossipShares, Admissible, HasProposal
  <2>3. batch \in Seq(ShareProposal) /\ proposals \in Seq(ShareProposal)
    BY BatchType DEF TypeOK
  <2>4. /\ DOMAIN proposals' = 1..(Len(proposals) + Len(batch))
        /\ DOMAIN proposals = 1..Len(proposals)
        /\ DOMAIN batch = 1..Len(batch)
        /\ Len(proposals) \in Nat /\ Len(batch) \in Nat
        /\ \A i \in 1..(Len(proposals) + Len(batch)) :
             proposals'[i] = IF i <= Len(proposals) THEN proposals[i]
                             ELSE batch[i - Len(proposals)]
    BY <2>1, <2>3, ConcatProperties, LenProperties, SMTT(30)
  <2>. SUFFICES ASSUME NEW i \in DOMAIN proposals', NEW j \in DOMAIN proposals',
                       proposals'[i].witness = proposals'[j].witness
                PROVE  i = j
    OBVIOUS
  <2>. DEFINE n == Len(proposals)
  <2>5. i \in Nat /\ j \in Nat /\ n \in Nat
    BY <2>4
  <2>6. ASSUME NEW k \in DOMAIN proposals', k > n
        PROVE  k - n \in DOMAIN batch /\ proposals'[k] = batch[k - n]
    BY <2>4, <2>6
  <2>7. ASSUME NEW k \in DOMAIN proposals', k <= n
        PROVE  k \in DOMAIN proposals /\ proposals'[k] = proposals[k]
    BY <2>4, <2>7
  <2>. HIDE DEF n
  <2>8. CASE i <= n /\ j <= n
    BY <2>7, <2>8
  <2>9. CASE i > n /\ j > n
    <3>1. i - n = j - n
      BY <2>1, <2>6, <2>9
    <3>. QED
      BY <2>5, <3>1
  <2>10. CASE (i <= n /\ j > n) \/ (i > n /\ j <= n)
    BY <2>2, <2>6, <2>7, <2>10
  <2>. QED
    BY <2>5, <2>8, <2>9, <2>10
<1>3. CASE UNCHANGED proposals
  BY <1>3
<1>. QED
  BY <1>1, <1>2, <1>3 DEF Next, Start, StartConsensus, TriggerFallback,
     CompleteViaFallback, FailConsensus, vars

(* With one vote per witness, a result has as many attesters as shares. *)
LEMMA VotesAreAttesters ==
  ASSUME TypeOK, OneVotePerWitness, NEW r \in Result
  PROVE  /\ IsFiniteSet(Attesters(r))
         /\ CountFor(proposals, r) <= Cardinality(Attesters(r))
<1>1. IsFiniteSet(Attesters(r))
  BY AuthorityAssumption, FS_Subset DEF Attesters
<1>. DEFINE f == [i \in VotesFor(proposals, r) |-> proposals[i].witness]
<1>2. f \in Injection(VotesFor(proposals, r), Attesters(r))
  <2>1. ASSUME NEW i \in VotesFor(proposals, r) PROVE f[i] \in Attesters(r)
    <3>1. proposals[i] \in ShareProposal
      BY <2>1, ElementOfSeq, LenProperties DEF VotesFor, TypeOK
    <3>2. proposals[i] = [witness |-> proposals[i].witness, result |-> r]
      BY <2>1, <3>1 DEF VotesFor, ShareProposal
    <3>. QED
      BY <2>1, <3>1, <3>2 DEF VotesFor, Attesters, ShareProposal
  <2>2. \A i, j \in VotesFor(proposals, r) : f[i] = f[j] => i = j
    BY DEF VotesFor, OneVotePerWitness, DistinctWitnesses
  <2>. QED
    BY <2>1, <2>2 DEF Injection, IsInjective
<1>. QED
  BY <1>1, <1>2, FS_Injection DEF CountFor

(* A commit over one vote per witness has threshold attesters. *)
LEMMA AttestersOfCommit == AnyInv /\ OneVotePerWitness => CommitHasThresholdAttesters
<1>. SUFFICES ASSUME AnyInv, OneVotePerWitness, commitFact # NoResult
              PROVE  /\ Cardinality(Attesters(commitFact)) >= threshold
                     /\ Attesters(commitFact) \subseteq witnesses \ equivocators
  BY DEF CommitHasThresholdAttesters
<1>1. /\ TypeOK
      /\ commitFact \in Result
      /\ CountFor(proposals, commitFact) >= threshold
  BY DEF AnyInv, CommitRequiresThreshold, TypeOK
<1>2. /\ IsFiniteSet(Attesters(commitFact))
      /\ CountFor(proposals, commitFact) <= Cardinality(Attesters(commitFact))
  BY <1>1, VotesAreAttesters
<1>3. /\ Cardinality(Attesters(commitFact)) \in Nat
      /\ CountFor(proposals, commitFact) \in Nat
      /\ threshold \in Nat
  BY <1>1, <1>2, CountType, FS_CardinalityType DEF TypeOK
<1>4. Attesters(commitFact) \subseteq witnesses
  BY DEF AnyInv, ProposalsFromWitnesses, Attesters
<1>. QED
  BY <1>1, <1>2, <1>3, <1>4 DEF AnyInv, NoEquivocators

(* The only way to a commit with too few attesters: some gossip_shares     *)
(* call merged a batch that names a witness twice.  A commit either has    *)
(* threshold attesters or rests on repeated votes, and the step that first *)
(* repeats a vote is such a call.                                          *)
THEOREM FewAttestersNeedRepeats ==
  AnySpec => /\ [](OneVotePerWitness => CommitHasThresholdAttesters)
             /\ [][OneVotePerWitness /\ ~OneVotePerWitness' =>
                     \E batch \in Batches :
                       GossipShares(batch) /\ ~DistinctWitnesses(batch)]_vars
<1>1. AnyInv => (OneVotePerWitness => CommitHasThresholdAttesters)
  BY AttestersOfCommit
<1>2. AnyInv /\ [Next]_vars =>
        [OneVotePerWitness /\ ~OneVotePerWitness' =>
           \E batch \in Batches :
             GossipShares(batch) /\ ~DistinctWitnesses(batch)]_vars
  <2>. SUFFICES ASSUME AnyInv, [Next]_vars, OneVotePerWitness, ~OneVotePerWitness'
                PROVE  \E batch \in Batches :
                         GossipShares(batch) /\ ~DistinctWitnesses(batch)
    OBVIOUS
  <2>. QED
    BY OneVoteNext DEF AnyInv
<1>. QED
  BY <1>1, <1>2, AnyInvariance, PTL DEF AnySpec

(* An instance that never fell back commits with threshold attesters. *)
THEOREM FastPathIsAttested == AnySpec => []FastPathAttesters
<1>1. Init \/ SyncedInit => FastPathOneVote
  BY SyncedInitInv
     DEF Init, SyncedInit, FastPathOneVote, OneVotePerWitness, DistinctWitnesses
<1>2. AnyInv /\ FastPathOneVote /\ [Next]_vars => FastPathOneVote'
  <2>. SUFFICES ASSUME AnyInv, FastPathOneVote, [Next]_vars PROVE FastPathOneVote'
    OBVIOUS
  <2>1. (phase = "FallbackActive" => fallbackTimerActive)'
    BY DEF FastPathOneVote, Next, Start, StartConsensus, ApplyShare,
       TriggerFallback, GossipShares, CompleteViaFallback, FailConsensus, vars
  <2>2. phase' = "Absent" => phase = "Absent" /\ UNCHANGED fallbackTimerActive
    BY DEF Next, Start, StartConsensus, ApplyShare, TriggerFallback,
       GossipShares, CompleteViaFallback, FailConsensus, vars
  <2>3. (phase = "Absent" => ~fallbackTimerActive)'
    BY <2>2 DEF FastPathOneVote
  <2>4. ASSUME ~fallbackTimerActive' PROVE OneVotePerWitness'
    <3>1. ~fallbackTimerActive
      BY <2>4 DEF AnyInv, TypeOK, Next, Start, StartConsensus, ApplyShare,
         TriggerFallback, GossipShares, CompleteViaFallback, FailConsensus, vars,
         FastPathOneVote
    <3>2. \A batch \in Batches : ~GossipShares(batch)
      BY <3>1 DEF FastPathOneVote, GossipShares
    <3>. QED
      BY <3>1, <3>2, OneVoteNext DEF AnyInv, FastPathOneVote
  <2>. QED
    BY <2>1, <2>3, <2>4 DEF FastPathOneVote
<1>3. AnyInv /\ FastPathOneVote => FastPathAttesters
  BY AttestersOfCommit DEF FastPathOneVote, FastPathAttesters
<1>. QED
  BY <1>1, <1>2, <1>3, AnyInvariance, PTL DEF AnySpec

=============================================================================
