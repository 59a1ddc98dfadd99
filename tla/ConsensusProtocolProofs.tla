----------------------- MODULE ConsensusProtocolProofs -----------------------
(***************************************************************************)
(* Proofs about ConsensusProtocol, for every set of witnesses, every       *)
(* configured threshold, every threshold of the collector, any number of   *)
(* deliveries and any evidence.                                            *)
(***************************************************************************)
EXTENDS ConsensusProtocol, FiniteSetTheorems, TLAPS

(* A set of senders can be counted. *)
LEMMA SendersFinite ==
  ASSUME NEW S \in SUBSET Authority
  PROVE  IsFiniteSet(S) /\ Cardinality(S) \in Nat
BY WitnessAssumption, FS_Subset, FS_CardinalityType

(* The configured threshold is a positive number. *)
LEMMA ThresholdType == Threshold \in Nat /\ Threshold > 0
<1>1. IsFiniteSet(Witness)
  BY WitnessAssumption, FS_Subset
<1>2. Cardinality(Witness) \in Nat
  BY <1>1, FS_CardinalityType
<1> QED BY <1>2, ThresholdAssumption

-----------------------------------------------------------------------------
(* Types *)

(* What a NonceCommit does to the fields of the instance. *)
LEMMA NonceCommitFields ==
  ASSUME TypeOK, NEW a \in Authority, NonceCommit(a)
  PROVE  /\ inst \in Instance /\ inst' \in Instance
         /\ inst'.committers = inst.committers \cup {a}
         /\ inst'.shares = inst.shares /\ inst'.sealed = inst.sealed
         /\ inst'.core \in {inst.core, inst.shares}
         /\ inst'.token = inst.token
         /\ inst.phase = "Sign" => inst'.phase = "Sign"
         /\ inst'.phase = "Sign" =>
              \/ inst.phase = "Sign"
              \/ Cardinality(inst'.committers) >= Threshold
<1>1. inst \in Instance
  BY DEF NonceCommit, Handling, TypeOK
<1> DEFINE cs == inst.committers \cup {a}
<1>2. CASE Cardinality(cs) >= Threshold
  <2>1. inst' = [inst EXCEPT !.committers = cs, !.phase = "Sign", !.core = inst.shares]
    BY <1>2 DEF NonceCommit
  <2> QED BY <1>1, <1>2, <2>1 DEF Instance
<1>3. CASE ~(Cardinality(cs) >= Threshold)
  <2>1. inst' = [inst EXCEPT !.committers = cs]
    BY <1>3 DEF NonceCommit
  <2> QED BY <1>1, <2>1 DEF Instance
<1> QED BY <1>2, <1>3

(* What an accepted SignShare does to the fields of the instance. *)
LEMMA SignShareFields ==
  ASSUME TypeOK, NEW a \in Authority, SignShare(a)
  PROVE  /\ inst \in Instance /\ inst' \in Instance
         /\ inst'.shares = inst.shares \cup {a} /\ inst'.core = inst'.shares
         /\ inst'.sealed = (Cardinality(inst'.shares) >= CollectorThreshold)
         /\ inst'.committers = inst.committers /\ inst'.phase = inst.phase
         /\ inst'.token = inst.token
<1>1. inst \in Instance
  BY DEF SignShare, Handling, TypeOK
<1> DEFINE ss == inst.shares \cup {a}
           seals == Cardinality(ss) >= CollectorThreshold
<1>2. inst' = [inst EXCEPT !.shares = ss, !.sealed = seals, !.core = ss]
  BY DEF SignShare, SealsWith
<1>3. seals \in BOOLEAN /\ ss \in SUBSET Authority
  BY <1>1 DEF Instance
<1> HIDE DEF seals
<1>4. /\ inst' \in Instance /\ inst'.shares = ss /\ inst'.core = ss /\ inst'.sealed = seals
      /\ inst'.committers = inst.committers /\ inst'.phase = inst.phase
      /\ inst'.token = inst.token
  BY <1>1, <1>2, <1>3 DEF Instance
<1> QED BY <1>1, <1>4 DEF seals

(* What a Conflict does to the fields of the instance. *)
LEMMA ConflictFields ==
  ASSUME TypeOK, Conflict
  PROVE  /\ inst \in Instance /\ inst' \in Instance
         /\ inst'.shares = inst.shares /\ inst'.sealed = inst.sealed
         /\ inst'.core = inst.core /\ inst'.committers = inst.committers
         /\ inst'.phase = inst.phase /\ inst'.token = inst.token
<1>1. inst \in Instance
  BY DEF Conflict, Handling, TypeOK
<1> QED BY <1>1 DEF Conflict, Instance

(* What caching a nonce does to the fields of the instance. *)
LEMMA CacheFields ==
  ASSUME TypeOK, NEW t \in Task, CacheNonce(t), inst # None
  PROVE  /\ inst \in Instance /\ inst' \in Instance
         /\ inst'.shares = inst.shares /\ inst'.sealed = inst.sealed
         /\ inst'.core = inst.core /\ inst'.committers = inst.committers
         /\ inst'.phase = inst.phase /\ inst'.token = fresh
<1>1. inst \in Instance /\ fresh \in Nat
  BY DEF TypeOK
<1>2. inst' = [inst EXCEPT !.token = fresh]
  BY DEF CacheNonce
<1> QED BY <1>1, <1>2 DEF Instance

(* Merging adds proofs out of the delta. *)
LEMMA MergeType ==
  ASSUME evidence \subseteq Proof, NEW delta \in Delta
  PROVE  Merge(evidence, delta) \subseteq Proof
<1>1. PICK n \in 0..MaxDelta : delta \in [1..n -> Proof]
  BY DEF Delta
<1> QED BY <1>1 DEF Merge, Added

(* A task is in the Execute arm from the step that reads the start time to *)
(* the send guard, and has its nonce after the cache step only.            *)
ArmOfTask ==
  \A t \in Task :
    /\ pc[t] \in {"stamp", "insert", "cache", "guard"} => kind[t] = "Execute"
    /\ pc[t] = "guard" => nonce[t] # None
    /\ nonce[t] # None => kind[t] = "Execute" /\ pc[t] \in {"guard", "done"}

(* A device starts with its types. *)
LEMMA TypeInit == Init => TypeOK
<1> SUFFICES ASSUME Init PROVE TypeOK
  OBVIOUS
<1>1. 0 \in 0..MaxTime
  BY TimeAssumption
<1>2. kind \in [Task -> Kinds] /\ pc \in [Task -> Steps]
  BY DEF Init, WitnessInit, Kinds, Steps
<1>3. stamp \in [Task -> 0..MaxTime] /\ nonce \in [Task -> Nat \cup {None}]
  BY <1>1 DEF Init, WitnessInit
<1> QED BY <1>1, <1>2, <1>3 DEF Init, WitnessInit, TypeOK

(* Every step of either role keeps the types. *)
LEMMA TypeNext == TypeOK /\ ArmOfTask /\ [Next]_vars => TypeOK'
<1> SUFFICES ASSUME TypeOK, ArmOfTask, [Next]_vars PROVE TypeOK'
  OBVIOUS
<1>1. ASSUME NEW t \in Task, Step(t), UNCHANGED <<finalizing, result>> PROVE TypeOK'
  <2>1. CASE Cleanup(t)
    BY <1>1, <2>1 DEF TypeOK, Cleanup, Goto, AfterCleanup, Steps
  <2>2. ASSUME NEW delta \in Delta, MergeEvidence(t, delta) PROVE TypeOK'
    <3>1. evidence' \subseteq Proof
      BY <2>2, MergeType DEF TypeOK, MergeEvidence
    <3>2. pc' \in [Task -> Steps]
      BY <2>2 DEF TypeOK, MergeEvidence, Goto, FirstStep, Steps, Kinds
    <3> QED BY <1>1, <2>2, <3>1, <3>2 DEF TypeOK, MergeEvidence
  <2>3. CASE Stamp(t)
    BY <1>1, <2>3 DEF TypeOK, Stamp, Goto, Steps
  <2>4. CASE Insert(t)
    <3>1. inst' \in Instance
      BY <2>4 DEF TypeOK, Insert, NewInstance, Instance
    <3>2. pc' \in [Task -> Steps]
      BY <2>4 DEF TypeOK, Insert, Goto, Steps
    <3> QED BY <1>1, <2>4, <3>1, <3>2 DEF TypeOK, Insert
  <2>5. CASE CacheNonce(t)
    <3>1. inst' \in Instance \cup {None}
      <4>1. CASE inst # None
        BY <2>5, <4>1, CacheFields
      <4> QED BY <2>5, <4>1 DEF CacheNonce
    <3>2. pc' \in [Task -> Steps] /\ nonce' \in [Task -> Nat \cup {None}] /\ fresh' \in Nat
      BY <2>5 DEF TypeOK, CacheNonce, Goto, Steps
    <3> QED BY <1>1, <2>5, <3>1, <3>2 DEF TypeOK, CacheNonce
  <2>6. CASE NonceError(t)
    BY <1>1, <2>6 DEF TypeOK, NonceError, Goto, Steps
  <2>7. CASE SendGuard(t)
    <3>1. nonce[t] \in Nat
      BY <2>7 DEF TypeOK, ArmOfTask, SendGuard
    <3> QED BY <1>1, <2>7, <3>1 DEF TypeOK, SendGuard, Goto, Steps
  <2>8. CASE AcquireRead(t)
    BY <1>1, <2>8 DEF TypeOK, AcquireRead, Goto, Steps
  <2>9. CASE HandleResult(t)
    BY <1>1, <2>9 DEF TypeOK, HandleResult, Goto, Steps
  <2> QED BY <1>1, <2>1, <2>2, <2>3, <2>4, <2>5, <2>6, <2>7, <2>8, <2>9 DEF Step
<1>2. ASSUME NEW t \in Task, NEW k \in Kinds, Deliver(t, k), UNCHANGED <<finalizing, result>>
      PROVE  TypeOK'
  BY <1>2 DEF TypeOK, Deliver, Goto, Steps
<1>3. CASE Tick /\ UNCHANGED <<finalizing, result>>
  BY <1>3, TimeAssumption DEF TypeOK, Tick, tasks
<1>4. ASSUME OthersUntouched, inst' \in Instance \cup {None} PROVE TypeOK'
  BY <1>4, SMTT(30) DEF TypeOK, OthersUntouched, tasks
<1>5. ASSUME NEW a \in Authority, NonceCommit(a) PROVE TypeOK'
  BY <1>4, <1>5, NonceCommitFields DEF NonceCommit
<1>6. ASSUME NEW a \in Authority, SignShare(a) PROVE TypeOK'
  <2>1. inst' \in Instance
    BY <1>6, SignShareFields
  <2>2. lock' \in {"free", "read", "write"} /\ finalizing' \in BOOLEAN
    BY <1>6 DEF SignShare, SealsWith
  <2> QED BY <1>6, <2>1, <2>2 DEF TypeOK, SignShare, tasks
<1>7. CASE Conflict
  BY <1>4, <1>7, ConflictFields DEF Conflict
<1>8. CASE CleanupBeforeRun
  BY <1>4, <1>8 DEF CleanupBeforeRun
<1>9. CASE UNCHANGED vars
  BY <1>9 DEF TypeOK, vars, witnessVars, tasks
<1> QED BY <1>1, <1>2, <1>3, <1>5, <1>6, <1>7, <1>8, <1>9
        DEF Next, WitnessNext, CoordinatorNext

(* Every step keeps a task in its arm. *)
LEMMA ArmNext == TypeOK /\ ArmOfTask /\ [Next]_vars => ArmOfTask'
<1> SUFFICES ASSUME TypeOK, ArmOfTask, [Next]_vars PROVE ArmOfTask'
  OBVIOUS
<1>1. ASSUME NEW t \in Task, Step(t) PROVE ArmOfTask'
  <2>1. CASE Cleanup(t)
    BY <2>1 DEF TypeOK, ArmOfTask, Cleanup, Goto, AfterCleanup
  <2>2. ASSUME NEW delta \in Delta, MergeEvidence(t, delta) PROVE ArmOfTask'
    BY <2>2 DEF TypeOK, ArmOfTask, MergeEvidence, Goto, FirstStep, Kinds
  <2>3. CASE Stamp(t)
    BY <2>3 DEF TypeOK, ArmOfTask, Stamp, Goto
  <2>4. CASE Insert(t)
    BY <2>4 DEF TypeOK, ArmOfTask, Insert, Goto
  <2>5. CASE CacheNonce(t)
    BY <2>5, NoneAssumption DEF TypeOK, ArmOfTask, CacheNonce, Goto
  <2>6. CASE NonceError(t)
    BY <2>6 DEF TypeOK, ArmOfTask, NonceError, Goto
  <2>7. CASE SendGuard(t)
    BY <2>7 DEF TypeOK, ArmOfTask, SendGuard, Goto
  <2>8. CASE AcquireRead(t)
    BY <2>8 DEF TypeOK, ArmOfTask, AcquireRead, Goto
  <2>9. CASE HandleResult(t)
    BY <2>9 DEF TypeOK, ArmOfTask, HandleResult, Goto
  <2> QED BY <1>1, <2>1, <2>2, <2>3, <2>4, <2>5, <2>6, <2>7, <2>8, <2>9 DEF Step
<1>2. ASSUME NEW t \in Task, NEW k \in Kinds, Deliver(t, k) PROVE ArmOfTask'
  BY <1>2 DEF TypeOK, ArmOfTask, Deliver, Goto
<1>3. ASSUME UNCHANGED tasks PROVE ArmOfTask'
  BY <1>3, SMTT(30) DEF ArmOfTask, tasks
<1>4. CASE Tick \/ CoordinatorNext \/ UNCHANGED vars
  BY <1>3, <1>4 DEF Tick, CoordinatorNext, NonceCommit, SignShare, Conflict,
     CleanupBeforeRun, OthersUntouched, vars, witnessVars
<1> QED BY <1>1, <1>2, <1>4 DEF Next, WitnessNext

(* Types and arms together are inductive. *)
LEMMA TypeInvariance == Spec => [](TypeOK /\ ArmOfTask)
<1>1. Init => ArmOfTask
  BY DEF Init, WitnessInit, ArmOfTask
<1> QED BY <1>1, TypeInit, TypeNext, ArmNext, PTL DEF Spec

(* The instance, the tasks, the evidence, the lock and the outcome keep    *)
(* their types: no handler moves the phase past Sign, and no start time is *)
(* ahead of the clock's bound.                                             *)
THEOREM TypeCorrect == Spec => []TypeOK
BY TypeInvariance, PTL

-----------------------------------------------------------------------------
(* The instance *)

(* Signing starts with a quorum of commitments, and shares come later. *)
SigningQuorum ==
  inst # None =>
    /\ inst.phase = "Sign" => Cardinality(inst.committers) >= Threshold
    /\ inst.shares # {} => inst.phase = "Sign"

(* What holds of the instance between two steps. *)
InstanceInv == SealedAtThreshold /\ CoreMirrorsTracker /\ SigningQuorum

(* An accepted share makes the set one larger, and only an unsealed set    *)
(* accepts: so it is sealed when, and only when, it reaches the threshold  *)
(* of the collector.                                                       *)
LEMMA SignShareInductive ==
  ASSUME TypeOK, InstanceInv, NEW a \in Authority, SignShare(a)
  PROVE  InstanceInv'
<1>1. /\ inst # None /\ ~inst.sealed /\ a \notin inst.shares
      /\ inst.phase = "Sign" /\ a \in Witness /\ a \in inst.committers
  BY DEF SignShare, Handling, Insertable, ValidSignShare
<1>2. inst.shares \in SUBSET Authority /\ inst'.shares = inst.shares \cup {a}
  BY SignShareFields DEF Instance
<1>3. Cardinality(inst'.shares) = Cardinality(inst.shares) + 1
  BY <1>1, <1>2, SendersFinite, FS_AddElement
<1>4. Cardinality(inst.shares) \in Nat /\ Cardinality(inst.shares) < CollectorThreshold
  BY <1>1, <1>2, SendersFinite, CollectorAssumption DEF InstanceInv, SealedAtThreshold
<1>5. SealedAtThreshold'
  <2>1. Cardinality(inst'.shares) <= CollectorThreshold
    BY <1>3, <1>4, CollectorAssumption
  <2>2. inst'.sealed = (Cardinality(inst'.shares) >= CollectorThreshold)
    BY SignShareFields
  <2> QED BY <2>1, <2>2 DEF SealedAtThreshold
<1>6. CoreMirrorsTracker'
  BY <1>1, <1>2, SignShareFields DEF InstanceInv, CoreMirrorsTracker
<1>7. SigningQuorum'
  BY <1>1, SignShareFields DEF InstanceInv, SigningQuorum
<1> QED BY <1>5, <1>6, <1>7 DEF InstanceInv

(* A new commitment never takes a committer away. *)
LEMMA NonceCommitInductive ==
  ASSUME TypeOK, InstanceInv, NEW a \in Authority, NonceCommit(a)
  PROVE  InstanceInv'
<1>1. inst # None
  BY DEF NonceCommit, Handling
<1>2. SealedAtThreshold'
  BY <1>1, NonceCommitFields DEF InstanceInv, SealedAtThreshold
<1>3. CoreMirrorsTracker'
  BY <1>1, NonceCommitFields DEF InstanceInv, CoreMirrorsTracker
<1>4. SigningQuorum'
  <2>1. inst'.shares # {} => inst'.phase = "Sign"
    BY <1>1, NonceCommitFields DEF InstanceInv, SigningQuorum
  <2>2. ASSUME inst.phase = "Sign" PROVE Cardinality(inst'.committers) >= Threshold
    <3>1. inst.committers \subseteq inst'.committers /\ inst'.committers \in SUBSET Authority
      BY NonceCommitFields DEF Instance
    <3>2. Cardinality(inst.committers) <= Cardinality(inst'.committers)
      BY <3>1, SendersFinite, FS_Subset
    <3>3. Cardinality(inst.committers) \in Nat /\ Cardinality(inst'.committers) \in Nat
      BY <3>1, SendersFinite
    <3> QED BY <1>1, <2>2, <3>2, <3>3, ThresholdType DEF InstanceInv, SigningQuorum
  <2> QED BY <2>1, <2>2, NonceCommitFields DEF SigningQuorum
<1> QED BY <1>2, <1>3, <1>4 DEF InstanceInv

(* Both roles keep the instance as InstanceInv says. *)
LEMMA InstanceNext == TypeOK /\ InstanceInv /\ [Next]_vars => InstanceInv'
<1> SUFFICES ASSUME TypeOK, InstanceInv, [Next]_vars PROVE InstanceInv'
  OBVIOUS
<1>1. ASSUME inst' = inst \/ inst' = None PROVE InstanceInv'
  BY <1>1 DEF InstanceInv, SealedAtThreshold, CoreMirrorsTracker, SigningQuorum
<1>2. ASSUME inst # None,
             /\ inst'.shares = inst.shares /\ inst'.sealed = inst.sealed
             /\ inst'.core = inst.core /\ inst'.committers = inst.committers
             /\ inst'.phase = inst.phase
      PROVE  InstanceInv'
  BY <1>2 DEF InstanceInv, SealedAtThreshold, CoreMirrorsTracker, SigningQuorum
<1>3. ASSUME NEW t \in Task, Insert(t) PROVE InstanceInv'
  <2>1. /\ inst'.shares = {} /\ inst'.core = {} /\ inst'.committers = {}
        /\ inst'.sealed = FALSE /\ inst'.phase = "Execute"
    BY <1>3 DEF Insert, NewInstance
  <2>2. Cardinality(inst'.shares) = 0
    BY <2>1, FS_EmptySet
  <2> QED BY <2>1, <2>2, CollectorAssumption
          DEF InstanceInv, SealedAtThreshold, CoreMirrorsTracker, SigningQuorum
<1>4. ASSUME NEW t \in Task, CacheNonce(t) PROVE InstanceInv'
  <2>1. CASE inst # None
    BY <1>2, <1>4, <2>1, CacheFields
  <2> QED BY <1>1, <1>4, <2>1 DEF CacheNonce
<1>5. CASE Conflict
  BY <1>2, <1>5, ConflictFields DEF Conflict, Handling
<1>6. ASSUME NEW t \in Task, Step(t) PROVE InstanceInv'
  BY <1>1, <1>3, <1>4, <1>6 DEF Step, Cleanup, MergeEvidence, Stamp, NonceError, SendGuard,
     AcquireRead, HandleResult
<1>7. ASSUME NEW t \in Task, NEW k \in Kinds, Deliver(t, k) PROVE InstanceInv'
  BY <1>1, <1>7 DEF Deliver
<1>8. CASE Tick \/ CleanupBeforeRun \/ UNCHANGED vars
  BY <1>1, <1>8 DEF Tick, CleanupBeforeRun, vars, witnessVars
<1> QED BY <1>5, <1>6, <1>7, <1>8, SignShareInductive, NonceCommitInductive
        DEF Next, WitnessNext, CoordinatorNext

(* InstanceInv holds of every instance under messages in any order,        *)
(* repeated, late or foreign, and across its replacement.                  *)
LEMMA InstanceInvariance == Spec => []InstanceInv
<1>1. Init => InstanceInv
  BY DEF Init, WitnessInit, InstanceInv, SealedAtThreshold, CoreMirrorsTracker, SigningQuorum
<1> QED BY <1>1, InstanceNext, TypeInvariance, PTL DEF Spec

(* The share set of an instance seals at exactly the threshold its         *)
(* collector was created with.                                             *)
THEOREM ShareSetSeals == Spec => []SealedAtThreshold
BY InstanceInvariance, PTL DEF InstanceInv

(* Whatever threshold the collector was created with, a sealed set that    *)
(* can be aggregated holds the configured threshold of shares.             *)
THEOREM AggregateQuorum == Spec => []AggregateHasThreshold
<1>1. TypeOK /\ InstanceInv => AggregateHasThreshold
  <2> SUFFICES ASSUME TypeOK, InstanceInv, inst # None, inst.sealed,
                      inst.shares = inst.committers
               PROVE  Cardinality(inst.shares) >= Threshold
    BY DEF AggregateHasThreshold, Aggregates
  <2>1. inst.shares \in SUBSET Authority
    BY DEF TypeOK, Instance
  <2>2. Cardinality(inst.shares) >= CollectorThreshold
    BY DEF InstanceInv, SealedAtThreshold
  <2>3. inst.shares # {}
    BY <2>2, FS_EmptySet, CollectorAssumption
  <2> QED BY <2>3 DEF InstanceInv, SigningQuorum
<1> QED BY <1>1, TypeInvariance, InstanceInvariance, PTL

(* The invariants the code asserts of the mirrored core always hold. *)
THEOREM CoreMirror == Spec => []CoreMirrorsTracker
BY InstanceInvariance, PTL DEF InstanceInv

-----------------------------------------------------------------------------
(* The core state that sync_core_state leaves. *)

(* ProtocolInstance::to_core_phase. *)
ToCorePhase(phase) == IF phase = "Result" THEN "Committed" ELSE "FastPathActive"

(* The mirrored ConsensusState with the proposals ps: no handler writes a  *)
(* commit fact, a timer or an equivocator into it.                         *)
Core(ps) == INSTANCE ConsensusCore
              WITH Result <- {"operation_hash"}, NoResult <- "none", MaxBatch <- 0,
                   phase <- ToCorePhase(inst.phase), witnesses <- Witness,
                   threshold <- Threshold, proposals <- ps, commitFact <- "none",
                   fallbackTimerActive <- FALSE, equivocators <- {}

(* The core of an instance is in one of the states ConsensusCore starts    *)
(* from after a synchronisation, with one proposal for each member of      *)
(* `core`, and assert_invariants does not fire on it.                      *)
CoreIsSynced ==
  inst # None =>
    \E n \in 0..Cardinality(Witness) :
      \E ps \in [1..n -> [witness : Witness, result : {"operation_hash"}]] :
        /\ {ps[i].witness : i \in 1..n} = inst.core
        /\ Core(ps)!SyncedInit
        /\ Core(ps)!CheckInvariants

(* Witnesses can be listed as proposals, each once. *)
LEMMA Listing ==
  ASSUME NEW S \in SUBSET Witness
  PROVE  \E n \in 0..Cardinality(Witness) :
           \E ps \in [1..n -> [witness : Witness, result : {"operation_hash"}]] :
             /\ {ps[i].witness : i \in 1..n} = S
             /\ \A i, j \in 1..n : ps[i].witness = ps[j].witness => i = j
<1> DEFINE n == Cardinality(S)
<1>1. IsFiniteSet(Witness) /\ IsFiniteSet(S)
  BY WitnessAssumption, FS_Subset
<1>2. n \in Nat /\ Cardinality(Witness) \in Nat /\ n <= Cardinality(Witness)
  BY <1>1, FS_Subset, FS_CardinalityType
<1>3. ExistsBijection(1..n, S)
  BY <1>1, FS_CardinalityType
<1> HIDE DEF n
<1>4. PICK f : f \in Bijection(1..n, S)
  BY <1>3 DEF ExistsBijection
<1>5. /\ f \in [1..n -> S]
      /\ \A i, j \in 1..n : f[i] = f[j] => i = j
      /\ \A w \in S : \E i \in 1..n : f[i] = w
  BY <1>4 DEF Bijection, Injection, Surjection, IsInjective
<1> DEFINE ps == [i \in 1..n |-> [witness |-> f[i], result |-> "operation_hash"]]
<1>6. ps \in [1..n -> [witness : Witness, result : {"operation_hash"}]]
  BY <1>5
<1>7. \A i \in 1..n : ps[i].witness = f[i]
  OBVIOUS
<1> HIDE DEF ps
<1>8. {ps[i].witness : i \in 1..n} = S
  BY <1>5, <1>7
<1>9. \A i, j \in 1..n : ps[i].witness = ps[j].witness => i = j
  BY <1>5, <1>7
<1>10. n \in 0..Cardinality(Witness)
  BY <1>2
<1> QED BY <1>6, <1>8, <1>9, <1>10

(* Between two steps the mirrored core of the instance is in a state from  *)
(* which the theorems about ConsensusCore's AnySpec hold, and one that     *)
(* check_invariants accepts: the protocol guarantees what they assume of   *)
(* sync_core_state.                                                        *)
THEOREM ProtocolSyncsCore == Spec => []CoreIsSynced
<1>1. TypeOK /\ InstanceInv => CoreIsSynced
  <2> SUFFICES ASSUME TypeOK, InstanceInv, inst # None
               PROVE  \E n \in 0..Cardinality(Witness) :
                        \E ps \in [1..n -> [witness : Witness, result : {"operation_hash"}]] :
                          /\ {ps[i].witness : i \in 1..n} = inst.core
                          /\ Core(ps)!SyncedInit
                          /\ Core(ps)!CheckInvariants
    BY DEF CoreIsSynced
  <2>1. inst.core \in SUBSET Witness /\ ToCorePhase(inst.phase) = "FastPathActive"
    BY DEF TypeOK, Instance, InstanceInv, CoreMirrorsTracker, ToCorePhase
  <2>0. PICK n \in 0..Cardinality(Witness) :
          \E ps \in [1..n -> [witness : Witness, result : {"operation_hash"}]] :
            /\ {ps[i].witness : i \in 1..n} = inst.core
            /\ \A i, j \in 1..n : ps[i].witness = ps[j].witness => i = j
    BY <2>1, Listing
  <2>2. PICK ps \in [1..n -> [witness : Witness, result : {"operation_hash"}]] :
          /\ {ps[i].witness : i \in 1..n} = inst.core
          /\ \A i, j \in 1..n : ps[i].witness = ps[j].witness => i = j
    BY <2>0
  <2>3. Core(ps)!DistinctWitnesses(ps)
    BY <2>2 DEF Core!DistinctWitnesses
  <2>4. Core(ps)!Cardinality(Witness) = Cardinality(Witness)
    BY DEF Core!Cardinality, Cardinality
  <2>5. Core(ps)!SyncedInit
    BY <2>1, <2>2, <2>3, <2>4, WitnessAssumption, ThresholdAssumption
       DEF Core!SyncedInit
  <2>6. \A i \in DOMAIN ps : ps[i].witness \in Witness
    BY <2>2
  <2>7. Core(ps)!CheckInvariants
    BY <2>1, <2>4, <2>6, ThresholdAssumption, ThresholdType, SendersFinite, WitnessAssumption
       DEF Core!CheckInvariants
  <2> QED BY <2>2, <2>5, <2>7
<1> QED BY <1>1, TypeInvariance, InstanceInvariance, PTL

-----------------------------------------------------------------------------
(* The nonce token *)

AtMostOneExecute == \A t, u \in Executes : t = u

(* What was sent is the nonce of an Execute that is over. *)
SentByExecute ==
  \A n \in committed : \E t \in Executes : pc[t] = "done" /\ nonce[t] = n

(* The only Execute does not touch the instance after it cached its token, *)
(* and no other step of either role changes a token.                       *)
TokenKept ==
  AtMostOneExecute =>
    \A t \in Executes : nonce[t] # None => inst = None \/ inst.token = nonce[t]

TokenInv == SentByExecute /\ TokenKept

(* Delivered messages stay delivered, so the Executes only grow. *)
LEMMA ExecutesGrow ==
  ASSUME TypeOK, NEW t \in Executes,
         \/ \E u \in Task : Step(u) \/ \E k \in Kinds : Deliver(u, k)
         \/ UNCHANGED <<kind, pc>>
  PROVE  t \in Executes'
<1>1. t \in Task /\ kind[t] = "Execute" /\ pc[t] # "idle"
  BY DEF Executes
<1>2. CASE UNCHANGED <<kind, pc>>
  BY <1>1, <1>2 DEF Executes
<1>3. ASSUME NEW u \in Task, NEW k \in Kinds, Deliver(u, k) PROVE t \in Executes'
  BY <1>1, <1>3 DEF TypeOK, Deliver, Goto, Executes
<1>4. ASSUME NEW u \in Task, Step(u) PROVE t \in Executes'
  <2>1. kind' = kind
    BY <1>4, SMTT(30) DEF Step, Cleanup, MergeEvidence, Stamp, Insert, CacheNonce, NonceError,
       SendGuard, AcquireRead, HandleResult
  <2>2. \E step \in Steps \ {"idle"} : pc' = [pc EXCEPT ![u] = step]
    BY <1>4 DEF TypeOK, Kinds, Step, Cleanup, MergeEvidence, Stamp, Insert, CacheNonce,
       NonceError, SendGuard, AcquireRead, HandleResult, Goto, AfterCleanup, FirstStep, Steps
  <2> QED BY <1>1, <2>1, <2>2, SMTT(30) DEF TypeOK, Executes
<1> QED BY <1>2, <1>3, <1>4

(* Steps that change neither a token, a nonce nor what was sent. *)
LEMMA QuietStep ==
  ASSUME TypeOK, ArmOfTask, TokenInv, ArmOfTask', Executes \subseteq Executes',
         UNCHANGED <<nonce, committed>>,
         inst = None => inst' = None,
         inst' = None \/ inst'.token = inst.token,
         \A t \in Task : pc[t] = "done" => pc'[t] = "done"
  PROVE  TokenInv'
<1>1. SentByExecute'
  BY DEF TokenInv, SentByExecute, Executes
<1>2. ASSUME AtMostOneExecute', NEW t \in Executes', nonce'[t] # None
      PROVE  inst' = None \/ inst'.token = nonce'[t]
  <2>1. AtMostOneExecute
    BY <1>2 DEF AtMostOneExecute
  <2>2. t \in Executes
    BY <1>2 DEF ArmOfTask, Executes
  <2> QED BY <1>2, <2>1, <2>2 DEF TokenInv, TokenKept
<1>3. TokenKept'
  BY <1>2 DEF TokenKept
<1> QED BY <1>1, <1>3 DEF TokenInv

(* Each step of a task keeps the token. *)
LEMMA TokenStep ==
  ASSUME TypeOK, ArmOfTask, TokenInv, ArmOfTask', NEW t \in Task, Step(t)
  PROVE  TokenInv'
<1>0. Executes \subseteq Executes'
  BY ExecutesGrow
<1>1. CASE \/ Cleanup(t) \/ (\E delta \in Delta : MergeEvidence(t, delta)) \/ Stamp(t)
           \/ NonceError(t) \/ AcquireRead(t) \/ HandleResult(t)
  <2>1. /\ UNCHANGED <<nonce, committed>>
        /\ inst' = inst \/ inst' = None
    BY <1>1, SMTT(30) DEF Cleanup, MergeEvidence, Stamp, NonceError, AcquireRead, HandleResult
  <2>2. \A u \in Task : pc[u] = "done" => pc'[u] = "done"
    BY <1>1 DEF TypeOK, Cleanup, MergeEvidence, Stamp, NonceError, AcquireRead,
       HandleResult, Goto
  <2> QED BY <1>0, <2>1, <2>2, QuietStep, SMTT(30)
<1>2. CASE Insert(t)
  <2>0. kind[t] = "Execute" /\ pc[t] = "insert" /\ t \in Executes /\ nonce[t] = None
    BY <1>2 DEF ArmOfTask, Insert, Executes
  <2>1. SentByExecute'
    BY <1>0, <1>2 DEF TypeOK, TokenInv, SentByExecute, Insert, Goto, Executes
  <2>2. TokenKept'
    <3> SUFFICES ASSUME AtMostOneExecute', NEW u \in Executes', nonce'[u] # None
                 PROVE  FALSE
      BY DEF TokenKept
    <3>1. u = t
      BY <1>0, <2>0 DEF AtMostOneExecute
    <3> QED BY <1>2, <2>0, <3>1 DEF Insert
  <2> QED BY <2>1, <2>2, SMTT(30) DEF TokenInv
<1>3. CASE CacheNonce(t)
  <2>0. kind[t] = "Execute" /\ pc[t] = "cache" /\ t \in Executes /\ nonce[t] = None
    BY <1>3 DEF ArmOfTask, CacheNonce, Executes
  <2>1. SentByExecute'
    <3> SUFFICES ASSUME NEW m \in committed
                 PROVE  \E u \in Executes' : pc'[u] = "done" /\ nonce'[u] = m
      BY <1>3 DEF SentByExecute, CacheNonce
    <3>1. PICK u \in Executes : pc[u] = "done" /\ nonce[u] = m
      BY DEF TokenInv, SentByExecute
    <3>2. u # t /\ u \in Task
      BY <2>0, <3>1 DEF Executes
    <3> QED BY <1>0, <1>3, <3>1, <3>2 DEF TypeOK, CacheNonce, Goto
  <2>2. TokenKept'
    <3> SUFFICES ASSUME AtMostOneExecute', NEW u \in Executes'
                 PROVE  inst' = None \/ inst'.token = nonce'[u]
      BY DEF TokenKept
    <3>1. u = t
      BY <1>0, <2>0 DEF AtMostOneExecute
    <3>2. nonce'[t] = fresh
      BY <1>3 DEF TypeOK, CacheNonce
    <3>3. inst' = None \/ inst'.token = fresh
      <4>1. CASE inst = None
        BY <1>3, <4>1 DEF CacheNonce
      <4> QED BY <1>3, <4>1, CacheFields
    <3> QED BY <3>1, <3>2, <3>3
  <2> QED BY <2>1, <2>2, SMTT(30) DEF TokenInv
<1>4. CASE SendGuard(t)
  <2>0. kind[t] = "Execute" /\ pc[t] = "guard"
    BY <1>4 DEF ArmOfTask, SendGuard
  <2>1. SentByExecute'
    <3>1. t \in Executes' /\ pc'[t] = "done"
      BY <1>4, <2>0 DEF TypeOK, SendGuard, Goto, Executes
    <3> SUFFICES ASSUME NEW m \in committed'
                 PROVE  \E u \in Executes' : pc'[u] = "done" /\ nonce[u] = m
      BY <1>4 DEF SentByExecute, SendGuard
    <3>2. CASE m = nonce[t]
      BY <3>1, <3>2
    <3>3. CASE m \in committed
      <4>1. PICK u \in Executes : pc[u] = "done" /\ nonce[u] = m
        BY <3>3 DEF TokenInv, SentByExecute
      <4>2. pc'[u] = "done"
        BY <1>4, <4>1 DEF TypeOK, SendGuard, Goto, Executes
      <4> QED BY <1>0, <4>1, <4>2
    <3> QED BY <1>4, <3>2, <3>3 DEF SendGuard
  <2>2. TokenKept'
    BY <1>0, <1>4 DEF TypeOK, TokenInv, TokenKept, AtMostOneExecute, SendGuard, Goto, Executes
  <2> QED BY <2>1, <2>2 DEF TokenInv
<1> QED BY <1>1, <1>2, <1>3, <1>4 DEF Step

(* Deliveries, the clock, every task and every handler keep the token. *)
LEMMA TokenNext ==
  TypeOK /\ ArmOfTask /\ ArmOfTask' /\ TokenInv /\ [Next]_vars => TokenInv'
<1> SUFFICES ASSUME TypeOK, ArmOfTask, ArmOfTask', TokenInv, [Next]_vars PROVE TokenInv'
  OBVIOUS
<1>1. ASSUME NEW t \in Task, Step(t) PROVE TokenInv'
  BY <1>1, TokenStep
<1>2. ASSUME NEW t \in Task, NEW k \in Kinds, Deliver(t, k) PROVE TokenInv'
  <2>1. Executes \subseteq Executes'
    BY <1>2, ExecutesGrow
  <2>2. \A u \in Task : pc[u] = "done" => pc'[u] = "done"
    BY <1>2 DEF TypeOK, Deliver, Goto
  <2> QED BY <1>2, <2>1, <2>2, QuietStep DEF Deliver
<1>3. ASSUME UNCHANGED tasks, inst = None => inst' = None,
             inst' = None \/ inst'.token = inst.token
      PROVE  TokenInv'
  <2>1. Executes \subseteq Executes'
    BY <1>3, ExecutesGrow DEF tasks
  <2> QED BY <1>3, <2>1, QuietStep DEF tasks
<1>4. CASE Tick \/ CleanupBeforeRun \/ UNCHANGED vars
  BY <1>3, <1>4, SMTT(30) DEF Tick, CleanupBeforeRun, OthersUntouched, vars, witnessVars
<1>5. ASSUME NEW a \in Authority, NonceCommit(a) PROVE TokenInv'
  BY <1>3, <1>5, NonceCommitFields DEF NonceCommit, Handling, OthersUntouched
<1>6. ASSUME NEW a \in Authority, SignShare(a) PROVE TokenInv'
  BY <1>3, <1>6, SignShareFields DEF SignShare, Handling
<1>7. CASE Conflict
  BY <1>3, <1>7, ConflictFields DEF Conflict, Handling, OthersUntouched
<1> QED BY <1>1, <1>2, <1>4, <1>5, <1>6, <1>7 DEF Next, WitnessNext, CoordinatorNext

(* While one Execute is in play, the token the instance keeps is the one   *)
(* whose commitment was sent, for any number and order of deliveries and   *)
(* of messages to the coordinator.                                         *)
THEOREM TokenOfCommitment == Spec => []TokenMatchesCommitment
<1>1. Init => TokenInv
  BY DEF Init, WitnessInit, TokenInv, SentByExecute, TokenKept, Executes
<1>2. TypeOK /\ TokenInv => TokenMatchesCommitment
  <2> SUFFICES ASSUME TypeOK, TokenInv, AtMostOneExecute, NEW n \in committed
               PROVE  inst = None \/ inst.token = n
    BY DEF TokenMatchesCommitment, AtMostOneExecute
  <2>1. PICK t \in Executes : nonce[t] = n
    BY DEF TokenInv, SentByExecute
  <2>2. nonce[t] # None
    BY <2>1, NoneAssumption DEF TypeOK
  <2> QED BY <2>1, <2>2 DEF TokenInv, TokenKept
<1> QED BY <1>1, <1>2, TokenNext, TypeInvariance, PTL DEF Spec

-----------------------------------------------------------------------------
(* Evidence *)

(* Merging keeps one proof per accusation, wherever it breaks off. *)
LEMMA MergeOneProof ==
  ASSUME OneProofPerAccusation, NEW delta \in Delta, evidence' = Merge(evidence, delta)
  PROVE  OneProofPerAccusation'
<1> DEFINE new == Added(evidence, delta)
<1>0. PICK n \in 0..MaxDelta : delta \in [1..n -> Proof]
  BY DEF Delta
<1>1. \A p \in new : ~Known(evidence, p) /\ Verifies(p)
  <2> SUFFICES ASSUME NEW p \in new PROVE ~Known(evidence, p) /\ Verifies(p)
    OBVIOUS
  <2>1. PICK i \in 1..n : /\ p = delta[i] /\ ~Known(evidence, delta[i])
                          /\ \A j \in 1..i : Verifies(delta[j])
    BY <1>0 DEF Added
  <2>2. i \in 1..i
    BY <2>1, DeltaAssumption
  <2> QED BY <2>1, <2>2
<1>2. \A p, q \in new : About(p) = About(q) => p = q
  <2> SUFFICES ASSUME NEW p \in new, NEW q \in new, About(p) = About(q) PROVE p = q
    OBVIOUS
  <2>1. PICK i \in 1..n : /\ p = delta[i]
                          /\ \A j \in 1..(i - 1) : About(delta[j]) # About(delta[i])
    BY <1>0 DEF Added
  <2>2. PICK k \in 1..n : /\ q = delta[k]
                          /\ \A j \in 1..(k - 1) : About(delta[j]) # About(delta[k])
    BY <1>0 DEF Added
  <2>3. i \notin 1..(k - 1) /\ k \notin 1..(i - 1)
    BY <2>1, <2>2
  <2>4. i = k
    BY <2>3, DeltaAssumption
  <2> QED BY <2>1, <2>2, <2>4
<1>3. \A p \in new, q \in evidence : About(p) # About(q)
  BY <1>1 DEF Known
<1> HIDE DEF new
<1>4. evidence' = evidence \cup new
  BY DEF Merge, new
<1> QED BY <1>1, <1>2, <1>3, <1>4 DEF OneProofPerAccusation

(* Whatever deltas arrive, in whatever order and however often, the        *)
(* tracker of a device holds at most one proof per accusation, all of them *)
(* verified.                                                               *)
THEOREM OneProof == Spec => []OneProofPerAccusation
<1>1. Init => OneProofPerAccusation
  BY SMTT(30) DEF Init, WitnessInit, OneProofPerAccusation
<1>2. OneProofPerAccusation /\ [Next]_vars => OneProofPerAccusation'
  <2> SUFFICES ASSUME OneProofPerAccusation, [Next]_vars PROVE OneProofPerAccusation'
    OBVIOUS
  <2>1. ASSUME NEW t \in Task, NEW delta \in Delta, MergeEvidence(t, delta)
        PROVE  OneProofPerAccusation'
    BY <2>1, MergeOneProof DEF MergeEvidence
  <2>2. CASE UNCHANGED evidence
    BY <2>2 DEF OneProofPerAccusation
  <2>3. ASSUME NEW t \in Task, Step(t) PROVE OneProofPerAccusation'
    BY <2>1, <2>2, <2>3, SMTT(30) DEF Step, Cleanup, Stamp, Insert, CacheNonce, NonceError,
       SendGuard, AcquireRead, HandleResult
  <2> QED BY <2>2, <2>3 DEF Next, WitnessNext, Tick, Deliver, CoordinatorNext, NonceCommit,
          SignShare, Conflict, CleanupBeforeRun, OthersUntouched, vars, witnessVars
<1> QED BY <1>1, <1>2, PTL DEF Spec

-----------------------------------------------------------------------------
(* The lock *)

(* A guard outlives a step in two cases: the reader that became a writer,  *)
(* and the handler that became a reader; neither has returned.             *)
Waiting ==
  /\ finalizing => lock = "write"
  /\ result = "none"

(* finalize_consensus finds the write guard of its caller in its way. *)
LEMMA WaitingInductive == Waiting /\ [Next \/ FinalizeConsensus]_vars => Waiting'
<1> SUFFICES ASSUME Waiting, [Next \/ FinalizeConsensus]_vars PROVE Waiting'
  OBVIOUS
<1>1. ASSUME NEW a \in Authority, SignShare(a) PROVE Waiting'
  BY <1>1 DEF Waiting, SignShare
<1>2. CASE UNCHANGED <<lock, finalizing, result>>
  BY <1>2 DEF Waiting
<1>3. ASSUME NEW t \in Task, Step(t), UNCHANGED <<finalizing, result>> PROVE Waiting'
  <2>1. CASE AcquireRead(t)
    BY <1>3, <2>1 DEF Waiting, AcquireRead, LockFree
  <2> QED BY <1>2, <1>3, <2>1 DEF Step, Cleanup, MergeEvidence, Stamp, Insert, CacheNonce,
          NonceError, SendGuard, HandleResult
<1>4. ~FinalizeConsensus
  BY DEF Waiting, FinalizeConsensus, LockFree
<1> QED BY <1>1, <1>2, <1>3, <1>4 DEF Next, WitnessNext, Tick, Deliver, CoordinatorNext,
        NonceCommit, Conflict, CleanupBeforeRun, OthersUntouched, vars, witnessVars

(* Waiting holds of every device, finalize_consensus included. *)
LEMMA WaitingAlways == FinalizingSpec => []Waiting
<1>1. Init => Waiting
  BY DEF Init, Waiting
<1> QED BY <1>1, WaitingInductive, PTL DEF FinalizingSpec

(* Whatever the witnesses and the thresholds, the coordinator never        *)
(* returns a result: finalize_consensus waits for the read lock behind the *)
(* write guard of the handler that called it.                              *)
THEOREM SealedHandlerWaits ==
  FinalizingSpec => [](result = "none" /\ (finalizing => lock = "write"))
BY WaitingAlways, PTL DEF Waiting

(* A kept guard is kept forever: once a SignRequest has found its instance *)
(* or a share has sealed its set, the lock is never free again, no Execute *)
(* replaces the instance, no message reaches it, no nonce is cached and no *)
(* cleanup evicts it, in either role.                                      *)
THEOREM KeptGuardBlocks ==
  FinalizingSpec =>
    [][lock # "free" => UNCHANGED <<lock, inst, fresh, nonce, finalizing, result>>]_vars
<1> DEFINE A == lock # "free" => UNCHANGED <<lock, inst, fresh, nonce, finalizing, result>>
<1>1. Waiting /\ [Next \/ FinalizeConsensus]_vars => [A]_vars
  <2> SUFFICES ASSUME Next \/ FinalizeConsensus, lock # "free"
               PROVE  UNCHANGED <<lock, inst, fresh, nonce, finalizing, result>>
    BY SMTT(30)
  <2>1. ~CoordinatorNext /\ ~FinalizeConsensus
    BY DEF CoordinatorNext, NonceCommit, SignShare, Conflict, CleanupBeforeRun,
       FinalizeConsensus, Handling, LockFree
  <2>2. ASSUME NEW t \in Task, Step(t) PROVE UNCHANGED <<lock, inst, fresh, nonce>>
    BY <2>2 DEF Step, Cleanup, MergeEvidence, Stamp, Insert, CacheNonce, NonceError,
       SendGuard, AcquireRead, HandleResult, LockFree
  <2>3. ASSUME NEW t \in Task, NEW k \in Kinds, Deliver(t, k)
        PROVE  UNCHANGED <<lock, inst, fresh, nonce>>
    BY <2>3 DEF Deliver
  <2>4. CASE Tick
    BY <2>1, <2>4 DEF Tick, tasks, Next
  <2> QED BY <2>1, <2>2, <2>3, <2>4 DEF Next, WitnessNext
<1> QED BY <1>1, WaitingAlways, PTL DEF FinalizingSpec

=============================================================================
