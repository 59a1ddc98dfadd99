------------------------- MODULE ConsensusProtocol -------------------------
(***************************************************************************)
(* ConsensusProtocol (protocol/logic.rs): one device with its instances,   *)
(* its evidence tracker and both roles, which share them.                  *)
(***************************************************************************)
EXTENDS ConsensusCoordinator

Init ==
  /\ WitnessInit
  /\ finalizing = FALSE
  /\ result = "none"

Next ==
  \/ (Tick \/ WitnessNext) /\ UNCHANGED <<finalizing, result>>
  \/ CoordinatorNext

Spec == Init /\ [][Next]_vars

(* With the rest of finalize_consensus, and the executor polling every     *)
(* task that can make progress.                                            *)
FinalizingSpec ==
  Init /\ [][Next \/ FinalizeConsensus]_vars /\ WF_vars(FinalizeConsensus)

-----------------------------------------------------------------------------

(* Type invariant of the instance, the tasks, the lock and the outcome: no *)
(* start time is past the bound of the clock, no phase past Sign.          *)
TypeOK ==
  /\ now \in 0..MaxTime
  /\ inst \in Instance \cup {None}
  /\ lock \in {"free", "read", "write"}
  /\ evidence \subseteq Proof
  /\ fresh \in Nat
  /\ kind \in [Task -> Kinds]
  /\ pc \in [Task -> Steps]
  /\ stamp \in [Task -> 0..MaxTime]
  /\ nonce \in [Task -> Nat \cup {None}]
  /\ committed \subseteq Nat
  /\ finalizing \in BOOLEAN
  /\ result \in {"none", "ConsensusResult", "Error"}

(* A share set is sealed exactly when it holds as many distinct signers as *)
(* the collector was created for, and never grows past them, although a    *)
(* repeated Execute may replace the instance between any two shares        *)
(* (shares.rs, try_insert and seal_if_threshold_reached).                  *)
SealedAtThreshold ==
  inst # None =>
    /\ inst.sealed <=> Cardinality(inst.shares) >= CollectorThreshold
    /\ Cardinality(inst.shares) <= CollectorThreshold

(* The tracker of an instance seals at its own threshold, one, and not at  *)
(* the configured one.  No set that sealed too early can be aggregated: a  *)
(* share is accepted only after as many authorities have committed as the  *)
(* configuration asks for, and aggregation wants a share of each of them.  *)
AggregateHasThreshold ==
  inst # None /\ inst.sealed /\ Aggregates => Cardinality(inst.shares) >= Threshold

(* assert_invariants never fires: whenever a handler leaves the instance,  *)
(* the core's proposals are the tracker's shares, and all of them come     *)
(* from witnesses that have a nonce commitment on record.                  *)
CoreMirrorsTracker ==
  inst # None =>
    /\ inst.core = inst.shares
    /\ inst.core \subseteq Witness
    /\ inst.shares \subseteq inst.committers

(* While one Execute is in play, a commitment the coordinator was sent is  *)
(* the one whose token the instance keeps, whatever else was delivered,    *)
(* evicted and collected in between ("Cache nonce token for signing when   *)
(* SignRequest arrives").                                                  *)
TokenMatchesCommitment ==
  (\A t, u \in Executes : t = u) =>
    \A n \in committed : inst = None \/ inst.token = n

(* However deltas are repeated and crossed, and wherever a merge breaks    *)
(* off, a tracker holds one proof per accusation, and only proofs that     *)
(* verify.                                                                 *)
OneProofPerAccusation ==
  /\ \A p, q \in evidence : About(p) = About(q) => p = q
  /\ \A p \in evidence : Verifies(p)

(* Once a share set is sealed its handler returns a terminal outcome:      *)
(* ARCHITECTURE.md asks for "typed terminal success, failure, or abort     *)
(* paths" of every consensus operation.                                    *)
ThresholdIsAnswered == finalizing ~> result # "none"

=============================================================================
