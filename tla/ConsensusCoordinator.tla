------------------------ MODULE ConsensusCoordinator ------------------------
(***************************************************************************)
(* The coordinator role of ConsensusProtocol (protocol/coordinator.rs):    *)
(* the messages process_coordinator_message handles on the instance, and   *)
(* finalize_consensus.  The instance is the one ConsensusWitness keeps in  *)
(* `instances`: no handler looks at its role, and none but an Execute      *)
(* creates one.                                                            *)
(*                                                                         *)
(* process_coordinator_message holds the write guard from its first line   *)
(* to its return, so each handler is one step, with one exception: the     *)
(* handler whose share seals the set calls finalize_consensus, which waits *)
(* for the read lock with the write guard still held.                      *)
(*                                                                         *)
(* Abstractions: a commitment carries the signer id of its sender, and     *)
(* whether a partial signature verifies against the package of the moment  *)
(* is left open, which allows for shares that were made for an earlier     *)
(* package.                                                                *)
(***************************************************************************)
EXTENDS ConsensusWitness, FiniteSets

CONSTANTS
  Witness,             \* config.witnesses()
  Threshold,           \* config.threshold()
  CollectorThreshold   \* threshold of the tracker: 1 for WitnessTracker::new()

ASSUME WitnessAssumption == IsFiniteSet(Authority) /\ Witness \subseteq Authority
ASSUME ThresholdAssumption == Threshold \in 1..Cardinality(Witness)
ASSUME CollectorAssumption == CollectorThreshold \in Nat \ {0}

VARIABLES
  finalizing,  \* is finalize_consensus waiting for the read lock?
  result       \* what finalize_consensus returned

vars == <<witnessVars, finalizing, result>>

(* The lock admits a handler, and the handler finds its instance. *)
Handling == LockFree /\ inst # None

(* What a handler leaves alone when it returns without finalizing. *)
OthersUntouched == UNCHANGED <<now, lock, evidence, tasks, finalizing, result>>

-----------------------------------------------------------------------------

(* Mutant: the phase moves on with one commitment too few. *)
NonceCommitOneShort(a) ==
  LET committers == inst.committers \cup {a}
  IN /\ Handling
     /\ inst' = IF Cardinality(committers) + 1 >= Threshold
                  THEN [inst EXCEPT !.committers = committers, !.phase = "Sign",
                                    !.core = inst.shares]
                  ELSE [inst EXCEPT !.committers = committers]
     /\ OthersUntouched

(* ConsensusMessage::NonceCommit, from anyone.  At the threshold the phase *)
(* has moved and the core is synchronised before the send guard is asked,  *)
(* so a denial loses the SignRequest and keeps the rest.                   *)
NonceCommit(a) ==
  LET committers == inst.committers \cup {a}
  IN /\ Handling
     /\ inst' = IF Cardinality(committers) >= Threshold
                  THEN [inst EXCEPT !.committers = committers, !.phase = "Sign",
                                    !.core = inst.shares]
                  ELSE [inst EXCEPT !.committers = committers]
     /\ OthersUntouched

(* Mutant: membership of the witness set is not tested. *)
ValidSignShareAnySender(a) == inst.phase = "Sign" /\ a \in inst.committers

(* validate_sign_share for the active epoch and result.  A share of        *)
(* another epoch or result, or one that does not verify, changes nothing.  *)
ValidSignShare(a) ==
  /\ inst.phase = "Sign"
  /\ a \in Witness
  /\ a \in inst.committers

(* LinearShareSet::try_insert accepts. *)
Insertable(a) == ~inst.sealed /\ a \notin inst.shares

(* Mutant: the set seals one share after the threshold. *)
SealsLate(shares) == Cardinality(shares) > CollectorThreshold

(* LinearShareSet::seal_if_threshold_reached, on a set not yet sealed,     *)
(* with the threshold the collector was created with.                      *)
SealsWith(shares) == Cardinality(shares) >= CollectorThreshold

(* ConsensusMessage::SignShare that is accepted; sync_core_state rebuilds  *)
(* the core's proposals from the tracker.  A duplicate, or a share for a   *)
(* sealed set, changes nothing.                                            *)
SignShare(a) ==
  LET shares == inst.shares \cup {a}
  IN /\ Handling
     /\ ValidSignShare(a)
     /\ Insertable(a)
     /\ inst' = [inst EXCEPT !.shares = shares, !.sealed = SealsWith(shares),
                             !.core = shares]
     /\ lock' = IF SealsWith(shares) THEN "write" ELSE "free"
     /\ finalizing' = SealsWith(shares)
     /\ UNCHANGED <<now, evidence, tasks, result>>

(* ConsensusMessage::Conflict, from anyone. *)
Conflict ==
  /\ Handling
  /\ inst' = [inst EXCEPT !.conflicts = TRUE]
  /\ OthersUntouched

(* cleanup_stale_instances at the head of run_consensus, which for the     *)
(* rest runs in the orchestrator (FrostOrchestrator).                      *)
CleanupBeforeRun ==
  /\ Handling
  /\ now - inst.start > Timeout
  /\ inst' = None
  /\ OthersUntouched

(* frost::aggregate wants a share of every commitment in the package. *)
Aggregates == inst.shares = inst.committers

(* finalize_consensus past its read().await, and the return of its caller. *)
(* Shares of an earlier package, the clock and the send guard may fail it  *)
(* too.                                                                    *)
FinalizeConsensus ==
  /\ finalizing
  /\ LockFree
  /\ result' \in IF Aggregates THEN {"ConsensusResult", "Error"} ELSE {"Error"}
  /\ finalizing' = FALSE
  /\ UNCHANGED witnessVars

(* What a device does as a coordinator. *)
CoordinatorNext ==
  \/ \E a \in Authority : NonceCommit(a) \/ SignShare(a)
  \/ Conflict
  \/ CleanupBeforeRun

=============================================================================
