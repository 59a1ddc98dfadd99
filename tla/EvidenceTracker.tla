--------------------------- MODULE EvidenceTracker ---------------------------
(***************************************************************************)
(* Equivocation evidence (evidence.rs) for one consensus id: what a        *)
(* tracker holds, and what merge makes of a delta that arrived with a      *)
(* message.  A delta is a list in the order of the message, may repeat     *)
(* accusations, and may hold proofs that do not verify; the times in it    *)
(* were read from the clocks of other devices.                             *)
(*                                                                         *)
(* add_proof has no caller in the crate, and both callers of get_delta     *)
(* come after a lock that is never granted (see ConsensusProtocol), so     *)
(* merge is the one operation that changes a tracker.                      *)
(***************************************************************************)
EXTENDS Naturals

CONSTANTS
  Proof,      \* equivocation proofs that may be received
  MaxDelta    \* longest list of proofs in one delta

ASSUME ProofAssumption ==
  \A p \in Proof : p = [witness |-> p.witness, first |-> p.first,
                        second |-> p.second, timestamp |-> p.timestamp]
ASSUME DeltaAssumption == MaxDelta \in Nat

Delta == UNION {[1..n -> Proof] : n \in 0..MaxDelta}

(* EquivocationProof::verify. *)
Verifies(p) == p.first # p.second

(* What the duplicate test compares; the time of detection is not part. *)
About(p) == <<p.witness, p.first, p.second>>

(* Mutant: duplicates are recognised by the whole proof. *)
KnownExactly(proofs, p) == p \in proofs

Known(proofs, p) == \E q \in proofs : About(q) = About(p)

(* The proofs of a delta that merge adds: those before the first that does *)
(* not verify, and of several about one accusation the first.              *)
Added(proofs, delta) ==
  {delta[i] : i \in {i \in DOMAIN delta :
     /\ \A j \in 1..i : Verifies(delta[j])
     /\ ~Known(proofs, delta[i])
     /\ \A j \in 1..(i - 1) : About(delta[j]) # About(delta[i])}}

(* EvidenceTracker::merge.  Its caller drops the error of a proof that     *)
(* does not verify, and what was added before it stays.                    *)
Merge(proofs, delta) == proofs \cup Added(proofs, delta)

=============================================================================
