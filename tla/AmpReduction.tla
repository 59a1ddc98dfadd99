---------------------------- MODULE AmpReduction ----------------------------
(***************************************************************************)
(* Reduction of the facts of one AMP channel to its epoch state            *)
(* (aura-journal/src/reduction.rs), and the send and receive ratchets      *)
(* derived from that state (aura-amp/src/core.rs, aura-transport/src/      *)
(* amp.rs).  Every operator is a function of a set of facts F.             *)
(*                                                                         *)
(* A transition is its identity, and a transition_id the transition it is  *)
(* the collision-free hash of.  Only a proposal that carries the id of a   *)
(* transition other than its own matters to the reduction; other facts     *)
(* whose id does not match their identity are left out.                    *)
(* Commitments are numbers, ordered as the code orders hash bytes.  Of the *)
(* emergency fields only the existence of an alarm is kept; channel policy *)
(* and default skip window are one constant.                               *)
(***************************************************************************)
EXTENDS Naturals, FiniteSets, Sequences

CONSTANTS
  Fact,          \* the facts a journal of the channel may hold
  Witness,       \* authorities that sign certificates
  MaxEpoch,      \* bound on channel epochs (u64 in the code)
  MaxGen,        \* bound on generations and commitments
  DefaultWindow, \* skip window of the channel policy, or the default
  None           \* no skip_window_override

Policies == {"Normal", "Additive", "Subtractive", "Quarantine", "Cryptoshred"}

(* n stands for the successor and membership commitments. *)
Transition ==
  [epoch : 0..MaxEpoch - 1, parent : 0..MaxGen, next : 0..MaxEpoch,
   policy : Policies, n : 0..MaxGen]

(* id is transition_id; order is the place of the fact in the journal. *)
Proposal == [type : {"proposed"}, tr : Transition, id : Transition, order : Nat]

PlainFact ==
  [type : {"committed", "finalized", "conflict", "alarm"}, tr : Transition]

Certificate ==
  [type : {"certified"}, tr : Transition, signatures : Seq(Witness),
   threshold : Nat]

Suppression ==
  [type : {"abort", "supersession"}, tr : Transition,
   scope : {"A2LiveOnly", "A2AndA3"}]

Checkpoint ==
  [type : {"checkpoint"}, epoch : 0..MaxEpoch, gen : 0..MaxGen,
   ck : 0..MaxGen, window : Nat \cup {None}]

ASSUME AmpAssumption ==
  /\ MaxEpoch \in Nat \ {0} /\ MaxGen \in Nat /\ DefaultWindow \in Nat
  /\ IsFiniteSet(Witness)
  /\ \A f \in Fact : f \in Proposal \/ f \in PlainFact \/ f \in Certificate
                       \/ f \in Suppression \/ f \in Checkpoint

-----------------------------------------------------------------------------
(* Reduction of the facts of one parent *)

(* AmpTransitionParentKey, within one context and channel. *)
ParentKey(t) == [epoch |-> t.epoch, parent |-> t.parent]

(* Mutant: signatures are counted, not witnesses. *)
HasQuorumOfSignatures(f) == f.threshold > 0 /\ Len(f.signatures) >= f.threshold

Signers(f) == {f.signatures[i] : i \in DOMAIN f.signatures}

HasQuorum(f) == f.threshold > 0 /\ Cardinality(Signers(f)) >= f.threshold

(* The valid_*_bump filters; the other facts are taken as they are. *)
Valid(f) ==
  /\ f.type \in {"proposed", "committed", "finalized", "certified"}
       => f.tr.next = f.tr.epoch + 1
  /\ f.type = "proposed" => f.id = f.tr
  /\ f.type = "certified" => HasQuorum(f)

Transitions(F, types, k) ==
  {f.tr : f \in {g \in F : g.type \in types /\ Valid(g) /\ ParentKey(g.tr) = k}}

SuppressedA2(F, k) == Transitions(F, {"abort", "supersession"}, k)

SuppressedA3(F, k) ==
  Transitions({f \in F : f.type \in {"abort", "supersession"}
                           /\ f.scope = "A2AndA3"},
              {"abort", "supersession"}, k)

Certified(F, k) == Transitions(F, {"certified"}, k) \ SuppressedA2(F, k)

Finalized(F, k) ==
  Transitions(F, {"finalized", "committed"}, k) \ SuppressedA3(F, k)

Sole(S) == \E x \in S : S = {x}

Several(S) == \E x, y \in S : x # y

(* Mutant: an A3 fact wins over a certificate for another transition. *)
FinalOverridesA2(final, certified) == FALSE

(* finalized_conflicts_with_a2 *)
FinalConflictsWithA2(final, certified) ==
  Sole(final) /\ certified # {} /\ final \cap certified = {}

Status(F, k) ==
  LET final == Finalized(F, k)
      certified == Certified(F, k)
      conflict == Transitions(F, {"conflict"}, k) # {}
  IN IF Several(final) \/ FinalConflictsWithA2(final, certified) THEN "A3Conflict"
     ELSE IF final # {} THEN "A3Finalized"
     ELSE IF ~conflict /\ Sole(certified) THEN "A2Live"
     ELSE IF conflict \/ Several(certified) THEN "A2Conflict"
     ELSE IF Transitions(F, {"supersession"}, k) # {} THEN "Superseded"
     ELSE IF SuppressedA2(F, k) # {} THEN "Aborted"
     ELSE "Observed"

(* live_transition_id: at most one transition. *)
Live(F, k) == IF Status(F, k) = "A2Live" THEN Certified(F, k) ELSE {}

(* finalized_transition_id: at most one transition. *)
Final(F, k) == IF Status(F, k) = "A3Finalized" THEN Finalized(F, k) ELSE {}

-----------------------------------------------------------------------------
(* ChannelEpochState *)

(* The parents reduce_amp_transitions reduces. *)
Groups(F) ==
  {ParentKey(f.tr) : f \in {g \in F : g.type # "checkpoint" /\ Valid(g)}}

(* Mutant: a finalization counts only where no certificate is left. *)
ReachedUncertified(F) ==
  {k.epoch : k \in {j \in Groups(F) : /\ Status(F, j) = "A3Finalized"
                                     /\ Certified(F, j) = {}}}

(* The epochs with a finalized parent. *)
Reached(F) == {k.epoch : k \in {j \in Groups(F) : Status(F, j) = "A3Finalized"}}

(* highest_reduced_epoch: the first epoch that has none. *)
ChanEpoch(F) ==
  LET reached == Reached(F)
  IN CHOOSE e \in 0..MaxEpoch :
       e \notin reached /\ \A d \in 0..MaxEpoch : d < e => d \in reached

(* transition: the first parent of epoch e in BTreeMap order. *)
Current(F, e) ==
  LET here == {k \in Groups(F) : k.epoch = e}
  IN {k \in here : \A j \in here : k.parent <= j.parent}

(* pending_bump: the live successor of that parent, if it has one. *)
Pending(F, e) == UNION {Live(F, k) : k \in Current(F, e)}

(* The proposals select_live_bump_from_transition finds for a transition:  *)
(* all that carry its id, those valid_proposed_bump refuses included.      *)
Proposals(F, t) == {f \in F : f.type = "proposed" /\ f.id = t}

FirstProposal(F, t) ==
  CHOOSE f \in Proposals(F, t) : \A g \in Proposals(F, t) : f.order <= g.order

(* transition_policy and new_epoch of the pending bump. *)
LivePolicy(F, t) ==
  IF Proposals(F, t) = {} THEN "Normal" ELSE FirstProposal(F, t).tr.policy

NewEpoch(F, t) ==
  IF Proposals(F, t) = {} THEN t.epoch + 1 ELSE FirstProposal(F, t).tr.next

PastCheckpoints(F) ==
  LET epoch == ChanEpoch(F)
  IN {f \in F : f.type = "checkpoint" /\ f.epoch <= epoch}

(* The canonical checkpoint of the latest epoch that has one. *)
NotAfter(d, c) ==
  \/ d.epoch < c.epoch
  \/ d.epoch = c.epoch /\ d.gen < c.gen
  \/ d.epoch = c.epoch /\ d.gen = c.gen /\ d.ck <= c.ck

CanonicalCheckpoint(F) ==
  LET past == PastCheckpoints(F)
  IN CHOOSE c \in past : \A d \in past : NotAfter(d, c)

(* last_checkpoint_gen, and current_gen, which is always equal to it. *)
BaseGen(F) == IF PastCheckpoints(F) = {} THEN 0 ELSE CanonicalCheckpoint(F).gen

SkipWindow(F) ==
  IF PastCheckpoints(F) # {} /\ CanonicalCheckpoint(F).window # None
  THEN CanonicalCheckpoint(F).window ELSE DefaultWindow

-----------------------------------------------------------------------------
(* Ratchets *)

SendEpoch(F) ==
  LET epoch == ChanEpoch(F)
      pending == Pending(F, epoch)
  IN IF pending = {} THEN epoch ELSE NewEpoch(F, CHOOSE t \in pending : TRUE)

(* prepare_send: the header of the next message. *)
Header(F) == [epoch |-> SendEpoch(F), gen |-> BaseGen(F)]

(* Mutant: a removal keeps the old epoch until it is finalized. *)
AcceptedEpochsUncut(e, new, policy) ==
  IF policy = "Subtractive" THEN {e} ELSE {e, new}

(* receive_ratchet_from_epoch_state with a live successor: the current and *)
(* the pending epoch of the ratchet, and its skip window.                  *)
AcceptedEpochs(e, new, policy) ==
  CASE policy \in {"Normal", "Additive"} -> {e, new}
    [] policy \in {"Subtractive", "Cryptoshred"} -> {new}
    [] policy = "Quarantine" -> {e, new}

AcceptedWindow(window, policy) ==
  CASE policy \in {"Normal", "Additive"} -> window
    [] policy \in {"Subtractive", "Cryptoshred"} -> 0
    [] policy = "Quarantine" -> 1

(* window_bounds *)
InWindow(gen, base, window) == base <= gen /\ gen <= base + 2 * window

(* validate_header *)
Accepts(F, h) ==
  LET epoch == ChanEpoch(F)
      pending == Pending(F, epoch)
  IN \/ /\ pending = {}
        /\ h.epoch = epoch
        /\ InWindow(h.gen, BaseGen(F), SkipWindow(F))
     \/ \E t \in pending :
          /\ h.epoch \in AcceptedEpochs(epoch, NewEpoch(F, t), LivePolicy(F, t))
          /\ InWindow(h.gen, BaseGen(F),
                      AcceptedWindow(SkipWindow(F), LivePolicy(F, t)))

=============================================================================
