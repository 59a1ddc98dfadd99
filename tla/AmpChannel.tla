----------------------------- MODULE AmpChannel -----------------------------
(***************************************************************************)
(* One AMP channel on several replicas.  Each replica holds a growing set  *)
(* of the channel's facts, reduces it before every send and every receive  *)
(* (amp_send, amp_recv in aura-amp/src/protocol/orchestration.rs), and     *)
(* joins the journals of the others in any order.                          *)
(*                                                                         *)
(* The facts are produced by proposers, witness committees, consensus and  *)
(* operators that may disagree: a fact may appear at any time, wherever    *)
(* Origin allows it.                                                       *)
(* The channel exists and has its bootstrap key, participants are fixed,   *)
(* and sealing is left out: a message is the call that sent it and the     *)
(* header it was sealed under.  Calls run concurrently, and a step of one  *)
(* ends where it awaits the journal or the marker storage.                 *)
(***************************************************************************)
EXTENDS AmpReduction

CONSTANTS
  Replica,
  Origin,     \* the facts that enter a replica's journal other than by a join
  Send,       \* calls of amp_send
  Receive,    \* calls of amp_recv
  By          \* the replica that makes a call

Call == Send \cup Receive

ASSUME CallAssumption ==
  /\ Origin \in [Replica -> SUBSET Fact]
  /\ By \in [Call -> Replica] /\ Send \cap Receive = {}

VARIABLES
  facts,   \* the channel's facts in each replica's journal
  step,    \* where a call is
  mark,    \* the sender and header a call records, once it has them
  marks,   \* each replica's amp_send_ and amp_recv_replay_markers
  raced    \* history: <<replica, marker>> looked up by a call while another
           \* had found it absent and not stored it yet

vars == <<facts, step, mark, marks, raced>>

Headers == [epoch : 0..MaxEpoch, gen : 0..MaxGen]
Markers == [from : Replica, header : Headers]

Steps == {"idle", "lookup", "store", "done"}

Init ==
  /\ facts = [r \in Replica |-> {}]
  /\ step = [c \in Call |-> "idle"]
  /\ mark = [c \in Call |-> None]
  /\ marks = [r \in Replica |-> {}]
  /\ raced = {}

(* A fact enters the journal of a replica. *)
AddFact(r, f) ==
  /\ f \notin facts[r]
  /\ facts' = [facts EXCEPT ![r] = @ \cup {f}]
  /\ UNCHANGED <<step, mark, marks, raced>>

(* Mutant: a certificate is ignored where the parent already has one. *)
JoinFirstCertificate(r, s) ==
  /\ LET news == {f \in facts[s] : f.type = "certified" =>
                    Transitions(facts[r], {"certified"}, ParentKey(f.tr)) = {}}
     IN facts' = [facts EXCEPT ![r] = @ \cup news]
  /\ UNCHANGED <<step, mark, marks, raced>>

(* Journal::join with the journal of another replica. *)
Join(r, s) ==
  /\ facts[s] \ facts[r] # {}
  /\ facts' = [facts EXCEPT ![r] = @ \cup facts[s]]
  /\ UNCHANGED <<step, mark, marks, raced>>

(* Mutant: the sender is left out of the marker. *)
PrepareSendAnonymous(c) ==
  /\ step[c] = "idle"
  /\ mark' = [mark EXCEPT ![c] = [header |-> Header(facts[By[c]])]]
  /\ step' = [step EXCEPT ![c] = "lookup"]
  /\ UNCHANGED <<facts, marks, raced>>

(* amp_send up to record_amp_replay_marker: the header comes from the      *)
(* journal as it is now.                                                   *)
PrepareSend(c) ==
  /\ step[c] = "idle"
  /\ mark' = [mark EXCEPT ![c] = [from |-> By[c], header |-> Header(facts[By[c]])]]
  /\ step' = [step EXCEPT ![c] = "lookup"]
  /\ UNCHANGED <<facts, marks, raced>>

(* amp_recv up to record_amp_replay_marker, for the message of a send that *)
(* was broadcast.  A network may deliver it any number of times.           *)
OpenMessage(c, s) ==
  /\ step[c] = "idle"
  /\ step[s] = "done"
  /\ By[s] # By[c]
  /\ Accepts(facts[By[c]], mark[s].header)
  /\ mark' = [mark EXCEPT ![c] = mark[s]]
  /\ step' = [step EXCEPT ![c] = "lookup"]
  /\ UNCHANGED <<facts, marks, raced>>

(* The call returns an error; its caller may try again. *)
Fail(c) ==
  /\ step' = [step EXCEPT ![c] = "idle"]
  /\ mark' = [mark EXCEPT ![c] = None]

(* Calls that have found the marker of c absent and are about to store it. *)
Rivals(c) ==
  {d \in Call \ {c} : By[d] = By[c] /\ step[d] = "store" /\ mark[d] = mark[c]}

(* Mutant: only sends look the marker up. *)
LookupMarkerOfSends(c) ==
  /\ step[c] = "lookup"
  /\ raced' = IF Rivals(c) = {} THEN raced ELSE raced \cup {<<By[c], mark[c]>>}
  /\ IF c \in Send /\ mark[c] \in marks[By[c]] THEN Fail(c)
     ELSE step' = [step EXCEPT ![c] = "store"] /\ mark' = mark
  /\ UNCHANGED <<facts, marks>>

(* secure_exists in record_amp_replay_marker. *)
LookupMarker(c) ==
  /\ step[c] = "lookup"
  /\ raced' = IF Rivals(c) = {} THEN raced ELSE raced \cup {<<By[c], mark[c]>>}
  /\ IF mark[c] \in marks[By[c]] THEN Fail(c)
     ELSE step' = [step EXCEPT ![c] = "store"] /\ mark' = mark
  /\ UNCHANGED <<facts, marks>>

(* secure_store, and the rest of the call.  A send may still fail, in the  *)
(* guard chain or on the network; the marker stays.                        *)
StoreMarker(c) ==
  /\ step[c] = "store"
  /\ marks' = [marks EXCEPT ![By[c]] = @ \cup {mark[c]}]
  /\ \/ step' = [step EXCEPT ![c] = "done"] /\ mark' = mark
     \/ c \in Send /\ Fail(c)
  /\ UNCHANGED <<facts, raced>>

(* A storage or cryptographic error before the marker is stored. *)
FailCall(c) ==
  /\ step[c] \in {"lookup", "store"}
  /\ Fail(c)
  /\ UNCHANGED <<facts, marks, raced>>

Next ==
  \/ \E r \in Replica : \E f \in Origin[r] : AddFact(r, f)
  \/ \E r, s \in Replica : Join(r, s)
  \/ \E c \in Send : PrepareSend(c)
  \/ \E c \in Receive, s \in Send : OpenMessage(c, s)
  \/ \E c \in Call : LookupMarker(c) \/ StoreMarker(c) \/ FailCall(c)

(* Anti-entropy keeps joining every pair of replicas. *)
Fairness == \A r \in Replica : \A s \in Replica \ {r} : WF_vars(Join(r, s))

Spec == Init /\ [][Next]_vars /\ Fairness

-----------------------------------------------------------------------------

(* Type invariant of the journals, the calls and the replay markers. *)
TypeOK ==
  /\ facts \in [Replica -> SUBSET Fact]
  /\ step \in [Call -> Steps]
  /\ mark \in [Call -> Markers \cup {None}]
  /\ \A c \in Call : step[c] # "idle" => mark[c] \in Markers
  /\ marks \in [Replica -> SUBSET Markers]
  /\ raced \subseteq Replica \X Markers

(* A header seals one message per sender, and a message is delivered once, *)
(* however calls interleave, fail and repeat and however the channel epoch *)
(* moves: except when two calls looked the same marker up before either    *)
(* stored it, which record_amp_replay_marker does not prevent.             *)
MarkedOnce ==
  \A c, d \in Call :
    /\ c # d /\ step[c] = "done" /\ step[d] = "done"
    /\ By[c] = By[d] /\ mark[c] = mark[d]
    => <<By[c], mark[c]>> \in raced

(* What a replica follows for a parent: its live or finalized successor. *)
Followed(F, k) == Live(F, k) \cup Final(F, k)

Parents == {ParentKey(f.tr) : f \in {g \in Fact : g.type # "checkpoint"}}

(* "Reducers must not choose a winner by arrival order": whatever order    *)
(* facts arrive in, a replica leaves the successor it follows for another  *)
(* one only when the first has been aborted or superseded, or the second   *)
(* is both certified and finalized.                                        *)
SwitchIsJustified ==
  [][\A r \in Replica : facts'[r] # facts[r] =>
       \A k \in Parents : \A t \in Followed(facts[r], k) :
         \A u \in Followed(facts'[r], k) : t # u =>
           \/ \E f \in facts'[r] :
                f.type \in {"abort", "supersession"} /\ f.tr = t
           \/ \E f, g \in facts'[r] :
                /\ f.type = "certified" /\ f.tr = u
                /\ g.type \in {"finalized", "committed"} /\ g.tr = u]_vars

(* Durable evidence is disputed: two transitions of one parent are         *)
(* finalized, or one finalized and the other certified, or one is          *)
(* suppressed at A3 scope.                                                 *)
Disputed(F) ==
  \/ \E f, g \in F : /\ f.type \in {"finalized", "committed"}
                     /\ g.type \in {"finalized", "committed", "certified"}
                     /\ ParentKey(f.tr) = ParentKey(g.tr) /\ f.tr # g.tr
  \/ \E f \in F : f.type \in {"abort", "supersession"} /\ f.scope = "A2AndA3"

(* The channel epoch reduce_context computes falls back, as facts are      *)
(* added, only when durable evidence is disputed.                          *)
EpochFallsOnDispute ==
  [][\A r \in Replica :
       facts'[r] # facts[r] /\ ChanEpoch(facts'[r]) < ChanEpoch(facts[r])
         => Disputed(facts'[r])]_vars

(* What stands behind epoch e: the finalization of a transition into it,   *)
(* or a certificate with a quorum of distinct witnesses for a transition   *)
(* into it.  The epoch a certified transition leads to is its own or that  *)
(* of a proposal with its id.                                              *)
Evidence(F, e) ==
  \E f \in F :
    \/ f.type \in {"finalized", "committed"} /\ f.tr.next = e
    \/ /\ f.type = "certified"
       /\ f.threshold > 0 /\ Cardinality(Signers(f)) >= f.threshold
       /\ f.tr.next = e \/ \E p \in Proposals(F, f.tr) : p.tr.next = e

(* "A proposal alone never authorizes successor-epoch sends": a message of *)
(* a successor epoch was sent, and is delivered, only where the journal    *)
(* holds a finalization into that epoch or a quorum certificate that leads *)
(* to it, although the journal moves on between the reduction and the      *)
(* broadcast.                                                              *)
SuccessorNeedsEvidence ==
  \A c \in Call : step[c] = "done" =>
    mark[c].header.epoch = 0 \/ Evidence(facts[By[c]], mark[c].header.epoch)

(* Send and receive ratchets agree: what a replica would send is accepted  *)
(* by every replica with the same facts, in every transition state and     *)
(* under every policy.                                                     *)
SentIsAccepted == \A r \in Replica : Accepts(facts[r], Header(facts[r]))

AcceptsEpoch(F, e) == \E g \in 0..MaxGen : Accepts(F, [epoch |-> e, gen |-> g])

(* What may speak against a transition: a suppression or conflict, a rival *)
(* of the same epoch, or a dispute of the epochs before it; and a proposal *)
(* with the id of a transition that is not its own.                        *)
Contested(F, t) ==
  \/ Disputed(F)
  \/ \E f \in F :
       \/ f.type # "checkpoint" /\ f.tr.epoch = t.epoch /\ f.tr # t
       \/ f.type \in {"abort", "supersession", "conflict"} /\ f.tr = t
       \/ f.type = "proposed" /\ f.id # f.tr

(* A removal or cryptoshred closes the old epoch for good: once a replica  *)
(* with a live successor has stopped to accept the old epoch, no fact it   *)
(* learns makes it accept that epoch again, neither the finalization, nor  *)
(* a checkpoint, nor a later transition, unless the removal is contested.  *)
ClosedEpochStaysClosed ==
  [][\A r \in Replica : facts'[r] # facts[r] =>
       \A t \in Pending(facts[r], ChanEpoch(facts[r])) :
         ~AcceptsEpoch(facts[r], t.epoch) /\ AcceptsEpoch(facts'[r], t.epoch)
           => Contested(facts'[r], t)]_vars

(* "All devices observe the same epoch after merging journal facts": once  *)
(* facts stop appearing, the replicas come to the same epoch and           *)
(* generation for good.                                                    *)
Convergence == <>[]Sole({Header(facts[r]) : r \in Replica})

(* The current epoch has one certified successor, no conflict evidence and *)
(* no A3 fact.                                                             *)
HasSoleSuccessor(F) ==
  LET here == {k \in Groups(F) : k.epoch = ChanEpoch(F)}
  IN /\ Sole(UNION {Certified(F, k) : k \in here})
     /\ \A k \in here : Finalized(F, k) = {} /\ Transitions(F, {"conflict"}, k) = {}

(* "Exactly one valid unsuppressed AmpCertifiedChannelEpochBump exists for *)
(* the parent epoch | Successor is live for AMP send".                     *)
LiveSuccessorIsUsed ==
  \A r \in Replica : HasSoleSuccessor(facts[r]) =>
    SendEpoch(facts[r]) = ChanEpoch(facts[r]) + 1

=============================================================================
