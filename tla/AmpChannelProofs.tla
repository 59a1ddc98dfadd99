-------------------------- MODULE AmpChannelProofs --------------------------
(***************************************************************************)
(* Proofs about AmpChannel for any number of replicas and any set of       *)
(* facts.  Most of the work is in lemmas about the reduction of a set F of *)
(* facts; the state machine adds that the sets only grow.                  *)
(***************************************************************************)
EXTENDS AmpChannel, WellFoundedInduction, TLAPS

(* Every nonempty set of naturals has a least element. *)
LEMMA Least ==
  ASSUME NEW S, S \subseteq Nat, S # {}
  PROVE  \E x \in S : \A y \in S : x <= y
<1>1. PICK x \in S : \A y \in S : <<y, x>> \notin OpToRel(<, Nat)
  BY NatLessThanWellFounded, WFMin
<1>2. \A y \in S : ~(y < x)
  BY <1>1 DEF OpToRel
<1>. QED
  BY <1>2

(* A set of naturals with an upper bound has a greatest element. *)
LEMMA Greatest ==
  ASSUME NEW n \in Nat, NEW S, S \subseteq 0..n, S # {}
  PROVE  \E x \in S : \A y \in S : y <= x
<1>. DEFINE D == {n - x : x \in S}
<1>1. D \subseteq Nat
  <2>1. \A x \in S : n - x \in Nat
    OBVIOUS
  <2>. QED
    BY <2>1
<1>5. D # {}
  <2>1. PICK x \in S : TRUE
    OBVIOUS
  <2>2. n - x \in D
    BY <2>1
  <2>. QED
    BY <2>2
<1>2. PICK d \in D : \A y \in D : d <= y
  BY <1>1, <1>5, Least
<1>3. PICK x \in S : d = n - x
  OBVIOUS
<1>4. \A y \in S : n - x <= n - y
  BY <1>2, <1>3
<1>. QED
  BY <1>4

(* Transition facts carry a transition; the others are checkpoints. *)
LEMMA FactType ==
  ASSUME NEW F, F \subseteq Fact, NEW f \in F
  PROVE  /\ f.type # "checkpoint" => f.tr \in Transition
         /\ f.type = "checkpoint" => f \in Checkpoint
         /\ f.type = "proposed" => f \in Proposal
  BY AmpAssumption DEF Proposal, PlainFact, Certificate, Suppression, Checkpoint

-----------------------------------------------------------------------------
(* The epoch *)

(* The parent of a group is an epoch below the bound. *)
LEMMA GroupType ==
  ASSUME NEW F, F \subseteq Fact, NEW k \in Groups(F)
  PROVE  k.epoch \in 0..MaxEpoch - 1 /\ k.parent \in 0..MaxGen
<1>1. PICK f \in F : f.type # "checkpoint" /\ k = ParentKey(f.tr)
  BY DEF Groups
<1>2. f.tr \in Transition
  BY <1>1, FactType
<1>. QED
  BY <1>1, <1>2 DEF ParentKey, Transition

(* highest_reduced_epoch is well defined: the loop ends. *)
LEMMA ChanEpochDef ==
  ASSUME NEW F, F \subseteq Fact
  PROVE  /\ ChanEpoch(F) \in 0..MaxEpoch
         /\ ChanEpoch(F) \notin Reached(F)
         /\ \A d \in 0..MaxEpoch : d < ChanEpoch(F) => d \in Reached(F)
<1>. DEFINE S == {e \in 0..MaxEpoch : e \notin Reached(F)}
<1>1. MaxEpoch \in S
  BY GroupType, AmpAssumption DEF Reached
<1>2. S \subseteq Nat
  BY AmpAssumption
<1>3. PICK x \in S : \A y \in S : x <= y
  BY <1>1, <1>2, Least
<1>4. \A d \in 0..MaxEpoch : d < x => d \in Reached(F)
  BY <1>3, AmpAssumption
<1>. DEFINE reached == Reached(F)
<1>5. \E e \in 0..MaxEpoch :
        e \notin reached /\ \A d \in 0..MaxEpoch : d < e => d \in reached
  BY <1>3, <1>4
<1>6. ChanEpoch(F) = CHOOSE e \in 0..MaxEpoch :
        e \notin reached /\ \A d \in 0..MaxEpoch : d < e => d \in reached
  BY DEF ChanEpoch
<1>7. /\ ChanEpoch(F) \in 0..MaxEpoch
      /\ ChanEpoch(F) \notin reached
      /\ \A d \in 0..MaxEpoch : d < ChanEpoch(F) => d \in reached
  BY <1>5, <1>6
<1>. QED
  BY <1>7

-----------------------------------------------------------------------------
(* Transitions and their evidence *)

(* Membership in Transitions, spelled out. *)
LEMMA TransitionsDef ==
  ASSUME NEW F, NEW T, NEW k, NEW t
  PROVE  t \in Transitions(F, T, k) <=>
           \E f \in F : f.type \in T /\ Valid(f) /\ ParentKey(f.tr) = k /\ f.tr = t
  BY DEF Transitions

(* A finalized successor has an A3 fact, a live one a certificate. *)
LEMMA FinalHasFact ==
  ASSUME NEW F, NEW k, NEW t \in Final(F, k)
  PROVE  \E f \in F : /\ f.type \in {"finalized", "committed"}
                     /\ f.tr = t /\ ParentKey(t) = k /\ t.next = t.epoch + 1
<1>1. t \in Transitions(F, {"finalized", "committed"}, k)
  BY DEF Final, Finalized
<1>. QED
  BY <1>1, TransitionsDef DEF Valid

(* A live transition has a certificate with a quorum. *)
LEMMA LiveHasFact ==
  ASSUME NEW F, NEW k, NEW t \in Live(F, k)
  PROVE  \E f \in F : /\ f.type = "certified" /\ HasQuorum(f)
                     /\ f.tr = t /\ ParentKey(t) = k /\ t.next = t.epoch + 1
<1>1. t \in Transitions(F, {"certified"}, k)
  BY DEF Live, Certified
<1>. QED
  BY <1>1, TransitionsDef DEF Valid

(* A parent exposes at most one successor, as live or as final. *)
LEMMA AtMostOneFollowed ==
  ASSUME NEW F, NEW k
  PROVE  \A t, u \in Followed(F, k) : t = u
<1>1. CASE Status(F, k) = "A2Live"
  <2>1. Sole(Certified(F, k))
    BY <1>1 DEF Status
  <2>2. Followed(F, k) = Certified(F, k)
    BY <1>1 DEF Followed, Live, Final
  <2>. QED
    BY <2>1, <2>2 DEF Sole
<1>2. CASE Status(F, k) = "A3Finalized"
  <2>1. ~Several(Finalized(F, k))
    BY <1>2 DEF Status
  <2>2. Followed(F, k) = Finalized(F, k)
    BY <1>2 DEF Followed, Live, Final
  <2>. QED
    BY <2>1, <2>2 DEF Several
<1>. QED
  BY <1>1, <1>2 DEF Followed, Live, Final

(* A finalized parent is evidence for its successor epoch. *)
LEMMA ReachedHasEvidence ==
  ASSUME NEW F, F \subseteq Fact, NEW e \in Nat, e \in Reached(F)
  PROVE  Evidence(F, e + 1)
<1>1. PICK k \in Groups(F) : k.epoch = e /\ Status(F, k) = "A3Finalized"
  BY DEF Reached
<1>2. Finalized(F, k) # {}
  BY <1>1 DEF Status
<1>3. PICK t : t \in Final(F, k)
  BY <1>1, <1>2 DEF Final
<1>4. PICK f \in F : /\ f.type \in {"finalized", "committed"}
                    /\ f.tr = t /\ ParentKey(t) = k /\ t.next = t.epoch + 1
  BY <1>3, FinalHasFact
<1>. QED
  BY <1>1, <1>4 DEF Evidence, ParentKey

(* The proposal the pending bump is made of is one that carries its id. *)
LEMMA FirstProposalDef ==
  ASSUME NEW F, F \subseteq Fact, NEW t, Proposals(F, t) # {}
  PROVE  FirstProposal(F, t) \in Proposals(F, t)
<1>. DEFINE O == {f.order : f \in Proposals(F, t)}
<1>1. O \subseteq Nat /\ O # {}
  BY FactType DEF Proposals, Proposal
<1>2. PICK o \in O : \A y \in O : o <= y
  BY <1>1, Least
<1>3. PICK f \in Proposals(F, t) : f.order = o
  BY <1>2
<1>4. \A g \in Proposals(F, t) : f.order <= g.order
  BY <1>2, <1>3
<1>. QED
  BY <1>4 DEF FirstProposal

(* Policy and epoch of the pending bump are those of a proposal with its   *)
(* id, or those of a normal transition.                                    *)
LEMMA LiveBump ==
  ASSUME NEW F, F \subseteq Fact, NEW t \in Transition
  PROVE  /\ LivePolicy(F, t) \in Policies
         /\ NewEpoch(F, t) \in 0..MaxEpoch
         /\ \/ LivePolicy(F, t) = "Normal" /\ NewEpoch(F, t) = t.epoch + 1
            \/ \E p \in Proposals(F, t) :
                 LivePolicy(F, t) = p.tr.policy /\ NewEpoch(F, t) = p.tr.next
<1>1. CASE Proposals(F, t) = {}
  <2>1. LivePolicy(F, t) = "Normal" /\ NewEpoch(F, t) = t.epoch + 1
    BY <1>1 DEF LivePolicy, NewEpoch
  <2>2. t.epoch + 1 \in 0..MaxEpoch
    BY AmpAssumption DEF Transition
  <2>. QED
    BY <2>1, <2>2 DEF Policies
<1>2. CASE Proposals(F, t) # {}
  <2>1. PICK p \in Proposals(F, t) : p = FirstProposal(F, t)
    BY <1>2, FirstProposalDef
  <2>2. LivePolicy(F, t) = p.tr.policy /\ NewEpoch(F, t) = p.tr.next
    BY <1>2, <2>1 DEF LivePolicy, NewEpoch
  <2>3. p.tr \in Transition
    BY FactType DEF Proposals
  <2>4. p.tr.policy \in Policies /\ p.tr.next \in 0..MaxEpoch
    BY <2>3 DEF Transition
  <2>. QED
    BY <2>2, <2>4
<1>. QED
  BY <1>1, <1>2

(* A pending transition is evidence for the epoch of its bump. *)
LEMMA PendingHasEvidence ==
  ASSUME NEW F, F \subseteq Fact, NEW t \in Pending(F, ChanEpoch(F))
  PROVE  /\ Evidence(F, NewEpoch(F, t))
         /\ t.epoch = ChanEpoch(F) /\ t.next = t.epoch + 1
         /\ ParentKey(t) \in Current(F, ChanEpoch(F)) /\ t \in Live(F, ParentKey(t))
         /\ t \in Transition
<1>1. PICK k \in Current(F, ChanEpoch(F)) : t \in Live(F, k)
  BY DEF Pending
<1>2. k \in Groups(F) /\ k.epoch = ChanEpoch(F)
  BY <1>1 DEF Current
<1>3. PICK f \in F : /\ f.type = "certified" /\ HasQuorum(f)
                    /\ f.tr = t /\ ParentKey(t) = k /\ t.next = t.epoch + 1
  BY <1>1, LiveHasFact
<1>4. t.epoch = ChanEpoch(F)
  BY <1>2, <1>3 DEF ParentKey
<1>5. t \in Transition
  BY <1>3, FactType
<1>6. \/ NewEpoch(F, t) = t.epoch + 1
      \/ \E p \in Proposals(F, t) : NewEpoch(F, t) = p.tr.next
  BY <1>5, LiveBump
<1>. QED
  BY <1>1, <1>3, <1>4, <1>5, <1>6 DEF Evidence, HasQuorum

(* A channel past epoch zero has evidence for its epoch. *)
LEMMA ChanEpochHasEvidence ==
  ASSUME NEW F, F \subseteq Fact, ChanEpoch(F) # 0
  PROVE  Evidence(F, ChanEpoch(F))
<1>1. ChanEpoch(F) - 1 \in 0..MaxEpoch /\ ChanEpoch(F) - 1 < ChanEpoch(F)
  BY ChanEpochDef, AmpAssumption
<1>2. ChanEpoch(F) - 1 \in Reached(F)
  BY <1>1, ChanEpochDef
<1>3. Evidence(F, (ChanEpoch(F) - 1) + 1)
  BY <1>1, <1>2, ReachedHasEvidence
<1>. QED
  BY <1>1, <1>3, ChanEpochDef

-----------------------------------------------------------------------------
(* Checkpoints and ratchets *)

(* canonical_checkpoint is well defined: a latest checkpoint exists. *)
LEMMA CanonicalCheckpointDef ==
  ASSUME NEW F, F \subseteq Fact, PastCheckpoints(F) # {}
  PROVE  CanonicalCheckpoint(F) \in Checkpoint
<1>. DEFINE P == PastCheckpoints(F)
            E == {c.epoch : c \in P}
<1>1. \A c \in P : c \in Checkpoint
  BY FactType DEF PastCheckpoints
<1>2. PICK e \in E : \A d \in E : d <= e
  <2>1. E \subseteq 0..MaxEpoch
    BY <1>1 DEF Checkpoint
  <2>2. E # {}
    OBVIOUS
  <2>3. MaxEpoch \in Nat
    BY AmpAssumption
  <2>. HIDE DEF E
  <2>. QED
    BY <2>1, <2>2, <2>3, Greatest
<1>. DEFINE PE == {c \in P : c.epoch = e}
            G == {c.gen : c \in PE}
<1>3. PICK g \in G : \A d \in G : d <= g
  <2>1. G \subseteq 0..MaxGen
    BY <1>1 DEF Checkpoint
  <2>2. G # {}
    BY <1>2
  <2>3. MaxGen \in Nat
    BY AmpAssumption
  <2>. HIDE DEF G
  <2>. QED
    BY <2>1, <2>2, <2>3, Greatest
<1>. DEFINE PG == {c \in PE : c.gen = g}
            K == {c.ck : c \in PG}
<1>4. PICK k \in K : \A d \in K : d <= k
  <2>1. K \subseteq 0..MaxGen
    BY <1>1 DEF Checkpoint
  <2>2. K # {}
    BY <1>3
  <2>3. MaxGen \in Nat
    BY AmpAssumption
  <2>. HIDE DEF K
  <2>. QED
    BY <2>1, <2>2, <2>3, Greatest
<1>5. PICK c \in PG : c.ck = k
  OBVIOUS
<1>6. \A d \in P : NotAfter(d, c)
  <2>1. SUFFICES ASSUME NEW d \in P PROVE NotAfter(d, c)
    OBVIOUS
  <2>2. /\ d.epoch \in Nat /\ d.gen \in Nat /\ d.ck \in Nat
        /\ e \in Nat /\ g \in Nat /\ k \in Nat
    BY <1>1, <1>5, AmpAssumption DEF Checkpoint
  <2>3. d.epoch <= e
    BY <1>2
  <2>4. d.epoch = e => d.gen <= g
    BY <1>3
  <2>5. d.epoch = e /\ d.gen = g => d.ck <= k
    BY <1>4
  <2>. QED
    BY <1>5, <2>2, <2>3, <2>4, <2>5 DEF NotAfter
<1>7. CanonicalCheckpoint(F) \in P
  BY <1>5, <1>6 DEF CanonicalCheckpoint
<1>. QED
  BY <1>1, <1>7

(* The ratchet a replica derives from its facts is well-formed. *)
LEMMA RatchetType ==
  ASSUME NEW F, F \subseteq Fact
  PROVE  /\ BaseGen(F) \in 0..MaxGen
         /\ SkipWindow(F) \in Nat
         /\ Header(F) \in Headers
<1>1. BaseGen(F) \in 0..MaxGen
  BY CanonicalCheckpointDef, AmpAssumption DEF BaseGen, Checkpoint
<1>2. SkipWindow(F) \in Nat
  BY CanonicalCheckpointDef, AmpAssumption DEF SkipWindow, Checkpoint
<1>3. SendEpoch(F) \in 0..MaxEpoch
  <2>1. CASE Pending(F, ChanEpoch(F)) = {}
    BY <2>1, ChanEpochDef DEF SendEpoch
  <2>2. CASE Pending(F, ChanEpoch(F)) # {}
    <3>1. PICK t \in Pending(F, ChanEpoch(F)) : SendEpoch(F) = NewEpoch(F, t)
      BY <2>2 DEF SendEpoch
    <3>. QED
      BY <3>1, PendingHasEvidence, LiveBump
  <2>. QED
    BY <2>1, <2>2
<1>. QED
  BY <1>1, <1>2, <1>3 DEF Header, Headers

(* The epoch of the pending bump is always accepted, the current one under *)
(* the policies that keep it.                                              *)
LEMMA AcceptedEpochsDef ==
  ASSUME NEW e, NEW n, NEW policy \in Policies
  PROVE  /\ n \in AcceptedEpochs(e, n, policy)
         /\ AcceptedEpochs(e, n, policy) \subseteq {e, n}
         /\ policy \in {"Subtractive", "Cryptoshred"} => AcceptedEpochs(e, n, policy) = {n}
         /\ policy \notin {"Subtractive", "Cryptoshred"} => e \in AcceptedEpochs(e, n, policy)
  BY DEF AcceptedEpochs, Policies

(* The first generation of the window is accepted under every policy. *)
LEMMA BaseAccepted ==
  ASSUME NEW F, F \subseteq Fact, NEW t \in Pending(F, ChanEpoch(F)),
         NEW e \in AcceptedEpochs(ChanEpoch(F), NewEpoch(F, t), LivePolicy(F, t))
  PROVE  Accepts(F, [epoch |-> e, gen |-> BaseGen(F)])
<1>1. BaseGen(F) \in Nat /\ SkipWindow(F) \in Nat
  BY RatchetType, AmpAssumption
<1>2. LivePolicy(F, t) \in Policies
  BY PendingHasEvidence, LiveBump
<1>3. AcceptedWindow(SkipWindow(F), LivePolicy(F, t)) \in Nat
  BY <1>1, <1>2 DEF AcceptedWindow, Policies
<1>4. InWindow(BaseGen(F), BaseGen(F), AcceptedWindow(SkipWindow(F), LivePolicy(F, t)))
  BY <1>1, <1>3 DEF InWindow
<1>. QED
  BY <1>4 DEF Accepts

(* The ratchets agree. *)
LEMMA HeaderAccepted ==
  ASSUME NEW F, F \subseteq Fact
  PROVE  Accepts(F, Header(F))
<1>1. Header(F) = [epoch |-> SendEpoch(F), gen |-> BaseGen(F)]
  BY DEF Header
<1>2. CASE Pending(F, ChanEpoch(F)) = {}
  <2>1. SendEpoch(F) = ChanEpoch(F)
    BY <1>2 DEF SendEpoch
  <2>2. BaseGen(F) \in Nat /\ SkipWindow(F) \in Nat
    BY RatchetType, AmpAssumption
  <2>3. InWindow(BaseGen(F), BaseGen(F), SkipWindow(F))
    BY <2>2 DEF InWindow
  <2>. QED
    BY <1>1, <1>2, <2>1, <2>3 DEF Accepts
<1>3. CASE Pending(F, ChanEpoch(F)) # {}
  <2>1. PICK t \in Pending(F, ChanEpoch(F)) : SendEpoch(F) = NewEpoch(F, t)
    BY <1>3 DEF SendEpoch
  <2>2. LivePolicy(F, t) \in Policies
    BY PendingHasEvidence, LiveBump
  <2>3. SendEpoch(F) \in AcceptedEpochs(ChanEpoch(F), NewEpoch(F, t), LivePolicy(F, t))
    BY <2>1, <2>2, AcceptedEpochsDef
  <2>. QED
    BY <1>1, <2>3, BaseAccepted
<1>. QED
  BY <1>2, <1>3

(* What is accepted is of the current epoch or of the pending bump's. *)
LEMMA AcceptedIsKnown ==
  ASSUME NEW F, F \subseteq Fact, NEW h, Accepts(F, h)
  PROVE  \/ h.epoch = ChanEpoch(F)
         \/ \E t \in Pending(F, ChanEpoch(F)) : h.epoch = NewEpoch(F, t)
<1>1. CASE Pending(F, ChanEpoch(F)) = {}
  BY <1>1 DEF Accepts
<1>2. CASE Pending(F, ChanEpoch(F)) # {}
  <2>1. PICK t \in Pending(F, ChanEpoch(F)) :
          h.epoch \in AcceptedEpochs(ChanEpoch(F), NewEpoch(F, t), LivePolicy(F, t))
    BY <1>2 DEF Accepts
  <2>2. LivePolicy(F, t) \in Policies
    BY PendingHasEvidence, LiveBump
  <2>. QED
    BY <2>1, <2>2, AcceptedEpochsDef
<1>. QED
  BY <1>1, <1>2

(* So there is evidence for it. *)
LEMMA AcceptedHasEvidence ==
  ASSUME NEW F, F \subseteq Fact, NEW h, Accepts(F, h)
  PROVE  h.epoch = 0 \/ Evidence(F, h.epoch)
  BY AcceptedIsKnown, ChanEpochHasEvidence, PendingHasEvidence

(* A replica follows at most one transition out of its epoch. *)
LEMMA AtMostOnePending ==
  ASSUME NEW F, F \subseteq Fact
  PROVE  \A t, u \in Pending(F, ChanEpoch(F)) : t = u
<1>1. \A k, j \in Current(F, ChanEpoch(F)) : k = j
  <2>1. SUFFICES ASSUME NEW k \in Current(F, ChanEpoch(F)), NEW j \in Current(F, ChanEpoch(F)) PROVE k = j
    OBVIOUS
  <2>2. k \in Groups(F) /\ j \in Groups(F) /\ k.epoch = j.epoch
        /\ k.parent <= j.parent /\ j.parent <= k.parent
    BY DEF Current
  <2>3. k.parent = j.parent
    BY <2>2, GroupType, AmpAssumption
  <2>. QED
    BY <2>2, <2>3 DEF Groups, ParentKey
<1>. QED
  BY <1>1, AtMostOneFollowed DEF Pending, Followed

-----------------------------------------------------------------------------
(* Growing sets of facts *)

(* More facts never take evidence away. *)
LEMMA EvidenceGrows ==
  ASSUME NEW F, NEW G, F \subseteq G, NEW e, Evidence(F, e)
  PROVE  Evidence(G, e)
<1>1. \A t : Proposals(F, t) \subseteq Proposals(G, t)
  BY DEF Proposals
<1>. QED
  BY <1>1 DEF Evidence

(* A transition is suppressed only by a fact that names it. *)
LEMMA SuppressedHasFact ==
  ASSUME NEW F, NEW k, NEW t
  PROVE  /\ t \in SuppressedA2(F, k) =>
              \E f \in F : f.type \in {"abort", "supersession"} /\ f.tr = t
         /\ t \in SuppressedA3(F, k) =>
              \E f \in F : /\ f.type \in {"abort", "supersession"}
                           /\ f.scope = "A2AndA3" /\ f.tr = t
  BY DEF SuppressedA2, SuppressedA3, Transitions

(* Evidence that is not suppressed stays. *)
LEMMA EvidenceStays ==
  ASSUME NEW F, NEW G, F \subseteq G, NEW k, NEW t
  PROVE  /\ t \in Certified(F, k) => t \in Certified(G, k) \cup SuppressedA2(G, k)
         /\ t \in Finalized(F, k) => t \in Finalized(G, k) \cup SuppressedA3(G, k)
<1>1. ASSUME NEW T, t \in Transitions(F, T, k)
      PROVE  t \in Transitions(G, T, k)
  BY <1>1 DEF Transitions
<1>. QED
  BY <1>1 DEF Certified, Finalized

(* Why a replica that learns facts may follow another transition. *)
LEMMA SwitchLemma ==
  ASSUME NEW F, NEW G, F \subseteq G, NEW k,
         NEW t \in Followed(F, k), NEW u \in Followed(G, k), t # u
  PROVE  \/ \E f \in G : f.type \in {"abort", "supersession"} /\ f.tr = t
         \/ \E f, g \in G : /\ f.type = "certified" /\ f.tr = u
                            /\ g.type \in {"finalized", "committed"} /\ g.tr = u
<1>1. CASE t \in SuppressedA2(G, k) \/ t \in SuppressedA3(G, k)
  BY <1>1, SuppressedHasFact
<1>2. CASE t \in Finalized(G, k)
  <2>1. Status(G, k) # "A2Live"
    BY <1>2 DEF Status
  <2>2. Status(G, k) = "A3Finalized" /\ u \in Finalized(G, k)
    BY <2>1 DEF Followed, Live, Final
  <2>3. ~Several(Finalized(G, k))
    BY <2>2 DEF Status
  <2>. QED
    BY <1>2, <2>2, <2>3 DEF Several
<1>3. CASE t \in Certified(G, k)
  <2>1. CASE u \in Live(G, k)
    <3>1. t \in Live(G, k)
      BY <1>3, <2>1 DEF Live
    <3>. QED
      BY <2>1, <3>1, AtMostOneFollowed DEF Followed
  <2>2. CASE u \in Final(G, k)
    <3>1. Status(G, k) = "A3Finalized" /\ u \in Finalized(G, k)
      BY <2>2 DEF Final
    <3>2. /\ ~Several(Finalized(G, k))
          /\ ~FinalConflictsWithA2(Finalized(G, k), Certified(G, k))
      BY <3>1 DEF Status
    <3>3. Finalized(G, k) = {u}
      BY <3>1, <3>2 DEF Several
    <3>4. u \in Certified(G, k)
      BY <1>3, <3>2, <3>3 DEF FinalConflictsWithA2, Sole
    <3>5. u \in Transitions(G, {"certified"}, k)
      BY <3>4 DEF Certified
    <3>. QED
      BY <2>2, <3>5, FinalHasFact, TransitionsDef
  <2>. QED
    BY <2>1, <2>2 DEF Followed
<1>. QED
  BY <1>1, <1>2, <1>3, EvidenceStays DEF Followed, Live, Final

(* The epoch falls only in the presence of a dispute. *)
LEMMA FallLemma ==
  ASSUME NEW F, NEW G, F \subseteq G, G \subseteq Fact,
         ChanEpoch(G) < ChanEpoch(F)
  PROVE  Disputed(G)
<1>1. ChanEpoch(G) \in 0..MaxEpoch /\ ChanEpoch(G) \notin Reached(G)
  BY ChanEpochDef
<1>2. ChanEpoch(G) \in Reached(F)
  BY <1>1, ChanEpochDef
<1>3. PICK k \in Groups(F) : k.epoch = ChanEpoch(G) /\ Status(F, k) = "A3Finalized"
  BY <1>2 DEF Reached
<1>4. k \in Groups(G)
  BY <1>3 DEF Groups
<1>5. Status(G, k) # "A3Finalized"
  BY <1>1, <1>3, <1>4 DEF Reached
<1>6. PICK t : t \in Finalized(F, k)
  BY <1>3 DEF Status
<1>7. CASE t \in SuppressedA3(G, k)
  BY <1>7, SuppressedHasFact DEF Disputed
<1>8. CASE t \in Finalized(G, k)
  <2>1. \/ Several(Finalized(G, k))
        \/ FinalConflictsWithA2(Finalized(G, k), Certified(G, k))
    BY <1>5, <1>8 DEF Status
  <2>2. PICK u : u # t /\ u \in Finalized(G, k) \cup Certified(G, k)
    BY <1>8, <2>1 DEF Several, FinalConflictsWithA2, Sole
  <2>3. PICK f \in G : /\ f.type \in {"finalized", "committed"}
                       /\ f.tr = t /\ ParentKey(f.tr) = k
    BY <1>8, TransitionsDef DEF Finalized
  <2>4. PICK g \in G : /\ g.type \in {"finalized", "committed", "certified"}
                       /\ g.tr = u /\ ParentKey(g.tr) = k
    BY <2>2, TransitionsDef DEF Finalized, Certified
  <2>. QED
    BY <2>2, <2>3, <2>4 DEF Disputed
<1>. QED
  BY <1>6, <1>7, <1>8, EvidenceStays

-----------------------------------------------------------------------------
(* Closed epochs *)

(* A live successor whose bump closes the current epoch is a removal or a  *)
(* cryptoshred, and its proposal is known.                                 *)
LEMMA ClosedByRemoval ==
  ASSUME NEW F, F \subseteq Fact, NEW t \in Pending(F, ChanEpoch(F)),
         ~AcceptsEpoch(F, t.epoch)
  PROVE  LivePolicy(F, t) \in {"Subtractive", "Cryptoshred"} /\ Proposals(F, t) # {}
<1>1. t.epoch = ChanEpoch(F) /\ LivePolicy(F, t) \in Policies
  BY PendingHasEvidence, LiveBump
<1>2. ASSUME LivePolicy(F, t) \notin {"Subtractive", "Cryptoshred"} PROVE FALSE
  <2>1. Accepts(F, [epoch |-> t.epoch, gen |-> BaseGen(F)])
    BY <1>1, <1>2, AcceptedEpochsDef, BaseAccepted
  <2>. QED
    BY <2>1, RatchetType DEF AcceptsEpoch
<1>. QED
  BY <1>2 DEF LivePolicy

(* Where nobody contests a transition, its parent is the only one of its   *)
(* epoch and knows of no other transition.                                 *)
LEMMA Uncontested ==
  ASSUME NEW G, G \subseteq Fact, NEW t, ~Contested(G, t)
  PROVE  /\ \A k \in Groups(G) : k.epoch = t.epoch => k = ParentKey(t)
         /\ \A T, u : "checkpoint" \notin T /\ u \in Transitions(G, T, ParentKey(t)) => u = t
         /\ \A T : T \subseteq {"abort", "supersession", "conflict"}
                     => Transitions(G, T, ParentKey(t)) = {}
         /\ \A u : \A p \in Proposals(G, u) : p.tr = u
<1>1. \A f \in G : f.type # "checkpoint" /\ f.tr.epoch = t.epoch => f.tr = t
  BY DEF Contested
<1>2. \A k \in Groups(G) : k.epoch = t.epoch => k = ParentKey(t)
  BY <1>1 DEF Groups, ParentKey
<1>3. ASSUME NEW T, NEW u, "checkpoint" \notin T, u \in Transitions(G, T, ParentKey(t))
      PROVE  u = t /\ \E f \in G : f.type \in T /\ f.tr = t
  <2>1. PICK f \in G : f.type \in T /\ ParentKey(f.tr) = ParentKey(t) /\ f.tr = u
    BY <1>3, TransitionsDef
  <2>2. f.type # "checkpoint" /\ f.tr.epoch = t.epoch
    BY <1>3, <2>1 DEF ParentKey
  <2>. QED
    BY <1>1, <2>1, <2>2
<1>4. ASSUME NEW T, T \subseteq {"abort", "supersession", "conflict"}
      PROVE  Transitions(G, T, ParentKey(t)) = {}
  <2>1. "checkpoint" \notin T
    BY <1>4
  <2>2. ~\E f \in G : f.type \in T /\ f.tr = t
    BY <1>4 DEF Contested
  <2>3. \A u : u \notin Transitions(G, T, ParentKey(t))
    BY <1>3, <2>1, <2>2
  <2>. QED
    BY <2>3
<1>5. \A u : \A p \in Proposals(G, u) : p.tr = u
  BY DEF Contested, Proposals
<1>. QED
  BY <1>2, <1>3, <1>4, <1>5

(* An uncontested certified transition of the current epoch is pending. *)
LEMMA StillPending ==
  ASSUME NEW G, G \subseteq Fact, NEW t \in Transition, ~Contested(G, t),
         t \in Transitions(G, {"certified"}, ParentKey(t)),
         ParentKey(t) \in Groups(G), ChanEpoch(G) = t.epoch
  PROVE  Pending(G, ChanEpoch(G)) = {t}
<1>. DEFINE k == ParentKey(t)
<1>1. k \in Groups(G) /\ k.epoch = t.epoch
  BY DEF ParentKey
<1>2. \A j \in Groups(G) : j.epoch = t.epoch => j = k
  BY Uncontested
<1>3. k.parent <= k.parent
  BY <1>1, GroupType, AmpAssumption
<1>. HIDE DEF k
<1>4. Current(G, ChanEpoch(G)) = {k}
  BY <1>1, <1>2, <1>3 DEF Current
<1>5. SuppressedA2(G, k) = {} /\ Transitions(G, {"conflict"}, k) = {}
  BY Uncontested DEF SuppressedA2, k
<1>6. Certified(G, k) = {t}
  BY <1>5, Uncontested DEF Certified, k
<1>7. Finalized(G, k) \subseteq {t}
  BY Uncontested DEF Finalized, k
<1>8. Status(G, k) # "A3Finalized"
  BY <1>1, ChanEpochDef DEF Reached
<1>9. Finalized(G, k) = {}
  <2>1. ASSUME Finalized(G, k) # {} PROVE Status(G, k) = "A3Finalized"
    <3>1. Finalized(G, k) = {t}
      BY <1>7, <2>1
    <3>2. ~Several({t}) /\ ~FinalConflictsWithA2({t}, {t})
      BY DEF Several, FinalConflictsWithA2
    <3>. QED
      BY <1>6, <3>1, <3>2 DEF Status
  <2>. QED
    BY <1>8, <2>1
<1>10. Status(G, k) = "A2Live"
  <2>1. ~Several({}) /\ ~FinalConflictsWithA2({}, {t}) /\ Sole({t})
    BY DEF Several, FinalConflictsWithA2, Sole
  <2>. QED
    BY <1>5, <1>6, <1>9, <2>1 DEF Status
<1>. QED
  BY <1>4, <1>6, <1>10 DEF Pending, Live

(* An epoch that a live successor closed is not accepted again while the   *)
(* successor is uncontested.                                               *)
LEMMA StaysClosed ==
  ASSUME NEW F, NEW G, F \subseteq G, G \subseteq Fact,
         NEW t \in Pending(F, ChanEpoch(F)),
         ~AcceptsEpoch(F, t.epoch), AcceptsEpoch(G, t.epoch)
  PROVE  Contested(G, t)
<1>. SUFFICES ASSUME ~Contested(G, t) PROVE FALSE
  OBVIOUS
<1>1. /\ t.epoch = ChanEpoch(F) /\ t.next = t.epoch + 1 /\ t \in Transition
      /\ ParentKey(t) \in Groups(F) /\ t \in Live(F, ParentKey(t))
  BY PendingHasEvidence DEF Current
<1>2. t.epoch \in Nat /\ ChanEpoch(G) \in Nat
  BY <1>1, ChanEpochDef, AmpAssumption
<1>3. ~(ChanEpoch(G) < t.epoch)
  BY <1>1, FallLemma DEF Contested
<1>4. PICK h : Accepts(G, h) /\ h.epoch = t.epoch
  BY DEF AcceptsEpoch
<1>5. CASE ChanEpoch(G) = t.epoch
  <2>1. t \in Transitions(F, {"certified"}, ParentKey(t))
    BY <1>1 DEF Live, Certified
  <2>2. t \in Transitions(G, {"certified"}, ParentKey(t)) /\ ParentKey(t) \in Groups(G)
    BY <1>1, <2>1 DEF Transitions, Groups
  <2>3. Pending(G, ChanEpoch(G)) = {t}
    BY <1>1, <1>5, <2>2, StillPending, SMTT(30)
  <2>4. PICK p \in Proposals(F, t) : LivePolicy(F, t) = p.tr.policy
    <3>1. LivePolicy(F, t) # "Normal"
      BY ClosedByRemoval
    <3>. QED
      BY <1>1, <3>1, LiveBump
  <2>5. p \in Proposals(G, t)
    BY <2>4 DEF Proposals
  <2>6. t.policy \in {"Subtractive", "Cryptoshred"}
    BY <2>4, <2>5, ClosedByRemoval, Uncontested
  <2>7. PICK q \in Proposals(G, t) :
          LivePolicy(G, t) = q.tr.policy /\ NewEpoch(G, t) = q.tr.next
    BY <2>5, FirstProposalDef DEF LivePolicy, NewEpoch
  <2>8. LivePolicy(G, t) = t.policy /\ NewEpoch(G, t) = t.epoch + 1
    BY <1>1, <2>7, Uncontested, SMTT(30)
  <2>9. h.epoch \in AcceptedEpochs(ChanEpoch(G), NewEpoch(G, t), LivePolicy(G, t))
    BY <1>4, <2>3 DEF Accepts
  <2>10. h.epoch = t.epoch + 1
    BY <2>6, <2>8, <2>9 DEF AcceptedEpochs
  <2>. QED
    BY <1>2, <1>4, <2>10
<1>6. CASE ChanEpoch(G) > t.epoch
  <2>1. PICK u \in Pending(G, ChanEpoch(G)) : h.epoch = NewEpoch(G, u)
    BY <1>2, <1>4, <1>6, AcceptedIsKnown
  <2>2. u.epoch = ChanEpoch(G) /\ u.next = u.epoch + 1 /\ u \in Transition
    BY PendingHasEvidence
  <2>3. NewEpoch(G, u) = u.epoch + 1
    <3>1. \/ NewEpoch(G, u) = u.epoch + 1
          \/ \E p \in Proposals(G, u) : NewEpoch(G, u) = p.tr.next
      BY <2>2, LiveBump
    <3>2. \A p \in Proposals(G, u) : p.tr = u
      BY Uncontested
    <3>. QED
      BY <2>2, <3>1, <3>2
  <2>. QED
    BY <1>2, <1>4, <1>6, <2>1, <2>2, <2>3
<1>. QED
  BY <1>2, <1>3, <1>5, <1>6

-----------------------------------------------------------------------------
(* The channel *)

(* Journals, calls and markers keep their types: in particular every       *)
(* reduction yields an epoch and a generation in bounds.                   *)
THEOREM TypeCorrect == Spec => []TypeOK
<1>1. Init => TypeOK
  BY DEF Init, TypeOK, Steps
<1>2. TypeOK /\ [Next]_vars => TypeOK'
  <2>. SUFFICES ASSUME TypeOK, [Next]_vars PROVE TypeOK'
    OBVIOUS
  <2>1. ASSUME NEW r \in Replica, NEW f \in Origin[r], AddFact(r, f) PROVE TypeOK'
    BY <2>1, CallAssumption DEF TypeOK, AddFact
  <2>2. ASSUME NEW r \in Replica, NEW s \in Replica, Join(r, s) PROVE TypeOK'
    BY <2>2 DEF TypeOK, Join
  <2>3. ASSUME NEW c \in Call, NEW m \in Markers,
               mark' = [mark EXCEPT ![c] = m],
               step' = [step EXCEPT ![c] = "lookup"],
               UNCHANGED <<facts, marks, raced>>
        PROVE  TypeOK'
    BY <2>3 DEF TypeOK, Steps
  <2>4. ASSUME NEW c \in Send, PrepareSend(c) PROVE TypeOK'
    <3>1. By[c] \in Replica /\ facts[By[c]] \subseteq Fact
      BY CallAssumption DEF TypeOK, Call
    <3>. DEFINE h == Header(facts[By[c]])
    <3>2. h \in Headers
      BY <3>1, RatchetType
    <3>. HIDE DEF h
    <3>3. [from |-> By[c], header |-> h] \in Markers
      BY <3>1, <3>2 DEF Markers
    <3>. QED
      BY <2>3, <2>4, <3>3 DEF PrepareSend, Call, h
  <2>5. ASSUME NEW c \in Receive, NEW s \in Send, OpenMessage(c, s) PROVE TypeOK'
    <3>1. mark[s] \in Markers
      BY <2>5 DEF TypeOK, OpenMessage, Call
    <3>. QED
      BY <2>3, <2>5, <3>1 DEF OpenMessage, Call
  <2>6. ASSUME NEW c \in Call, LookupMarker(c) PROVE TypeOK'
    <3>1. <<By[c], mark[c]>> \in Replica \X Markers
      BY <2>6, CallAssumption DEF TypeOK, LookupMarker
    <3>2. raced' \subseteq Replica \X Markers
      BY <2>6, <3>1, SMTT(30) DEF TypeOK, LookupMarker
    <3>. QED
      BY <2>6, <3>2, SMTT(30) DEF TypeOK, LookupMarker, Fail, Steps
  <2>7. ASSUME NEW c \in Call, StoreMarker(c) PROVE TypeOK'
    <3>1. By[c] \in Replica /\ mark[c] \in Markers
      BY <2>7, CallAssumption DEF TypeOK, StoreMarker
    <3>. QED
      BY <2>7, <3>1, SMTT(30) DEF TypeOK, StoreMarker, Fail, Steps
  <2>8. ASSUME NEW c \in Call, FailCall(c) PROVE TypeOK'
    BY <2>8 DEF TypeOK, FailCall, Fail, Steps
  <2>9. CASE UNCHANGED vars
    BY <2>9, SMTT(30) DEF TypeOK, vars
  <2>. QED
    BY <2>1, <2>2, <2>4, <2>5, <2>6, <2>7, <2>8, <2>9, SMTT(30) DEF Next
<1>. QED
  BY <1>1, <1>2, PTL DEF Spec

(* No step removes a fact from a journal. *)
LEMMA FactsGrow ==
  ASSUME TypeOK, [Next]_vars, NEW r \in Replica
  PROVE  facts[r] \subseteq facts'[r]
<1>1. ASSUME NEW q \in Replica, NEW f, AddFact(q, f)
      PROVE  facts[r] \subseteq facts'[r]
  BY <1>1 DEF TypeOK, AddFact
<1>2. ASSUME NEW q \in Replica, NEW s \in Replica, Join(q, s)
      PROVE  facts[r] \subseteq facts'[r]
  BY <1>2 DEF TypeOK, Join
<1>3. CASE facts' = facts
  BY <1>3, SMTT(30)
<1>. QED
  BY <1>1, <1>2, <1>3
  DEF Next, PrepareSend, OpenMessage, LookupMarker, StoreMarker, FailCall, vars

(* What a step does to one call: nothing, or it fails, or it gets its      *)
(* marker, or it goes on with the marker it has.                           *)
LEMMA CallStep ==
  ASSUME TypeOK, [Next]_vars, NEW c \in Call
  PROVE  \/ step'[c] = step[c] /\ mark'[c] = mark[c]
         \/ step'[c] = "idle"
         \/ /\ step'[c] = "lookup"
            /\ \/ mark'[c].header = Header(facts[By[c]])
               \/ Accepts(facts[By[c]], mark'[c].header)
         \/ /\ step[c] = "lookup" /\ step'[c] = "store" /\ mark'[c] = mark[c]
            /\ mark[c] \notin marks[By[c]] /\ LookupMarker(c)
         \/ /\ step[c] = "store" /\ step'[c] = "done" /\ mark'[c] = mark[c]
            /\ mark[c] \in marks'[By[c]]
<1>. DEFINE Goal ==
         \/ step'[c] = step[c] /\ mark'[c] = mark[c]
         \/ step'[c] = "idle"
         \/ /\ step'[c] = "lookup"
            /\ \/ mark'[c].header = Header(facts[By[c]])
               \/ Accepts(facts[By[c]], mark'[c].header)
         \/ /\ step[c] = "lookup" /\ step'[c] = "store" /\ mark'[c] = mark[c]
            /\ mark[c] \notin marks[By[c]] /\ LookupMarker(c)
         \/ /\ step[c] = "store" /\ step'[c] = "done" /\ mark'[c] = mark[c]
            /\ mark[c] \in marks'[By[c]]
<1>. By[c] \in Replica
  BY CallAssumption, SMTT(30)
<1>1. ASSUME step' = step /\ mark' = mark PROVE Goal
  BY <1>1
<1>2. ASSUME NEW d \in Send, PrepareSend(d) PROVE Goal
  <2>. DEFINE m == [from |-> By[d], header |-> Header(facts[By[d]])]
  <2>1. mark' = [mark EXCEPT ![d] = m] /\ step' = [step EXCEPT ![d] = "lookup"]
    BY <1>2 DEF PrepareSend
  <2>2. m.header = Header(facts[By[d]])
    OBVIOUS
  <2>. HIDE DEF m
  <2>3. CASE d = c
    BY <2>1, <2>2, <2>3 DEF TypeOK
  <2>4. CASE d # c
    BY <2>1, <2>4 DEF TypeOK
  <2>. QED
    BY <2>3, <2>4
<1>3. ASSUME NEW d \in Receive, NEW s \in Send, OpenMessage(d, s) PROVE Goal
  BY <1>3, SMTT(30) DEF OpenMessage, TypeOK
<1>4. ASSUME NEW d \in Call, LookupMarker(d) PROVE Goal
  <2>1. CASE mark[d] \in marks[By[d]]
    BY <1>4, <2>1 DEF LookupMarker, Fail, TypeOK
  <2>2. CASE mark[d] \notin marks[By[d]]
    <3>1. step' = [step EXCEPT ![d] = "store"] /\ mark' = mark /\ step[d] = "lookup"
      BY <1>4, <2>2 DEF LookupMarker
    <3>2. CASE d = c
      BY <1>4, <2>2, <3>1, <3>2 DEF TypeOK
    <3>3. CASE d # c
      BY <3>1, <3>3 DEF TypeOK
    <3>. QED
      BY <3>2, <3>3
  <2>. QED
    BY <2>1, <2>2
<1>5. ASSUME NEW d \in Call, Fail(d) PROVE Goal
  BY <1>5, SMTT(30) DEF Fail, TypeOK
<1>6. ASSUME NEW d \in Call, StoreMarker(d) PROVE Goal
  <2>1. CASE step' = [step EXCEPT ![d] = "done"] /\ mark' = mark
    <3>1. step[d] = "store" /\ marks' = [marks EXCEPT ![By[d]] = @ \cup {mark[d]}]
      BY <1>6 DEF StoreMarker
    <3>2. CASE d = c
      BY <2>1, <3>1, <3>2 DEF TypeOK
    <3>3. CASE d # c
      BY <2>1, <3>3 DEF TypeOK
    <3>. QED
      BY <3>2, <3>3
  <2>. QED
    BY <1>5, <1>6, <2>1 DEF StoreMarker
<1>7. ASSUME NEW d \in Call, FailCall(d) PROVE Goal
  BY <1>5, <1>7, SMTT(30) DEF FailCall
<1>. HIDE DEF Goal
<1>8. ASSUME Next PROVE Goal
  <2>1. \A r, f : AddFact(r, f) => step' = step /\ mark' = mark
    BY DEF AddFact
  <2>2. \A r, s : Join(r, s) => step' = step /\ mark' = mark
    BY DEF Join
  <2>. QED
    BY <1>1, <1>2, <1>3, <1>4, <1>6, <1>7, <1>8, <2>1, <2>2 DEF Next
<1>9. ASSUME UNCHANGED vars PROVE Goal
  BY <1>1, <1>9 DEF vars
<1>. QED
  BY <1>8, <1>9 DEF Goal

(* The evidence a call had when it took its header is still there. *)
CallsHaveEvidence ==
  \A c \in Call : step[c] # "idle" =>
    mark[c].header.epoch = 0 \/ Evidence(facts[By[c]], mark[c].header.epoch)

(* No message of a successor epoch is sent or delivered without a quorum   *)
(* certificate or a finalization of a transition into that epoch: proposals *)
(* and duplicate signatures never authorize one, and neither do facts that  *)
(* arrive while the call waits for its marker.                              *)
THEOREM SuccessorEvidence == Spec => []SuccessorNeedsEvidence
<1>1. Init => CallsHaveEvidence
  BY DEF Init, CallsHaveEvidence
<1>2. TypeOK /\ TypeOK' /\ CallsHaveEvidence /\ [Next]_vars => CallsHaveEvidence'
  <2>. SUFFICES ASSUME TypeOK, TypeOK', CallsHaveEvidence, [Next]_vars,
                       NEW c \in Call, step'[c] # "idle"
                PROVE  \/ mark'[c].header.epoch = 0
                       \/ Evidence(facts'[By[c]], mark'[c].header.epoch)
    BY DEF CallsHaveEvidence
  <2>. DEFINE F == facts[By[c]]
  <2>1. By[c] \in Replica /\ F \subseteq Fact
    BY CallAssumption DEF TypeOK
  <2>2. F \subseteq facts'[By[c]]
    BY <2>1, FactsGrow
  <2>3. CASE step[c] # "idle" /\ mark'[c] = mark[c]
    BY <2>2, <2>3, EvidenceGrows, SMTT(30) DEF CallsHaveEvidence
  <2>4. CASE \/ mark'[c].header = Header(F)
             \/ Accepts(F, mark'[c].header)
    <3>1. Accepts(F, mark'[c].header)
      BY <2>1, <2>4, HeaderAccepted
    <3>2. mark'[c].header.epoch = 0 \/ Evidence(F, mark'[c].header.epoch)
      BY <2>1, <3>1, AcceptedHasEvidence
    <3>. QED
      BY <2>2, <3>2, EvidenceGrows, SMTT(30)
  <2>. QED
    BY <2>3, <2>4, CallStep, SMTT(30)
<1>3. CallsHaveEvidence => SuccessorNeedsEvidence
  BY DEF CallsHaveEvidence, SuccessorNeedsEvidence
<1>. QED
  BY <1>1, <1>2, <1>3, TypeCorrect, PTL DEF Spec

(* Markers and the history of races only grow. *)
LEMMA MarksGrow ==
  ASSUME TypeOK, [Next]_vars
  PROVE  raced \subseteq raced' /\ \A r \in Replica : marks[r] \subseteq marks'[r]
<1>1. CASE raced' = raced /\ marks' = marks
  BY <1>1
<1>2. ASSUME NEW c \in Call, LookupMarker(c)
      PROVE  raced \subseteq raced' /\ \A r \in Replica : marks[r] \subseteq marks'[r]
  BY <1>2 DEF LookupMarker
<1>3. ASSUME NEW c \in Call, StoreMarker(c)
      PROVE  raced \subseteq raced' /\ \A r \in Replica : marks[r] \subseteq marks'[r]
  BY <1>3 DEF StoreMarker, TypeOK
<1>. QED
  BY <1>1, <1>2, <1>3
  DEF Next, AddFact, Join, PrepareSend, OpenMessage, FailCall, vars

(* A completed call has left its marker.  Two calls past their lookup of   *)
(* the same marker raced: the later lookup found the other between lookup  *)
(* and store, since it did not find the marker.                            *)
PastLookup(c) == step[c] \in {"store", "done"}

MarkedIInv ==
  /\ \A c \in Call : step[c] = "done" => mark[c] \in marks[By[c]]
  /\ \A c, d \in Call :
       c # d /\ PastLookup(c) /\ PastLookup(d) /\ By[c] = By[d] /\ mark[c] = mark[d]
         => <<By[c], mark[c]>> \in raced

(* A step changes the call it is of and no other. *)
LEMMA OneCall ==
  ASSUME TypeOK, NEW c \in Call, LookupMarker(c), NEW d \in Call, d # c
  PROVE  step'[d] = step[d] /\ mark'[d] = mark[d]
  BY DEF LookupMarker, Fail, TypeOK

(* Two calls of a replica complete with the same marker only if their      *)
(* lookups overlapped: however calls interleave and fail, a header seals   *)
(* one message per sender and a message is delivered once otherwise.       *)
THEOREM MarkedAtMostOnce == Spec => []MarkedOnce
<1>1. Init => MarkedIInv
  BY DEF Init, MarkedIInv, PastLookup
<1>2. TypeOK /\ MarkedIInv /\ [Next]_vars => MarkedIInv'
  <2>. SUFFICES ASSUME TypeOK, MarkedIInv, [Next]_vars PROVE MarkedIInv'
    OBVIOUS
  <2>1. \A c \in Call : By[c] \in Replica
    BY CallAssumption, SMTT(30)
  <2>2. \A c \in Call : step'[c] = "done" => mark'[c] \in marks'[By[c]]
    <3>. SUFFICES ASSUME NEW c \in Call, step'[c] = "done"
                  PROVE  mark'[c] \in marks'[By[c]]
      OBVIOUS
    <3>. QED
      BY <2>1, CallStep, MarksGrow DEF MarkedIInv
  <2>3. ASSUME NEW c \in Call, PastLookup(c)'
        PROVE  \/ PastLookup(c) /\ mark'[c] = mark[c]
               \/ /\ step[c] = "lookup" /\ step'[c] = "store" /\ mark'[c] = mark[c]
                  /\ mark[c] \notin marks[By[c]] /\ LookupMarker(c)
    BY <2>3, CallStep DEF PastLookup
  <2>4. ASSUME NEW c \in Call, NEW d \in Call, c # d, By[c] = By[d],
               step[c] = "lookup", mark[c] \notin marks[By[c]], LookupMarker(c),
               PastLookup(d), mark[c] = mark[d]
        PROVE  <<By[c], mark[c]>> \in raced'
    <3>1. step[d] = "store"
      BY <2>4 DEF PastLookup, MarkedIInv
    <3>2. d \in Rivals(c)
      BY <2>4, <3>1 DEF Rivals
    <3>. QED
      BY <2>4, <3>2 DEF LookupMarker
  <2>5. ASSUME NEW c \in Call, NEW d \in Call, c # d, By[c] = By[d],
               PastLookup(c)', PastLookup(d)', mark'[c] = mark'[d]
        PROVE  <<By[c], mark'[c]>> \in raced'
    <3>1. mark'[c] = mark[c] /\ mark'[d] = mark[d]
      BY <2>3, <2>5
    <3>2. CASE PastLookup(c) /\ PastLookup(d)
      BY <2>5, <3>1, <3>2, MarksGrow DEF MarkedIInv
    <3>3. CASE step[c] = "lookup"
      <4>1. LookupMarker(c) /\ mark[c] \notin marks[By[c]]
        BY <2>3, <2>5, <3>3 DEF PastLookup
      <4>2. PastLookup(d)
        BY <2>5, <4>1, OneCall DEF PastLookup
      <4>. QED
        BY <2>4, <2>5, <3>1, <3>3, <4>1, <4>2
    <3>4. CASE step[d] = "lookup"
      <4>1. LookupMarker(d) /\ mark[d] \notin marks[By[d]]
        BY <2>3, <2>5, <3>4 DEF PastLookup
      <4>2. PastLookup(c)
        BY <2>5, <4>1, OneCall DEF PastLookup
      <4>. QED
        BY <2>4, <2>5, <3>1, <3>4, <4>1, <4>2
    <3>. QED
      BY <2>3, <2>5, <3>2, <3>3, <3>4
  <2>. QED
    BY <2>2, <2>5 DEF MarkedIInv
<1>3. MarkedIInv => MarkedOnce
  BY DEF MarkedIInv, MarkedOnce, PastLookup
<1>. QED
  BY <1>1, <1>2, <1>3, TypeCorrect, PTL DEF Spec

(* Replicas with the same facts accept what either sends: the send and     *)
(* receive ratchets agree under every transition state and policy.         *)
THEOREM RatchetsAgree == Spec => []SentIsAccepted
<1>1. TypeOK => SentIsAccepted
  BY HeaderAccepted DEF TypeOK, SentIsAccepted
<1>. QED
  BY <1>1, TypeCorrect, PTL

(* A replica that has stopped to accept an epoch because a removal or      *)
(* cryptoshred is live does not accept it again, whatever it learns, unless *)
(* the removal is contested.                                               *)
THEOREM ClosedForGood == Spec => ClosedEpochStaysClosed
<1>. DEFINE A == \A r \in Replica : facts'[r] # facts[r] =>
       \A t \in Pending(facts[r], ChanEpoch(facts[r])) :
         ~AcceptsEpoch(facts[r], t.epoch) /\ AcceptsEpoch(facts'[r], t.epoch)
           => Contested(facts'[r], t)
<1>1. TypeOK /\ TypeOK' /\ [Next]_vars => A
  <2>. SUFFICES ASSUME TypeOK, TypeOK', [Next]_vars, NEW r \in Replica,
                       NEW t \in Pending(facts[r], ChanEpoch(facts[r])),
                       ~AcceptsEpoch(facts[r], t.epoch), AcceptsEpoch(facts'[r], t.epoch)
                PROVE  Contested(facts'[r], t)
    OBVIOUS
  <2>1. facts[r] \subseteq facts'[r] /\ facts'[r] \subseteq Fact
    BY FactsGrow DEF TypeOK
  <2>. QED
    BY <2>1, StaysClosed
<1>. QED
  BY <1>1, TypeCorrect, PTL DEF Spec, ClosedEpochStaysClosed

(* The successor a replica follows changes only when it is suppressed or   *)
(* the other one is both certified and finalized, in whatever order facts  *)
(* arrive.                                                                 *)
THEOREM SwitchesAreJustified == Spec => SwitchIsJustified
<1>. DEFINE A == \A r \in Replica : facts'[r] # facts[r] =>
       \A k \in Parents : \A t \in Followed(facts[r], k) :
         \A u \in Followed(facts'[r], k) : t # u =>
           \/ \E f \in facts'[r] :
                f.type \in {"abort", "supersession"} /\ f.tr = t
           \/ \E f, g \in facts'[r] :
                /\ f.type = "certified" /\ f.tr = u
                /\ g.type \in {"finalized", "committed"} /\ g.tr = u
<1>1. TypeOK /\ [Next]_vars => A
  BY FactsGrow, SwitchLemma, SMTT(30)
<1>. QED
  BY <1>1, TypeCorrect, PTL DEF Spec, SwitchIsJustified

(* The epoch a replica computes falls only when A3 evidence is disputed. *)
THEOREM EpochFallsOnlyOnDispute == Spec => EpochFallsOnDispute
<1>. DEFINE A == \A r \in Replica :
       facts'[r] # facts[r] /\ ChanEpoch(facts'[r]) < ChanEpoch(facts[r])
         => Disputed(facts'[r])
<1>1. TypeOK /\ TypeOK' /\ [Next]_vars => A
  BY FactsGrow, FallLemma DEF TypeOK
<1>. QED
  BY <1>1, TypeCorrect, PTL DEF Spec, EpochFallsOnDispute

-----------------------------------------------------------------------------

(* Where a parent of the current epoch has the only certificate, and       *)
(* nothing speaks against it, the certificate is live.                     *)
LEMMA SoleIsLive ==
  ASSUME NEW F, HasSoleSuccessor(F), NEW k \in Groups(F), k.epoch = ChanEpoch(F),
         Certified(F, k) # {}
  PROVE  Live(F, k) # {}
<1>. DEFINE here == {j \in Groups(F) : j.epoch = ChanEpoch(F)}
            all == UNION {Certified(F, j) : j \in here}
<1>1. /\ Finalized(F, k) = {} /\ Transitions(F, {"conflict"}, k) = {}
      /\ Sole(all)
  BY DEF HasSoleSuccessor
<1>2. Certified(F, k) \subseteq all
  OBVIOUS
<1>. HIDE DEF all
<1>3. Sole(Certified(F, k))
  BY <1>1, <1>2 DEF Sole
<1>4. Status(F, k) = "A2Live"
  BY <1>1, <1>3 DEF Status, Several, FinalConflictsWithA2, Sole
<1>. QED
  BY <1>4 DEF Live

(* reduce_context looks at the first parent of the epoch only, so the sole *)
(* successor is used exactly when that parent has its certificate.         *)
LEMMA UsedIffFirst ==
  ASSUME NEW F, F \subseteq Fact, HasSoleSuccessor(F)
  PROVE  Pending(F, ChanEpoch(F)) # {}
           <=> \E k \in Current(F, ChanEpoch(F)) : Certified(F, k) # {}
<1>1. \A k \in Current(F, ChanEpoch(F)) : k \in Groups(F) /\ k.epoch = ChanEpoch(F)
  BY DEF Current
<1>2. Pending(F, ChanEpoch(F)) # {} <=> \E k \in Current(F, ChanEpoch(F)) : Live(F, k) # {}
  BY DEF Pending
<1>3. \A k : Live(F, k) # {} => Certified(F, k) # {}
  BY DEF Live
<1>. QED
  BY <1>1, <1>2, <1>3, SoleIsLive

(* The only certified successor of an epoch becomes the pending bump       *)
(* exactly when its parent is the first of that epoch in key order; under  *)
(* any other parent it is shadowed, for every set of replicas and facts.   *)
THEOREM SuccessorUsedIffFirst ==
  Spec => [](\A r \in Replica : HasSoleSuccessor(facts[r]) =>
               (Pending(facts[r], ChanEpoch(facts[r])) # {}
                  <=> \E k \in Current(facts[r], ChanEpoch(facts[r])) :
                        Certified(facts[r], k) # {}))
<1>1. TypeOK => \A r \in Replica : HasSoleSuccessor(facts[r]) =>
               (Pending(facts[r], ChanEpoch(facts[r])) # {}
                  <=> \E k \in Current(facts[r], ChanEpoch(facts[r])) :
                        Certified(facts[r], k) # {})
  BY UsedIffFirst DEF TypeOK
<1>. QED
  BY <1>1, TypeCorrect, PTL

=============================================================================
