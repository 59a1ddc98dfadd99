---------------------- MODULE RotationCeremoniesProofs ----------------------
(***************************************************************************)
(* Proofs about RotationCeremonies, for any number of ceremonies of any    *)
(* kinds.                                                                  *)
(***************************************************************************)
EXTENDS RotationCeremonies, TLAPS

(* What the tracker's operations leave of its types, as one fact per       *)
(* operation; the flows and the application layer only call these.         *)
TrackerType ==
  /\ Tracked \subseteq Ceremony
  /\ \A c \in Tracked : ceremonies[c] \in TrackedCeremony
  /\ supersessionRecords \in Seq(Ceremony \X Ceremony)

(* register inserts a well-formed ceremony. *)
LEMMA RegisterType ==
  ASSUME TrackerType,
         NEW c \in Ceremony, NEW k \in Kinds, NEW n \in Nat,
         NEW r \in SUBSET Participant, NEW e \in Nat,
         Register(c, k, n, r, e)
  PROVE  TrackerType'
<1>1. Tracked' = Tracked \cup {c}
  BY DEF Register, Tracked
<1>2. InitialMode(k) \in Modes
  BY DEF InitialMode, Modes
<1>3. \A d \in Tracked' : ceremonies'[d] \in TrackedCeremony
  BY <1>1, <1>2 DEF Register, TrackerType, TrackedCeremony, Tracked
<1> QED
  BY <1>1, <1>3 DEF TrackerType, Register

(* mark_accepted, mark_committed and mark_failed keep every ceremony       *)
(* well-formed.                                                            *)
LEMMA MarkType ==
  ASSUME TrackerType, NEW c \in Ceremony,
         \/ \E p \in Participant : MarkAccepted(c, p)
         \/ MarkCommitted(c)
         \/ MarkFailed(c)
  PROVE  TrackerType'
<1>1. Tracked' = Tracked /\ supersessionRecords' = supersessionRecords
  BY DEF MarkAccepted, MarkCommitted, MarkFailed, Tracked
<1>2. ASSUME NEW d \in Tracked PROVE ceremonies'[d] \in TrackedCeremony
  <2>1. ceremonies[d] \in TrackedCeremony
    BY DEF TrackerType
  <2>2. CASE d # c
    BY <2>1, <2>2 DEF MarkAccepted, MarkCommitted, MarkFailed, Tracked
  <2>3. CASE d = c
    <3>1. CASE \E p \in Participant : MarkAccepted(c, p)
      <4>1. PICK p \in Participant : MarkAccepted(c, p)
        BY <3>1
      <4>2. PICK m \in Modes : ceremonies'[c] =
              [ceremonies[c] EXCEPT !.accepted = ceremonies[c].accepted \cup {p}, !.mode = m]
        BY <2>1, <2>3, <4>1 DEF MarkAccepted, Tracked, TrackedCeremony, Modes
      <4>3. ceremonies[c].accepted \cup {p} \in SUBSET Participant
        BY <2>1, <2>3 DEF TrackedCeremony
      <4> QED
        BY <2>1, <2>3, <4>2, <4>3 DEF TrackedCeremony
    <3>2. CASE MarkCommitted(c)
      BY <2>1, <2>3, <3>2 DEF MarkCommitted, Tracked, TrackedCeremony, Modes
    <3>3. CASE MarkFailed(c)
      BY <2>1, <2>3, <3>3 DEF MarkFailed, Tracked, TrackedCeremony
    <3> QED BY <3>1, <3>2, <3>3
  <2> QED BY <2>2, <2>3
<1> QED
  BY <1>1, <1>2 DEF TrackerType

(* A sweep and a supersession keep every ceremony well-formed. *)
LEMMA SweepType ==
  ASSUME TrackerType, NEW S \in SUBSET Ceremony, CleanupTimedOut(S)
  PROVE  TrackerType'
<1>1. Tracked' = Tracked /\ supersessionRecords' = supersessionRecords
  BY DEF CleanupTimedOut, Tracked
<1>2. ASSUME NEW d \in Tracked PROVE ceremonies'[d] \in TrackedCeremony
  <2>1. ceremonies[d] \in TrackedCeremony
    BY DEF TrackerType
  <2>2. \/ ceremonies'[d] = ceremonies[d]
        \/ ceremonies'[d] = [ceremonies[d] EXCEPT !.failed = TRUE]
    BY DEF CleanupTimedOut
  <2>3. [ceremonies[d] EXCEPT !.failed = TRUE] \in TrackedCeremony
    BY <2>1 DEF TrackedCeremony
  <2> QED BY <2>1, <2>2, <2>3
<1> QED
  BY <1>1, <1>2 DEF TrackerType

(* supersede keeps the tracker well-formed. *)
LEMMA SupersedeType ==
  ASSUME TrackerType, NEW old \in Ceremony, NEW new \in Ceremony, Supersede(old, new)
  PROVE  TrackerType'
<1>1. CASE UNCHANGED trackerVars
  BY <1>1 DEF TrackerType, trackerVars, Tracked
<1>2. CASE ~(old \notin Tracked \/ ceremonies[old].committed \/ IsSuperseded(old))
  <2>1. Tracked' = Tracked
    BY <1>2, Zenon DEF Supersede, Tracked
  <2>2. supersessionRecords' \in Seq(Ceremony \X Ceremony)
    <3>1. <<old, new>> \in Ceremony \X Ceremony
      OBVIOUS
    <3>2. supersessionRecords' = Append(supersessionRecords, <<old, new>>)
      BY <1>2, Zenon DEF Supersede
    <3> QED
      BY <3>1, <3>2 DEF TrackerType
  <2>3. ASSUME NEW d \in Tracked PROVE ceremonies'[d] \in TrackedCeremony
    <3>0. ceremonies[d] \in TrackedCeremony
      BY DEF TrackerType
    <3>1. CASE d = old
      <4>1. ceremonies'[d] = [ceremonies[d] EXCEPT !.failed = TRUE, !.supersededBy = new]
        BY <1>2, <3>1, Zenon DEF Supersede
      <4> QED BY <3>0, <4>1, Zenon DEF TrackedCeremony
    <3>2. CASE d = new /\ d # old
      <4>1. ceremonies'[d] = [ceremonies[d] EXCEPT !.supersedes = @ \cup {old}]
        BY <1>2, <3>2, Zenon DEF Supersede
      <4>2. ceremonies[d].supersedes \cup {old} \in SUBSET Ceremony
        BY <3>0 DEF TrackedCeremony
      <4> QED BY <3>0, <4>1, <4>2 DEF TrackedCeremony
    <3>3. CASE d # new /\ d # old
      <4>1. ceremonies'[d] = ceremonies[d]
        BY <1>2, <3>3, Zenon DEF Supersede
      <4> QED BY <3>0, <4>1
    <3> QED BY <3>1, <3>2, <3>3
  <2> QED BY <2>1, <2>2, <2>3 DEF TrackerType
<1> QED BY <1>1, <1>2 DEF Supersede

-----------------------------------------------------------------------------
(* The rest of the type invariant. *)
FlowType ==
  /\ request \in Scenarios
  /\ flow \in [Ceremony -> FlowStates]
  /\ pending \in [Ceremony -> Nat]
  /\ candidates \in [Ceremony -> SUBSET Ceremony]
  /\ answers \in [Ceremony -> SUBSET Participant]

AppType ==
  /\ monitor \in [Ceremony -> {"Polling", "RollingBack"}]
  /\ cancel \in [Ceremony -> {"None", "RollingBack", "Aborting"}]

KeyType ==
  /\ DOMAIN keys \subseteq Nat
  /\ \A e \in DOMAIN keys : keys[e] \in Ceremony \cup {Bootstrap}
  /\ storedEpoch \in Nat

(* The inductive invariant: only a requested ceremony runs; a flow that    *)
(* still looks for candidates is not in the tracker; and the epochs a flow *)
(* may activate have keys.                                                 *)
Ordered ==
  /\ \A c \in Ceremony : flow[c] # "Idle" => c \in DOMAIN request
  /\ \A c \in Ceremony : flow[c] \in {"Idle", "Rotated", "Superseding"} => c \notin Tracked

IInv ==
  /\ TrackerType /\ FlowType /\ AppType /\ KeyType
  /\ Ordered
  /\ EpochsHaveKeys
  /\ SupersessionWellFounded

(* What is known of a requested ceremony. *)
LEMMA RequestType ==
  ASSUME FlowType, NEW c \in DOMAIN request
  PROVE  /\ c \in Ceremony
         /\ Kind(c) \in Kinds
         /\ request[c].roster \in SUBSET Participant
         /\ request[c].threshold \in Nat
<1>1. request[c] \in Requests /\ c \in Ceremony
  BY RotationAssumption DEF FlowType
<1> QED BY <1>1 DEF Requests, Kind

(* Storing keys keeps the store well-formed and takes no keys from it. *)
LEMMA StoreKeysFacts ==
  ASSUME KeyType, NEW e \in Nat, NEW c \in Ceremony \cup {Bootstrap},
         StoreKeys(e, c), storedEpoch' \in Nat
  PROVE  KeyType' /\ DOMAIN keys' = (DOMAIN keys) \cup {e}
<1>1. DOMAIN keys' = (DOMAIN keys) \cup {e}
  BY DEF StoreKeys
<1>2. KeyType'
  BY DEF KeyType, StoreKeys
<1> QED BY <1>1, <1>2

-----------------------------------------------------------------------------
(* Supersession stays well founded as long as no operation but register    *)
(* and supersede touches who superseded whom.                              *)
LEMMA SameSupersession ==
  ASSUME SupersessionWellFounded, Tracked' = Tracked,
         \A c \in Tracked : ceremonies'[c].supersededBy = ceremonies[c].supersededBy
  PROVE  SupersessionWellFounded'
<1> SUFFICES ASSUME NEW S \in (SUBSET Tracked) \ {{}}
             PROVE  \E c \in S : ceremonies'[c].supersededBy \notin S
  BY DEF SupersessionWellFounded
<1>1. PICK c \in S : ceremonies[c].supersededBy \notin S
  BY DEF SupersessionWellFounded
<1> QED BY <1>1

(* mark_accepted, mark_committed, mark_failed and a sweep leave alone who  *)
(* superseded whom,                                                        *)
MarkOrSweep(c) ==
  \/ \E p : MarkAccepted(c, p)
  \/ MarkCommitted(c)
  \/ MarkFailed(c)
  \/ CleanupTimedOut(c)

LEMMA MarkKeeps ==
  ASSUME TrackerType, NEW c, MarkOrSweep(c)
  PROVE  /\ Tracked' = Tracked
         /\ supersessionRecords' = supersessionRecords
         /\ \A d \in Tracked : ceremonies'[d].supersededBy = ceremonies[d].supersededBy
<1>1. Tracked' = Tracked /\ supersessionRecords' = supersessionRecords
  BY DEF MarkOrSweep, MarkAccepted, MarkCommitted, MarkFailed, CleanupTimedOut, Tracked
<1>2. ASSUME NEW d \in Tracked
      PROVE  ceremonies'[d].supersededBy = ceremonies[d].supersededBy
  <2>1. ceremonies[d] \in TrackedCeremony
    BY DEF TrackerType
  <2>2. CASE \E p : MarkAccepted(c, p)
    BY <2>1, <2>2 DEF MarkAccepted, Tracked, TrackedCeremony
  <2>3. CASE MarkCommitted(c)
    BY <2>1, <2>3 DEF MarkCommitted, Tracked, TrackedCeremony
  <2>4. CASE MarkFailed(c)
    BY <2>1, <2>4 DEF MarkFailed, Tracked, TrackedCeremony
  <2>5. CASE CleanupTimedOut(c)
    BY <2>1, <2>5 DEF CleanupTimedOut, Tracked, TrackedCeremony
  <2> QED BY <2>2, <2>3, <2>4, <2>5 DEF MarkOrSweep
<1> QED BY <1>1, <1>2

(* so supersession stays well founded. *)
LEMMA MarkSupersession ==
  ASSUME TrackerType, SupersessionWellFounded, NEW c, MarkOrSweep(c)
  PROVE  SupersessionWellFounded' /\ Tracked' = Tracked
BY MarkKeeps, SameSupersession

(* A ceremony is registered not superseded. *)
LEMMA RegisterSupersession ==
  ASSUME SupersessionWellFounded, TrackerType, NEW c \in Ceremony,
         NEW k, NEW n, NEW r, NEW e, Register(c, k, n, r, e)
  PROVE  SupersessionWellFounded' /\ Tracked' = Tracked \cup {c}
<1>1. Tracked' = Tracked \cup {c}
  BY DEF Register, Tracked
<1>2. ceremonies'[c].supersededBy = NoCeremony
  BY DEF Register
<1>3. \A d \in Tracked : ceremonies'[d] = ceremonies[d]
  BY DEF Register
<1> SUFFICES ASSUME NEW S \in (SUBSET Tracked') \ {{}}
             PROVE  \E d \in S : ceremonies'[d].supersededBy \notin S
  BY <1>1 DEF SupersessionWellFounded
<1>4. CASE c \in S
  BY <1>1, <1>2, <1>4, CeremonyAssumption DEF TrackerType
<1>5. CASE c \notin S
  <2>1. S \in (SUBSET Tracked) \ {{}}
    BY <1>1, <1>5
  <2>2. PICK d \in S : ceremonies[d].supersededBy \notin S
    BY <2>1 DEF SupersessionWellFounded
  <2> QED BY <1>3, <2>1, <2>2
<1> QED BY <1>4, <1>5

(* The superseding ceremony is not in the tracker yet, so no set of        *)
(* tracked ceremonies holds both ends of the new edge.                     *)
LEMMA SupersedeSupersession ==
  ASSUME SupersessionWellFounded, TrackerType,
         NEW old, NEW new, new \notin Tracked, Supersede(old, new)
  PROVE  SupersessionWellFounded' /\ Tracked' = Tracked
<1>1. CASE UNCHANGED trackerVars
  BY <1>1 DEF trackerVars, Tracked, SupersessionWellFounded
<1>2. CASE ~(old \notin Tracked \/ ceremonies[old].committed \/ IsSuperseded(old))
  <2>1. Tracked' = Tracked
    BY <1>2, Zenon DEF Supersede, Tracked
  <2>2. ceremonies'[old].supersededBy = new
    <3>1. ceremonies[old] \in TrackedCeremony
      BY <1>2 DEF TrackerType
    <3>2. ceremonies'[old] = [ceremonies[old] EXCEPT !.failed = TRUE, !.supersededBy = new]
      BY <1>2, Zenon DEF Supersede
    <3> QED BY <3>1, <3>2 DEF TrackedCeremony
  <2>3. \A d \in Tracked : d # old => ceremonies'[d] = ceremonies[d]
    BY <1>2, Zenon DEF Supersede
  <2> SUFFICES ASSUME NEW S \in (SUBSET Tracked) \ {{}}
               PROVE  \E d \in S : ceremonies'[d].supersededBy \notin S
    BY <2>1 DEF SupersessionWellFounded
  <2>4. CASE old \in S
    BY <2>2, <2>4
  <2>5. CASE old \notin S
    <3>1. PICK d \in S : ceremonies[d].supersededBy \notin S
      BY DEF SupersessionWellFounded
    <3> QED BY <2>3, <2>5, <3>1
  <2> QED BY <2>1, <2>4, <2>5
<1> QED BY <1>1, <1>2 DEF Supersede

-----------------------------------------------------------------------------
(* Every step of a flow preserves the invariant. *)
LEMMA FlowInductive ==
  ASSUME IInv, NEW c \in Ceremony, FlowStep(c)
  PROVE  IInv'
<1>1. CASE RotateKeys(c)
  <2> DEFINE e == NextEpoch(Kind(c))
  <2>1. e \in Nat
    BY DEF IInv, KeyType, NextEpoch
  <2>2. TrackerType' /\ SupersessionWellFounded' /\ Tracked' = Tracked
    BY <1>1 DEF IInv, TrackerType, SupersessionWellFounded, RotateKeys, trackerVars, Tracked
  <2>3. /\ pending' = [pending EXCEPT ![c] = e] /\ flow' = [flow EXCEPT ![c] = "Rotated"]
        /\ StoreKeys(e, c) /\ storedEpoch' = storedEpoch
    BY <1>1 DEF RotateKeys, Goto
  <2> HIDE DEF e
  <2>4. KeyType' /\ DOMAIN keys' = (DOMAIN keys) \cup {e}
    <3>1. storedEpoch' \in Nat
      BY <2>3 DEF IInv, KeyType
    <3> QED BY <2>1, <2>3, <3>1, StoreKeysFacts, SMTT(30) DEF IInv
  <2>5. FlowType' /\ AppType'
    BY <1>1, <2>1, <2>3 DEF IInv, FlowType, AppType, RotateKeys, FlowStates, appVars
  <2>6. Ordered'
    BY <1>1, <2>2, <2>3 DEF IInv, FlowType, Ordered, RotateKeys, FlowStates
  <2>7. EpochsHaveKeys'
    BY <2>3, <2>4 DEF IInv, FlowType, EpochsHaveKeys
  <2> QED BY <2>2, <2>4, <2>5, <2>6, <2>7 DEF IInv
<1>2. CASE CheckSupersession(c)
  <2>1. TrackerType' /\ SupersessionWellFounded' /\ Tracked' = Tracked
    BY <1>2 DEF IInv, TrackerType, SupersessionWellFounded, CheckSupersession, trackerVars, Tracked
  <2>2. Candidates(Kind(c)) \in SUBSET Ceremony
    BY DEF IInv, TrackerType, Candidates
  <2>3. FlowType' /\ AppType' /\ KeyType'
    BY <1>2, <2>2 DEF IInv, FlowType, AppType, KeyType, CheckSupersession, Goto, FlowStates, keyVars, appVars
  <2>4. Ordered'
    BY <1>2, <2>1 DEF IInv, FlowType, AppType, Ordered, CheckSupersession, Goto, FlowStates, appVars
  <2>5. EpochsHaveKeys'
    BY <1>2 DEF IInv, FlowType, EpochsHaveKeys, CheckSupersession, Goto, FlowStates, Running, flowVars, keyVars
  <2> QED BY <2>1, <2>3, <2>4, <2>5 DEF IInv
<1>3. CASE SupersedeNext(c)
  <2>1. PICK old \in candidates[c] :
          Supersede(old, c) /\ candidates' = [candidates EXCEPT ![c] = @ \ {old}]
    BY <1>3 DEF SupersedeNext
  <2>2. old \in Ceremony /\ c \notin Tracked
    BY <1>3 DEF IInv, FlowType, Ordered, SupersedeNext
  <2>3. TrackerType' /\ SupersessionWellFounded' /\ Tracked' = Tracked
    BY <2>1, <2>2, SupersedeType, SupersedeSupersession DEF IInv
  <2>4. FlowType' /\ AppType' /\ KeyType'
    BY <1>3, <2>1 DEF IInv, FlowType, AppType, KeyType, SupersedeNext, keyVars, appVars
  <2>5. Ordered'
    BY <1>3, <2>3 DEF IInv, FlowType, AppType, Ordered, SupersedeNext, appVars
  <2>6. EpochsHaveKeys'
    BY <1>3 DEF IInv, FlowType, EpochsHaveKeys, SupersedeNext, Goto, FlowStates, Running, flowVars, keyVars
  <2> QED BY <2>3, <2>4, <2>5, <2>6 DEF IInv
<1>4. CASE Start(c)
  <2>1. c \in DOMAIN request
    BY <1>4 DEF IInv, Ordered, Start
  <2>2. TrackerType' /\ SupersessionWellFounded' /\ Tracked' = Tracked \cup {c}
    <3>1. pending[c] \in Nat
      BY DEF IInv, FlowType
    <3>2. Register(c, Kind(c), request[c].threshold, request[c].roster, pending[c])
      BY <1>4 DEF Start
    <3> QED BY <2>1, <3>1, <3>2, RequestType, RegisterType, RegisterSupersession DEF IInv
  <2>3. PICK s \in {"Choreography", "Returned", "LocalResponse"} : Goto(c, s)
    BY <1>4 DEF Start
  <2>4. FlowType' /\ AppType' /\ KeyType'
    BY <1>4, <2>3 DEF IInv, FlowType, AppType, KeyType, Start, Goto, FlowStates, keyVars, appVars
  <2>5. Ordered'
    BY <1>4, <2>1, <2>2, <2>3 DEF IInv, FlowType, AppType, Ordered, Start, Goto, FlowStates, appVars
  <2>6. EpochsHaveKeys'
    BY <1>4 DEF IInv, FlowType, EpochsHaveKeys, Start, Goto, FlowStates, Running, flowVars, keyVars
  <2> QED BY <2>2, <2>4, <2>5, <2>6 DEF IInv
<1>5. CASE GuardiansAnswer(c)
  <2>0. request[c].roster \in SUBSET Participant
    BY <1>5, RequestType DEF IInv, Ordered, GuardiansAnswer
  <2>1. TrackerType' /\ SupersessionWellFounded' /\ Tracked' = Tracked
    BY <1>5 DEF IInv, TrackerType, SupersessionWellFounded, GuardiansAnswer, trackerVars, Tracked
  <2>2. FlowType' /\ AppType' /\ KeyType'
    BY <1>5, <2>0 DEF IInv, FlowType, AppType, KeyType, GuardiansAnswer, Goto, FlowStates, keyVars, appVars
  <2>3. Ordered'
    BY <1>5, <2>1 DEF IInv, FlowType, AppType, Ordered, GuardiansAnswer, Goto, FlowStates, appVars
  <2>4. EpochsHaveKeys'
    BY <1>5 DEF IInv, FlowType, EpochsHaveKeys, GuardiansAnswer, Goto, FlowStates, Running, flowVars, keyVars
  <2> QED BY <2>1, <2>2, <2>3, <2>4 DEF IInv
<1>6. CASE RecordAcceptance(c)
  <2>0. answers[c] \in SUBSET Participant
    BY SMTT(30) DEF IInv, FlowType
  <2>1. TrackerType' /\ SupersessionWellFounded' /\ Tracked' = Tracked
    BY <1>6, <2>0, MarkType, MarkSupersession DEF IInv, MarkOrSweep, RecordAcceptance
  <2>2. FlowType' /\ AppType' /\ KeyType'
    BY <1>6 DEF IInv, FlowType, AppType, KeyType, RecordAcceptance, Goto, FlowStates, keyVars, appVars, flowVars
  <2>3. Ordered'
    BY <1>6, <2>1 DEF IInv, FlowType, AppType, Ordered, RecordAcceptance, Goto, FlowStates, keyVars, appVars, flowVars
  <2>4. EpochsHaveKeys'
    BY <1>6 DEF IInv, FlowType, EpochsHaveKeys, RecordAcceptance, Goto, FlowStates, Running, flowVars, keyVars
  <2> QED BY <2>1, <2>2, <2>3, <2>4 DEF IInv
<1>7. CASE CommitGuardians(c)
  <2>1. TrackerType' /\ SupersessionWellFounded' /\ Tracked' = Tracked
    BY <1>7, MarkType, MarkSupersession DEF IInv, MarkOrSweep, CommitGuardians
  <2>2. FlowType' /\ AppType' /\ KeyType'
    BY <1>7 DEF IInv, FlowType, AppType, KeyType, CommitGuardians, Goto, FlowStates, keyVars, appVars, flowVars
  <2>3. Ordered'
    BY <1>7, <2>1 DEF IInv, FlowType, AppType, Ordered, CommitGuardians, Goto, FlowStates, keyVars, appVars, flowVars
  <2>4. EpochsHaveKeys'
    BY <1>7 DEF IInv, FlowType, EpochsHaveKeys, CommitGuardians, Goto, FlowStates, Running, flowVars, keyVars
  <2> QED BY <2>1, <2>2, <2>3, <2>4 DEF IInv
<1>8. CASE RecordLocal(c)
  <2>1. TrackerType' /\ SupersessionWellFounded' /\ Tracked' = Tracked
    BY <1>8, RotationAssumption, MarkType, MarkSupersession DEF IInv, MarkOrSweep, RecordLocal
  <2>2. FlowType' /\ AppType' /\ KeyType'
    BY <1>8 DEF IInv, FlowType, AppType, KeyType, RecordLocal, Goto, FlowStates, keyVars, appVars, flowVars
  <2>3. Ordered'
    BY <1>8, <2>1 DEF IInv, FlowType, AppType, Ordered, RecordLocal, Goto, FlowStates, keyVars, appVars, flowVars
  <2>4. EpochsHaveKeys'
    BY <1>8 DEF IInv, FlowType, EpochsHaveKeys, RecordLocal, Goto, FlowStates, Running, flowVars, keyVars
  <2> QED BY <2>1, <2>2, <2>3, <2>4 DEF IInv
<1>9. CASE CommitRemoval(c)
  <2>1. TrackerType' /\ SupersessionWellFounded' /\ Tracked' = Tracked
    BY <1>9, MarkType, MarkSupersession DEF IInv, MarkOrSweep, CommitRemoval
  <2>2. FlowType' /\ AppType' /\ KeyType'
    BY <1>9 DEF IInv, FlowType, AppType, KeyType, CommitRemoval, Goto, FlowStates, keyVars, appVars, flowVars
  <2>3. Ordered'
    BY <1>9, <2>1 DEF IInv, FlowType, AppType, Ordered, CommitRemoval, Goto, FlowStates, keyVars, appVars, flowVars
  <2>4. EpochsHaveKeys'
    BY <1>9 DEF IInv, FlowType, EpochsHaveKeys, CommitRemoval, Goto, FlowStates, Running, flowVars, keyVars
  <2> QED BY <2>1, <2>2, <2>3, <2>4 DEF IInv
<1>10. CASE AbortFlow(c)
  <2>1. TrackerType' /\ SupersessionWellFounded' /\ Tracked' = Tracked
    BY <1>10, MarkType, MarkSupersession DEF IInv, MarkOrSweep, AbortFlow
  <2>2. FlowType' /\ AppType' /\ KeyType'
    BY <1>10 DEF IInv, FlowType, AppType, KeyType, AbortFlow, Goto, FlowStates, keyVars, appVars, flowVars
  <2>3. Ordered'
    BY <1>10, <2>1 DEF IInv, FlowType, AppType, Ordered, AbortFlow, Goto, FlowStates, keyVars, appVars, flowVars
  <2>4. EpochsHaveKeys'
    BY <1>10 DEF IInv, FlowType, EpochsHaveKeys, AbortFlow, Goto, FlowStates, Running, flowVars, keyVars
  <2> QED BY <2>1, <2>2, <2>3, <2>4 DEF IInv
<1>11. CASE ApplyRemoval(c)
  <2>1. TrackerType' /\ SupersessionWellFounded' /\ Tracked' = Tracked
    BY <1>11 DEF IInv, TrackerType, SupersessionWellFounded, ApplyRemoval, trackerVars, Tracked
  <2>2. FlowType' /\ AppType' /\ KeyType'
    BY <1>11, RotationAssumption DEF IInv, FlowType, AppType, KeyType, ApplyRemoval, Goto, FlowStates, Running, keyVars, appVars, flowVars
  <2>3. Ordered'
    BY <1>11, <2>1 DEF IInv, FlowType, AppType, Ordered, ApplyRemoval, Held, Goto, FlowStates, Running, keyVars, appVars, flowVars
  <2>4. EpochsHaveKeys'
    BY <1>11 DEF IInv, FlowType, EpochsHaveKeys, ApplyRemoval, Goto, FlowStates, Running, flowVars, keyVars
  <2> QED BY <2>1, <2>2, <2>3, <2>4 DEF IInv
<1>12. CASE ActivateEpoch(c)
  <2>1. TrackerType' /\ SupersessionWellFounded' /\ Tracked' = Tracked
    BY <1>12 DEF IInv, TrackerType, SupersessionWellFounded, ActivateEpoch, trackerVars, Tracked
  <2>2. FlowType' /\ AppType' /\ KeyType'
    BY <1>12, RotationAssumption DEF IInv, FlowType, AppType, KeyType, ActivateEpoch, Goto, FlowStates, Running, keyVars, appVars, flowVars
  <2>3. Ordered'
    BY <1>12, <2>1 DEF IInv, FlowType, AppType, Ordered, ActivateEpoch, Held, Goto, FlowStates, Running, keyVars, appVars, flowVars
  <2>4. EpochsHaveKeys'
    BY <1>12 DEF IInv, FlowType, EpochsHaveKeys, ActivateEpoch, Goto, FlowStates, Running, flowVars, keyVars
  <2> QED BY <2>1, <2>2, <2>3, <2>4 DEF IInv
<1>13. CASE LeaveFlow(c)
  <2>1. TrackerType' /\ SupersessionWellFounded' /\ Tracked' = Tracked
    BY <1>13 DEF IInv, TrackerType, SupersessionWellFounded, LeaveFlow, trackerVars, Tracked
  <2>2. FlowType' /\ AppType' /\ KeyType'
    BY <1>13, RotationAssumption DEF IInv, FlowType, AppType, KeyType, LeaveFlow, Goto, FlowStates, Running, keyVars, appVars, flowVars
  <2>3. Ordered'
    BY <1>13, <2>1 DEF IInv, FlowType, AppType, Ordered, LeaveFlow, Held, Goto, FlowStates, Running, keyVars, appVars, flowVars
  <2>4. EpochsHaveKeys'
    BY <1>13 DEF IInv, FlowType, EpochsHaveKeys, LeaveFlow, Goto, FlowStates, Running, flowVars, keyVars
  <2> QED BY <2>1, <2>2, <2>3, <2>4 DEF IInv
<1> QED BY <1>1, <1>2, <1>3, <1>4, <1>5, <1>6, <1>7, <1>8, <1>9, <1>10, <1>11, <1>12, <1>13 DEF FlowStep

(* So does every step of a monitor or a cancel, *)
LEMMA AppInductive ==
  ASSUME IInv, NEW c \in Ceremony, AppStep(c)
  PROVE  IInv'
<1>1. CASE MonitorPoll(c)
  <2>1. TrackerType' /\ SupersessionWellFounded' /\ Tracked' = Tracked
    BY <1>1 DEF IInv, TrackerType, SupersessionWellFounded, MonitorPoll, trackerVars, Tracked
  <2>2. FlowType' /\ AppType' /\ KeyType'
    BY <1>1 DEF IInv, FlowType, AppType, KeyType, MonitorPoll, keyVars, flowVars
  <2>3. Ordered'
    BY <1>1, <2>1 DEF IInv, FlowType, AppType, Ordered, MonitorPoll, Held, flowVars
  <2>4. EpochsHaveKeys'
    BY <1>1 DEF IInv, FlowType, EpochsHaveKeys, MonitorPoll, Goto, FlowStates, Running, flowVars, keyVars
  <2> QED BY <2>1, <2>2, <2>3, <2>4 DEF IInv
<1>2. CASE MonitorRollback(c)
  <2>1. TrackerType' /\ SupersessionWellFounded' /\ Tracked' = Tracked
    BY <1>2 DEF IInv, TrackerType, SupersessionWellFounded, MonitorRollback, trackerVars, Tracked
  <2>2. FlowType' /\ AppType' /\ KeyType'
    BY <1>2 DEF IInv, FlowType, AppType, KeyType, MonitorRollback, RollbackKeyRotation, flowVars
  <2>3. Ordered'
    BY <1>2, <2>1 DEF IInv, FlowType, AppType, Ordered, MonitorRollback, flowVars
  <2>4. EpochsHaveKeys'
    BY <1>2 DEF IInv, EpochsHaveKeys, MonitorRollback, RollbackKeyRotation, flowVars
  <2> QED BY <2>1, <2>2, <2>3, <2>4 DEF IInv
<1>3. CASE CancelRead(c)
  <2>1. TrackerType' /\ SupersessionWellFounded' /\ Tracked' = Tracked
    BY <1>3 DEF IInv, TrackerType, SupersessionWellFounded, CancelRead, trackerVars, Tracked
  <2>2. FlowType' /\ AppType' /\ KeyType'
    BY <1>3, SMTT(30) DEF IInv, FlowType, AppType, KeyType, CancelRead, keyVars, flowVars
  <2>3. Ordered'
    BY <1>3, <2>1 DEF IInv, FlowType, AppType, Ordered, CancelRead, Held, flowVars
  <2>4. EpochsHaveKeys'
    BY <1>3 DEF IInv, FlowType, EpochsHaveKeys, CancelRead, Goto, FlowStates, Running, flowVars, keyVars
  <2> QED BY <2>1, <2>2, <2>3, <2>4 DEF IInv
<1>4. CASE CancelRollback(c)
  <2>1. TrackerType' /\ SupersessionWellFounded' /\ Tracked' = Tracked
    BY <1>4 DEF IInv, TrackerType, SupersessionWellFounded, CancelRollback, trackerVars, Tracked
  <2>2. FlowType' /\ AppType' /\ KeyType'
    BY <1>4 DEF IInv, FlowType, AppType, KeyType, CancelRollback, RollbackKeyRotation, flowVars
  <2>3. Ordered'
    BY <1>4, <2>1 DEF IInv, FlowType, AppType, Ordered, CancelRollback, flowVars
  <2>4. EpochsHaveKeys'
    BY <1>4 DEF IInv, EpochsHaveKeys, CancelRollback, RollbackKeyRotation, flowVars
  <2> QED BY <2>1, <2>2, <2>3, <2>4 DEF IInv
<1>5. CASE CancelAbort(c)
  <2>1. TrackerType' /\ SupersessionWellFounded' /\ Tracked' = Tracked
    BY <1>5, MarkType, MarkSupersession DEF IInv, MarkOrSweep, CancelAbort
  <2>2. FlowType' /\ AppType' /\ KeyType'
    BY <1>5 DEF IInv, FlowType, AppType, KeyType, CancelAbort, keyVars, flowVars
  <2>3. Ordered'
    BY <1>5, <2>1 DEF IInv, FlowType, AppType, Ordered, CancelAbort, flowVars
  <2>4. EpochsHaveKeys'
    BY <1>5 DEF IInv, FlowType, EpochsHaveKeys, CancelAbort, Goto, FlowStates, Running, flowVars, keyVars
  <2> QED BY <2>1, <2>2, <2>3, <2>4 DEF IInv
<1> QED BY <1>1, <1>2, <1>3, <1>4, <1>5 DEF AppStep

(* and so do a sweep, a restart and a stuttering step. *)
LEMMA Inductive == IInv /\ [Next]_vars => IInv'
<1> SUFFICES ASSUME IInv, [Next]_vars PROVE IInv'
  OBVIOUS
<1>1. CASE \E c \in Ceremony : FlowStep(c) \/ AppStep(c)
  BY <1>1, FlowInductive, AppInductive
<1>2. ASSUME NEW S \in SUBSET Ceremony, Cleanup(S) PROVE IInv'
  <2>1. TrackerType' /\ SupersessionWellFounded' /\ Tracked' = Tracked
    BY <1>2, SweepType, MarkSupersession DEF IInv, MarkOrSweep, Cleanup
  <2>2. FlowType' /\ AppType' /\ KeyType' /\ Ordered'
    BY <1>2, <2>1 DEF IInv, FlowType, AppType, KeyType, Ordered, Cleanup, flowVars, appVars, keyVars
  <2>3. EpochsHaveKeys'
    BY <1>2 DEF IInv, FlowType, EpochsHaveKeys, Cleanup, Goto, FlowStates, Running, flowVars, keyVars
  <2> QED BY <2>1, <2>2, <2>3 DEF IInv
<1>3. CASE Restart
  <2>1. Tracked' = {}
    BY <1>3 DEF Restart, Tracked
  <2>2. TrackerType' /\ SupersessionWellFounded'
    <3>1. TrackerType'
      BY <1>3, <2>1 DEF Restart, TrackerType
    <3>2. (SUBSET Tracked') \ {{}} = {}
      BY <2>1
    <3>3. SupersessionWellFounded'
      BY <3>2 DEF SupersessionWellFounded
    <3> QED BY <3>1, <3>3
  <2>3. FlowType' /\ AppType'
    BY <1>3 DEF IInv, FlowType, AppType, Restart, FlowStates
  <2>4. Ordered'
    BY <1>3, <2>1 DEF IInv, FlowType, AppType, Ordered, Restart
  <2>5. StoreKeys(0, Bootstrap) /\ storedEpoch' = 0
    BY <1>3 DEF Restart, BootstrapAuthority
  <2>6. KeyType' /\ DOMAIN keys' = (DOMAIN keys) \cup {0}
    <3>1. storedEpoch' \in Nat
      BY <2>5
    <3> QED BY <2>5, <3>1, StoreKeysFacts DEF IInv
  <2>7. EpochsHaveKeys'
    BY <1>3, <2>5, <2>6 DEF EpochsHaveKeys, Restart, Running
  <2> QED BY <2>2, <2>3, <2>4, <2>6, <2>7 DEF IInv
<1>4. CASE UNCHANGED vars
  BY <1>4 DEF IInv, TrackerType, FlowType, AppType, KeyType, Ordered,
     EpochsHaveKeys, SupersessionWellFounded, Tracked,
     vars, trackerVars, flowVars, appVars, keyVars
<1> QED BY <1>1, <1>2, <1>3, <1>4 DEF Next

(* An empty tracker and the bootstrap keys satisfy the invariant. *)
LEMMA InitInvariant == Init => IInv
<1> SUFFICES ASSUME Init PROVE IInv
  OBVIOUS
<1>1. Tracked = {}
  BY DEF Init, TrackerInit, Tracked
<1>2. TrackerType /\ SupersessionWellFounded
  <2>1. TrackerType
    BY <1>1 DEF Init, TrackerInit, TrackerType
  <2>2. (SUBSET Tracked) \ {{}} = {}
    BY <1>1
  <2>3. SupersessionWellFounded
    BY <2>2 DEF SupersessionWellFounded
  <2> QED BY <2>1, <2>3
<1>3. FlowType /\ AppType /\ KeyType
  BY DEF Init, FlowType, AppType, KeyType, FlowStates
<1>4. Ordered
  BY <1>1 DEF Init, Ordered
<1>5. EpochsHaveKeys
  BY DEF Init, EpochsHaveKeys, Running
<1> QED BY <1>2, <1>3, <1>4, <1>5 DEF IInv

(* Every step of the flows, the cleanup task, the application layer and a  *)
(* restart of the process keeps the inductive invariant IInv.              *)
THEOREM Invariance == SafetySpec => []IInv
BY InitInvariant, Inductive, PTL DEF SafetySpec

(* The state of the tracker, the flows and the key store is well-formed    *)
(* whatever the callers do.                                                *)
THEOREM TypeCorrect == SafetySpec => []TypeOK
<1>1. IInv => TypeOK
  BY DEF IInv, TypeOK, TrackerType, FlowType, AppType, KeyType
<1> QED BY <1>1, Invariance, PTL

(* The activated epoch and each that a running flow may activate have keys *)
(* in the store, however many ceremonies share epochs, roll back and are   *)
(* lost in restarts.                                                       *)
THEOREM KeysOfEpochs == SafetySpec => []EpochsHaveKeys
<1>1. IInv => EpochsHaveKeys
  BY DEF IInv
<1> QED BY <1>1, Invariance, PTL

(* Rival flows never supersede one another in a circle, for any number of  *)
(* flows.                                                                  *)
THEOREM SupersessionHasEnd == SafetySpec => []SupersessionWellFounded
<1>1. IInv => SupersessionWellFounded
  BY DEF IInv
<1> QED BY <1>1, Invariance, PTL

-----------------------------------------------------------------------------
(* Each operation of the tracker is a step of the abstract ceremony, and   *)
(* none makes a committed ceremony fail.                                   *)
outcomes == [c \in Ceremony |-> Outcome(c)]

Implements == Abstract!Next \/ UNCHANGED outcomes

StaysUnfailed ==
  \A c \in Tracked \cap Tracked' :
    ceremonies[c].committed /\ ~ceremonies[c].failed => ~ceremonies'[c].failed

(* The outcomes follow the two flags of the tracked ceremonies. *)
LEMMA SameOutcomes ==
  ASSUME Tracked' = Tracked,
         \A c \in Tracked : /\ ceremonies'[c].committed = ceremonies[c].committed
                            /\ ceremonies'[c].failed = ceremonies[c].failed
  PROVE  Implements /\ StaysUnfailed
<1>1. \A c \in Ceremony : Outcome(c)' = Outcome(c)
  BY DEF Outcome
<1>2. UNCHANGED outcomes
  BY <1>1 DEF outcomes
<1>3. StaysUnfailed
  BY DEF StaysUnfailed
<1> QED BY <1>2, <1>3 DEF Implements

(* An acceptance is a stutter of the promise. *)
LEMMA AcceptImplements ==
  ASSUME TrackerType, NEW c, NEW p, MarkAccepted(c, p)
  PROVE  Implements /\ StaysUnfailed
<1>1. Tracked' = Tracked
  BY DEF MarkAccepted, Tracked
<1>2. ASSUME NEW d \in Tracked
      PROVE  /\ ceremonies'[d].committed = ceremonies[d].committed
             /\ ceremonies'[d].failed = ceremonies[d].failed
  <2>1. ceremonies[d] \in TrackedCeremony
    BY DEF TrackerType
  <2> QED BY <2>1 DEF MarkAccepted, Tracked, TrackedCeremony
<1> QED BY <1>1, <1>2, SameOutcomes

(* A commit of an open ceremony is the Commit of the promise; one of a     *)
(* failed ceremony and a repeated one are stutters.                        *)
LEMMA CommitImplements ==
  ASSUME TrackerType, NEW c \in Ceremony, MarkCommitted(c)
  PROVE  Implements /\ StaysUnfailed
<1>1. Tracked' = Tracked
  BY DEF MarkCommitted, Tracked
<1>2. \A d \in Tracked : d # c => ceremonies'[d] = ceremonies[d]
  BY DEF MarkCommitted, Tracked
<1>3. c \in Tracked => /\ ceremonies'[c].committed
                       /\ ceremonies'[c].failed = ceremonies[c].failed
  <2> SUFFICES ASSUME c \in Tracked
               PROVE  ceremonies'[c].committed /\ ceremonies'[c].failed = ceremonies[c].failed
    OBVIOUS
  <2>1. ceremonies[c] \in TrackedCeremony
    BY DEF TrackerType
  <2> QED BY <2>1 DEF MarkCommitted, Tracked, TrackedCeremony
<1>4. StaysUnfailed
  BY <1>1, <1>2, <1>3 DEF StaysUnfailed
<1>5. \A d \in Ceremony : d # c => Outcome(d)' = Outcome(d)
  BY <1>1, <1>2 DEF Outcome
<1>6. CASE c \in Tracked /\ ~ceremonies[c].committed /\ ~ceremonies[c].failed
  <2>1. Outcome(c) = "Open" /\ Outcome(c)' = "Committed"
    BY <1>1, <1>3, <1>6 DEF Outcome
  <2>2. Abstract!Commit(c)
    BY <1>5, <2>1 DEF Abstract!Commit
  <2> QED BY <1>4, <2>2 DEF Implements, Abstract!Next
<1>7. CASE c \notin Tracked \/ ceremonies[c].committed \/ ceremonies[c].failed
  <2>1. Outcome(c)' = Outcome(c)
    BY <1>1, <1>3, <1>7 DEF Outcome
  <2> QED BY <1>4, <1>5, <2>1 DEF Implements, outcomes
<1> QED BY <1>6, <1>7

(* Failing any uncommitted ceremonies is a step of the abstract ceremony. *)
LEMMA FailImplements ==
  ASSUME TrackerType, Tracked' = Tracked, NEW S \in SUBSET Tracked,
         \A d \in Tracked :
           /\ ceremonies'[d].committed = ceremonies[d].committed
           /\ d \in S => ~ceremonies[d].committed /\ ceremonies'[d].failed
           /\ d \notin S => ceremonies'[d].failed = ceremonies[d].failed
  PROVE  Implements /\ StaysUnfailed
<1> DEFINE T == {d \in S : ~ceremonies[d].failed}
<1>1. StaysUnfailed
  BY DEF StaysUnfailed
<1>2. \A d \in T : Outcome(d) = "Open" /\ d \in Ceremony
  BY DEF Outcome, TrackerType
<1>3. \A d \in Ceremony : Outcome(d)' = IF d \in T THEN "Failed" ELSE Outcome(d)
  BY DEF Outcome
<1> HIDE DEF T
<1>4. CASE T = {}
  <2>1. \A d \in Ceremony : Outcome(d)' = Outcome(d)
    BY <1>3, <1>4
  <2> QED BY <1>1, <2>1 DEF Implements, outcomes
<1>5. CASE T # {}
  <2>1. T \in (SUBSET Abstract!Open) \ {{}}
    BY <1>2, <1>5 DEF Abstract!Open
  <2>2. outcomes' = [d \in Ceremony |-> IF d \in T THEN "Failed" ELSE outcomes[d]]
    BY <1>3 DEF outcomes
  <2>3. Abstract!Fail
    BY <2>1, <2>2 DEF Abstract!Fail, outcomes
  <2> QED BY <1>1, <2>3 DEF Implements, Abstract!Next
<1> QED BY <1>4, <1>5

(* mark_failed fails what is open and leaves the rest. *)
LEMMA MarkFailedImplements ==
  ASSUME TrackerType, NEW c, MarkFailed(c)
  PROVE  Implements /\ StaysUnfailed
<1> DEFINE S == {d \in Tracked : d = c /\ ~ceremonies[d].committed}
<1>1. Tracked' = Tracked
  BY DEF MarkFailed, Tracked
<1>2. ASSUME NEW d \in Tracked
      PROVE  /\ ceremonies'[d].committed = ceremonies[d].committed
             /\ d \in S => ~ceremonies[d].committed /\ ceremonies'[d].failed
             /\ d \notin S => ceremonies'[d].failed = ceremonies[d].failed
  <2>1. ceremonies[d] \in TrackedCeremony
    BY DEF TrackerType
  <2>2. CASE d # c
    BY <2>2 DEF MarkFailed, Tracked
  <2>3. CASE d = c
    <3>1. ceremonies'[d] = [ceremonies[d] EXCEPT !.failed = @ \/ ~ceremonies[d].committed]
      BY <2>3 DEF MarkFailed, Tracked
    <3> QED BY <2>1, <2>3, <3>1 DEF TrackedCeremony
  <2> QED BY <2>2, <2>3
<1>3. S \in SUBSET Tracked
  OBVIOUS
<1> HIDE DEF S
<1> QED BY <1>1, <1>2, <1>3, FailImplements

(* A sweep fails the open ceremonies it finds. *)
LEMMA SweepImplements ==
  ASSUME TrackerType, NEW S, CleanupTimedOut(S)
  PROVE  Implements /\ StaysUnfailed
<1>1. Tracked' = Tracked /\ S \in SUBSET Tracked
  BY DEF CleanupTimedOut, CanTimeOut, Tracked
<1>2. ASSUME NEW d \in Tracked
      PROVE  /\ ceremonies'[d].committed = ceremonies[d].committed
             /\ d \in S => ~ceremonies[d].committed /\ ceremonies'[d].failed
             /\ d \notin S => ceremonies'[d].failed = ceremonies[d].failed
  <2>1. ceremonies[d] \in TrackedCeremony
    BY DEF TrackerType
  <2> QED BY <2>1 DEF CleanupTimedOut, CanTimeOut, TrackedCeremony
<1> QED BY <1>1, <1>2, FailImplements

(* supersede fails the old ceremony if it is open. *)
LEMMA SupersedeImplements ==
  ASSUME TrackerType, NEW old, NEW new, Supersede(old, new)
  PROVE  Implements /\ StaysUnfailed
<1>1. CASE UNCHANGED trackerVars
  BY <1>1, SameOutcomes DEF trackerVars, Tracked
<1>2. CASE ~(old \notin Tracked \/ ceremonies[old].committed \/ IsSuperseded(old))
  <2>1. Tracked' = Tracked /\ {old} \in SUBSET Tracked
    BY <1>2, Zenon DEF Supersede, Tracked
  <2>2. ASSUME NEW d \in Tracked
        PROVE  /\ ceremonies'[d].committed = ceremonies[d].committed
               /\ d \in {old} => ~ceremonies[d].committed /\ ceremonies'[d].failed
               /\ d \notin {old} => ceremonies'[d].failed = ceremonies[d].failed
    <3>1. ceremonies[d] \in TrackedCeremony
      BY DEF TrackerType
    <3>2. CASE d = old
      <4>1. ceremonies'[d] = [ceremonies[d] EXCEPT !.failed = TRUE, !.supersededBy = new]
        BY <1>2, <3>2, Zenon DEF Supersede
      <4> QED BY <1>2, <3>1, <3>2, <4>1 DEF TrackedCeremony
    <3>3. CASE d # old
      <4>1. \/ ceremonies'[d] = [ceremonies[d] EXCEPT !.supersedes = @ \cup {old}]
            \/ ceremonies'[d] = ceremonies[d]
        BY <1>2, <3>3, Zenon DEF Supersede
      <4> QED BY <3>1, <3>3, <4>1 DEF TrackedCeremony
    <3> QED BY <3>2, <3>3
  <2> QED BY <2>1, <2>2, FailImplements, Zenon
<1> QED BY <1>1, <1>2 DEF Supersede

(* register opens a ceremony that was unknown. *)
LEMMA RegisterImplements ==
  ASSUME TrackerType, NEW c \in Ceremony, NEW k, NEW n, NEW r, NEW e,
         Register(c, k, n, r, e)
  PROVE  Implements /\ StaysUnfailed
<1>1. c \notin Tracked /\ Tracked' = Tracked \cup {c}
  BY SMTT(30) DEF Register, Tracked
<1>2. \A d \in Tracked : ceremonies'[d] = ceremonies[d]
  BY <1>1 DEF Register
<1>3. ~ceremonies'[c].failed /\ ~ceremonies'[c].committed
  BY DEF Register
<1>4. StaysUnfailed
  BY <1>2 DEF StaysUnfailed
<1>5. \A d \in Ceremony : d # c => Outcome(d)' = Outcome(d)
  BY <1>1, <1>2 DEF Outcome
<1>6. Outcome(c) = "Unknown" /\ Outcome(c)' = "Open"
  BY <1>1, <1>3 DEF Outcome
<1>7. Abstract!Register(c)
  BY <1>5, <1>6 DEF Abstract!Register
<1> QED BY <1>4, <1>7, SMTT(30) DEF Implements, Abstract!Next

(* Every step of the system implements a step of the abstract ceremony: it *)
(* performs one operation of the tracker, or none.                         *)
LEMMA StepImplements == IInv /\ [Next]_vars => Implements /\ StaysUnfailed
<1> SUFFICES ASSUME IInv, [Next]_vars PROVE Implements /\ StaysUnfailed
  OBVIOUS
<1>0. TrackerType
  BY DEF IInv
<1>1. CASE UNCHANGED trackerVars
  BY <1>1, SameOutcomes DEF trackerVars, Tracked
<1>2. ASSUME NEW c \in Ceremony, FlowStep(c) PROVE Implements /\ StaysUnfailed
  <2>1. CASE \/ RotateKeys(c) \/ CheckSupersession(c) \/ GuardiansAnswer(c)
             \/ ApplyRemoval(c) \/ ActivateEpoch(c) \/ LeaveFlow(c)
    BY <1>1, <2>1 DEF RotateKeys, CheckSupersession, GuardiansAnswer, ApplyRemoval,
       ActivateEpoch, LeaveFlow
  <2>2. CASE SupersedeNext(c)
    BY <1>0, <2>2, SupersedeImplements DEF SupersedeNext
  <2>3. CASE Start(c)
    BY <1>0, <2>3, RegisterImplements DEF Start
  <2>4. CASE RecordAcceptance(c) \/ RecordLocal(c)
    BY <1>0, <2>4, AcceptImplements DEF RecordAcceptance, RecordLocal
  <2>5. CASE CommitGuardians(c) \/ CommitRemoval(c)
    BY <1>0, <2>5, CommitImplements DEF CommitGuardians, CommitRemoval
  <2>6. CASE AbortFlow(c)
    BY <1>0, <2>6, MarkFailedImplements DEF AbortFlow
  <2> QED BY <1>2, <2>1, <2>2, <2>3, <2>4, <2>5, <2>6 DEF FlowStep
<1>3. ASSUME NEW c \in Ceremony, AppStep(c) PROVE Implements /\ StaysUnfailed
  <2>1. CASE MonitorPoll(c) \/ MonitorRollback(c) \/ CancelRead(c) \/ CancelRollback(c)
    BY <1>1, <2>1 DEF MonitorPoll, MonitorRollback, CancelRead, CancelRollback
  <2>2. CASE CancelAbort(c)
    BY <1>0, <2>2, MarkFailedImplements DEF CancelAbort
  <2> QED BY <1>3, <2>1, <2>2 DEF AppStep
<1>4. ASSUME NEW S \in SUBSET Ceremony, Cleanup(S) PROVE Implements /\ StaysUnfailed
  BY <1>0, <1>4, SweepImplements DEF Cleanup
<1>5. CASE Restart
  <2>1. Tracked' = {}
    BY <1>5 DEF Restart, Tracked
  <2>2. StaysUnfailed
    BY <2>1 DEF StaysUnfailed
  <2>3. \A c \in Ceremony : Outcome(c)' = "Unknown"
    BY <2>1 DEF Outcome
  <2>4. Abstract!Crash
    BY <2>3 DEF Abstract!Crash
  <2> QED BY <2>2, <2>4 DEF Implements, Abstract!Next
<1>6. CASE UNCHANGED vars
  BY <1>1, <1>6 DEF vars
<1> QED BY <1>2, <1>3, <1>4, <1>5, <1>6 DEF Next

(* The system implements the abstract ceremony as a monitor sees it, with  *)
(* one final outcome, for every number of ceremonies and every             *)
(* interleaving of their flows.  (That no ceremony stays open for ever     *)
(* needs fairness and is model-checked.)                                   *)
THEOREM Refinement == SafetySpec => Abstract!SafetySpec
<1>1. Init => Abstract!Init
  <2> SUFFICES ASSUME Init PROVE Abstract!Init
    OBVIOUS
  <2>1. Tracked = {}
    BY DEF Init, TrackerInit, Tracked
  <2> QED BY <2>1 DEF Abstract!Init, Outcome
<1>2. IInv /\ [Next]_vars => [Abstract!Next]_outcomes
  BY StepImplements DEF Implements
<1>3. [][Abstract!Next]_outcomes => [][Abstract!Next]_([c \in Ceremony |-> Outcome(c)])
  BY PTL DEF outcomes
<1> QED BY <1>1, <1>2, <1>3, Invariance, PTL DEF SafetySpec, Abstract!SafetySpec

(* A ceremony that committed without having failed does not fail later,    *)
(* whatever sweeps, cancels, aborts and supersedes.                        *)
THEOREM CommitIsFinal == SafetySpec => CommittedNeverFails
<1>1. IInv /\ [Next]_vars => [StaysUnfailed]_vars
  BY StepImplements
<1> QED BY <1>1, Invariance, PTL DEF SafetySpec, CommittedNeverFails, StaysUnfailed

-----------------------------------------------------------------------------
(* The audit trail.  A record is only ever written for a tracked ceremony, *)
(* so that a ceremony is registered without one.                           *)
Entries(c) == {i \in DOMAIN supersessionRecords : supersessionRecords[i][1] = c}

RecordsInv ==
  /\ \A c \in Tracked :
       /\ IsSuperseded(c) => \E i \in Entries(c) :
                               /\ Entries(c) = {i}
                               /\ supersessionRecords[i][2] = ceremonies[c].supersededBy
       /\ ~IsSuperseded(c) => Entries(c) = {}
  /\ \A i \in DOMAIN supersessionRecords : supersessionRecords[i][1] \in Tracked

(* The trail still agrees after a step that supersedes nothing. *)
LEMMA SameRecords ==
  ASSUME RecordsInv, Tracked' = Tracked, supersessionRecords' = supersessionRecords,
         \A c \in Tracked : ceremonies'[c].supersededBy = ceremonies[c].supersededBy
  PROVE  RecordsInv'
<1>1. \A c \in Tracked : IsSuperseded(c)' = IsSuperseded(c)
  BY DEF IsSuperseded
<1>2. \A c \in Tracked : Entries(c)' = Entries(c)
  BY DEF Entries
<1> QED BY <1>1, <1>2 DEF RecordsInv

(* A new ceremony has no record. *)
LEMMA RegisterRecords ==
  ASSUME RecordsInv, NEW c, NEW k, NEW n, NEW r, NEW e, Register(c, k, n, r, e)
  PROVE  RecordsInv'
<1>1. /\ Tracked' = Tracked \cup {c} /\ c \notin Tracked
      /\ supersessionRecords' = supersessionRecords
  BY DEF Register, Tracked
<1>2. \A d \in Tracked : ceremonies'[d] = ceremonies[d]
  BY <1>1, Zenon DEF Register
<1>3. ceremonies'[c].supersededBy = NoCeremony
  BY DEF Register
<1>4. \A d : Entries(d)' = Entries(d)
  BY <1>1 DEF Entries
<1>5. Entries(c) = {}
  BY <1>1 DEF RecordsInv, Entries
<1>6. ASSUME NEW d \in Tracked'
      PROVE  /\ IsSuperseded(d)' => \E i \in Entries(d)' :
                  /\ Entries(d)' = {i}
                  /\ supersessionRecords'[i][2] = ceremonies'[d].supersededBy
             /\ ~IsSuperseded(d)' => Entries(d)' = {}
  <2>1. CASE d = c
    BY <1>3, <1>4, <1>5, <2>1 DEF IsSuperseded
  <2>2. CASE d \in Tracked
    BY <1>1, <1>2, <1>4, <2>2, SMTT(30) DEF RecordsInv, IsSuperseded
  <2> QED BY <1>1, <2>1, <2>2
<1> QED BY <1>1, <1>6 DEF RecordsInv

(* A supersession writes one record, for a ceremony that had none. *)
LEMMA SupersedeRecords ==
  ASSUME RecordsInv, TrackerType, NEW old \in Ceremony, NEW new \in Ceremony, Supersede(old, new)
  PROVE  RecordsInv'
<1>1. CASE UNCHANGED trackerVars
  BY <1>1, SameRecords DEF trackerVars, Tracked
<1>2. CASE ~(old \notin Tracked \/ ceremonies[old].committed \/ IsSuperseded(old))
  <2> DEFINE n == Len(supersessionRecords) + 1
  <2>1. Tracked' = Tracked /\ supersessionRecords' = Append(supersessionRecords, <<old, new>>)
    BY <1>2, Zenon DEF Supersede, Tracked
  <2>2. /\ n \notin DOMAIN supersessionRecords
        /\ DOMAIN supersessionRecords' = DOMAIN supersessionRecords \cup {n}
        /\ supersessionRecords'[n] = <<old, new>>
        /\ \A i \in DOMAIN supersessionRecords :
             supersessionRecords'[i] = supersessionRecords[i]
    BY <2>1 DEF TrackerType
  <2> HIDE DEF n
  <2>3. Entries(old)' = {n}
    BY <1>2, <2>2 DEF RecordsInv, Entries
  <2>4. \A d : d # old => Entries(d)' = Entries(d)
    BY <2>2 DEF Entries
  <2>5. ASSUME NEW d \in Tracked
        PROVE  /\ IsSuperseded(d)' => \E i \in Entries(d)' :
                    /\ Entries(d)' = {i}
                    /\ supersessionRecords'[i][2] = ceremonies'[d].supersededBy
               /\ ~IsSuperseded(d)' => Entries(d)' = {}
    <3>0. ceremonies[d] \in TrackedCeremony
      BY DEF TrackerType
    <3>1. CASE d = old
      <4>1. ceremonies'[d] = [ceremonies[d] EXCEPT !.failed = TRUE, !.supersededBy = new]
        BY <1>2, <3>1, Zenon DEF Supersede
      <4>2. ceremonies'[d].supersededBy = new
        BY <3>0, <4>1 DEF TrackedCeremony
      <4> QED BY <2>2, <2>3, <3>1, <4>2, CeremonyAssumption DEF IsSuperseded
    <3>2. CASE d # old
      <4>1. \/ ceremonies'[d] = [ceremonies[d] EXCEPT !.supersedes = @ \cup {old}]
            \/ ceremonies'[d] = ceremonies[d]
        BY <1>2, <3>2, Zenon DEF Supersede
      <4>2. ceremonies'[d].supersededBy = ceremonies[d].supersededBy
        BY <3>0, <4>1 DEF TrackedCeremony
      <4>3. \A i \in Entries(d) : supersessionRecords'[i] = supersessionRecords[i]
        BY <2>2 DEF Entries
      <4>4. /\ IsSuperseded(d) => \E i \in Entries(d) :
                    /\ Entries(d) = {i}
                    /\ supersessionRecords[i][2] = ceremonies[d].supersededBy
            /\ ~IsSuperseded(d) => Entries(d) = {}
        BY DEF RecordsInv
      <4>5. Entries(d)' = Entries(d) /\ IsSuperseded(d)' = IsSuperseded(d)
        BY <2>4, <3>2, <4>2 DEF IsSuperseded
      <4> QED BY <4>2, <4>3, <4>4, <4>5
    <3> QED BY <3>1, <3>2
  <2>6. \A i \in DOMAIN supersessionRecords' : supersessionRecords'[i][1] \in Tracked
    BY <1>2, <2>2, SMTT(30) DEF RecordsInv
  <2> QED BY <2>1, <2>5, <2>6 DEF RecordsInv
<1> QED BY <1>1, <1>2 DEF Supersede

(* Every step performs one operation of the tracker, or none, or loses     *)
(* ceremonies and trail together.                                          *)
LEMMA RecordsInductive == IInv /\ RecordsInv /\ [Next]_vars => RecordsInv'
<1> SUFFICES ASSUME IInv, RecordsInv, [Next]_vars PROVE RecordsInv'
  OBVIOUS
<1>0. TrackerType
  BY DEF IInv
<1>1. CASE UNCHANGED trackerVars
  BY <1>1, SameRecords DEF trackerVars, Tracked
<1>2. ASSUME NEW c, MarkOrSweep(c) PROVE RecordsInv'
  BY <1>0, <1>2, MarkKeeps, SameRecords
<1>3. ASSUME NEW c \in Ceremony, FlowStep(c) PROVE RecordsInv'
  <2>1. CASE \/ RotateKeys(c) \/ CheckSupersession(c) \/ GuardiansAnswer(c)
             \/ ApplyRemoval(c) \/ ActivateEpoch(c) \/ LeaveFlow(c)
    BY <1>1, <2>1 DEF RotateKeys, CheckSupersession, GuardiansAnswer, ApplyRemoval,
       ActivateEpoch, LeaveFlow
  <2>2. CASE SupersedeNext(c)
    <3>1. PICK old \in candidates[c] : Supersede(old, c)
      BY <2>2 DEF SupersedeNext
    <3>2. old \in Ceremony
      BY DEF IInv, FlowType
    <3> QED BY <1>0, <3>1, <3>2, SupersedeRecords
  <2>3. CASE Start(c)
    BY <2>3, RegisterRecords DEF Start
  <2>4. CASE \/ RecordAcceptance(c) \/ RecordLocal(c) \/ CommitGuardians(c)
             \/ CommitRemoval(c) \/ AbortFlow(c)
    <3>1. MarkOrSweep(c)
      BY <2>4 DEF RecordAcceptance, RecordLocal, CommitGuardians, CommitRemoval, AbortFlow,
         MarkOrSweep
    <3> QED BY <1>2, <3>1, SMTT(30)
  <2> QED BY <1>3, <2>1, <2>2, <2>3, <2>4 DEF FlowStep
<1>4. ASSUME NEW c \in Ceremony, AppStep(c) PROVE RecordsInv'
  <2>1. CASE MonitorPoll(c) \/ MonitorRollback(c) \/ CancelRead(c) \/ CancelRollback(c)
    BY <1>1, <2>1 DEF MonitorPoll, MonitorRollback, CancelRead, CancelRollback
  <2>2. CASE CancelAbort(c)
    BY <1>2, <2>2 DEF CancelAbort, MarkOrSweep
  <2> QED BY <1>4, <2>1, <2>2 DEF AppStep
<1>5. ASSUME NEW S \in SUBSET Ceremony, Cleanup(S) PROVE RecordsInv'
  BY <1>2, <1>5 DEF Cleanup, MarkOrSweep
<1>6. CASE Restart
  <2>1. Tracked' = {} /\ DOMAIN supersessionRecords' = {}
    BY <1>6 DEF Restart, Tracked
  <2> QED BY <2>1 DEF RecordsInv
<1>7. CASE UNCHANGED vars
  BY <1>1, <1>7 DEF vars
<1> QED BY <1>3, <1>4, <1>5, <1>6, <1>7 DEF Next

(* The audit trail has exactly one, correct record of each supersession,   *)
(* although rival flows may hold the same candidate.                       *)
THEOREM SupersessionAudited == SafetySpec => []SupersessionRecorded
<1>1. Init => RecordsInv
  <2> SUFFICES ASSUME Init PROVE RecordsInv
    OBVIOUS
  <2>1. Tracked = {} /\ DOMAIN supersessionRecords = {}
    BY DEF Init, TrackerInit, Tracked
  <2> QED BY <2>1 DEF RecordsInv
<1>2. RecordsInv => SupersessionRecorded
  BY DEF RecordsInv, Entries, SupersessionRecorded
<1> QED BY <1>1, <1>2, Invariance, RecordsInductive, PTL DEF SafetySpec
=============================================================================
