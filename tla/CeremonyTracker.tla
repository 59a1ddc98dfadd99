-------------------------- MODULE CeremonyTracker --------------------------
(***************************************************************************)
(* The tracker of ceremonies (runtime/services/ceremony_tracker.rs), an    *)
(* in-memory map under one lock that every operation holds to its end, so  *)
(* an operation is one step.  The tracker is passive: an operation fixes   *)
(* its part of the next state, and the modules that extend this one say    *)
(* who calls it when.                                                      *)
(*                                                                         *)
(* Abstractions: the clock is left out, a sweep of the cleanup task finds  *)
(* the timeouts of any ceremonies passed; error texts, prestate hashes     *)
(* (every open ceremony of a kind is a candidate whatever its hash) and    *)
(* commit metadata are left out.                                           *)
(***************************************************************************)
EXTENDS Naturals, Sequences, FiniteSets

CONSTANTS
  Ceremony,      \* ceremony ids
  Participant,   \* participant identities
  NoCeremony     \* superseded_by = None

ASSUME CeremonyAssumption == NoCeremony \notin Ceremony

VARIABLES
  ceremonies,           \* the registered ceremonies, by id
  supersessionRecords   \* the audit trail: <<superseded, superseding>>

trackerVars == <<ceremonies, supersessionRecords>>

Kinds == {"GuardianRotation", "DeviceRotation", "DeviceEnrollment", "DeviceRemoval"}

Modes == {"Provisional", "CoordinatorSoftSafe", "ConsensusFinalized"}

TrackedCeremony ==
  [kind : Kinds, threshold : Nat, participants : SUBSET Participant,
   accepted : SUBSET Participant, epoch : Nat,
   failed : BOOLEAN, committed : BOOLEAN,
   supersededBy : Ceremony \cup {NoCeremony}, supersedes : SUBSET Ceremony,
   mode : Modes]

(* The first mode of the kind's lifecycle policy. *)
InitialMode(k) ==
  IF k = "DeviceEnrollment" THEN "Provisional" ELSE "CoordinatorSoftSafe"

Tracked == DOMAIN ceremonies

IsSuperseded(c) == ceremonies[c].supersededBy # NoCeremony

TrackerInit ==
  /\ ceremonies = [c \in {} |-> NoCeremony]
  /\ supersessionRecords = <<>>

(* register: an id that is already there is refused. *)
Register(c, k, threshold, participants, epoch) ==
  /\ c \notin Tracked
  /\ ceremonies' =
       [d \in Tracked \cup {c} |->
          IF d = c
          THEN [kind |-> k, threshold |-> threshold, participants |-> participants,
                accepted |-> {}, epoch |-> epoch,
                failed |-> FALSE, committed |-> FALSE,
                supersededBy |-> NoCeremony, supersedes |-> {},
                mode |-> InitialMode(k)]
          ELSE ceremonies[d]]
  /\ UNCHANGED supersessionRecords

(* mark_accepted: neither failed nor committed is looked at. *)
MarkAccepted(c, p) ==
  LET accepted == ceremonies[c].accepted \cup {p}
      reached == /\ p \notin ceremonies[c].accepted
                 /\ Cardinality(accepted) >= ceremonies[c].threshold
  IN /\ p \in ceremonies[c].participants
     /\ ceremonies' = [ceremonies EXCEPT
          ![c].accepted = accepted,
          ![c].mode = IF reached THEN "CoordinatorSoftSafe" ELSE @]
     /\ UNCHANGED supersessionRecords

(* mark_committed_with_metadata: commits whatever has not been committed. *)
MarkCommitted(c) ==
  /\ ceremonies' = [ceremonies EXCEPT
       ![c].committed = TRUE,
       ![c].mode = IF ceremonies[c].committed THEN @ ELSE "ConsensusFinalized"]
  /\ UNCHANGED supersessionRecords

(* Mutant: a late failure undoes a commit. *)
MarkFailedAlways(c) ==
  /\ ceremonies' = [ceremonies EXCEPT ![c].failed = TRUE, ![c].committed = FALSE]
  /\ UNCHANGED supersessionRecords

(* Mutant: the commit is not looked at. *)
MarkFailedBlindly(c) ==
  /\ ceremonies' = [ceremonies EXCEPT ![c].failed = TRUE]
  /\ UNCHANGED supersessionRecords

(* mark_failed: ignored once the ceremony is committed. *)
MarkFailed(c) ==
  /\ ceremonies' = [ceremonies EXCEPT ![c].failed = @ \/ ~ceremonies[c].committed]
  /\ UNCHANGED supersessionRecords

(* What a sweep of cleanup_timed_out fails once its timeout has passed. *)
CanTimeOut ==
  {c \in Tracked : /\ ~ceremonies[c].failed
                   /\ ~ceremonies[c].committed
                   /\ ~IsSuperseded(c)}

(* One sweep, which finds the timeouts of S passed. *)
CleanupTimedOut(S) ==
  /\ S # {}
  /\ S \subseteq CanTimeOut
  /\ ceremonies' = [c \in Tracked |->
       IF c \in S THEN [ceremonies[c] EXCEPT !.failed = TRUE] ELSE ceremonies[c]]
  /\ UNCHANGED supersessionRecords

(* Mutant: a second supersession of the same ceremony is not noticed. *)
SupersedeAgain(old, new) ==
  IF old \notin Tracked \/ ceremonies[old].committed
  THEN UNCHANGED trackerVars
  ELSE /\ ceremonies' = [ceremonies EXCEPT ![old].failed = TRUE, ![old].supersededBy = new]
       /\ supersessionRecords' = Append(supersessionRecords, <<old, new>>)

(* supersede: refused for a committed ceremony, repeated without effect.   *)
Supersede(old, new) ==
  IF old \notin Tracked \/ ceremonies[old].committed \/ IsSuperseded(old)
  THEN UNCHANGED trackerVars
  ELSE /\ ceremonies' = [c \in Tracked |->
            IF c = old
            THEN [ceremonies[c] EXCEPT !.failed = TRUE, !.supersededBy = new]
            ELSE IF c = new
            THEN [ceremonies[c] EXCEPT !.supersedes = @ \cup {old}]
            ELSE ceremonies[c]]
       /\ supersessionRecords' = Append(supersessionRecords, <<old, new>>)

(* check_supersession_candidates: failed ceremonies are candidates too. *)
Candidates(k) ==
  {c \in Tracked : /\ ceremonies[c].kind = k
                   /\ ~ceremonies[c].committed
                   /\ ~IsSuperseded(c)}

============================================================================
