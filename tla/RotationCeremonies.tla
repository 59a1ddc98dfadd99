------------------------- MODULE RotationCeremonies -------------------------
(***************************************************************************)
(* The key-rotation ceremonies of one authority on the device that         *)
(* initiates them: the four initiating flows of the runtime bridge, the    *)
(* tracker they share, the cleanup task, the monitor and the cancel        *)
(* operation of the application layer, and the stored keys of each epoch   *)
(* that the flows create and the others try to delete.                     *)
(*                                                                         *)
(* A flow is a future with awaits between its steps.  Any number of flows  *)
(* run at once (a retry starts the next while nothing stops the former),   *)
(* the start timeout drops a flow at any await, and the process may        *)
(* restart, which loses the tracker, keeps the keys of other epochs and    *)
(* bootstraps the authority anew at epoch 0.                               *)
(*                                                                         *)
(* Devices never sign an acceptance in this version of the code            *)
(* (verified_device_epoch_acceptance always fails), so a device session    *)
(* records no answer and the only device flow that commits is the removal  *)
(* that leaves a single device.  For the same reason no flow advances the  *)
(* in-memory signing context from the epoch 0 that each start gives it.    *)
(*                                                                         *)
(* The validation of the tracker's state is compiled into debug builds     *)
(* only; this is a release build.                                          *)
(***************************************************************************)
EXTENDS CeremonyTracker

CONSTANTS
  Self,        \* this device, as a participant
  Bootstrap,   \* owner of the keys bootstrap_authority creates
  Scenarios    \* the requests considered: functions from some ids to requests

Requests == [kind : Kinds, roster : SUBSET Participant, threshold : Nat \ {0}]

ASSUME RotationAssumption ==
  /\ Self \in Participant
  /\ Bootstrap \notin Ceremony
  /\ \A r \in Scenarios : r \in [DOMAIN r -> Requests] /\ DOMAIN r \subseteq Ceremony

VARIABLES
  request,      \* what each requested id asks for
  flow,         \* where the initiating future of each id stands
  pending,      \* the epoch whose keys the flow created
  candidates,   \* local to the flow: ids it still has to supersede
  answers,      \* local to the flow: acceptances the choreography returned
  monitor,      \* the monitor of the ceremony
  cancel,       \* a cancel operation on the ceremony
  keys,         \* the epochs with stored keys, and who created them
  storedEpoch   \* epoch_state in storage

flowVars == <<request, flow, pending, candidates, answers>>
appVars == <<monitor, cancel>>
keyVars == <<keys, storedEpoch>>
vars == <<trackerVars, flowVars, appVars, keyVars>>

FlowStates ==
  {"Idle", "Rotated", "Superseding", "Choreography", "Recording", "LocalResponse",
   "Applying", "Activating", "Finishing", "Aborting", "Returned", "Ended"}

Running == FlowStates \ {"Idle", "Returned", "Ended"}

Kind(c) == request[c].kind

(* What a poll of the monitor makes of the status: failure comes first. *)
Outcome(c) ==
  IF c \notin Tracked THEN "Unknown"
  ELSE IF ceremonies[c].failed THEN "Failed"
  ELSE IF ceremonies[c].committed THEN "Committed"
  ELSE "Open"

Goto(c, s) == flow' = [flow EXCEPT ![c] = s]

Init ==
  /\ TrackerInit
  /\ request \in Scenarios
  /\ flow = [c \in Ceremony |-> "Idle"]
  /\ pending = [c \in Ceremony |-> 0]
  /\ candidates = [c \in Ceremony |-> {}]
  /\ answers = [c \in Ceremony |-> {}]
  /\ monitor = [c \in Ceremony |-> "Polling"]
  /\ cancel = [c \in Ceremony |-> "None"]
  /\ keys = [e \in {0} |-> Bootstrap]
  /\ storedEpoch = 0

-----------------------------------------------------------------------------
(* Key storage, one location per epoch. *)

(* Mutant: the epoch before the stored one. *)
NextEpochBefore(k) == storedEpoch - 1

(* rotate_keys of the signing service (guardians) counts from the context, *)
(* which is at 0, rotate_keys of the effects (devices) from storage.       *)
NextEpoch(k) == IF k = "GuardianRotation" THEN 1 ELSE storedEpoch + 1

(* Keys that are there are overwritten. *)
StoreKeys(e, c) ==
  keys' = [d \in (DOMAIN keys) \cup {e} |-> IF d = e THEN c ELSE keys[d]]

(* bootstrap_authority: new keys and the stored epoch are those of epoch 0. *)
BootstrapAuthority ==
  /\ StoreKeys(0, Bootstrap)
  /\ storedEpoch' = 0

(* Mutant: the deletions of a rollback are permitted. *)
RollbackDeletes(e) == keys' = [d \in (DOMAIN keys) \ {e} |-> keys[d]]

(* rollback_key_rotation asks secure_delete with the capabilities Read and *)
(* Write where Delete is required, and ignores each refusal.               *)
RollbackKeyRotation(e) == UNCHANGED keys

-----------------------------------------------------------------------------
(* The initiating flows. *)

(* Mutant: the ceremony is registered as soon as its keys exist. *)
RotateKeysRegistered(c) ==
  /\ flow[c] = "Idle"
  /\ c \in DOMAIN request
  /\ pending' = [pending EXCEPT ![c] = NextEpoch(Kind(c))]
  /\ StoreKeys(NextEpoch(Kind(c)), c)
  /\ Goto(c, "Rotated")
  /\ Register(c, Kind(c), request[c].threshold, request[c].roster, NextEpoch(Kind(c)))
  /\ UNCHANGED <<request, candidates, answers, appVars, storedEpoch>>

RotateKeys(c) ==
  /\ flow[c] = "Idle"
  /\ c \in DOMAIN request
  /\ pending' = [pending EXCEPT ![c] = NextEpoch(Kind(c))]
  /\ StoreKeys(NextEpoch(Kind(c)), c)
  /\ Goto(c, "Rotated")
  /\ UNCHANGED <<trackerVars, request, candidates, answers, appVars, storedEpoch>>

CheckSupersession(c) ==
  /\ flow[c] = "Rotated"
  /\ candidates' = [candidates EXCEPT ![c] = Candidates(Kind(c))]
  /\ Goto(c, "Superseding")
  /\ UNCHANGED <<trackerVars, request, pending, answers, appVars, keyVars>>

(* One turn of the loop over the candidates; the result is ignored. *)
SupersedeNext(c) ==
  /\ flow[c] = "Superseding"
  /\ \E old \in candidates[c] :
       /\ Supersede(old, c)
       /\ candidates' = [candidates EXCEPT ![c] = @ \ {old}]
  /\ UNCHANGED <<request, flow, pending, answers, appVars, keyVars>>

(* An enrollment has nothing left to do that changes this state. *)
Start(c) ==
  /\ flow[c] = "Superseding"
  /\ candidates[c] = {}
  /\ Register(c, Kind(c), request[c].threshold, request[c].roster, pending[c])
  /\ Goto(c, CASE Kind(c) = "GuardianRotation" -> "Choreography"
               [] Kind(c) = "DeviceEnrollment" -> "Returned"
               [] OTHER -> "LocalResponse")
  /\ UNCHANGED <<request, pending, candidates, answers, appVars, keyVars>>

(* The choreography ends well both when it queued the finalize branch and  *)
(* when a guardian declined and it queued the cancel branch.               *)
GuardiansAnswer(c) ==
  /\ flow[c] = "Choreography"
  /\ \E accepting \in SUBSET request[c].roster :
       answers' = [answers EXCEPT ![c] = accepting]
  /\ Goto(c, "Recording")
  /\ UNCHANGED <<trackerVars, request, pending, candidates, appVars, keyVars>>

RecordAcceptance(c) ==
  /\ flow[c] = "Recording"
  /\ \E p \in answers[c] \ ceremonies[c].accepted : MarkAccepted(c, p)
  /\ UNCHANGED <<flowVars, appVars, keyVars>>

(* runner.commit; nothing is activated and the tracker is not asked        *)
(* whether the ceremony failed meanwhile.                                  *)
CommitGuardians(c) ==
  /\ flow[c] = "Recording"
  /\ answers[c] \subseteq ceremonies[c].accepted
  /\ MarkCommitted(c)
  /\ Goto(c, "Returned")
  /\ answers' = [answers EXCEPT ![c] = {}]
  /\ UNCHANGED <<request, pending, candidates, appVars, keyVars>>

SoloRemoval(c) ==
  /\ Kind(c) = "DeviceRemoval"
  /\ Cardinality(request[c].roster) = 1
  /\ request[c].threshold = 1

(* record_local_response, then the sessions of the other devices are       *)
(* spawned.  A removal without its DKG transcript is aborted.              *)
RecordLocal(c) ==
  /\ flow[c] = "LocalResponse"
  /\ MarkAccepted(c, Self)
  /\ \/ /\ ~SoloRemoval(c)
        /\ Goto(c, "Returned")
     \/ /\ Kind(c) = "DeviceRemoval"
        /\ Goto(c, "Aborting")
     \/ /\ SoloRemoval(c)
        /\ Goto(c, "Applying")
  /\ UNCHANGED <<request, pending, candidates, answers, appVars, keyVars>>

(* sign_tree_op and apply_attested_op, either of which may fail. *)
ApplyRemoval(c) ==
  /\ flow[c] = "Applying"
  /\ Goto(c, "Activating") \/ Goto(c, "Aborting")
  /\ UNCHANGED <<trackerVars, request, pending, candidates, answers, appVars, keyVars>>

(* commit_key_rotation of the effects moves the stored epoch. *)
ActivateEpoch(c) ==
  /\ flow[c] = "Activating"
  /\ \/ /\ storedEpoch' = pending[c]
        /\ Goto(c, "Finishing")
     \/ /\ UNCHANGED storedEpoch
        /\ Goto(c, "Aborting")
  /\ UNCHANGED <<trackerVars, request, pending, candidates, answers, appVars, keys>>

CommitRemoval(c) ==
  /\ flow[c] = "Finishing"
  /\ MarkCommitted(c)
  /\ Goto(c, "Returned")
  /\ UNCHANGED <<request, pending, candidates, answers, appVars, keyVars>>

AbortFlow(c) ==
  /\ flow[c] = "Aborting"
  /\ MarkFailed(c)
  /\ Goto(c, "Ended")
  /\ UNCHANGED <<request, pending, candidates, answers, appVars, keyVars>>

(* An early return with an error, or the start timeout drops the future:   *)
(* neither deletes the keys nor tells the tracker.                         *)
LeaveFlow(c) ==
  /\ flow[c] \in Running
  /\ Goto(c, "Ended")
  /\ candidates' = [candidates EXCEPT ![c] = {}]
  /\ answers' = [answers EXCEPT ![c] = {}]
  /\ UNCHANGED <<trackerVars, request, pending, appVars, keyVars>>

-----------------------------------------------------------------------------
(* The cleanup task and the application layer. *)

Cleanup(S) ==
  /\ CleanupTimedOut(S)
  /\ UNCHANGED <<flowVars, appVars, keyVars>>

(* The application holds the id of a ceremony once its flow has returned.  *)
Held(c) == flow[c] = "Returned" /\ c \in Tracked

(* A poll that finds a failure, which it looks for before completion; only *)
(* a guardian or device rotation is rolled back.  A poll that finds        *)
(* anything else, or exhausted attempts, changes nothing, and the user may *)
(* start the monitor again.                                                *)
MonitorPoll(c) ==
  /\ Held(c)
  /\ monitor[c] = "Polling"
  /\ ceremonies[c].failed
  /\ Kind(c) \in {"GuardianRotation", "DeviceRotation"}
  /\ monitor' = [monitor EXCEPT ![c] = "RollingBack"]
  /\ UNCHANGED <<trackerVars, flowVars, cancel, keyVars>>

MonitorRollback(c) ==
  /\ monitor[c] = "RollingBack"
  /\ RollbackKeyRotation(pending[c])
  /\ monitor' = [monitor EXCEPT ![c] = "Polling"]
  /\ UNCHANGED <<trackerVars, flowVars, cancel, storedEpoch>>

(* cancel_key_rotation_ceremony reads the tracker, *)
CancelRead(c) ==
  /\ Held(c)
  /\ cancel[c] = "None"
  /\ cancel' = [cancel EXCEPT ![c] =
       IF ceremonies[c].committed THEN "Aborting" ELSE "RollingBack"]
  /\ UNCHANGED <<trackerVars, flowVars, monitor, keyVars>>

(* rolls back an epoch that was not committed when it read, *)
CancelRollback(c) ==
  /\ cancel[c] = "RollingBack"
  /\ RollbackKeyRotation(pending[c])
  /\ cancel' = [cancel EXCEPT ![c] = "Aborting"]
  /\ UNCHANGED <<trackerVars, flowVars, monitor, storedEpoch>>

(* and aborts the ceremony. *)
CancelAbort(c) ==
  /\ cancel[c] = "Aborting"
  /\ MarkFailed(c)
  /\ cancel' = [cancel EXCEPT ![c] = "None"]
  /\ UNCHANGED <<flowVars, monitor, keyVars>>

(* A restart loses the tracker, every future and the signing context, for  *)
(* want of which the application bootstraps the authority when it starts.  *)
Restart ==
  /\ ceremonies' = [c \in {} |-> NoCeremony]
  /\ supersessionRecords' = <<>>
  /\ flow' = [c \in Ceremony |-> IF flow[c] = "Idle" THEN "Idle" ELSE "Ended"]
  /\ candidates' = [c \in Ceremony |-> {}]
  /\ answers' = [c \in Ceremony |-> {}]
  /\ monitor' = [c \in Ceremony |-> "Polling"]
  /\ cancel' = [c \in Ceremony |-> "None"]
  /\ BootstrapAuthority
  /\ UNCHANGED <<request, pending>>

FlowStep(c) ==
  \/ RotateKeys(c) \/ CheckSupersession(c) \/ SupersedeNext(c) \/ Start(c)
  \/ GuardiansAnswer(c) \/ RecordAcceptance(c) \/ CommitGuardians(c)
  \/ RecordLocal(c) \/ ApplyRemoval(c) \/ ActivateEpoch(c) \/ CommitRemoval(c)
  \/ AbortFlow(c) \/ LeaveFlow(c)

AppStep(c) ==
  \/ MonitorPoll(c) \/ MonitorRollback(c)
  \/ CancelRead(c) \/ CancelRollback(c) \/ CancelAbort(c)

Next ==
  \/ \E c \in Ceremony : FlowStep(c) \/ AppStep(c)
  \/ \E S \in SUBSET Ceremony : Cleanup(S)
  \/ Restart

(* The clock goes on and the cleanup task sweeps every second, so sweeps   *)
(* find timeouts as long as a ceremony is open.  Nothing is assumed of the *)
(* flows, which wait for other parties.                                    *)
Fairness == WF_vars(\E S \in SUBSET Ceremony : Cleanup(S))

SafetySpec == Init /\ [][Next]_vars

Spec == SafetySpec /\ Fairness

-----------------------------------------------------------------------------
(* Types of the tracker, the flows, the application layer and the store. *)
TypeOK ==
  /\ Tracked \subseteq Ceremony
  /\ \A c \in Tracked : ceremonies[c] \in TrackedCeremony
  /\ supersessionRecords \in Seq(Ceremony \X Ceremony)
  /\ request \in Scenarios
  /\ flow \in [Ceremony -> FlowStates]
  /\ pending \in [Ceremony -> Nat]
  /\ candidates \in [Ceremony -> SUBSET Ceremony]
  /\ answers \in [Ceremony -> SUBSET Participant]
  /\ monitor \in [Ceremony -> {"Polling", "RollingBack"}]
  /\ cancel \in [Ceremony -> {"None", "RollingBack", "Aborting"}]
  /\ DOMAIN keys \subseteq Nat
  /\ \A e \in DOMAIN keys : keys[e] \in Ceremony \cup {Bootstrap}
  /\ storedEpoch \in Nat

(* Supersession never runs in a circle, however the loops of rival flows   *)
(* interleave: in every set of tracked ceremonies one is not superseded by *)
(* another of the set, so some ceremony always remains that can complete.  *)
(* It rests on a flow superseding its candidates before it registers.      *)
SupersessionWellFounded ==
  \A S \in (SUBSET Tracked) \ {{}} : \E c \in S : ceremonies[c].supersededBy \notin S

(* The audit trail agrees with the tracker although two flows may hold the *)
(* same candidate: a superseded ceremony has exactly one record, which     *)
(* names the ceremony that superseded it, and no other has one.            *)
SupersessionRecorded ==
  \A c \in Tracked :
    LET entries == {i \in DOMAIN supersessionRecords : supersessionRecords[i][1] = c}
    IN IF IsSuperseded(c)
       THEN \E i \in entries : /\ entries = {i}
                               /\ supersessionRecords[i][2] = ceremonies[c].supersededBy
       ELSE entries = {}

(* Ceremonies share epochs: several are given the same pending epoch, and  *)
(* one is cancelled or rolled back while another activates it.  Still the  *)
(* activated epoch, and each that a running flow may yet activate, has     *)
(* keys in the store.                                                      *)
EpochsHaveKeys ==
  /\ storedEpoch \in DOMAIN keys
  /\ \A c \in Ceremony : flow[c] \in Running => pending[c] \in DOMAIN keys

(* What validate asserts of the tracker: a committed ceremony has neither  *)
(* failed ("cannot be committed and failed") nor been superseded ("cannot  *)
(* be superseded and committed").                                          *)
CommittedIsValid ==
  \A c \in Tracked : ceremonies[c].committed => ~ceremonies[c].failed /\ ~IsSuperseded(c)

(* Whatever sweeps, cancels, aborts and supersedes meanwhile, a ceremony   *)
(* that committed without having failed does not fail afterwards           *)
(* ("Committed ceremonies are terminal-success states and must never       *)
(* transition into failed").                                               *)
CommittedNeverFails ==
  [][\A c \in Tracked \cap Tracked' :
       ceremonies[c].committed /\ ~ceremonies[c].failed => ~ceremonies'[c].failed]_vars

(* To a monitor, which looks for failure first, the tracker keeps the      *)
(* promise of CeremonyOutcome under all its callers: each registered       *)
(* ceremony ends, it ends once, and the outcome is final.  A commit of a   *)
(* ceremony that has failed does not show.                                 *)
Abstract == INSTANCE CeremonyOutcome WITH outcome <- [c \in Ceremony |-> Outcome(c)]

RefinesOutcome == Abstract!Spec
============================================================================
