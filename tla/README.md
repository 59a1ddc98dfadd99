# Aura: TLA+ models, model checking and proofs

This directory holds TLA+ models of the Rust workspace in `src/crates`, the TLC
configurations that check them, and TLAPS proofs. Every definition that models
code is listed in `PROJECT.json` under `map` with the lines it stands for.
Paths below are relative to `src/crates` unless they start with `docs/`.

## 1. The system and its parts

Aura is a peer-to-peer runtime in eight layers. Authorities keep journals of
facts that only grow and are joined between replicas; state is a reduction of
the facts. Operations that need one outcome go through consensus. Every message
that leaves a device passes a guard chain that charges a budget and journals a
fact before the transport is called.

| Part | State | Operations | What makes it hard | What makes it correct |
|---|---|---|---|---|
| Consensus core (`aura-consensus/src/core`) | `ConsensusState` | start, apply share, trigger fallback, gossip, complete, fail | batches validated against the state before the batch; two ways to a commit | one result, threshold witnesses behind it, decisions final |
| Consensus coordinator (`protocol/coordinator.rs`, `shares.rs`) | instance, tracker, share set, mirrored core | NonceCommit, SignShare, Conflict, eviction, finalize | late, repeated and foreign messages; a collector with a threshold of its own; one lock used twice | what is aggregated has the threshold, mirror equal to tracker, every sealed set answered |
| Consensus witness (`protocol/witness.rs`) | the same instance, cached nonce token | Execute, SignRequest, ConsensusResult, eviction | each message is a task, with awaits between acquisitions of the lock | the token kept is the one committed to |
| FROST orchestrator (`frost.rs`, `witness.rs`) | nonce cache, running instances | fast and slow run, epoch change | concurrent runs over one cache | nonces used once, retired nonces silent, no commit for a part of a package |
| Evidence (`evidence.rs`) | proofs | merge | deltas repeated, crossed, late, with proofs that do not verify | one verified proof per accusation |
| AMP channel (`aura-journal/src/reduction.rs`, `aura-amp`, `aura-transport/src/amp.rs`) | facts per replica, replay markers, calls under way | add fact, join, send, receive | rival transitions, facts in any order, calls that overlap, fail and repeat | evidence before a new epoch, agreeing ratchets, a closed epoch stays closed, a header used once, convergence |
| Guarded send (`aura-guards`, `aura-journal/src/effects.rs`, `aura-agent/src/runtime`) | stored budget, stored and cached journal, receipts | snapshot, evaluate, charge, append, send, error, restart | read, compute and store without a lock | limit respected, nothing leaves unpaid, updates not lost |
| Key-rotation ceremonies (`aura-agent/src/runtime/services/ceremony_tracker.rs`, `runtime_bridge/mod.rs`, `threshold_signing.rs`, the ceremony workflows of `aura-app`) | tracker, one future per ceremony, stored keys per epoch, monitors, cancels | rotate keys, supersede, start, accept, commit, abort, sweep, monitor, cancel, restart | four flows share one tracker and one key store with an await between any two calls | one final outcome for each ceremony, supersession without circles, keys for every epoch that is or may be activated |
| DKG, commitment tree, anti-entropy, sync, recovery, invitation, rendezvous, agent services | | | | not modelled yet, see section 8 |

Interactions: a device plays both consensus roles on the same map of instances.
Only an Execute creates an instance; every handler finds it there. The handlers
keep a `ConsensusState` of the core in the instance and overwrite its proposals
from their tracker (`sync_core_state`); run `core` also starts the core from
exactly those states. Messages carry evidence deltas, merged before the message
is looked at. `run_consensus` does its signing in the FROST orchestrator. A
committed AMP bump is the outcome of consensus and becomes a fact of the
channel. AMP and every choreography send through the guard chain. Ceremonies
end in a change of the epoch whose stored keys the FROST parts sign with.

## 2. Modules

| Module | Models | Correspondence |
|---|---|---|
| `ConsensusCore` | pure transitions of one instance | a variable per field of `ConsensusState`; an action per transition function; `NotEnabled` is a false guard |
| `ConsensusCoordinator` | `process_coordinator_message` | extends `ConsensusWitness` and works on its instance; a handler holds the write guard to its end and is one step; `finalize_consensus` is a second step because it waits for the lock |
| `ConsensusWitness` | `participate_as_witness`, `ProtocolInstance` | extends `EvidenceTracker`; a task per delivered message; a step per acquisition of `instances` |
| `ConsensusProtocol` | one device in both roles | composes the two; its `Next` is the clock, a step of a witness task or a coordinator message |
| `FrostOrchestrator` | `run_consensus`, `WitnessSet` | a process per call; a step per await |
| `EvidenceTracker` | `merge` and what it tests | operators over a set of proofs and a delta |
| `AmpReduction` | the AMP part of `reduce_context`, ratchets, header checks | operators over a set of facts |
| `AmpChannel` | `amp_send`, `amp_recv`, journal join | replicas over `AmpReduction`; a call takes its header, looks its marker up and stores it in three steps |
| `GuardedSend` | guard chain, charging, journal append, choreography send | a process per send; a step per await |
| `CeremonyTracker` | `CeremonyTracker` service | its state and an operator per method |
| `CeremonyOutcome` | nothing in the code: what a ceremony promises to the one who asked for it | abstract specification |
| `RotationCeremonies` | the four initiating flows, the cleanup task, monitor and cancel of the application, key storage | a future per ceremony; a step per await; extends `CeremonyTracker`, implements `CeremonyOutcome` |
| `*Proofs` | theorems of section 6 | extend the module they are about |
| `MC*` | model values and small universes | extend the module they instantiate |

`ConsensusProtocol` composes evidence, witness and coordinator, `AmpChannel`
composes the reduction with replicas and messages, `GuardedSend` composes chain,
budget, journal cache, storage and transport, and `RotationCeremonies` composes
tracker, flows, application layer and key store.

Data is abstracted to what is compared: results, nonces and operations are
model values or counters; a signature share is its signer, and whether it
verifies is left open; a hash is collision free and ordered as a number;
encodings and logging are left out. The external parts are marked in `map`: the
FROST library, the async lock, the clock, the token verdict.

Definitions whose comment starts with "Mutant" are deliberate errors. None is
part of a specification. Each is put in the place of the definition it changes
to confirm that a property notices.

## 3. Runs

| Run | Instance | Shows |
|---|---|---|
| `core` | 4 authorities, 2 results, batches of up to 2, every threshold, both start paths and every state `sync_core_state` can leave | started by `start_consensus`, an instance has no winner while active and exactly one when committed; from anywhere, a commit needs the threshold, without a fallback the threshold of distinct witnesses, and decisions are final |
| `core_attesters` | the same, from `start_consensus` | **violated**: `CommitHasThresholdAttesters` |
| `protocol` | 2 witnesses and a stranger, threshold 2, collector threshold 1, 3 deliveries of any kind, 3 proofs, clock to 2 | `SealedAtThreshold`, `AggregateHasThreshold`, `CoreMirrorsTracker`, `TokenMatchesCommitment`, `OneProofPerAccusation` |
| `protocol_finalize` | the same with 2 deliveries, fair | **violated**: `ThresholdIsAnswered` |
| `frost` | 2 runs, 2 keys, 1 epoch change | `CommitsAlone`, `SlowNoncesPrivate`, `RetiredNeverSign` |
| `frost_nonce_once` | 3 runs | **violated**: `NonceUsedOnce` |
| `amp` | 2 replicas, 6 facts, a send and two deliveries, errors and retries | successor epochs need evidence, ratchets agree, a marker is used once unless lookups overlapped, a closed epoch stays closed, justified switches, epoch falls only on dispute, convergence |
| `amp_shadow` | 2 replicas, 3 facts | **violated**: `LiveSuccessorIsUsed` |
| `guard` | 3 sends of cost 1, 1, 2, limit 3, errors and restarts anywhere | limit, payment, refusals, and what holds while updates do not overlap |
| `guard_journal` | the same | **violated**: `JournalKeepsFacts` |
| `ceremony` | 4 sets of up to 3 requests, 2 participants, restarts, fair sweeps | `RefinesOutcome`, `CommittedNeverFails`, supersession without circles and recorded once, `EpochsHaveKeys` |
| `ceremony_outcome` | the same | **violated**: `CommittedIsValid` |

### Bounds and why they are enough

- Four authorities allow every threshold from one to all, a minority, a
  majority and a tie, and two results that split the votes. A batch of two is
  the smallest that can cross a threshold in its middle or name a witness twice.
- Two witnesses and a stranger reach every early return of the coordinator: a
  share too early, from a stranger, without a commitment, repeated, or for a
  sealed set. `CollectorThreshold = 1` is what `WitnessTracker::new()` gives
  every instance; `Threshold = 2` is then a configuration in which the set seals
  before it has the shares that aggregation wants.
- Three tasks are the smallest number with an eviction or a result between the
  two acquisitions of an Execute and another message after it. `Timeout = 1`
  with `MaxTime = 2` lets an instance expire.
- The three proofs are one accusation detected at two times and a proof that
  does not verify; a delta of two can repeat, cross and break off.
- Reuse of a nonce takes one run to fill the cache and two to use it: three
  runs in `frost_nonce_once`, two in `frost`.
- The facts of `amp` are the proposal of a removal, a proposal that carries the
  removal's id with other fields, the removal's certificate and commit, the
  certificate of a rival of the same parent, and a certificate of a later
  transition that counts one witness twice. They give parents that are
  observed, live, in conflict and finalized, and two epochs. Suppressions,
  conflict reports and checkpoints are left to the theorems, which hold for
  every set of facts. The rival appears at one replica, the removal at the
  other, and joins carry them across. One send that may fail and be repeated
  and two deliveries of it are the least with a stored marker that refuses a
  call and with two lookups that overlap; the theorem behind `MarkedOnce` has
  no such bound.
- Three sends and a limit of 3 (of 4) give a send that fits or not depending on
  the order, and two that share an operation.
- The four sets of ceremonies are a guardian rotation beside a device rotation
  and a removal that leaves one device, the three device flows, three
  enrollments, and two guardian rotations. They hold every pair of kinds that
  supersede one another, a chain of three supersessions, two flows that are
  given the same pending epoch, and every way to commit. A device ceremony
  with more than one device never commits in this version of the code:
  `verified_device_epoch_acceptance` always fails.

Symmetry is used where model values are only compared and no liveness property
is checked. `CHECK_DEADLOCK FALSE` is set where the system stops by design: an
instance is decided, all messages are handled, all facts are known. In `guard`
and `ceremony` deadlock is checked; a restart is always possible.

### Fairness

- `ConsensusProtocol!FinalizingSpec`: weak fairness of the rest of
  `finalize_consensus`: the executor polls every task that is ready and the
  lock wakes its waiters. The violation is that this step is never enabled, not
  that it is never taken. `Spec` has no fairness and only safety properties.
- `AmpChannel`: weak fairness of every join, the recurrent anti-entropy
  exchange between connected replicas (`aura-anti-entropy`, `aura-sync`).
  Nothing is assumed of sends, receives or new facts.
- `RotationCeremonies`: weak fairness of a sweep that finds a timeout. The
  cleanup task runs every second and every ceremony has a timeout. Nothing is
  assumed of flows, guardians, monitors or users.
- No fairness in the other modules; they have safety properties only.

## 4. Where the code and its documentation disagree

Six runs are expected to fail; `findings` in `PROJECT.json` quotes the lines.

- **`core_attesters`.** `gossip_shares` validates a batch against the state
  before it, so a batch with two shares of one witness is counted twice, and a
  commit may rest on fewer distinct witnesses than the threshold.
- **`protocol_finalize`.** The handler whose share seals the set calls
  `finalize_consensus` with the write guard of `instances` alive.
  `finalize_consensus` waits for the read lock, so the handler never returns and
  neither does any later user of the lock. The witness has the same shape in
  its SignRequest arm (`protocol/witness.rs:129` and `:213`).
- **`frost_nonce_once`.** `get_or_create_state` returns a clone. The fast path
  takes the nonce out of the clone, the cache keeps it, and the next fast run
  signs with it again.
- **`amp_shadow`.** Two parents with the same epoch and different commitments
  are two groups, and the first in hash order is used. A proposal made with the
  default, all-zero commitment comes first and hides a live successor.
- **`guard_journal`.** Two appends read the same journal; the later store
  removes the fact of the earlier one.
- **`ceremony_outcome`.** `mark_committed_with_metadata` looks only at
  `is_committed`. A ceremony that the sweep failed, or a newer request
  superseded, is committed by its flow all the same and is then both; a debug
  build panics on it.

Further observations, with no run of their own:

- The branch of `apply_share` that records equivocators cannot be reached, and
  `complete_via_fallback` only from a state written by `sync_core_state`
  (theorem `FallbackNeverCompletes`).
- A nonce commitment that arrives after the SignRequest changes the package
  under shares already accepted. A delayed Execute brings an evicted instance
  back, and a repeated one replaces it with all that its tracker collected.
- `WitnessTracker::new()` collects for a threshold of one, whatever the
  configuration says, so a set counts as complete with its first share. Nothing
  wrong is aggregated (`AggregateHasThreshold`), but a configuration with a
  threshold above one cannot complete: an orchestrator run commits only for a
  single committer under a threshold of one (`CommitsAlone`).
- Both callers of `get_delta` come after a lock that is never granted, and
  `add_proof` has no caller outside its tests, so evidence is merged and never
  handed on.
- When a transition becomes both certified and finalized, a replica that
  followed another one switches without an abort (`SwitchIsJustified` states
  exactly this). A certificate without its proposal is treated as a normal
  transition. The policy and the new epoch of a live successor are those of the
  first proposal in journal order that carries its id, also of one that
  `valid_proposed_bump` refuses because its fields do not match the id. The
  reduced epoch can fall on an A3 conflict (`EpochFallsOnDispute`).
- `amp_send` stores its marker before the guards are asked, and the base
  generation moves only with a checkpoint, so a refused send uses up the epoch's
  generation. `record_amp_replay_marker` looks a marker up and stores it in two
  awaited calls: two calls that overlap there both go on, and `MarkedOnce`
  excepts exactly them through the history variable `raced`.
- Overlapping charges give two receipts one nonce, and the stored `spent` can
  fall. All appended facts share the key `operation_executed`, so the
  last-writer-wins map keeps one value and only the operation set keeps all.
- A guardian flow commits whatever the tracker says by then: after a decline,
  after the sweep failed it, after it was superseded, or below the threshold
  (`ceremony_tracker.rs:109-131` asserts otherwise, in debug builds). A monitor
  looks for failure first and does not see such a commit; `RefinesOutcome` reads
  the tracker as the monitor does.
- A flow supersedes its rivals before it registers its own ceremony, so the
  `supersedes` list of the new one stays empty; a superseded flow is not
  stopped.
- A guardian rotation counts its epoch from the in-memory signing context,
  which is at 0 and which no flow advances, so it is always given epoch 1 and
  overwrites keys stored there, those of an activated epoch included. A device
  flow counts from the stored epoch, and rival flows are given the same one. A
  slow flow may take the stored epoch back to its own after a later one was
  activated.
- `rollback_key_rotation` passes the capabilities Read and Write to
  `secure_delete`, which requires Delete, and ignores the refusal: no rollback
  deletes anything. `EpochsHaveKeys` depends on this; its mutant shows what a
  permitted deletion would do to a rival of the same epoch.
- Each start of the application bootstraps the authority anew: the keys of
  epoch 0 are overwritten and the stored epoch is 0 again.
- The removal that leaves one device may still be aborted: without a signing
  context, consensus is taken to be required.

## 5. Properties in words

The comment above each property states it. The ones with most content:

- `AgreementFromStart`, `CommitRequiresThreshold`, `FastPathAttesters`:
  agreement and the quorum behind it, over both paths and any mix of direct and
  gossiped shares. The attesters are only counted where no fallback happened,
  because a gossip batch may repeat a witness.
- `SealedAtThreshold`, `AggregateHasThreshold`: the share set seals at the
  collector's threshold, and still no set with fewer shares than the configured
  threshold can be aggregated, because the package names every committer.
- `CoreMirrorsTracker`: the assertions the handlers make after each message
  never fire, for late, repeated and foreign messages and for instances that
  are replaced between two of them.
- `TokenMatchesCommitment`: holds while one Execute is in play. With two, the
  second overwrites the token of the first, so the condition is needed.
- `OneProofPerAccusation`: also for deltas that repeat an accusation with
  another detection time, and for merges that break off.
- `CommitsAlone`: no interleaving of signatures, evictions and epoch changes
  lets a part of a package pass for the whole.
- `SuccessorNeedsEvidence`, `SentIsAccepted`, `SwitchIsJustified`,
  `EpochFallsOnDispute`, `Convergence`: what replicas may rely on whatever the
  order of facts. `ClosedEpochStaysClosed`: once a live removal or cryptoshred
  has made a replica refuse the old epoch, no later fact makes it accept that
  epoch again, except one that contests the removal. `MarkedOnce`: one message
  per header and one delivery per message, over calls that interleave, fail and
  are repeated while the epoch moves.
- `WithinLimit`, `PaidBeforeSend`, `RefusalIsJustified`: hold under every
  interleaving, error and restart. `SerialChargesAccounted` and
  `SerialAppendsKept` (the stored amount is exactly the sum of the charges; no
  fact is lost) hold while the history variables `chargeRace` and
  `appendRace` record no overlap; section 4 says what happens after one.
- `RefinesOutcome`: `RotationCeremonies` implements `CeremonyOutcome` with
  `outcome` read off the tracker as a monitor reads it, failure first: what is
  open fails or commits once, the outcome is final, only a restart forgets, and
  nothing stays open for ever. `CommittedNeverFails`: a commit that came first
  is never followed by a failure.
- `SupersessionWellFounded`: the loops of rival flows never supersede one
  another in a circle. It depends on the order of two calls in each flow.
- `EpochsHaveKeys`: ceremonies share epochs, and still the activated epoch and
  every epoch a running flow may activate has stored keys, through cancels,
  rollbacks and restarts.

## 6. Proofs

TLAPS proves the following for every value of the constants that satisfies the
named assumptions of the modules (`AuthorityAssumption`, `ThresholdAssumption`,
`KeyAssumption`, `AmpAssumption`, `CallAssumption`, `GuardAssumption`,
`RotationAssumption` and the others): finite sets where the code counts,
a positive threshold where it is validated, and "none" values that are not
values. TLC evaluates each of them in the runs.

**`ConsensusCoreProofs`.** From every start, the states `sync_core_state`
leaves included: `TypeCorrect`; `CommitBacked` (a commit has the threshold);
`ChecksSucceed` (`check_invariants` accepts every instance, the property the
Kani harnesses of `core/verification` check per transition on bounded states);
`Finality`; `FastPathIsAttested`; and `FewAttestersNeedRepeats`, which carries
the finding of `core_attesters` further: a commit without threshold attesters
rests on repeated votes, and the step that first repeats a vote is a gossip
batch that names a witness twice. They rest on `AnyInv`, the well-formedness
`check_invariants` tests plus the types and `CommitRequiresThreshold`; the last
two add `OneVotePerWitness`, under which positions voting for a result inject
into its attesters (`VotesAreAttesters`). For instances of the transition
functions' own start: `Agreement` and `FallbackNeverCompletes`. That the winner
is unique is not inductive: a share may be added to a state in which another
result already has the threshold. `AgreementInv` adds that an active instance
has no winner, that proposals come from the witnesses and that there are no
equivocators. A share changes the count of its own result only (`CountOther`),
so the step that makes a winner makes one, and that step commits.

**`ConsensusProtocolProofs`.** For one device in both roles, any number of
deliveries, witnesses and proofs and both thresholds: `TypeCorrect`,
`ShareSetSeals`, `AggregateQuorum`, `CoreMirror`, `TokenOfCommitment`,
`OneProof`. The share set and the mirror are inductive together with
`SigningQuorum`: an instance in phase Sign has threshold committers, and one in
phase Execute has no shares. `AggregateQuorum` follows from it, since only a
set with a share of every committer aggregates. `ProtocolSyncsCore` composes
the protocol with the core: between two steps the shares of the tracker can be
listed as proposals (`Listing`) such that the mirrored state is one of
`ConsensusCore!SyncedInit`, the states the core's theorems start from, and
passes `check_invariants`, which `assert_invariants` asserts.
`TokenOfCommitment` needs which arm a task is in (`ArmOfTask`), that what was
sent is the nonce of an Execute that is over (`SentByExecute`), and that a
single Execute does not touch the instance after it cached its token
(`TokenKept`). `OneProof` rests on `MergeOneProof`, what one merge makes of any
delta. Two theorems carry the finding of `protocol_finalize` to every instance:
no result is ever returned (`SealedHandlerWaits`, from `Waiting`), and once a
SignRequest has found its instance or a share has sealed its set, the lock is
never free again and nothing reaches the instance in either role
(`KeptGuardBlocks`).

**`FrostOrchestratorProofs`.** `TypeCorrect`, `SlowPathPrivate`,
`RetiredNonces`, `CommitsAtThresholdOne`, `ReuseIsFastPath`. Privacy of the
nonces of a slow run is not inductive. `Drawn` puts every nonce in play below
the counter, `CacheLive` keeps retired nonces out of the cache and of the hands
of runs about to fill it, and `SlowOwn` says that the nonces of a slow run are
in no cache, no other run and no signature of another. From the same invariant,
`ReuseIsFastPath` says where the violation of `frost_nonce_once` comes from:
only a fast run's signature out of the cache ever gives a nonce a second user.
`CommitsAtThresholdOne` combines two facts: a committed run has a signature of
every committer (`CommitComplete`), and a tracker never counts more than one
signer (`Bookkeeping`).

**`AmpChannelProofs`.** `TypeCorrect`, `SuccessorEvidence`, `MarkedAtMostOnce`,
`RatchetsAgree`, `ClosedForGood`, `SwitchesAreJustified`,
`EpochFallsOnlyOnDispute`, for any set of replicas, calls and facts, and
`SuccessorUsedIffFirst`, which says when `LiveSuccessorIsUsed` fails: exactly
where the first parent of the epoch is not the one with the certificate. Two
lemmas carry the argument about facts: the epoch exists and every epoch below
it is reached (`ChanEpochDef`, from least and greatest elements of sets of
naturals), and facts only grow (`FactsGrow`), with what growth does to
certificates and finalizations (`EvidenceStays`). `HeaderAccepted` is the
arithmetic of the windows. `ClosedForGood` rests on `StillPending` (an
uncontested live removal stays the pending bump of its epoch until it is
finalized) and `StaysClosed` (either way the old epoch is not accepted;
`AcceptedIsKnown` says which epochs ever are). `SuccessorEvidence` is carried
from the step that takes the header to the end of the call
(`CallsHaveEvidence`). `MarkedAtMostOnce` needs that a completed call has left
its marker and that two calls past the lookup of one marker have raced
(`MarkedIInv`): the later lookup did not find the marker, so the other call was
between lookup and store.

**`GuardedSendProofs`.** `TypeCorrect`, `BudgetHolds`, `ChargeBeforeSend`,
`RefusalsJustified`, `SerialCharges`, `SerialAppends`, for any number of sends,
costs and limit. What was charged in all is the number of units of cost of the
charged sends (`TotalCharged`), a cardinality, so that a charge adds its cost
to it by counting a disjoint union (`AddUnits`) and no induction is needed.
`TotalInv` says that neither the stored amount nor what a task carries exceeds
that total, which is what a refusal needs; `ExactInv` says that without overlap
the stored amount equals it. `PayInv` follows the amount a task carries from
its check to its receipt. `ChargeInv` says that without overlap at most one
task is between read and store, and carries exactly the stored amount plus its
cost. `AppendInv` says the same of the journal, and that the cache equals
storage unless a task is between the two writes.

**`RotationCeremoniesProofs`.** `TypeCorrect`, `KeysOfEpochs`,
`SupersessionHasEnd`, `SupersessionAudited`, `CommitIsFinal`, and `Refinement`:
`SafetySpec` implements the safety part of `CeremonyOutcome`, each step a step
of the promise or a stutter, the commit of a failed ceremony being a stutter.
The invariant is the types, `EpochsHaveKeys`, `SupersessionWellFounded` and
`Ordered`: a flow that still supersedes has not registered its ceremony, so no
one can have superseded that, and no circle is closed. `SupersessionAudited`
rests on `RecordsInv`, which asks the same of ceremonies that are not tracked:
they have no record.

## 7. Only model-checked

- Liveness (`Convergence`, `ThresholdIsAnswered`, and the `Settles` part of
  `RefinesOutcome`): outside what the prover handles.

Every invariant and action property of the passing runs is a theorem of section
6; `RefinesOutcome` is one up to its liveness part.

## 8. Not modelled, and the plan

`components` in `PROJECT.json` lists every part with its reason. User
interfaces, test infrastructure, macros and effect handlers that only perform
I/O stay out. Cryptography, token evaluation and session-type projection belong
to libraries and stay abstract. Within the modelled parts: the fallback of
`storage.rs` that removes a file when a rename fails, the writers of the
journal other than AppendJournal, leakage records, and which AMP facts each
service is able to emit.

In order:

1. The stored tree operation log (`aura-anti-entropy/src/persistent.rs`,
   `aura-protocol/src/handlers/tree.rs`): two handlers with caches over one
   index, with restarts; then digest exchange and push over lossy links.
2. Commitment tree reduction as operators, checked against a reference on small
   trees; convergence of replicas on top.
3. Distributed key generation, recovery and invitation ceremonies as
   implementations of `CeremonyOutcome`.
4. Hold manager, reconfiguration manager, rendezvous and service actors.
5. Composition of the `AmpChannel` calls with the charge and append steps of
   `GuardedSend`, and of several `ConsensusProtocol` devices over a network. The
   instances have to shrink first: the AMP run alone has about 90,000 states.

## 9. Running

    tlc -config guard.cfg MCGuardedSend
    tlapm GuardedSendProofs.tla

`runs` in `PROJECT.json` pairs each configuration with its module.
