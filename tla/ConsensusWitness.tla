-------------------------- MODULE ConsensusWitness --------------------------
(***************************************************************************)
(* The witness role of ConsensusProtocol (protocol/witness.rs): one        *)
(* device, one consensus id, and a task per delivered message, each a run  *)
(* of participate_as_witness.  Between two acquisitions of the RwLock      *)
(* `instances` the tasks interleave; messages may be duplicated, reordered *)
(* and late.                                                               *)
(*                                                                         *)
(* A guard taken and dropped in one statement is one step that needs the   *)
(* lock to be free.  Only the SignRequest arm keeps a guard: it asks for   *)
(* the write lock with its own read guard held, and the waiting writer     *)
(* turns every other request away (async_lock prefers writers).            *)
(*                                                                         *)
(* Abstractions: a nonce is a number drawn from a counter, of the tracker  *)
(* in an instance only who committed, who signed and whether somebody      *)
(* reported a conflict is kept, and of the core state the witnesses of its *)
(* proposals, the one part that ever changes.                              *)
(***************************************************************************)
EXTENDS EvidenceTracker

CONSTANTS
  Authority,   \* everyone a message may come from
  Task,        \* deliveries of messages to this device
  Timeout,     \* config.timeout_ms
  MaxTime,     \* bound on the clock
  None         \* no instance, no token

ASSUME TimeAssumption == Timeout \in Nat /\ MaxTime \in Nat
ASSUME NoneAssumption == None \notin Nat

VARIABLES
  now,         \* the physical clock of the device
  inst,        \* instances.get(consensus_id)
  lock,        \* guard of `instances` that is held between two steps
  evidence,    \* proofs in the evidence tracker
  fresh,       \* nonces generated so far
  kind,        \* message a task handles
  pc,          \* where a task is
  stamp,       \* start_time_ms a task has read
  nonce,       \* nonce a task has generated
  committed    \* nonces sent to the coordinator in NonceCommit

tasks == <<fresh, kind, pc, stamp, nonce, committed>>
witnessVars == <<now, inst, lock, evidence, tasks>>

Kinds == {"Execute", "SignRequest", "ConsensusResult", "Other"}

Steps == {"idle", "cleanup", "merge", "stamp", "insert", "cache", "guard",
          "read", "write", "verify", "done"}

(* ProtocolInstance. *)
Instance ==
  [start : 0..MaxTime, token : Nat \cup {None}, phase : {"Execute", "Sign"},
   committers : SUBSET Authority, shares : SUBSET Authority, sealed : BOOLEAN,
   core : SUBSET Authority, conflicts : BOOLEAN]

(* The instance an Execute builds, the only place that builds one. *)
NewInstance(start) ==
  [start |-> start, token |-> None, phase |-> "Execute",
   committers |-> {}, shares |-> {}, sealed |-> FALSE,
   core |-> {}, conflicts |-> FALSE]

WitnessInit ==
  /\ now = 0
  /\ inst = None
  /\ lock = "free"
  /\ evidence = {}
  /\ fresh = 0
  /\ kind = [t \in Task |-> "Other"]
  /\ pc = [t \in Task |-> "idle"]
  /\ stamp = [t \in Task |-> 0]
  /\ nonce = [t \in Task |-> None]
  /\ committed = {}

LockFree == lock = "free"

Goto(t, step) == pc' = [pc EXCEPT ![t] = step]

Tick ==
  /\ now < MaxTime
  /\ now' = now + 1
  /\ UNCHANGED <<inst, lock, evidence, tasks>>

Deliver(t, k) ==
  /\ pc[t] = "idle"
  /\ kind' = [kind EXCEPT ![t] = k]
  /\ Goto(t, "cleanup")
  /\ UNCHANGED <<now, inst, lock, evidence, fresh, stamp, nonce, committed>>

(* A SignRequest carries no evidence, every other message may. *)
AfterCleanup(k) == IF k = "SignRequest" THEN "read" ELSE "merge"

(* cleanup_stale_instances at the head of every message, skipped when the  *)
(* clock fails.                                                            *)
Cleanup(t) ==
  /\ pc[t] = "cleanup"
  /\ \/ UNCHANGED inst
     \/ /\ LockFree
        /\ inst' = IF inst # None /\ now - inst.start > Timeout THEN None ELSE inst
  /\ Goto(t, AfterCleanup(kind[t]))
  /\ UNCHANGED <<now, lock, evidence, fresh, kind, stamp, nonce, committed>>

(* The match on the message; other messages are not for a witness. *)
FirstStep(k) == CASE k = "Execute" -> "stamp"
                  [] k = "ConsensusResult" -> "verify"
                  [] OTHER -> "done"

(* The evidence is merged before the message is looked at, under the lock  *)
(* of the tracker, which nobody keeps.                                     *)
MergeEvidence(t, delta) ==
  /\ pc[t] = "merge"
  /\ evidence' = Merge(evidence, delta)
  /\ Goto(t, FirstStep(kind[t]))
  /\ UNCHANGED <<now, inst, lock, fresh, kind, stamp, nonce, committed>>

-----------------------------------------------------------------------------
(* Execute *)

(* Mutant: the deadline is stored instead of the start time. *)
StampDeadline(t) ==
  /\ pc[t] = "stamp"
  /\ stamp' = [stamp EXCEPT ![t] = now + Timeout]
  /\ Goto(t, "insert")
  /\ UNCHANGED <<now, inst, lock, evidence, fresh, kind, nonce, committed>>

(* The instance is built, and its start time read, before the lock; a      *)
(* clock that fails ends the task.                                         *)
Stamp(t) ==
  /\ pc[t] = "stamp"
  /\ \/ stamp' = [stamp EXCEPT ![t] = now] /\ Goto(t, "insert")
     \/ UNCHANGED stamp /\ Goto(t, "done")
  /\ UNCHANGED <<now, inst, lock, evidence, fresh, kind, nonce, committed>>

(* HashMap::insert: an instance already there is replaced, with all that   *)
(* its tracker had collected.                                              *)
Insert(t) ==
  /\ pc[t] = "insert"
  /\ LockFree
  /\ inst' = NewInstance(stamp[t])
  /\ Goto(t, "cache")
  /\ UNCHANGED <<now, lock, evidence, fresh, kind, stamp, nonce, committed>>

(* Mutant: the token is dropped with the commitment sent. *)
CacheNonceDropped(t) ==
  /\ pc[t] = "cache"
  /\ LockFree
  /\ fresh' = fresh + 1
  /\ nonce' = [nonce EXCEPT ![t] = fresh]
  /\ Goto(t, "guard")
  /\ UNCHANGED <<now, inst, lock, evidence, kind, stamp, committed>>

(* generate_nonce_commitment: the token goes into the instance, if the     *)
(* instance is still there.                                                *)
CacheNonce(t) ==
  /\ pc[t] = "cache"
  /\ LockFree
  /\ fresh' = fresh + 1
  /\ nonce' = [nonce EXCEPT ![t] = fresh]
  /\ inst' = IF inst # None THEN [inst EXCEPT !.token = fresh] ELSE inst
  /\ Goto(t, "guard")
  /\ UNCHANGED <<now, lock, evidence, kind, stamp, committed>>

(* A share that cannot be decoded ends the task before it has a nonce, and *)
(* the instance stays without a token.                                     *)
NonceError(t) ==
  /\ pc[t] = "cache"
  /\ Goto(t, "done")
  /\ UNCHANGED <<now, inst, lock, evidence, fresh, kind, stamp, nonce, committed>>

(* The send guard allows the NonceCommit, or denies it. *)
SendGuard(t) ==
  /\ pc[t] = "guard"
  /\ committed' \in {committed, committed \cup {nonce[t]}}
  /\ Goto(t, "done")
  /\ UNCHANGED <<now, inst, lock, evidence, fresh, kind, stamp, nonce>>

-----------------------------------------------------------------------------
(* SignRequest *)

(* instances.read().await; an unknown instance ends the task.  For a known *)
(* one generate_signature_response awaits write() while the read guard of  *)
(* its caller is alive: the task stays at "write", and get_delta behind it *)
(* is never called.                                                        *)
AcquireRead(t) ==
  /\ pc[t] = "read"
  /\ LockFree
  /\ \/ inst = None /\ Goto(t, "done") /\ UNCHANGED lock
     \/ inst # None /\ Goto(t, "write") /\ lock' = "read"
  /\ UNCHANGED <<now, inst, evidence, fresh, kind, stamp, nonce, committed>>

-----------------------------------------------------------------------------
(* ConsensusResult *)

(* commit_fact.verify fails, or the instance is removed. *)
HandleResult(t) ==
  /\ pc[t] = "verify"
  /\ Goto(t, "done")
  /\ \/ UNCHANGED inst
     \/ LockFree /\ inst' = None
  /\ UNCHANGED <<now, lock, evidence, fresh, kind, stamp, nonce, committed>>

-----------------------------------------------------------------------------

Step(t) ==
  \/ Cleanup(t)
  \/ \E delta \in Delta : MergeEvidence(t, delta)
  \/ Stamp(t) \/ Insert(t) \/ CacheNonce(t) \/ NonceError(t) \/ SendGuard(t)
  \/ AcquireRead(t)
  \/ HandleResult(t)

(* What a device does as a witness. *)
WitnessNext == \E t \in Task : Step(t) \/ \E k \in Kinds : Deliver(t, k)

Executes == {t \in Task : kind[t] = "Execute" /\ pc[t] # "idle"}

=============================================================================
