-------------------------- MODULE FrostOrchestrator --------------------------
(***************************************************************************)
(* FrostConsensusOrchestrator (frost.rs) and the witness nonce cache       *)
(* (witness.rs, WitnessSet): concurrent calls of run_consensus on one      *)
(* orchestrator, each taking the fast path over cached nonces or the slow  *)
(* path over new ones, with epoch changes and stale evictions in between.  *)
(* A step ends where the code awaits a lock or a random value.             *)
(*                                                                         *)
(* Abstractions: a nonce is a number drawn from a counter and stands for   *)
(* its commitment too; a FROST share is its signer.  config.epoch never    *)
(* changes, so every cached nonce carries it.  Aggregation succeeds when   *)
(* every committer of the package has signed.                              *)
(***************************************************************************)
EXTENDS Naturals, FiniteSets

CONSTANTS
  Run,         \* calls of run_consensus
  Key,         \* witnesses whose key package is held here
  Threshold,   \* config.threshold()
  MaxChanges,  \* bound on epoch changes
  None         \* no cached nonce

ASSUME KeyAssumption == IsFiniteSet(Key) /\ Threshold \in Nat \ {0}
ASSUME BoundAssumption == MaxChanges \in Nat
ASSUME NoneAssumption == None \notin Nat

VARIABLES
  cache,       \* next_nonce of every WitnessState
  instances,   \* runs with an entry in the instances map
  pc,          \* where a run is
  package,     \* commitments a run aggregates
  todo,        \* witnesses a run has still to sign for
  signed,      \* signers its WitnessTracker counts
  pending,     \* <<witness, nonce>> a slow run is about to cache
  fresh,       \* nonces generated so far
  used,        \* history: <<nonce, run>> for every signature made
  changes,     \* epoch changes handled
  retired      \* history: nonces an epoch change found in the cache

vars == <<cache, instances, pc, package, todo, signed, pending, fresh, used,
          changes, retired>>

history == <<changes, retired>>

Steps == {"idle", "collect", "fast", "slow", "sign", "cache", "committed", "failed"}

NoPackage == [w \in Key |-> None]

Init ==
  /\ cache = [w \in Key |-> None]
  /\ instances = {}
  /\ pc = [r \in Run |-> "idle"]
  /\ package = [r \in Run |-> NoPackage]
  /\ todo = [r \in Run |-> {}]
  /\ signed = [r \in Run |-> {}]
  /\ pending = [r \in Run |-> <<>>]
  /\ fresh = 0
  /\ used = {}
  /\ changes = 0
  /\ retired = {}

Goto(r, step) == pc' = [pc EXCEPT ![r] = step]

(* collect_cached_commitments. *)
Cached == {w \in Key : cache[w] # None}

(* run_consensus: any instance that has outlived the timeout is evicted,   *)
(* then has_fast_path_quorum picks the path.                               *)
Start(r) ==
  /\ pc[r] = "idle"
  /\ instances' \in SUBSET instances
  /\ Goto(r, IF Cardinality(Cached) >= Threshold THEN "collect" ELSE "slow")
  /\ UNCHANGED <<cache, package, todo, signed, pending, fresh, used, history>>

(* run_fast_path up to its loop.  The cache may have been emptied since.   *)
Collect(r) ==
  /\ pc[r] = "collect"
  /\ \/ /\ Cardinality(Cached) < Threshold
        /\ Goto(r, "slow")
        /\ UNCHANGED <<package, todo, instances>>
     \/ /\ Cardinality(Cached) >= Threshold
        /\ package' = [package EXCEPT ![r] = cache]
        /\ todo' = [todo EXCEPT ![r] = Key]
        /\ instances' = instances \cup {r}
        /\ Goto(r, "fast")
  /\ UNCHANGED <<cache, signed, pending, fresh, used, history>>

(* WitnessTracker::new() has threshold one: the first signature seals the  *)
(* collector, and add_signature's error for the others is dropped.         *)
AddSignature(r, w) == signed' = [signed EXCEPT ![r] = IF @ = {} THEN {w} ELSE @]

(* Mutant: the token comes from the commitments collected at the start. *)
FastSignCollected(r, w) ==
  /\ pc[r] = "fast"
  /\ w \in todo[r]
  /\ todo' = [todo EXCEPT ![r] = @ \ {w}]
  /\ \/ package[r][w] = None /\ UNCHANGED <<signed, used>>
     \/ /\ package[r][w] # None
        /\ AddSignature(r, w)
        /\ used' = used \cup {<<package[r][w], r>>}
  /\ UNCHANGED <<cache, instances, pc, package, pending, fresh, history>>

(* One witness of run_fast_path's loop.  get_or_create_state returns a     *)
(* clone, so take_nonce empties, and set_next_nonce fills, the clone only. *)
(* A nonce other than the one aggregated makes sign_with_nonce fail.       *)
FastSign(r, w) ==
  /\ pc[r] = "fast"
  /\ w \in todo[r]
  /\ todo' = [todo EXCEPT ![r] = @ \ {w}]
  /\ \/ /\ cache[w] = None
        /\ UNCHANGED <<pc, signed, used>>
     \/ /\ cache[w] # None /\ cache[w] # package[r][w]
        /\ Goto(r, "failed")
        /\ UNCHANGED <<signed, used>>
     \/ /\ cache[w] # None /\ cache[w] = package[r][w]
        /\ AddSignature(r, w)
        /\ used' = used \cup {<<cache[w], r>>}
        /\ UNCHANGED pc
  /\ UNCHANGED <<cache, instances, package, pending, fresh, history>>

(* run_slow_path up to phase 2: a new nonce per key, in whatever order.    *)
SlowNonces(r) ==
  /\ pc[r] = "slow"
  /\ instances' = instances \cup {r}
  /\ \E drawn \in [Key -> fresh..(fresh + Cardinality(Key) - 1)] :
       /\ \A v, w \in Key : drawn[v] = drawn[w] => v = w
       /\ package' = [package EXCEPT ![r] = drawn]
  /\ fresh' = fresh + Cardinality(Key)
  /\ \/ /\ Cardinality(Key) < Threshold
        /\ Goto(r, "failed")
        /\ UNCHANGED todo
     \/ /\ Cardinality(Key) >= Threshold
        /\ Goto(r, "sign")
        /\ todo' = [todo EXCEPT ![r] = Key]
  /\ UNCHANGED <<cache, signed, pending, used, history>>

(* One witness of phase 2, up to the nonce for the next round. *)
SlowSign(r, w) ==
  /\ pc[r] = "sign"
  /\ w \in todo[r]
  /\ todo' = [todo EXCEPT ![r] = @ \ {w}]
  /\ AddSignature(r, w)
  /\ used' = used \cup {<<package[r][w], r>>}
  /\ pending' = [pending EXCEPT ![r] = <<w, fresh>>]
  /\ fresh' = fresh + 1
  /\ Goto(r, "cache")
  /\ UNCHANGED <<cache, instances, package, history>>

(* Mutant: the nonce just used is cached again. *)
UpdateWitnessNonceUsed(r) ==
  /\ pc[r] = "cache"
  /\ cache' = [cache EXCEPT ![pending[r][1]] = package[r][pending[r][1]]]
  /\ pending' = [pending EXCEPT ![r] = <<>>]
  /\ Goto(r, "sign")
  /\ UNCHANGED <<instances, package, todo, signed, fresh, used, history>>

(* update_witness_nonce, once the states lock is granted. *)
UpdateWitnessNonce(r) ==
  /\ pc[r] = "cache"
  /\ cache' = [cache EXCEPT ![pending[r][1]] = pending[r][2]]
  /\ pending' = [pending EXCEPT ![r] = <<>>]
  /\ Goto(r, "sign")
  /\ UNCHANGED <<instances, package, todo, signed, fresh, used, history>>

Committers(r) == {w \in Key : package[r][w] # None}

(* Mutant: the signers are not counted against the threshold. *)
FinalizeUncounted(r) ==
  /\ pc[r] \in {"fast", "sign"}
  /\ todo[r] = {}
  /\ \/ /\ signed[r] # {} /\ r \in instances
        /\ instances' = instances \ {r}
        /\ Goto(r, "committed")
     \/ /\ signed[r] = {} \/ r \notin instances
        /\ Goto(r, "failed")
        /\ UNCHANGED instances
  /\ UNCHANGED <<cache, package, todo, signed, pending, fresh, used, history>>

(* finalize_consensus: has_signature_threshold, the instance, aggregation  *)
(* and CommitFact::verify; a failure leaves the instance in the map.       *)
Finalize(r) ==
  /\ pc[r] \in {"fast", "sign"}
  /\ todo[r] = {}
  /\ LET ok == /\ signed[r] # {}
               /\ r \in instances
               /\ signed[r] = Committers(r)
               /\ Cardinality(signed[r]) >= Threshold
     IN /\ Goto(r, IF ok THEN "committed" ELSE "failed")
        /\ instances' = IF ok THEN instances \ {r} ELSE instances
  /\ UNCHANGED <<cache, package, todo, signed, pending, fresh, used, history>>

(* Mutant: the witness states themselves are dropped. *)
HandleEpochChangeClears ==
  /\ changes < MaxChanges
  /\ changes' = changes + 1
  /\ cache' = [w \in {} |-> None]
  /\ retired' = retired \cup {cache[w] : w \in Cached}
  /\ UNCHANGED <<instances, pc, package, todo, signed, pending, fresh, used>>

(* handle_epoch_change with a new epoch: invalidate_all_caches. *)
HandleEpochChange ==
  /\ changes < MaxChanges
  /\ changes' = changes + 1
  /\ cache' = [w \in Key |-> None]
  /\ retired' = retired \cup {cache[w] : w \in Cached}
  /\ UNCHANGED <<instances, pc, package, todo, signed, pending, fresh, used>>

Next ==
  \/ \E r \in Run :
       \/ Start(r) \/ Collect(r) \/ SlowNonces(r)
       \/ UpdateWitnessNonce(r) \/ Finalize(r)
       \/ \E w \in Key : FastSign(r, w) \/ SlowSign(r, w)
  \/ HandleEpochChange

Spec == Init /\ [][Next]_vars

-----------------------------------------------------------------------------

(* Type invariant of the cache, the runs and the history. *)
TypeOK ==
  /\ cache \in [Key -> Nat \cup {None}]
  /\ instances \subseteq Run
  /\ pc \in [Run -> Steps]
  /\ package \in [Run -> [Key -> Nat \cup {None}]]
  /\ todo \in [Run -> SUBSET Key]
  /\ signed \in [Run -> SUBSET Key]
  /\ \A r \in Run : pending[r] = <<>> \/ pending[r] \in Key \X Nat
  /\ fresh \in Nat
  /\ used \subseteq Nat \X Run
  /\ changes \in 0..MaxChanges
  /\ retired \subseteq Nat

(* A run commits under a threshold of one only, and for a package with a   *)
(* single committer.  Its collector seals at the first signature, so with  *)
(* a second committer, or a larger threshold, no order of signatures,      *)
(* cache updates, evictions and epoch changes gets it through              *)
(* finalize_consensus, and no part of a package passes for the whole.      *)
CommitsAlone ==
  \A r \in Run : pc[r] = "committed" =>
    Threshold = 1 /\ \E w \in Key : Committers(r) = {w}

(* The nonces of a slow run are its own: no other run signs with them and  *)
(* none of them is ever left in the cache for a later fast run.            *)
SlowNoncesPrivate ==
  \A r \in Run : pc[r] \in {"sign", "cache"} =>
    \A w \in Key : /\ \A v \in Key : cache[v] # package[r][w]
                   /\ \A s \in Run \ {r} : <<package[r][w], s>> \notin used

(* A nonce that an epoch change found in the cache signs nothing any more, *)
(* not even in a fast run that collected its commitment before the change  *)
(* (get_or_create_state is asked again for each signature).                *)
RetiredNeverSign ==
  [][\A n \in retired, r \in Run : <<n, r>> \in used' => <<n, r>> \in used]_vars

(* docs/108_consensus.md: "Each nonce is used exactly once". *)
NonceUsedOnce ==
  \A u, v \in used : u[1] = v[1] => u[2] = v[2]

=============================================================================
