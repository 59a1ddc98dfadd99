---------------------- MODULE FrostOrchestratorProofs ----------------------
(***************************************************************************)
(* Proofs about FrostOrchestrator, for any number of concurrent runs, keys *)
(* and epoch changes.                                                      *)
(***************************************************************************)
EXTENDS FrostOrchestrator, FiniteSetTheorems, TLAPS

Types ==
  /\ cache \in [Key -> Nat \cup {None}]
  /\ pc \in [Run -> Steps]
  /\ package \in [Run -> [Key -> Nat \cup {None}]]
  /\ pending \in [Run -> (Key \X Nat) \cup {<<>>}]
  /\ \A r \in Run : pc[r] = "cache" => pending[r] \in Key \X Nat
  /\ fresh \in Nat
  /\ used \in SUBSET (Nat \X Run)
  /\ retired \in SUBSET Nat

Slow(r) == pc[r] \in {"sign", "cache"}

(* Every nonce in play was drawn from the counter. *)
Drawn ==
  /\ \A w \in Key : cache[w] # None => cache[w] < fresh
  /\ \A r \in Run : pc[r] = "cache" => pending[r][2] < fresh
  /\ \A r \in Run, w \in Key : Slow(r) => package[r][w] \in Nat /\ package[r][w] < fresh
  /\ \A n \in Nat, r \in Run : <<n, r>> \in used => n < fresh
  /\ \A n \in retired : n < fresh

(* The cache holds no retired nonce, and neither does a run that is about  *)
(* to fill it; what it is about to cache is in no one else's hands.        *)
CacheLive ==
  /\ \A w \in Key : cache[w] \notin retired
  /\ \A r \in Run : pc[r] = "cache" =>
       /\ pending[r][2] \notin retired
       /\ \A v \in Key : cache[v] # pending[r][2]
       /\ \A s \in Run \ {r} : pc[s] = "cache" => pending[s][2] # pending[r][2]

(* The nonces of a slow run are its own. *)
SlowOwn ==
  \A r \in Run, w \in Key : Slow(r) =>
    /\ package[r][w] \notin retired
    /\ \A v \in Key : cache[v] # package[r][w]
    /\ \A s \in Run \ {r} : <<package[r][w], s>> \notin used
    /\ \A s \in Run : pc[s] = "cache" => pending[s][2] # package[r][w]
    /\ \A s \in Run \ {r}, v \in Key : Slow(s) => package[s][v] # package[r][w]

IInv == Types /\ Drawn /\ CacheLive /\ SlowOwn

(* The counter moves by a natural number. *)
LEMMA KeyCount == Cardinality(Key) \in Nat
BY KeyAssumption, FS_CardinalityType

(* Nothing is drawn, cached or retired at the start. *)
LEMMA InitInvariant == Init => IInv
BY NoneAssumption DEF Init, IInv, Types, Drawn, CacheLive, SlowOwn, Slow, NoPackage, Steps

(* Starting, collecting and finalizing move no nonce of a slow run: a run  *)
(* that becomes slow by another step than SlowNonces would break this.     *)
LEMMA QuietInductive ==
  ASSUME IInv, NEW r \in Run, Start(r) \/ Collect(r) \/ Finalize(r)
  PROVE  IInv'
<1>1. UNCHANGED <<cache, pending, fresh, used, retired>>
  BY DEF Start, Collect, Finalize, history
<1>2. PICK s \in {"collect", "slow", "fast", "committed", "failed"} : pc' = [pc EXCEPT ![r] = s]
  BY DEF Start, Collect, Finalize, Goto
<1>3. package' \in [Run -> [Key -> Nat \cup {None}]]
  BY DEF IInv, Types, Start, Collect, Finalize
<1>4. \A q \in Run : q # r => package'[q] = package[q] /\ pc'[q] = pc[q]
  BY <1>2 DEF IInv, Types, Start, Collect, Finalize
<1>5. pc'[r] = s /\ ~Slow(r)' /\ pc'[r] # "cache"
  BY <1>2 DEF IInv, Types, Slow
<1>6. \A q \in Run : Slow(q)' => q # r /\ Slow(q)
  BY <1>4, <1>5 DEF Slow
<1>7. Types'
  BY <1>1, <1>2, <1>3, <1>4, <1>5 DEF IInv, Types, Steps
<1>8. Drawn'
  BY <1>1, <1>4, <1>5, <1>6 DEF IInv, Drawn
<1>9. CacheLive'
  BY <1>1, <1>4, <1>5 DEF IInv, CacheLive
<1>10. SlowOwn'
  BY <1>1, <1>4, <1>5, <1>6 DEF IInv, SlowOwn
<1> QED BY <1>7, <1>8, <1>9, <1>10 DEF IInv

(* A fast run signs with what the cache holds, which belongs to no slow    *)
(* run.                                                                    *)
LEMMA FastSignInductive ==
  ASSUME IInv, NEW r \in Run, NEW w \in Key, FastSign(r, w)
  PROVE  IInv'
<1>1. UNCHANGED <<cache, package, pending, fresh, retired>>
  BY DEF FastSign, history
<1>2. pc' = pc \/ pc' = [pc EXCEPT ![r] = "failed"]
  BY DEF FastSign, Goto
<1>3. \A q \in Run : /\ Slow(q)' => Slow(q)
                     /\ pc'[q] = "cache" => pc[q] = "cache"
  BY <1>2 DEF IInv, Types, Slow
<1>4. \/ used' = used
      \/ cache[w] \in Nat /\ used' = used \cup {<<cache[w], r>>}
  BY DEF IInv, Types, FastSign
<1>5. Types'
  BY <1>1, <1>2, <1>3, <1>4 DEF IInv, Types, Steps
<1>6. Drawn'
  BY <1>1, <1>3, <1>4, NoneAssumption DEF IInv, Drawn
<1>7. CacheLive'
  BY <1>1, <1>3 DEF IInv, CacheLive
<1>8. SlowOwn'
  BY <1>1, <1>3, <1>4 DEF IInv, SlowOwn
<1> QED BY <1>5, <1>6, <1>7, <1>8 DEF IInv

(* The nonces a slow run draws are beyond the counter, so no one holds     *)
(* them yet.                                                               *)
LEMMA SlowNoncesInductive ==
  ASSUME IInv, NEW r \in Run, SlowNonces(r)
  PROVE  IInv'
<1> DEFINE n == Cardinality(Key)
<1>n. n \in Nat
  BY KeyCount
<1> HIDE DEF n
<1>1. UNCHANGED <<cache, pending, used, retired>> /\ fresh' = fresh + n
  BY DEF SlowNonces, history, n
<1>2. PICK drawn \in [Key -> fresh..(fresh + n - 1)] : package' = [package EXCEPT ![r] = drawn]
  BY DEF SlowNonces, n
<1>3. PICK s \in {"failed", "sign"} : pc' = [pc EXCEPT ![r] = s]
  BY DEF SlowNonces, Goto
<1>4. fresh \in Nat /\ fresh' \in Nat /\ fresh <= fresh'
  BY <1>1, <1>n DEF IInv, Types
<1>5. \A w \in Key : drawn[w] \in Nat /\ fresh <= drawn[w] /\ drawn[w] < fresh'
  BY <1>1, <1>2, <1>4, <1>n
<1>6. package'[r] = drawn /\ pc'[r] = s
  BY <1>2, <1>3 DEF IInv, Types
<1>7. \A q \in Run : q # r => package'[q] = package[q] /\ pc'[q] = pc[q] /\ (Slow(q)' <=> Slow(q))
  BY <1>2, <1>3 DEF IInv, Types, Slow
<1>8. \A q \in Run : pc'[q] = "cache" => q # r /\ pc[q] = "cache"
  BY <1>6, <1>7
<1>9. Types'
  <2>1. drawn \in [Key -> Nat \cup {None}]
    BY <1>2, <1>5
  <2>2. package' \in [Run -> [Key -> Nat \cup {None}]]
    BY <1>2, <2>1 DEF IInv, Types
  <2>3. pc' \in [Run -> Steps]
    BY <1>3 DEF IInv, Types, Steps
  <2> QED BY <1>1, <1>4, <1>8, <2>2, <2>3 DEF IInv, Types
<1>10. Drawn'
  <2>1. \A w \in Key : cache[w] # None => cache[w] < fresh'
    BY <1>4 DEF IInv, Types, Drawn
  <2>2. \A q \in Run : pc'[q] = "cache" => pending[q][2] < fresh'
    BY <1>4, <1>8 DEF IInv, Types, Drawn
  <2>3. \A q \in Run, w \in Key : Slow(q)' => package'[q][w] \in Nat /\ package'[q][w] < fresh'
    BY <1>4, <1>5, <1>6, <1>7 DEF IInv, Drawn
  <2>4. \A k \in Nat, q \in Run : <<k, q>> \in used => k < fresh'
    BY <1>4 DEF IInv, Drawn
  <2>5. \A k \in retired : k < fresh'
    BY <1>4 DEF IInv, Types, Drawn
  <2> QED BY <1>1, <2>1, <2>2, <2>3, <2>4, <2>5 DEF Drawn
<1>11. CacheLive'
  BY <1>1, <1>8 DEF IInv, CacheLive
<1>12. SlowOwn'
  <2>1. \A w \in Key : /\ drawn[w] \notin retired
                       /\ \A v \in Key : cache[v] # drawn[w]
                       /\ \A q \in Run : <<drawn[w], q>> \notin used
    BY <1>4, <1>5, NoneAssumption DEF IInv, Types, Drawn
  <2>2. \A w \in Key, q \in Run : pc[q] = "cache" => pending[q][2] # drawn[w]
    BY <1>4, <1>5 DEF IInv, Types, Drawn
  <2>3. \A w, v \in Key, q \in Run : Slow(q) => package[q][v] # drawn[w]
    BY <1>4, <1>5 DEF IInv, Drawn
  <2>4. ASSUME NEW q \in Run, NEW w \in Key, Slow(q)'
        PROVE  /\ package'[q][w] \notin retired
               /\ \A v \in Key : cache[v] # package'[q][w]
               /\ \A t \in Run \ {q} : <<package'[q][w], t>> \notin used
    BY <1>6, <1>7, <2>1, <2>4 DEF IInv, SlowOwn
  <2>5. ASSUME NEW q \in Run, NEW w \in Key, Slow(q)', NEW t \in Run, pc'[t] = "cache"
        PROVE  pending[t][2] # package'[q][w]
    BY <1>6, <1>7, <1>8, <2>2, <2>5 DEF IInv, SlowOwn
  <2>6. ASSUME NEW q \in Run, NEW w \in Key, Slow(q)', NEW t \in Run \ {q}, NEW v \in Key, Slow(t)'
        PROVE  package'[t][v] # package'[q][w]
    BY <1>6, <1>7, <2>3, <2>6 DEF IInv, SlowOwn
  <2> QED BY <1>1, <2>4, <2>5, <2>6 DEF SlowOwn
<1> QED BY <1>9, <1>10, <1>11, <1>12 DEF IInv

(* Signing in a slow run uses a nonce of that run alone, and the one drawn *)
(* for the next round is new.                                              *)
LEMMA SlowSignInductive ==
  ASSUME IInv, NEW r \in Run, NEW w \in Key, SlowSign(r, w)
  PROVE  IInv'
<1>1. UNCHANGED <<cache, package, retired>> /\ fresh' = fresh + 1
  BY DEF SlowSign, history
<1>2. /\ pc[r] = "sign"
      /\ used' = used \cup {<<package[r][w], r>>}
      /\ pending' = [pending EXCEPT ![r] = <<w, fresh>>]
      /\ pc' = [pc EXCEPT ![r] = "cache"]
  BY DEF SlowSign, Goto
<1>3. fresh \in Nat /\ fresh' \in Nat /\ fresh < fresh'
  BY <1>1 DEF IInv, Types
<1>4. pending'[r] = <<w, fresh>> /\ pc'[r] = "cache" /\ Slow(r)
  BY <1>2 DEF IInv, Types, Slow
<1>5. \A q \in Run : q # r => pending'[q] = pending[q] /\ pc'[q] = pc[q]
  BY <1>2 DEF IInv, Types
<1>6. \A q \in Run : Slow(q)' <=> Slow(q)
  BY <1>4, <1>5 DEF Slow
<1>7. package[r][w] \in Nat /\ package[r][w] < fresh
  BY <1>4 DEF IInv, Drawn
<1>8. Types'
  <2>1. pending' \in [Run -> (Key \X Nat) \cup {<<>>}]
    BY <1>2, <1>3 DEF IInv, Types
  <2>2. ASSUME NEW q \in Run, pc'[q] = "cache"
        PROVE  pending'[q] \in Key \X Nat
    <3>1. CASE q = r
      BY <1>3, <1>4, <3>1
    <3>2. CASE q # r
      BY <1>5, <2>2, <3>2 DEF IInv, Types
    <3> QED BY <3>1, <3>2
  <2>3. pc' \in [Run -> Steps]
    BY <1>2 DEF IInv, Types, Steps
  <2>4. used' \in SUBSET (Nat \X Run)
    BY <1>2, <1>7 DEF IInv, Types
  <2> QED BY <1>1, <1>3, <2>1, <2>2, <2>3, <2>4 DEF IInv, Types
<1>9. Drawn'
  <2>1. \A v \in Key : cache[v] # None => cache[v] < fresh'
    BY <1>3 DEF IInv, Types, Drawn, SlowOwn
  <2>2. ASSUME NEW q \in Run, pc'[q] = "cache"
        PROVE  pending'[q][2] < fresh'
    <3>1. CASE q = r
      BY <1>3, <1>4, <3>1
    <3>2. CASE q # r
      <4>1. pending'[q] = pending[q] /\ pending[q] \in Key \X Nat /\ pending[q][2] < fresh
        BY <1>5, <2>2, <3>2 DEF IInv, Types, Drawn
      <4>2. pending[q][2] \in Nat
        BY <4>1
      <4> QED BY <1>3, <4>1, <4>2
    <3> QED BY <3>1, <3>2
  <2>3. \A q \in Run, v \in Key : Slow(q)' => package[q][v] \in Nat /\ package[q][v] < fresh'
    BY <1>3, <1>6 DEF IInv, Drawn
  <2>4. \A k \in Nat, q \in Run : <<k, q>> \in used' => k < fresh'
    BY <1>2, <1>3, <1>7 DEF IInv, Drawn
  <2>5. \A k \in retired : k < fresh'
    BY <1>3 DEF IInv, Types, Drawn
  <2> QED BY <1>1, <2>1, <2>2, <2>3, <2>4, <2>5 DEF Drawn
<1>10. CacheLive'
  <2>1. fresh \notin retired /\ \A v \in Key : cache[v] # fresh
    BY <1>3, NoneAssumption DEF IInv, Types, Drawn
  <2>2. \A q \in Run : pc[q] = "cache" => pending[q][2] # fresh
    BY <1>3 DEF IInv, Types, Drawn
  <2> QED BY <1>1, <1>4, <1>5, <2>1, <2>2 DEF IInv, CacheLive
<1>11. SlowOwn'
  <2>1. \A q \in Run, v \in Key : Slow(q) => package[q][v] # fresh
    BY <1>3 DEF IInv, Drawn
  <2>2. \A q \in Run, v \in Key : q # r /\ Slow(q) => package[q][v] # package[r][w]
    BY <1>4 DEF IInv, SlowOwn
  <2>3. ASSUME NEW q \in Run, NEW v \in Key, Slow(q)', NEW t \in Run \ {q}
        PROVE  <<package[q][v], t>> \notin used'
    BY <1>2, <1>6, <2>2, <2>3 DEF IInv, SlowOwn
  <2>4. ASSUME NEW q \in Run, NEW v \in Key, Slow(q)', NEW t \in Run, pc'[t] = "cache"
        PROVE  pending'[t][2] # package[q][v]
    BY <1>4, <1>5, <1>6, <2>1, <2>4 DEF IInv, SlowOwn
  <2> QED BY <1>1, <1>6, <2>3, <2>4 DEF IInv, SlowOwn
<1> QED BY <1>8, <1>9, <1>10, <1>11 DEF IInv

(* The cache receives a nonce no slow run signs with and no epoch change   *)
(* has retired.                                                            *)
LEMMA UpdateInductive ==
  ASSUME IInv, NEW r \in Run, UpdateWitnessNonce(r)
  PROVE  IInv'
<1>1. UNCHANGED <<package, fresh, used, retired>>
  BY DEF UpdateWitnessNonce, history
<1>2. /\ pc[r] = "cache"
      /\ cache' = [cache EXCEPT ![pending[r][1]] = pending[r][2]]
      /\ pending' = [pending EXCEPT ![r] = <<>>]
      /\ pc' = [pc EXCEPT ![r] = "sign"]
  BY DEF UpdateWitnessNonce, Goto
<1>3. pending[r] \in Key \X Nat /\ pending[r][2] < fresh
  BY <1>2 DEF IInv, Types, Drawn
<1>4. \A v \in Key : cache'[v] = cache[v] \/ cache'[v] = pending[r][2]
  BY <1>2, <1>3 DEF IInv, Types
<1>5. pc'[r] = "sign" /\ \A q \in Run : q # r => pending'[q] = pending[q] /\ pc'[q] = pc[q]
  BY <1>2 DEF IInv, Types
<1>6. \A q \in Run : Slow(q)' <=> Slow(q)
  BY <1>2, <1>5 DEF Slow
<1>7. \A q \in Run : pc'[q] = "cache" => q # r /\ pc[q] = "cache" /\ pending'[q] = pending[q]
  BY <1>5
<1>8. Types'
  <2>1. cache' \in [Key -> Nat \cup {None}]
    BY <1>2, <1>3 DEF IInv, Types
  <2>2. pending' \in [Run -> (Key \X Nat) \cup {<<>>}] /\ pc' \in [Run -> Steps]
    BY <1>2 DEF IInv, Types, Steps
  <2> QED BY <1>1, <1>7, <2>1, <2>2 DEF IInv, Types
<1>9. Drawn'
  BY <1>1, <1>3, <1>4, <1>6, <1>7 DEF IInv, Drawn
<1>10. CacheLive'
  BY <1>1, <1>2, <1>4, <1>7 DEF IInv, CacheLive
<1>11. SlowOwn'
  BY <1>1, <1>2, <1>4, <1>6, <1>7 DEF IInv, SlowOwn
<1> QED BY <1>8, <1>9, <1>10, <1>11 DEF IInv

(* An epoch change retires what the cache holds, and that is neither the   *)
(* nonce of a slow run nor one about to be cached.                         *)
LEMMA EpochInductive ==
  ASSUME IInv, HandleEpochChange
  PROVE  IInv'
<1>1. UNCHANGED <<pc, package, pending, fresh, used>>
  BY DEF HandleEpochChange
<1>2. cache' = [w \in Key |-> None] /\ retired' = retired \cup {cache[w] : w \in Cached}
  BY DEF HandleEpochChange
<1>3. \A k \in retired' : k \in retired \/ \E v \in Key : cache[v] # None /\ k = cache[v]
  BY <1>2 DEF Cached
<1>4. \A q \in Run : Slow(q)' <=> Slow(q)
  BY <1>1 DEF Slow
<1>5. \A v \in Key : cache'[v] = None
  BY <1>2
<1>6. retired' \in SUBSET Nat
  BY <1>3 DEF IInv, Types
<1>7. Types'
  BY <1>1, <1>2, <1>6 DEF IInv, Types
<1>8. Drawn'
  BY <1>1, <1>3, <1>4, <1>5 DEF IInv, Drawn
<1>9. CacheLive'
  <2>1. \A v \in Key : cache'[v] \notin retired'
    BY <1>5, <1>6, NoneAssumption
  <2>2. \A q \in Run : pc[q] = "cache" => pending[q][2] \in Nat
    BY DEF IInv, Types
  <2> QED BY <1>1, <1>3, <1>5, <2>1, <2>2, NoneAssumption DEF IInv, CacheLive
<1>10. SlowOwn'
  <2>1. \A q \in Run, v \in Key : Slow(q) => package[q][v] \in Nat
    BY DEF IInv, Drawn
  <2> QED BY <1>1, <1>3, <1>4, <1>5, <2>1, NoneAssumption DEF IInv, SlowOwn
<1> QED BY <1>7, <1>8, <1>9, <1>10 DEF IInv

(* The four nonce invariants are inductive. *)
LEMMA Inductive == IInv /\ [Next]_vars => IInv'
<1> SUFFICES ASSUME IInv, [Next]_vars PROVE IInv'
  OBVIOUS
<1>1. ASSUME NEW r \in Run, Start(r) \/ Collect(r) \/ Finalize(r) PROVE IInv'
  BY <1>1, QuietInductive
<1>2. ASSUME NEW r \in Run, SlowNonces(r) PROVE IInv'
  BY <1>2, SlowNoncesInductive
<1>3. ASSUME NEW r \in Run, UpdateWitnessNonce(r) PROVE IInv'
  BY <1>3, UpdateInductive
<1>4. ASSUME NEW r \in Run, NEW w \in Key, FastSign(r, w) PROVE IInv'
  BY <1>4, FastSignInductive
<1>5. ASSUME NEW r \in Run, NEW w \in Key, SlowSign(r, w) PROVE IInv'
  BY <1>5, SlowSignInductive
<1>6. CASE HandleEpochChange
  BY <1>6, EpochInductive
<1>7. CASE UNCHANGED vars
  <2>1. Types' /\ Drawn'
    BY <1>7 DEF vars, IInv, Types, Drawn, Slow
  <2>2. CacheLive'
    BY <1>7 DEF vars, IInv, CacheLive
  <2>3. SlowOwn'
    BY <1>7 DEF vars, IInv, SlowOwn, Slow
  <2> QED BY <2>1, <2>2, <2>3 DEF IInv
<1> QED BY <1>1, <1>2, <1>3, <1>4, <1>5, <1>6, <1>7 DEF Next

(* Every nonce in the orchestrator has one owner, in every reachable state *)
(* of any number of concurrent run_consensus calls.                        *)
THEOREM Invariance == Spec => []IInv
BY InitInvariant, Inductive, PTL DEF Spec

(* run_slow_path signs with nonces no other run signs with and that        *)
(* update_witness_nonce never leaves in the cache.                         *)
THEOREM SlowPathPrivate == Spec => []SlowNoncesPrivate
<1>1. IInv => SlowNoncesPrivate
  BY DEF IInv, SlowOwn, SlowNoncesPrivate, Slow
<1> QED BY <1>1, Invariance, PTL

(* After handle_epoch_change no signature is made with a nonce it cleared, *)
(* whatever a fast run had collected before.                               *)
THEOREM RetiredNonces == Spec => RetiredNeverSign
<1> DEFINE A == \A n \in retired, r \in Run : <<n, r>> \in used' => <<n, r>> \in used
<1>1. IInv /\ [Next]_vars => [A]_vars
  <2> SUFFICES ASSUME IInv, Next PROVE A
    OBVIOUS
  <2>1. ASSUME NEW r \in Run, NEW w \in Key, FastSign(r, w) PROVE A
    <3>1. used' = used \/ used' = used \cup {<<cache[w], r>>}
      BY <2>1 DEF FastSign
    <3>2. cache[w] \notin retired
      BY DEF IInv, CacheLive
    <3> QED BY <3>1, <3>2, SMTT(30)
  <2>2. ASSUME NEW r \in Run, NEW w \in Key, SlowSign(r, w) PROVE A
    <3>1. used' = used \cup {<<package[r][w], r>>} /\ pc[r] = "sign"
      BY <2>2 DEF SlowSign
    <3>2. package[r][w] \notin retired
      BY <3>1 DEF IInv, SlowOwn, Slow
    <3> QED BY <3>1, <3>2
  <2>3. ASSUME NEW r \in Run,
               Start(r) \/ Collect(r) \/ SlowNonces(r) \/ UpdateWitnessNonce(r) \/ Finalize(r)
        PROVE  used' = used
    BY <2>3 DEF Start, Collect, SlowNonces, UpdateWitnessNonce, Finalize
  <2>4. HandleEpochChange => used' = used
    BY DEF HandleEpochChange
  <2> HIDE DEF A
  <2>5. used' = used => A
    BY DEF A
  <2> QED BY <2>1, <2>2, <2>3, <2>4, <2>5 DEF Next
<1> QED BY <1>1, Invariance, PTL DEF Spec, RetiredNeverSign

-----------------------------------------------------------------------------

SignedType == signed \in [Run -> SUBSET Key]

(* The signers of a commit are threshold many and all committers. *)
CommitIsComplete ==
  \A r \in Run : pc[r] = "committed" =>
    Cardinality(signed[r]) >= Threshold /\ signed[r] = Committers(r)

(* What finalize_consensus checked stays true of a committed run: nothing  *)
(* writes to it any more.                                                  *)
LEMMA CommittedKept ==
  (Types /\ SignedType /\ CommitIsComplete) /\ [Next]_vars
    => SignedType' /\ CommitIsComplete'
<1> SUFFICES ASSUME Types, SignedType, CommitIsComplete, [Next]_vars
             PROVE  SignedType' /\ CommitIsComplete'
  OBVIOUS
<1>1. ASSUME NEW r \in Run, NEW w \in Key, AddSignature(r, w)
      PROVE  SignedType' /\ \A q \in Run : q # r => signed'[q] = signed[q]
  BY <1>1 DEF AddSignature, SignedType
<1> DEFINE Kept(q) == /\ pc[q] = "committed"
                      /\ signed'[q] = signed[q]
                      /\ package'[q] = package[q]
           Quiet == SignedType' /\ \A q \in Run : pc'[q] = "committed" => Kept(q)
<1>2. Quiet => SignedType' /\ CommitIsComplete'
  BY DEF CommitIsComplete, Committers
<1>3. ASSUME NEW r \in Run, Start(r) \/ Collect(r) \/ SlowNonces(r) \/ UpdateWitnessNonce(r)
      PROVE  Quiet
  BY <1>3 DEF Types, SignedType, Start, Collect, SlowNonces, UpdateWitnessNonce, Goto
<1>4. ASSUME NEW r \in Run, NEW w \in Key, FastSign(r, w) PROVE Quiet
  <2>1. pc[r] = "fast" /\ package' = package /\ (pc' = pc \/ pc' = [pc EXCEPT ![r] = "failed"])
    BY <1>4, SMTT(30) DEF FastSign, Goto
  <2>2. signed' = signed \/ AddSignature(r, w)
    BY <1>4 DEF FastSign
  <2>3. SignedType' /\ \A q \in Run : q # r => signed'[q] = signed[q]
    BY <1>1, <2>2, SMTT(30) DEF SignedType
  <2> QED BY <2>1, <2>3, SMTT(30) DEF Types
<1>5. ASSUME NEW r \in Run, NEW w \in Key, SlowSign(r, w) PROVE Quiet
  <2>1. package' = package /\ pc' = [pc EXCEPT ![r] = "cache"] /\ AddSignature(r, w)
    BY <1>5 DEF SlowSign, Goto
  <2> QED BY <1>1, <2>1 DEF Types
<1>6. ASSUME NEW r \in Run, Finalize(r) PROVE SignedType' /\ CommitIsComplete'
  <2> DEFINE ok == /\ signed[r] # {}
                   /\ r \in instances
                   /\ signed[r] = Committers(r)
                   /\ Cardinality(signed[r]) >= Threshold
  <2>1. /\ pc' = [pc EXCEPT ![r] = IF ok THEN "committed" ELSE "failed"]
        /\ UNCHANGED <<signed, package>>
    BY <1>6 DEF Finalize, Goto
  <2>2. pc'[r] = "committed" => Cardinality(signed[r]) >= Threshold /\ signed[r] = Committers(r)
    BY <2>1 DEF Types
  <2>3. \A q \in Run : q # r => pc'[q] = pc[q]
    BY <2>1 DEF Types
  <2>4. SignedType' /\ \A q \in Run : Committers(q)' = Committers(q)
    BY <2>1 DEF SignedType, Committers
  <2> HIDE DEF ok
  <2> QED BY <2>1, <2>2, <2>3, <2>4 DEF CommitIsComplete
<1>7. HandleEpochChange => Quiet
  BY DEF HandleEpochChange, SignedType
<1>8. UNCHANGED vars => Quiet
  BY DEF vars, SignedType
<1> HIDE DEF Quiet
<1> QED BY <1>2, <1>3, <1>4, <1>5, <1>6, <1>7, <1>8 DEF Next

(* So it is true of every committed run.                                   *)
LEMMA CommitComplete == Spec => []CommitIsComplete
<1>1. Init => SignedType /\ CommitIsComplete
  BY DEF Init, SignedType, CommitIsComplete
<1>2. IInv => Types
  BY DEF IInv
<1> QED BY <1>1, <1>2, Invariance, CommittedKept, PTL DEF Spec

-----------------------------------------------------------------------------

(* What the nonce invariants do not look at: the instances map, the loops  *)
(* of the runs and the count of epoch changes.  A tracker counts at most   *)
(* the one signer that sealed its collector.                               *)
Bookkeeping ==
  /\ instances \subseteq Run
  /\ todo \in [Run -> SUBSET Key]
  /\ signed \in [Run -> {{}} \cup {{w} : w \in Key}]
  /\ changes \in 0..MaxChanges

(* Every step keeps the bookkeeping. *)
LEMMA BookkeepingKept == Bookkeeping /\ [Next]_vars => Bookkeeping'
<1> SUFFICES ASSUME Bookkeeping, [Next]_vars PROVE Bookkeeping'
  OBVIOUS
<1>1. ASSUME NEW r \in Run, NEW w \in Key, AddSignature(r, w)
      PROVE  signed' \in [Run -> {{}} \cup {{v} : v \in Key}]
  BY <1>1 DEF AddSignature, Bookkeeping
<1>2. ASSUME NEW r \in Run, Start(r) \/ Collect(r) \/ SlowNonces(r) \/ UpdateWitnessNonce(r)
      PROVE  Bookkeeping'
  <2>1. UNCHANGED <<signed, changes>>
    BY <1>2 DEF Start, Collect, SlowNonces, UpdateWitnessNonce, history
  <2>2. instances' \subseteq Run
    BY <1>2 DEF Bookkeeping, Start, Collect, SlowNonces, UpdateWitnessNonce
  <2>3. todo' \in [Run -> SUBSET Key]
    BY <1>2 DEF Bookkeeping, Start, Collect, SlowNonces, UpdateWitnessNonce
  <2> QED BY <2>1, <2>2, <2>3 DEF Bookkeeping
<1>3. ASSUME NEW r \in Run, Finalize(r) PROVE Bookkeeping'
  <2>1. UNCHANGED <<todo, signed, changes>> /\ instances' \subseteq instances
    BY <1>3 DEF Finalize, history
  <2> QED BY <2>1 DEF Bookkeeping
<1>4. ASSUME NEW r \in Run, NEW w \in Key, FastSign(r, w) \/ SlowSign(r, w) PROVE Bookkeeping'
  <2>1. UNCHANGED <<instances, changes>> /\ todo' = [todo EXCEPT ![r] = @ \ {w}]
    BY <1>4 DEF FastSign, SlowSign, history
  <2>2. signed' = signed \/ AddSignature(r, w)
    BY <1>4 DEF FastSign, SlowSign
  <2>3. signed' \in [Run -> {{}} \cup {{v} : v \in Key}]
    BY <1>1, <2>2 DEF Bookkeeping
  <2> QED BY <2>1, <2>3 DEF Bookkeeping
<1>5. HandleEpochChange => Bookkeeping'
  BY BoundAssumption DEF HandleEpochChange, Bookkeeping
<1>6. UNCHANGED vars => Bookkeeping'
  BY DEF vars, Bookkeeping
<1> QED BY <1>2, <1>3, <1>4, <1>5, <1>6 DEF Next

(* The bookkeeping holds throughout. *)
LEMMA BookkeepingAlways == Spec => []Bookkeeping
<1>1. Init => Bookkeeping
  BY BoundAssumption DEF Init, Bookkeeping
<1> QED BY <1>1, BookkeepingKept, PTL DEF Spec

(* Every field of the orchestrator, the witness states and the runs keeps  *)
(* its type, whatever run_consensus calls interleave.                      *)
THEOREM TypeCorrect == Spec => []TypeOK
<1>1. ASSUME IInv, Bookkeeping PROVE TypeOK
  <2>1. signed \in [Run -> SUBSET Key]
    BY <1>1 DEF Bookkeeping
  <2>2. \A r \in Run : pending[r] = <<>> \/ pending[r] \in Key \X Nat
    BY <1>1 DEF IInv, Types
  <2> QED BY <1>1, <2>1, <2>2 DEF IInv, Types, Bookkeeping, TypeOK
<1> QED BY <1>1, Invariance, BookkeepingAlways, PTL

(* run_consensus commits under a threshold of one only, and then for a     *)
(* package of a single committer: WitnessTracker::new() seals its          *)
(* collector at the first signature, so no run with a larger threshold, or *)
(* with a second committer, ever gets past finalize_consensus.             *)
THEOREM CommitsAtThresholdOne == Spec => []CommitsAlone
<1>1. CommitIsComplete /\ Bookkeeping => CommitsAlone
  <2> SUFFICES ASSUME CommitIsComplete, Bookkeeping, NEW r \in Run, pc[r] = "committed"
               PROVE  Threshold = 1 /\ \E w \in Key : Committers(r) = {w}
    BY DEF CommitsAlone
  <2>1. Cardinality(signed[r]) >= Threshold /\ signed[r] = Committers(r)
    BY DEF CommitIsComplete
  <2>2. signed[r] = {} \/ \E w \in Key : signed[r] = {w}
    BY DEF Bookkeeping
  <2>3. signed[r] # {}
    BY <2>1, FS_EmptySet, KeyAssumption
  <2>4. PICK w \in Key : signed[r] = {w}
    BY <2>2, <2>3
  <2>5. Cardinality(signed[r]) = 1
    BY <2>4, FS_Singleton
  <2> QED BY <2>1, <2>4, <2>5, KeyAssumption, SMTT(30)
<1> QED BY <1>1, CommitComplete, BookkeepingAlways, PTL

(* A nonce comes to be used by a second run in one way only: a fast run    *)
(* signs with it out of the cache.  The slow path, evictions and epoch     *)
(* changes never turn a history in which each nonce is used once into one  *)
(* in which it is not.                                                     *)
THEOREM ReuseIsFastPath ==
  Spec => [][NonceUsedOnce =>
               NonceUsedOnce' \/ \E r \in Run, w \in Key : FastSign(r, w)]_vars
<1> DEFINE A == NonceUsedOnce =>
                  NonceUsedOnce' \/ \E r \in Run, w \in Key : FastSign(r, w)
<1>1. IInv /\ [Next]_vars => [A]_vars
  <2> SUFFICES ASSUME IInv, Next, NonceUsedOnce, ~\E r \in Run, w \in Key : FastSign(r, w)
               PROVE  NonceUsedOnce'
    OBVIOUS
  <2>1. ASSUME NEW r \in Run, NEW w \in Key, SlowSign(r, w) PROVE NonceUsedOnce'
    <3>1. used' = used \cup {<<package[r][w], r>>} /\ Slow(r)
      BY <2>1 DEF SlowSign, Slow
    <3>2. \A s \in Run \ {r} : <<package[r][w], s>> \notin used
      BY <3>1 DEF IInv, SlowOwn
    <3>3. \A u \in used : u \in Nat \X Run
      BY DEF IInv, Types
    <3>4. ASSUME NEW u \in used, u[1] = package[r][w] PROVE u[2] = r
      <4>1. u = <<u[1], u[2]>> /\ u[2] \in Run
        BY <3>3
      <4> QED BY <3>2, <3>4, <4>1
    <3>5. ASSUME NEW u \in used', NEW v \in used', u[1] = v[1] PROVE u[2] = v[2]
      BY <3>1, <3>4, <3>5 DEF NonceUsedOnce
    <3> QED BY <3>5 DEF NonceUsedOnce
  <2>2. ASSUME NEW r \in Run,
               Start(r) \/ Collect(r) \/ SlowNonces(r) \/ UpdateWitnessNonce(r) \/ Finalize(r)
        PROVE  used' = used
    BY <2>2, SMTT(30) DEF Start, Collect, SlowNonces, UpdateWitnessNonce, Finalize
  <2>3. HandleEpochChange => used' = used
    BY DEF HandleEpochChange
  <2>4. used' = used => NonceUsedOnce'
    BY DEF NonceUsedOnce
  <2> QED BY <2>1, <2>2, <2>3, <2>4 DEF Next
<1> QED BY <1>1, Invariance, PTL DEF Spec
=============================================================================
