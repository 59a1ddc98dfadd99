----------------------- MODULE MCConsensusProtocol -----------------------
(* Two witnesses, a stranger, three deliveries and three proofs for TLC. *)
EXTENDS ConsensusProtocol, TLC

CONSTANTS w1, w2, x, t1, t2, t3

MCWitness == {w1, w2}
MCAuthority == MCWitness \cup {x}
MCTask == {t1, t2, t3}
TwoTasks == {t1, t2}

(* One equivocation detected at two times, and a proof that does not       *)
(* verify.                                                                 *)
Accusing(second, at) ==
  [witness |-> "w", first |-> "a", second |-> second, timestamp |-> at]
MCProof == {Accusing("b", 0), Accusing("b", 1), Accusing("a", 0)}

(* Witnesses, like tasks, are only compared for equality. *)
Symmetry == Permutations(Witness) \cup Permutations(Task)
==========================================================================
