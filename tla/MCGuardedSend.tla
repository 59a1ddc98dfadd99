---------------------------- MODULE MCGuardedSend ----------------------------
(***************************************************************************)
(* Three sends against a budget that holds two of them or one.             *)
(***************************************************************************)
EXTENDS GuardedSend, TLC

CONSTANTS t1, t2, t3, opA, opB

MCTask == {t1, t2, t3}
MCOperation == {opA, opB}

\* Two sends of one session to one device share their operation.
MCOperationOf == (t1 :> opA) @@ (t2 :> opB) @@ (t3 :> opA)
MCCost == (t1 :> 1) @@ (t2 :> 1) @@ (t3 :> 2)
MCLimit == 3
=============================================================================
