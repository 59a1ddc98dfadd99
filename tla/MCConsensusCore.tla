------------------------- MODULE MCConsensusCore -------------------------
(* Small instances of ConsensusCore for TLC. *)
EXTENDS ConsensusCore

CONSTANTS a1, a2, a3, a4, r1, r2

MCAuthority == {a1, a2, a3, a4}
MCResult == {r1, r2}
==========================================================================
