-------------------------- MODULE CeremonyOutcome --------------------------
(***************************************************************************)
(* What a ceremony promises to the one who asked for it: it is open from   *)
(* its registration until it has failed or is committed, it does not stay  *)
(* open for ever, and its outcome is final.  The tracker is in memory, so  *)
(* a crash forgets all of them.                                            *)
(***************************************************************************)
CONSTANT Ceremony

VARIABLE outcome

Outcomes == {"Unknown", "Open", "Failed", "Committed"}

Init == outcome = [c \in Ceremony |-> "Unknown"]

Register(c) ==
  /\ outcome[c] = "Unknown"
  /\ outcome' = [outcome EXCEPT ![c] = "Open"]

Open == {c \in Ceremony : outcome[c] = "Open"}

(* One sweep over the timeouts fails several ceremonies at once. *)
Fail ==
  \E S \in (SUBSET Open) \ {{}} :
    outcome' = [c \in Ceremony |-> IF c \in S THEN "Failed" ELSE outcome[c]]

Commit(c) ==
  /\ outcome[c] = "Open"
  /\ outcome' = [outcome EXCEPT ![c] = "Committed"]

Crash == outcome' = [c \in Ceremony |-> "Unknown"]

Next ==
  \/ \E c \in Ceremony : Register(c) \/ Commit(c)
  \/ Fail
  \/ Crash

SafetySpec == Init /\ [][Next]_outcome

Settles == \A c \in Ceremony : outcome[c] = "Open" ~> outcome[c] # "Open"

Spec == SafetySpec /\ Settles
============================================================================
