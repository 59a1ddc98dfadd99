------------------------ MODULE MCRotationCeremonies ------------------------
(* Up to three ceremonies over two participants, of which p1 is this device. *)
EXTENDS RotationCeremonies, TLC

CONSTANTS c1, c2, c3, p1, p2

MCCeremony == {c1, c2, c3}
MCParticipant == {p1, p2}

Guardian == [kind |-> "GuardianRotation", roster |-> {p1, p2}, threshold |-> 2]
Rotation == [kind |-> "DeviceRotation", roster |-> {p1, p2}, threshold |-> 2]
Enrollment == [kind |-> "DeviceEnrollment", roster |-> {p2}, threshold |-> 1]
Removal == [kind |-> "DeviceRemoval", roster |-> {p1, p2}, threshold |-> 2]
LastRemoval == [kind |-> "DeviceRemoval", roster |-> {p1}, threshold |-> 1]

(* A guardian rotation beside device ceremonies that share its pending     *)
(* epoch, a ceremony of each device kind, three ceremonies of one kind     *)
(* that supersede one another, and a guardian rotation that is retried.    *)
MCScenarios ==
  {(c1 :> Guardian @@ c2 :> Rotation @@ c3 :> LastRemoval),
   (c1 :> Removal @@ c2 :> Rotation @@ c3 :> Enrollment),
   (c1 :> Enrollment @@ c2 :> Enrollment @@ c3 :> Enrollment),
   (c1 :> Guardian @@ c2 :> Guardian)}
=============================================================================
