SPECIFICATION Spec
CONSTANTS
  c1 = c1
  c2 = c2
  c3 = c3
  p1 = p1
  p2 = p2
  Self = p1
  NoCeremony = NoCeremony
  Bootstrap = Bootstrap
  Ceremony <- MCCeremony
  Participant <- MCParticipant
  Scenarios <- MCScenarios
INVARIANT TypeOK
INVARIANT SupersessionWellFounded
INVARIANT SupersessionRecorded
INVARIANT EpochsHaveKeys
PROPERTY RefinesOutcome
PROPERTY CommittedNeverFails
