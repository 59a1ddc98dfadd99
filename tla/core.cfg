SPECIFICATION AnySpec
CONSTANTS
  a1 = a1
  a2 = a2
  a3 = a3
  a4 = a4
  r1 = r1
  r2 = r2
  NoResult = NoResult
  Authority <- MCAuthority
  Result <- MCResult
  MaxBatch = 2
INVARIANT TypeOK
INVARIANT CommitRequiresThreshold
INVARIANT FastPathAttesters
PROPERTY AgreementFromStart
PROPERTY DecisionIsFinal
CHECK_DEADLOCK FALSE
