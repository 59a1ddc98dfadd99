SPECIFICATION FinalizingSpec
CONSTANTS
  w1 = w1
  w2 = w2
  x = x
  t1 = t1
  t2 = t2
  t3 = t3
  None = None
  Authority <- MCAuthority
  Witness <- MCWitness
  Task <- TwoTasks
  Proof <- MCProof
  MaxDelta = 2
  Threshold = 2
  CollectorThreshold = 1
  Timeout = 1
  MaxTime = 2
PROPERTY ThresholdIsAnswered
CHECK_DEADLOCK FALSE
