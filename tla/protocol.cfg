SPECIFICATION Spec
CONSTANTS
  w1 = w1
  w2 = w2
  x = x
  t1 = t1
  t2 = t2
  t3 = t3
  None = None
  Authority <- MCAuthority
  Witness <- MCWitness
  Task <- MCTask
  Proof <- MCProof
  MaxDelta = 2
  Threshold = 2
  CollectorThreshold = 1
  Timeout = 1
  MaxTime = 2
SYMMETRY Symmetry
INVARIANT TypeOK
 
 
INVARIANT CoreMirrorsTracker
INVARIANT TokenMatchesCommitment
INVARIANT OneProofPerAccusation
CHECK_DEADLOCK FALSE
