SPECIFICATION Spec
CONSTANTS
  Replica = {a, b}
  a = a
  b = b
  s1 = s1
  s2 = s2
  v1 = v1
  v2 = v2
  Send = {s1}
  Receive = {v1}
  By <- MCBy
  Origin <- Everywhere
  Witness = {w1, w2}
  w1 = w1
  w2 = w2
  None = None
  MaxEpoch = 2
  MaxGen = 1
  DefaultWindow = 1
  Fact <- DefaultProposalFacts
INVARIANT LiveSuccessorIsUsed
CHECK_DEADLOCK FALSE
