SPECIFICATION Spec
CONSTANTS
  k1 = k1
  k2 = k2
  run1 = run1
  run2 = run2
  run3 = run3
  Run <- ThreeRuns
  Key <- MCKey
  Threshold = 1
  MaxChanges = 1
  None = None
INVARIANT NonceUsedOnce
SYMMETRY Symmetry
CHECK_DEADLOCK FALSE
