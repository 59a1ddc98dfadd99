SPECIFICATION Spec
CONSTANTS
  k1 = k1
  k2 = k2
  run1 = run1
  run2 = run2
  run3 = run3
  Run <- TwoRuns
  Key <- MCKey
  Threshold = 1
  MaxChanges = 1
  None = None
INVARIANT TypeOK
 
INVARIANT SlowNoncesPrivate
PROPERTY RetiredNeverSign
SYMMETRY Symmetry
CHECK_DEADLOCK FALSE
