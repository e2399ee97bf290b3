CONSTANTS
  MaxTargets = 2
  Attempts = 1
  Cases <- MCPlainCase
  None = None
SPECIFICATION Spec
INVARIANT StopExitRetiresLegs
CHECK_DEADLOCK FALSE
