CONSTANTS
  MaxTargets = 2
  Attempts = 1
  Cases <- MCCases
  None = None
SPECIFICATION Spec
INVARIANT TypeOK
INVARIANT LedgerBalances
INVARIANT SyncLeavesProtected
PROPERTY BookedIsSold
PROPERTY StopKept
CHECK_DEADLOCK FALSE
