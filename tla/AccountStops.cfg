CONSTANTS
  a = a
  b = b
  c = c
  d = d
  s1 = s1
  s2 = s2
  Nobody = Nobody
  Trade <- LongTrade
  Session <- MCSession
  SessionOf <- MCSessionOf
  Side <- AllLong
  Want <- MCWant
  StopRisk <- MCStopRisk
  Risks <- MCRisks
  Alike <- TwinPairs
  Pending <- MCPending
  PositionPolicy = "hedge"
  SameDirection = "aggregate"
  RiskCap = 2
  Events <- Stops
SPECIFICATION RestartSpec
INVARIANT TypeOK
INVARIANT RegistryMirrorsTrades
PROPERTY ApprovalsFitBudget
INVARIANT NoDuplicateExposure
PROPERTY EntryRespectsBlocks
PROPERTY OwnershipRecovers
CHECK_DEADLOCK FALSE
