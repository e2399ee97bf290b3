CONSTANTS
  a = a
  b = b
  c = c
  d = d
  s1 = s1
  s2 = s2
  Nobody = Nobody
  Trade <- ThreeTrade
  Session <- MCSession
  SessionOf <- MCSessionOf
  Side <- MCSide
  Want <- MCWant
  StopRisk <- MCStopRisk
  Risks <- MCRisks
  Alike <- Nothing
  Pending <- MCPending
  PositionPolicy = "net"
  SameDirection = "aggregate"
  RiskCap = 0
  Events <- OneFlatten
SPECIFICATION Spec
PROPERTY UnownedExposureBlocks
CHECK_DEADLOCK FALSE
