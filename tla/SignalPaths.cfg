SPECIFICATION Spec
CONSTANTS
  None = None
  Recent = 3
  LastResort = FALSE
  Listed <- MCListed
  Percents <- MCPercents
  Balance = 100
  Factor = 40
  MinAllocation = 10
  MaxAllocation = 40
  DefaultLeverage = 1
  MaxLeverage = 4
  MaxLoss = 8
  Synthetic = 2
  Tiers <- MCTiers
  Levels <- MCLevels
  MinQuantity = 2
  Delay = 2
  MaxTime = 7
  LastRead = 5
  MaxOpen = 2
  Mark = 10
  CooldownBase = 3
  CooldownMax = 4
  StartTime = 2
  ReplayWindow = 1
  HistoryLimit = 3
  SlippedPrices = {8, 11}
  PercentsStop = 9
  Optimistic = FALSE
  RiskFree = TRUE
  Trailing = FALSE
  CloseAtEnd = FALSE
  SegmentSize = 2
  Streams <- MCStreams
  Shapes <- MCShapes
  Candles = 4
  CandleTime = 3
INVARIANT TypeOK
INVARIANT OneEntryPerSignal
INVARIANT RiskBudgetHolds
INVARIANT ConsolidationAgrees
INVARIANT SegmentsAgree
PROPERTY EverySignalDecided
CHECK_DEADLOCK FALSE
