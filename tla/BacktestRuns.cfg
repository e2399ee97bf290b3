CONSTANTS
  Run <- MCRuns
  Pid <- MCPids
  MaxListed = 1
  MaxTicks = 2
  MaxRestarts = 1
  MaxWorkers = 1
  MaxStops = 1
  None = None
SPECIFICATION FairSpec
INVARIANT TypeOK
INVARIANT RunningIsLive
INVARIANT StopsAtNextEvent
PROPERTY VerdictStands
PROPERTY CheckpointIsKept
PROPERTY StopEndsTheRun
CHECK_DEADLOCK FALSE
