\* Two runs at cap 1 over two process ids and one other process; both
\* callers may be killed and both kill commands fail.
SPECIFICATION FairSpec
CONSTANTS
  r1 = r1
  r2 = r2
  p1 = p1
  p2 = p2
  Runs      <- MCRuns
  Pids      <- MCPids
  Max       = 1
  MaxOthers = 1
  MaxDeaths = 2
  MaxFaults = 2
INVARIANTS
  TypeOK
  SlotsAccounted
  CapRespected
  NoOrphan
  ReturnedMeansReleased
  StrikesOnlyWhenStale
PROPERTIES
  ShedHasCause
  EveryRunReturns
  SlotsDrain
CHECK_DEADLOCK FALSE
