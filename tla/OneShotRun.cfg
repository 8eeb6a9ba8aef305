\* Every script, on requests of up to two calls.
SPECIFICATION FairSpec
CONSTANTS
  Hosts    <- MCHosts
  MaxCalls = 2
INVARIANTS
  OkIsEarned
  RefusalHasCause
  ExitAgrees
PROPERTIES
  HonoursContract
CHECK_DEADLOCK FALSE
