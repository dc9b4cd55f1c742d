SPECIFICATION ProgramSpec
CONSTANTS
  NULL = NULL
  NoEvent = NoEvent
  QueueCapacity = 2
  Addr = {1,2,3,4,5,6,7,8,9,10,11}
  Snapshots <- MCSnapshots
  Options <- MCOptions
  Transactions <- MCTransactions
  MaxRequestId = 2
  MaxTime = 3
  MaxRoom = 1
  ClockErrors = {"INTERNAL_ERROR"}
  MonotonicClock = TRUE
  Providers <- MCProviders
  Locations <- MCLocations
  AcquireErrors = {"INVALID_ARGUMENT"}
  MaxAge = 2
INVARIANTS
  ProgramTypeOK
  ExitIsClean
  ExitTellsTheTruth
CHECK_DEADLOCK FALSE
