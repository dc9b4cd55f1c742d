SPECIFICATION ReturningSpec
CONSTANTS
  NULL = NULL
  NoEvent = NoEvent
  QueueCapacity = 2
  Addr = {1,2,3}
  Snapshots <- MCSnapshots
  Options = {}
  Transactions = {}
  MaxRequestId = 1
  MaxTime = 1
  MaxRoom = 0
  ClockErrors = {"INTERNAL_ERROR"}
  MonotonicClock = FALSE
  Providers <- MCProviders
  Locations = {l1, l2}
  AcquireErrors = {"TOPOLOGY_UNAVAILABLE"}
INVARIANTS
  RefreshTypeOK
  BorrowsAreSettled
  InstallReadsLentMemory
PROPERTIES
  
  RefreshTellsTheTruth
  BorrowsAreReturned
