SPECIFICATION Spec
CONSTANTS
  NULL = NULL
  NoEvent = NoEvent
  QueueCapacity = 2
  Addr = {1,2,3,4,5,6,7,8,9,10,11,12,13,14,15,16,17,18,19}
  Snapshots <- MCSnapshots
  Options <- MCOptions
  Transactions = {tx}
  MaxRequestId = 3
  MaxTime = 2
  MaxRoom = 1
  ClockErrors = {"UNSUPPORTED"}
  MonotonicClock = FALSE
INVARIANTS
  TypeOK
  EveryBlockHasOneOwner
  
  RequestIdsAreDense
  EveryRequestHasOneEvent
  RequestsMatchTheirSnapshot
  GenerationsIncrease
PROPERTIES
  OnlySuccessCommits
  SubmitTellsTheTruth
