SPECIFICATION Spec
CONSTANTS
  NULL = NULL
  NoEvent = NoEvent
  QueueCapacity = 2
  Addr = {1,2,3,4,5,6,7,8,9,10,11,12,13,14,15,16,17,18,19}
  Snapshots <- MCSnapshots
  Options <- WideOptions
  Transactions = {tx, ty}
  MaxRequestId = 2
  MaxTime = 1
  MaxRoom = 2
  ClockErrors = {"INTERNAL_ERROR"}
  MonotonicClock = FALSE
PROPERTY
  ImplementsService
