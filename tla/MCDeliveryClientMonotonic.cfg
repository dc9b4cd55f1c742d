SPECIFICATION Spec
CONSTANTS
  NULL = NULL
  NoEvent = NoEvent
  QueueCapacity = 2
  Addr = {1,2,3,4,5,6,7,8,9,10,11,12,13,14,15,16,17,18,19}
  Snapshots <- MCSnapshots
  Options <- WideOptions
  Transactions = {tx}
  MaxRequestId = 3
  MaxTime = 2
  MaxRoom = 2
  ClockErrors = {"UNSUPPORTED"}
  MonotonicClock = TRUE
INVARIANTS
  NoInternalError
  EventTimesAreOrdered
