SPECIFICATION Spec
CONSTANTS
  SIZE_MAX = 31
  UINT32_MAX = 31
  ElementSize = 4
  Alignment = 2
  SizeBytes = 2
  Queued = 3
INVARIANTS
  TypeOK
  CloneIsExact
  PollIsExact
CHECK_DEADLOCK FALSE
