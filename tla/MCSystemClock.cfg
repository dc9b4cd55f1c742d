SPECIFICATION Spec
CONSTANTS
  NULL = NULL
  NS_PER_SECOND = 4
  UINT64_MAX = 17
  LastTime = 26
  Ages = {1, 3, 9, 17}
INVARIANT
  TypeOK
PROPERTY
  AdmissionMeasuresTime
