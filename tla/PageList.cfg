\* Every status, files of up to five units, parts of two.
SPECIFICATION Spec
CONSTANTS
  MaxSize = 5
  PageStatuses <- AllStatuses
  MIN_MULTIPART_SIZE = 2
  MaxPartSize = 2
INVARIANTS ListExact PlanSound
PROPERTY ImplementsByteStatus
