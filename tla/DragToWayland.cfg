SPECIFICATION Spec
CONSTANTS
  None = None
  Target = {t1, t2}
  NMime = 2
  MaxVisits = 2
  MaxRequests = 2
INVARIANTS TargetUnderPointer
PROPERTIES FreedAfterTransfers DragDeleted
CHECK_DEADLOCK FALSE
