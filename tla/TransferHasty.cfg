SPECIFICATION Spec
CONSTANTS
  ChunkSize = 2
  MaxLength = 7
  SourceAhead = FALSE
INVARIANTS Intact
CHECK_DEADLOCK FALSE
