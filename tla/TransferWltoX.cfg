SPECIFICATION FairSpec
CONSTANTS
  ChunkSize = 2
  MaxLength = 7
  SourceAhead = TRUE
INVARIANTS NoStall
PROPERTIES ImplementsStream TransferEnds Delivered
CHECK_DEADLOCK FALSE
