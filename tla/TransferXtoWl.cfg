SPECIFICATION FairSpec
CONSTANTS
  MaxLength = 5
  PipeSize = 2
PROPERTIES ImplementsStream TransferEnds Delivered
CHECK_DEADLOCK FALSE
