SPECIFICATION Spec
CONSTANTS
  None = None
  w1 = w1
  w2 = w2
  w3 = w3
  Window = {w1, w2, w3}
  Version <- MCVersion
  Supported = {"copy"}
  Revisit = FALSE
  MaxPos <- MCMaxPos
INVARIANTS DropAtPointer
PROPERTIES DragsEnd
CHECK_DEADLOCK FALSE
