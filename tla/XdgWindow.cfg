SPECIFICATION FairSpec
CONSTANTS
  Screen <- MCScreen
  Area <- MCArea
  Tile <- MCTile
  Placed <- MCPlaced
  Pos <- MCPos
  ClientSize = {1, 2}
  Scenarios <- MCScenarios
  MaxSerial = 6
  CalmSerial = 8
INVARIANTS
  NoneOverdue
  ShownAsAsked
PROPERTIES
  ReturnsToNormal
  AskedIsShown
CHECK_DEADLOCK FALSE
