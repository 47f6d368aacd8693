SPECIFICATION DrmSpec
CONSTANTS
  a1 = a1
  b1 = b1
  b2 = b2
  Output = {a1, b1}
  Cell = {1, 2}
  Geo <- MCGeoTwo
  ConnectorOf <- MCConnectorOf
  Stacking <- NoWindows
  Place <- NoPlace
  FrameClient = {}
  WaylandWindow = {}
  LockWindow = {}
  ScreenLocked = FALSE
  HasSwapEvent = TRUE
  OffMode = {"Off"}
  Scenarios <- UnplugOnly
  SwitchBound = 1
INVARIANTS FlipFindsOutput
CHECK_DEADLOCK FALSE
