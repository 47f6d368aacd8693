SPECIFICATION DrmFairSpec
CONSTANTS
  a1 = a1
  b1 = b1
  b2 = b2
  Output = {a1, b1, b2}
  Cell = {1, 2}
  Geo <- MCGeo
  ConnectorOf <- MCConnectorOf
  Stacking <- NoWindows
  Place <- NoPlace
  FrameClient = {}
  WaylandWindow = {}
  LockWindow = {}
  ScreenLocked = FALSE
  HasSwapEvent = TRUE
  OffMode = {"Standby", "Off"}
  Scenarios <- MCScenarios
  SwitchBound = 1
INVARIANTS FlipAwaited FilterWhenOff FlipTargetAlive NoLostFrame
PROPERTIES ShutdownDone
CHECK_DEADLOCK FALSE
