SPECIFICATION FairSpec
CONSTANTS
  o1 = o1
  o2 = o2
  w1 = w1
  w2 = w2
  w3 = w3
  Output = {o1, o2}
  Cell <- MCCell
  Geo <- MCGeo
  Stacking <- OneWindow
  Place <- Moving
  FrameClient = {w1}
  WaylandWindow = {w1}
  LockWindow = {}
  ScreenLocked = FALSE
  HasSwapEvent = TRUE
PROPERTIES EventuallyPainted Quiescence FrameCallbackDone
