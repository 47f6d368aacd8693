SPECIFICATION Spec
CONSTANTS
  d1 = d1
  d2 = d2
  xa = xa
  xb = xb
  Device = {d1, d2}
  XClient = {xa, xb}
  TargetsOf <- MCTargetsOf
  Racing = {"x11"}
  TimeBound = 5
  QueueBound = 3
INVARIANTS OneSource Shielded OwnsForSource SourceIsOwner LatestWins
CHECK_DEADLOCK FALSE
