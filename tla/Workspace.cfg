SPECIFICATION Spec
CONSTANTS
  None = None
  Shell = Shell
  Window = {w1, w2}
  Desktop = {d1, d2, d3}
  Scenarios <- MCScenarios
  EarlyRemoval = FALSE
INVARIANTS ReferencesAlive ChainsMatchDesktops NavigationReturns
PROPERTIES SwitchActivates ActivationSucceeds
SYMMETRY Symmetry
