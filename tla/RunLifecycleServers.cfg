CONSTANTS
  Run = {r1, r2}
  Server = {s1}
  NoRun = NoRun
  SelfApply = TRUE
  MaxSteps = 1
  MaxFaults = 1
SPECIFICATION Spec
INVARIANTS
  ServersEndWithTheirRun
CHECK_DEADLOCK FALSE
