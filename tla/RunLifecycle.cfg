CONSTANTS
  Run = {r1, r2}
  Server = {s1}
  NoRun = NoRun
  SelfApply = TRUE
  MaxSteps = 1
  MaxFaults = 1
SPECIFICATION Spec
INVARIANTS
  EventsArePersisted
  EarlyCancelIsHeard
  RecordMatchesAnswer
  ServersEndWithLoneRuns
PROPERTIES
  RunsAreAnswered
CHECK_DEADLOCK FALSE
