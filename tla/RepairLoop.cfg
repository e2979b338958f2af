\* Projects with no check, with one and with two; errors in one place, in none
\* that is named, or both; two attempts.
CONSTANTS
  Configurations = {{}, {"lint"}, {"typecheck", "test"}}
  Sites = {"a"}
  Nowhere = "nowhere"
  MaxAttempts = 2
SPECIFICATION LoopSpec
INVARIANTS
  ReportIsCurrent
  AttemptsNeverEscalate
PROPERTIES
  RepairsRealFailures
  LoopEnds
CHECK_DEADLOCK FALSE
