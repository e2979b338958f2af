CONSTANTS
  Contexts <- MCContexts
  McpTools <- MCMcpTools
  Subjects <- MCSubjects
  MaxIterations = 3
  MaxConsecutiveFailures = 2
  MaxCalls = 2
SPECIFICATION Spec
INVARIANTS
  DestructionIsConfirmed
  WritesWereApproved
  OnlyStuckRunsAreStopped
PROPERTIES
  NothingStartsCancelled
  RunEnds
CHECK_DEADLOCK FALSE
