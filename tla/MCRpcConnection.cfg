CONSTANTS
  editor = editor
  server = server
  Peer <- MCPeer
  Other <- MCOther
  Quotas <- MCQuotas
  TimesOut = TRUE
SPECIFICATION Spec
INVARIANTS
  PendingIsAnswerable
  AnswersMatch
  OnlyAbandonedWorkIsStopped
PROPERTIES
  AbandonedWorkIsStopped
CHECK_DEADLOCK FALSE
