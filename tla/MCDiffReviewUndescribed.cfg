CONSTANTS
  plain = plain
  dash = dash
  Line <- MCLine
  DashLine <- MCDashLine
  PlusLine = {}
  LcsGuard = 4
  MaxLines = 5
  Contexts = {1}
SPECIFICATION ReviewSpec
INVARIANT NothingUndescribedIsWritten
