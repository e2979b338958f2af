CONSTANTS
  plain = plain
  dash = dash
  Line <- MCLine
  DashLine <- MCDashLine
  PlusLine = {}
  LcsGuard = 4
  MaxLines = 5
  Contexts <- MCContexts
SPECIFICATION ReviewSpec
INVARIANTS
  ScriptIsExactAndMinimal
  CarriedDiffReapplies
  OnlyVerifiedLinesReplaced
