CONSTANTS
  a = a
  b = b
  x = x
  y = y
  p1 = p1
  p2 = p2
  h1 = h1
  h2 = h2
  Absent = Absent
  Refused = Refused
  NoHash = NoHash
  Line <- MCLine
  DashLine = {}
  PlusLine = {}
  LcsGuard = 10
  Path <- MCPath
  Spelling <- MCPath
  Resolves <- MCResolves
  SecretPath = {}
  MaxFiles = 2
  PatchId = {p1, p2}
  Proposal <- MCProposal
  Handler = {h1, h2}
  Edited <- MCEdited
  AgentApplies = TRUE
  MaxRequests = 4
  MaxAccidents = 1
SPECIFICATION Spec
SYMMETRY Alike
INVARIANTS
  UserAppliedIsRevertible
  RegistryMatchesDisk
PROPERTIES
  LegalMoves
  RevertIsExact
CHECK_DEADLOCK FALSE
