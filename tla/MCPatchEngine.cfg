CONSTANTS
  a = a
  b = b
  x = x
  y = y
  z = z
  x2 = x2
  out = out
  c1 = c1
  c2 = c2
  Absent = Absent
  Refused = Refused
  NoHash = NoHash
  Line <- MCLine
  DashLine = {}
  PlusLine = {}
  LcsGuard = 10
  Path <- MCPath
  Spelling <- MCSpelling
  Resolves <- MCResolves
  SecretPath <- MCSecret
  MaxFiles = 2
  Call = {c1, c2}
  Patch <- MCPatch
  Edited <- MCEdited
  Content <- MCContent
  Damage = {"clean", "torn", "restore", "read"}
  MaxFaults = 2
  MaxSaves = 1
SPECIFICATION Spec
SYMMETRY Alike
INVARIANTS
  WriteFrontier
PROPERTIES
  ImplementsAtomicPatch
CHECK_DEADLOCK FALSE
