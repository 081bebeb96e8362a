CONSTANTS
  NoSha = NoSha
  Never = Never
  Junk = Junk
  NoContent = NoContent
  g1 = g1
  g2 = g2
  c1 = c1
  c2 = c2
  Programs = {g1}
  Paths <- MCPaths
  HomeInodes <- MCHomeInodes
  ColdInodes <- MCColdInodes
  Contents = {c1, c2}
  Obsolete = {3}
  Awkward = {}
  Starts <- MCStarts
  Hasty = FALSE
  MaxCommands = 3
  MaxEdits = 1
  MaxCrashes = 1
SPECIFICATION Spec
CHECK_DEADLOCK FALSE
INVARIANTS
  Recoverable
PROPERTY OnlyEmptyErases
