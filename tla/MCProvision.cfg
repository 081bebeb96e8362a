CONSTANTS
  g1 = g1
  g2 = g2
  a = a
  weights = weights
  tokenizer = tokenizer
  x = x
  y = y
  z = z
  t = t
  e = e
  rev1 = rev1
  rev2 = rev2
  Programs = {g1}
  Variants <- MCVariants
  SourcesOf <- MCSourcesOf
  EnvOf <- MCEnvOf
  FilesOf <- MCFilesOf
  Floating = Floating
  Size <- MCSize
  Total = 7
  MinFree = 3
  MaxEdits = 2
  MaxFaults = 1
SPECIFICATION Spec
CHECK_DEADLOCK FALSE
INVARIANTS
  GuardKept
PROPERTIES
  PullHonest
  ParkConverges
