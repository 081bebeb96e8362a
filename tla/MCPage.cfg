CONSTANTS
  NoJob = NoJob
  Nothing = Nothing
  j1 = j1
  a = a
  k1 = k1
  f1 = f1
  Jobs = {j1}
  Refs = {a}
  RefOf <- OneRef
  Clients = {k1}
  Followers = {f1}
  Stream = f1
  MaxActive = 1
  MaxKept = 1
  MaxReports = 1
  MaxCuts = 1
SPECIFICATION PageSpec
CHECK_DEADLOCK FALSE
INVARIANTS
  EndTellsAll
  PageIsTrue
PROPERTIES
  PageSettles
