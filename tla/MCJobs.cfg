CONSTANTS
  NoJob = NoJob
  j1 = j1
  j2 = j2
  j3 = j3
  a = a
  b = b
  k1 = k1
  f1 = f1
  Jobs = {j1, j2, j3}
  Refs = {a, b}
  RefOf <- SameThenOther
  Clients = {k1}
  Followers = {}
  MaxActive = 2
  MaxKept = 2
  MaxReports = 0
SPECIFICATION UnfollowedSpec
SYMMETRY Twins
CHECK_DEADLOCK FALSE
INVARIANTS
  LiveJobsListed
  StopIsNoFault
  OneStory
