CONSTANTS
  Budget = 4
  MaxHeavy = 1
  HeavyThreshold = 2
  NoPeak = NoPeak
  NoProc = NoProc
  NoThread = NoThread
  NoPid = NoPid
  NoEntry = NoEntry
  NoWorker = NoWorker
  NoReq = NoReq
  p1 = p1
  p2 = p2
  t1 = t1
  t2 = t2
  t3 = t3
  a = a
  b = b
  c = c
  x = x
  w1 = w1
  w2 = w2
  w3 = w3
  d1 = d1
  d2 = d2
  Procs = {p1, p2}
  Threads = {t1, t2}
  Refs = {a, b}
  Pids = {w1, w2, w3}
  Docs = {d1}
  ProcOf <- EachItsOwn
  Duties <- TwoDuties
  Wants <- Disjoint
  Profile <- PeakOf
  Demands <- JustPeak
  Reported <- JustPeak
  Faults = {"worker", "idle", "process"}
SPECIFICATION Spec
SYMMETRY Symmetric
INVARIANTS
  MirrorShowsJobs
  OnlyTheKilledLeak
CHECK_DEADLOCK FALSE
