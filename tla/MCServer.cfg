CONSTANTS
  Budget = 6
  MaxHeavy = 1
  HeavyThreshold = 1
  NoPeak = NoPeak
  NoProc = NoProc
  NoThread = NoThread
  NoPid = NoPid
  NoEntry = NoEntry
  NoWorker = NoWorker
  NoReq = NoReq
  p1 = p1
  p2 = p2
  t1 = t1
  t2 = t2
  t3 = t3
  a = a
  b = b
  c = c
  x = x
  w1 = w1
  w2 = w2
  w3 = w3
  d1 = d1
  d2 = d2
  Procs = {p1}
  Threads = {t1, t2}
  Refs = {a, b, x}
  Pids = {w1, w2, w3}
  Docs = {d1}
  ProcOf <- OneProc
  Duties <- ServerDuties
  Wants <- AnyRef
  Profile <- PeakOf
  Demands <- JustPeak
  Reported <- JustPeak
  Faults = {"worker", "idle"}
SPECIFICATION Spec
SYMMETRY Symmetric
INVARIANTS
  LockExclusive
  TurnExclusive
  LoadedOnce
  MemoryBound
PROPERTIES
  RunningJobsSpared
