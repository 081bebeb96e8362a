CONSTANTS
  Budget = 4
  MaxHeavy = 1
  HeavyThreshold = 2
  NoPeak = NoPeak
  NoProc = NoProc
  NoThread = NoThread
  NoPid = NoPid
  NoEntry = NoEntry
  NoWorker = NoWorker
  NoReq = NoReq
  p1 = p1
  p2 = p2
  t1 = t1
  t2 = t2
  t3 = t3
  a = a
  b = b
  c = c
  x = x
  w1 = w1
  w2 = w2
  w3 = w3
  d1 = d1
  d2 = d2
  Procs = {p1}
  Threads = {t1, t2}
  Refs = {a, b}
  Pids = {w1, w2, w3}
  Docs = {d1, d2}
  ProcOf <- OneProc
  Duties <- ReloadDuties
  Wants <- OneOrAny
  Profile <- PeakOf
  Demands <- JustPeak
  Reported <- JustPeak
  Faults = {"socket"}
SPECIFICATION Spec
SYMMETRY Symmetric
INVARIANTS
  ServedAsAsked
  OnlyTheUnreachableLeak
