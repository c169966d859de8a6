\* One machine, overlapping metrics requests that may fail, no scheduler.
SPECIFICATION Spec
CONSTANTS
  h1 = h1  h2 = h2  s1 = s1  s2 = s2  m1 = m1  m2 = m2
  i1 = i1  i2 = i2  i3 = i3  i4 = i4  i5 = i5  i6 = i6  i7 = i7  i8 = i8
  Machines = {m1}
  Handlers = {h1, h2}
  Schedulers = {}
  AlertIds = {i1, i2, i3, i4, i5, i6}
  NoTx = NoTx
  Null = Null
  Readings <- CoolOrHot
  MaxSamples = 2
  MaxCrashes = 1
  OfflineAfter = 0
  ConsecutivePoints = 2
  AnomalyEnabled = TRUE
  AnomalyMinRows = 2
  Verdicts <- CpuVerdicts
SYMMETRY HandlerSymmetry
INVARIANTS TypeOK OneOpenAlert SettledThresholds
