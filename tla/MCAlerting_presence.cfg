\* One machine, overlapping heartbeats, a scheduler and an accidental second one: presence and
\* its alert, safety and liveness.
SPECIFICATION FairSpec
CONSTANTS
  h1 = h1  h2 = h2  s1 = s1  s2 = s2  m1 = m1  m2 = m2
  i1 = i1  i2 = i2  i3 = i3  i4 = i4  i5 = i5  i6 = i6  i7 = i7  i8 = i8
  Machines = {m1}
  Handlers = {h1, h2}
  Schedulers = {s1, s2}
  AlertIds = {i1, i2, i3, i4}
  NoTx = NoTx
  Null = Null
  Readings <- NoReadings
  MaxSamples = 0
  MaxCrashes = 1
  OfflineAfter = 1
  ConsecutivePoints = 2
  AnomalyEnabled = FALSE
  AnomalyMinRows = 2
  Verdicts <- NoVerdicts
INVARIANTS SettledPresence
PROPERTIES OfflineAlertWithStatus RequestsEnd SilenceDetected ReturnClears
