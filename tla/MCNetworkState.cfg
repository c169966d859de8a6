SPECIFICATION OneAtATimeSpec
CONSTANTS
  CveFile <- StateCves
  NoCve = NoCve
  MaxTime = 3
  DedupWindow = 1
  PortscanTargets = 2
  EmbeddedIps = {9}
  C2Ports = {}
  FeedIps = {}
  FeedTtl = 1
  None = None
  Requests <- ThreeRequests
  Overlap = 1
  A = A
  B = B
  Macs <- TwoMacs
  NoMac = NoMac
  Scans <- StateScans
  FlowSets <- StateFlows
  IdsBatches <- StateBatches
  StaleAfter = 1
  NewWindow = 1
  EventWindow = 1
  SatWindow = 0
  SatDevices = 2
INVARIANTS SummaryExact PersistentFaultShown SuspiciousFlowShown BlindOnlyIfNothingAnswered
CHECK_DEADLOCK FALSE
