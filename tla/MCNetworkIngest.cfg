SPECIFICATION FairSpec
CONSTANTS
  CveFile <- NoCveFile
  NoCve = NoCve
  MaxTime = 2
  DedupWindow = 1
  PortscanTargets = 2
  EmbeddedIps = {9}
  C2Ports = {4444}
  FeedIps = {7}
  FeedTtl = 1
  None = None
  Requests <- OneRequests
  Overlap = 2
  A = A
  B = B
  Macs <- OneMacs
  NoMac = NoMac
  Scans <- OneScans
  FlowSets <- OneFlows
  IdsBatches <- OneBatches
INVARIANTS TypeOK OneRowPerDevice DetailsOfLastScan QuietScanExact FlowsOnRecord
PROPERTIES NothingAppearsSilently ScansEnd
CHECK_DEADLOCK FALSE
