SPECIFICATION Spec
CONSTANTS
  a = a
  b = b
  z = z
  NoRow = NoRow
  rud = rud
  cubic_plus = cubic_plus
  Packets <- MCPackets
  Accepted <- MCAccepted
  DefaultSettings <- MCDefaultSettings
  ConfigEntries <- MCConfigEntries
  RttSamples = {}
  PathCounts = {}
  WeightVectors = {}
  Clock <- MCClock
  StatsPeriod = 1
  CleanupPeriod = 2
  MaxPackets = 2
  Word = 256
SYMMETRY MCSymmetry
INVARIANTS
  TypeOK
  FlowsAndStatsAgree
  RowsShowLiveFlows
  ConfigPublished
PROPERTIES
  PublishedNeverRegresses
  GrowthRespectsLimit
  ImplementsFlowTable
