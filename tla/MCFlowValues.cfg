SPECIFICATION Spec
CONSTANTS
  a = a
  z = z
  rud = rud
  cubic_plus = cubic_plus
  NoRow = NoRow
  Packets <- MCPackets
  Accepted <- MCAccepted
  DefaultSettings <- MCDefaultSettings
  ConfigEntries <- MCConfigEntries
  RttSamples = {0, 3, 5, 9}
  PathCounts = {0, 3, 100, 101}
  WeightVectors <- MCWeightVectors
  Clock <- MCClock
  StatsPeriod = 1
  CleanupPeriod = 2
  MaxPackets = 1
  Word = 64
INVARIANTS
  RttStatsOrdered
PROPERTIES
  RttFollowsSamples
  WeightKeptUnlessGivenUp
