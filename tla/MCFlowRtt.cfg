SPECIFICATION Spec
CONSTANTS
  a = a
  z = z
  rud = rud
  cubic_plus = cubic_plus
  NoRow = NoRow
  Packets <- MCPackets
  Accepted <- MCAccepted
  DefaultSettings <- MCDefaultSettings
  ConfigEntries <- MCConfigEntries
  RttSamples = {3, 5, 9}
  PathCounts = {}
  WeightVectors <- MCWeightVectors
  Clock <- MCClock
  StatsPeriod = 1
  CleanupPeriod = 2
  MaxPackets = 1
  Word = 128
INVARIANTS
  RttAverageAboveMinimum
