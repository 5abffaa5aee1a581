SPECIFICATION AllSpec
CONSTANTS
  Senders = {s1, s2}
  Unchecked = {s2}
  Destinations = {d1, d2}
  HalfRange = 3
  ConnTimeout = 2
  MaxConns = 2
  Interfaces = {"Ethernet0", "Ethernet4"}
  Ratios = {25, 200}
  Word = 8192
  MaxUpdates = 3
  Switches = {"w1", "w2"}
  Ports = {0, 1}
  Addresses = {"a", "b"}
  Paths = {0, 1}
  Ttls = 2
  Tables <- MCTables
  Links <- MCLinks
INVARIANTS
  AllTypesOK
  ActiveIsRecent
  InUseWithinSenders
  SavingsTriangular
PROPERTIES
  DuplicatesExpire
  PacketsLeave
