SPECIFICATION Spec
CONSTANTS
  eth0 = eth0
  eth1 = eth1
  Interfaces <- MCInterfaces
  QueueDepths = {0, 60, 80, 95}
  Thresholds <- MCThresholds
  EcnEntries = {80}
  QueueLimit = 2
  MaxChanges = 2
SYMMETRY MCSymmetry
INVARIANTS
  TypeOK
  EventsFollowStates
PROPERTIES
  RebalancesAsCounted
  RebalancingIsFresh
