SPECIFICATION Spec
CONSTANTS
  f1 = f1
  f2 = f2
  Flows <- MCFlows
  FlowTimeout = 2
  CleanupPeriod = 3
PROPERTIES
  CleanupEvery60Seconds
