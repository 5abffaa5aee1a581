SPECIFICATION Spec
CONSTANTS
  Ports <- MCPorts
  Entries <- MCEntries
  FecModes = {"rs"}
  MaxEdits = 3
  MaxTotal = 2
INVARIANTS
  TypeOK
  ConfigMirrored
  InitialisationComplete
  FecIsMonitored
  MonitorsFindCounters
PROPERTIES
  CountsLostOnlyToRaces
  CatchesUp
  SignalStops
