SPECIFICATION Spec
CONSTANTS
  eth0 = eth0
  eth1 = eth1
  NoRow = NoRow
  Interfaces <- MCInterfaces
  GlobalEntries <- MCGlobalEntries
  RetryDraws <- MCRetryDraws
  SuccessDraws <- MCSuccessDraws
  MaxFrames = 95
SYMMETRY MCSymmetry
INVARIANTS
  TypeOK
  AppliedWhenEnabled
  OrphansExplained
