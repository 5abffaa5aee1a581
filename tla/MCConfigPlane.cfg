SPECIFICATION Spec
CONSTANTS
  Interfaces <- MCInterfaces
  OperatorEntries <- MCOperatorEntries
  OperatorGlobals <- MCOperatorGlobals
  OtherTables <- MCOtherTables
  MaxEdits = 2
  LlrEntries <- MCLlrEntries
  RetryDraws = {0}
  SuccessDraws = {1}
  MaxFrames = 0
  NoRow = NoRow
INVARIANTS
  TypeOK
  AnnouncedRowsWhole
  PartialLoadIsPrefix
  LlrFollowsTable
