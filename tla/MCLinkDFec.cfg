SPECIFICATION Spec
CONSTANTS
  Ports <- MCPorts
  Entries <- MCEntries
  FecModes = {"rs"}
  MaxEdits = 2
  MaxTotal = 2
PROPERTIES
  UpdatedEveryTenSeconds
