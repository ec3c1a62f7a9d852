CONSTANTS
  AddrSpace = 12
  RamBase = 4
  RamSize = 5
  PageSize = 8
  Uart = {10}
  Msip = 3
  ClintWords = {2, 3}
  ClintDoubles = {2}
  Interrupts = {3, 7}
  Hosted = TRUE
  PmpViews <- MCPmpWhole
  Byte <- MCBytes
  Widths = {1, 4}
  AtomicWidths = {4}
  DataAddrs = {4, 6, 8, 10}
  DataModes = {1, 3}
  DataWords <- MCDataWords
  Stores <- MCStores
  Delegations <- MCDelegations
SPECIFICATION Spec
CHECK_DEADLOCK FALSE
PROPERTY ProtectedRam
