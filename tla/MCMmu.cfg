\* The Host build booted for OpenSBI, with page tables in memory.
CONSTANTS
  AddrSpace = 128
  RamBase = 64
  RamSize = 32
  PageSize = 16
  Uart = {1}
  Msip = 3
  ClintWords = {3}
  ClintDoubles = {}
  Interrupts = {3, 7}
  PmpViews <- MCViews
  BootPc = 64
  OpenSbi = TRUE
  Hosted = TRUE
  Program = {"store", "jump", "csr", "mret"}
  Lengths = {4}
  JumpTargets = {30}
  Accesses <- MCAccesses
  CsrAddrs <- MCCsrAddrs
  CsrValues <- MCCsrValues
  PmpCount = 2
  TableSize = 2
  PpnCount = 8
  Ptes <- MCPtes
  BootPtes <- MCBootPtes
  Roots = {4}
  CfgBytes <- MCCfgBytes
  AddrWrites <- MCAddrWrites
SPECIFICATION MmuSpec
INVARIANT MmuTypeOK
INVARIANT GrantsByRegion
INVARIANT FetchesMappedCode
CHECK_DEADLOCK FALSE
