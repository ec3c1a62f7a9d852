\* An instruction fetched in user mode, Host build booted for OpenSBI.
CONSTANTS
  AddrSpace = 16
  RamBase = 4
  RamSize = 8
  PageSize = 8
  Uart = {1}
  Msip = 11
  ClintWords = {11}
  ClintDoubles = {10}
  Interrupts = {3, 7}
  PmpViews <- MCPmp
  BootPc = 4
  OpenSbi = TRUE
  Hosted = TRUE
  Program = {"csr", "jump", "mret"}
  Lengths = {4}
  JumpTargets = {4}
  Accesses <- FetchAccesses
  CsrAddrs <- FetchAddrs
  CsrValues <- FetchValues
SPECIFICATION Spec
CHECK_DEADLOCK FALSE
PROPERTY UserIsolation
