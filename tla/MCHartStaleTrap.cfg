\* A CSR instruction after a failed fetch.
CONSTANTS
  AddrSpace = 12
  RamBase = 4
  RamSize = 6
  PageSize = 8
  Uart = {1}
  Msip = 11
  ClintWords = {11}
  ClintDoubles = {10}
  Interrupts = {3, 7}
  PmpViews <- MCPmp
  BootPc = 4
  OpenSbi = TRUE
  Hosted = TRUE
  Program = {"plain", "jump", "csr", "mret", "ecall", "ebreak"}
  Lengths = {2, 4}
  JumpTargets = {6}
  Accesses <- FetchAccesses
  CsrAddrs <- FetchAddrs
  CsrValues <- FetchValues
SPECIFICATION Spec
CHECK_DEADLOCK FALSE
PROPERTY UntrappedCsrCompletes
