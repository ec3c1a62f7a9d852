\* The Host build booted for OpenSBI: delegation and interrupt registers.
CONSTANTS
  AddrSpace = 16
  RamBase = 4
  RamSize = 8
  PageSize = 8
  Uart = {1}
  Msip = 14
  ClintWords = {14}
  ClintDoubles = {13}
  Interrupts = {1, 3, 7}
  PmpViews <- MCPmp
  BootPc = 4
  OpenSbi = TRUE
  Hosted = TRUE
  Program = {"store", "amo", "jump", "csr", "mret", "sret"}
  Lengths = {4}
  JumpTargets = {4}
  Accesses <- IsolationAccesses
  CsrAddrs <- IsolationAddrs
  CsrValues <- IsolationValues
SPECIFICATION Spec
CHECK_DEADLOCK FALSE
 
PROPERTY SupervisorIsolation
PROPERTY MachineLinesProtected
PROPERTY TrappedCsrHasNoEffect
