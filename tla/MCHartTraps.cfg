\* The Core build: no environment, RAM at 0, the boot pc outside it.
CONSTANTS
  AddrSpace = 12
  RamBase = 0
  RamSize = 8
  PageSize = 8
  Uart = {}
  Msip = 11
  ClintWords = {}
  ClintDoubles = {}
  Interrupts = {3, 7}
  PmpViews <- MCPmp
  BootPc = 8
  OpenSbi = FALSE
  Hosted = FALSE
  Program = {"load", "csr", "ecall", "ebreak", "mret", "sret", "badsystem"}
  Lengths = {4}
  JumpTargets = {}
  Accesses <- TrapAccesses
  CsrAddrs <- TrapAddrs
  CsrValues <- TrapValues
SPECIFICATION Spec
INVARIANT TypeOK
INVARIANT TrapReturnRoundTrip
PROPERTY SingleTrapIsPrecise
PROPERTY NoTrapLowersPrivilege
CHECK_DEADLOCK FALSE
