CONSTANTS
  TableSize = 4
  Opcodes = {2, 3, 6}
  Funct3 = {0, 1}
  Funct7 = {0, 2, 3}
  FormatR = {2}
  System = 3
  ShiftOps = {6}
  Handlers = {"sub", "auipc", "sfence", "system", "srai", "addi"}
  None = none
  Patterns <- MCPatterns
SPECIFICATION Spec
INVARIANT TypeOK
PROPERTY DispatchSpec
