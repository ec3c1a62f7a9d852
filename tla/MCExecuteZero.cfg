\* addi x0, x1, 1 and what the stack left in registers[0].
CONSTANTS
  HalfBits = 4
  Half = 16
  Code <- ZeroCode
  Loaded <- MCLoaded
  StackWord = {0}
  Begin <- ZeroBegin
  TrapPC = 10
SPECIFICATION Spec
CHECK_DEADLOCK FALSE
INVARIANT ZeroRegister
