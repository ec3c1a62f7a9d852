\* Registers of 8 bits: all compressed instructions, all immediates.
CONSTANTS
  HalfBits = 4
  Half = 16
  Code <- MCCode
  Loaded <- MCLoaded
  StackWord = {0}
  Begin <- MCBegin
  TrapPC = 10
SPECIFICATION Spec
CHECK_DEADLOCK FALSE
INVARIANT TypeOK
PROPERTY IsaSpec
