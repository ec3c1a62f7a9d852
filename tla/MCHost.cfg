\* The command line, the boot, the device tree, the trace and the UART.
SPECIFICATION Spec
CONSTANTS
    BufSizes <- MCBufSizes
    NameLength <- BuildLengths
    Suffixes <- BuildSuffixes
    Program <- BuildCalls
    HistorySize = 4
    Chars <- MCChars
    Setups <- MCSetups
    Stoul <- MCStoul
    Lines <- MCLines
INVARIANTS
    TypeOK
    BlocksDisjoint
    NoOrphanName
    BootImages
    ConsoleText
PROPERTIES
    TreeSpec
    TraceSpec
    Boots
    DriverSends
CHECK_DEADLOCK FALSE
