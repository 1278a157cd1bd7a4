CONSTANTS
    Addr <- MCAddr
    Blocks <- MCBlocks
    Arg = {}
    Commands <- MCCommands
    Text <- MCText
    KeyText = 10
    LengthText = 10
SPECIFICATION Spec
INVARIANTS TypeOK OneAddressPerMemory DumpFits
PROPERTIES DecodesAsStored OverflowHasCause EndsAsModelled ImplementsBlockMemory
CHECK_DEADLOCK FALSE
