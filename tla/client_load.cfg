CONSTANTS
    Addr <- MCAddr
    Blocks <- MCBlocks
    Arg <- MCArg
    Text <- MCText
    KeyText = 10
    Models <- OneModel
    Datagrams <- UnseenDatagrams
    QueueBound = 1
    MaxControls = 0
    MaxCrashes = 0
SPECIFICATION Spec
INVARIANTS LoadGetsTwoPackets
