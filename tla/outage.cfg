CONSTANTS
    Addr <- MCAddr
    Blocks <- MCBlocks
    Arg <- MCArg
    Text <- MCText
    KeyText = 10
    Models <- OneModel
    Datagrams <- OutageDatagrams
    QueueBound = 1
    MaxControls = 1
    MaxCrashes = 1
    MaxOutages = 2
SPECIFICATION OutageSpec
CHECK_DEADLOCK FALSE
INVARIANTS SealedRows DoneMeansStored
PROPERTIES OutageDeathHasCause
