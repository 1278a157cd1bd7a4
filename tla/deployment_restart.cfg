CONSTANTS
    Addr <- MCAddr
    Blocks <- MCBlocks
    Arg <- MCArg
    Text <- MCText
    KeyText = 10
    Models <- OneModel
    Datagrams <- LifecycleDatagrams
    QueueBound = 1
    MaxControls = 0
    MaxCrashes = 1
SPECIFICATION FairSpec
PROPERTIES RestartRecovers
