CONSTANTS
    Addr <- MCAddr
    Blocks <- MCBlocks
    Arg <- MCArg
    Text <- MCText
    KeyText = 10
    Models <- BothModels
    Datagrams <- TestParameterDatagrams
    QueueBound = 1
    MaxControls = 0
    MaxCrashes = 0
SPECIFICATION Spec
INVARIANTS ListedParametersCompleted
