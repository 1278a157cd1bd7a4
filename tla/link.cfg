CONSTANTS
    Addr <- MCAddr
    Blocks <- MCBlocks
    Arg <- MCArg
    Text <- MCText
    KeyText = 10
    Models <- BothModels
    Datagrams <- MCScriptDatagrams
    Script <- MCScript
    QueueBound = 1
    MaxControls = 1
    MaxCrashes = 1
    MaxLost = 1
SPECIFICATION FairLinkSpec
CHECK_DEADLOCK FALSE
INVARIANTS NoOverlap BlockedHasCause
PROPERTIES ClientGoesOn
