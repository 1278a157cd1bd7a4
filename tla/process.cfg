CONSTANTS
    Addr <- MCAddr
    Blocks <- MCBlocks
    Arg <- MCArg
    Text <- MCText
    KeyText = 10
    Models <- BothModels
    Datagrams <- ServiceScenarioDatagrams
    Scenarios <- ServiceScenarios
    QueueBound = 1
    MaxControls = 1
    MaxCrashes = 1
SPECIFICATION ScenarioSpec
INVARIANTS TypeOK SealedRows CommandAnswered EventListCurrent
PROPERTIES UnhealthyKept DeathHasCause ImplementsUnitStore
