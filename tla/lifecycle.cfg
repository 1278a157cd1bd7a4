CONSTANTS
    Addr <- MCAddr
    Blocks <- MCBlocks
    Arg <- MCArg
    Text <- MCText
    KeyText = 10
    Models <- BothModels
    Datagrams <- LifecycleScenarioDatagrams
    Scenarios <- LifecycleScenarios
    QueueBound = 2
    MaxControls = 2
    MaxCrashes = 1
SPECIFICATION FairScenarioSpec
INVARIANTS IInv LateBound AllOrNothing
PROPERTIES UpdateKept UnitInitialised CommandFinishes ShutdownCompletes
