\* The scheduler and an operator over two sources, one of them down.
SPECIFICATION LiveSpec
CONSTANTS
    cron = cron  cli = cli
    NoProc = NoProc
    Items = {1, 2}
    Sources = {1, 2}
    SourceOf <- OfSecond
    Route <- Routes
    Poison = {1}
    BatchSize = 2
    Procs = {cron, cli}
    Commands <- Started
    Down = {1}
    Operators = {cli}
    MaxCommands = 1
    MaxEvents = 1
INVARIANTS
    TypeOK
    RunsSound
    VerifiedOnDemand
PROPERTIES
    EverySourceRuns
    EverythingServed
