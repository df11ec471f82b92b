\* One lookup worker, one logged channel: signals, RESTART, DIE and crashes at
\* every point of main().
SPECIFICATION Spec
CONSTANTS
    c1 = c1
    Channels = {c1}
    QueueMax = 1
    FetchRows = 1
    FlushRows = 1
    RotateStates = 1
    Batch = 1
    DayLength = 2
    MaxTime = 1
    MaxId = 1
    MaxFaults = 1
    Resolvers = {1}
    PipeMax = 1
    MaxRequests = 2
INVARIANTS SignalReachesServer NoWorkerOutlivesServer
PROPERTIES SignalEndsProcess RestartServesAgain QueuedIsLogged
CHECK_DEADLOCK FALSE
