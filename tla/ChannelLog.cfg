\* Three days, rows that wait across midnight, a backlog larger than one flush, a
\* clock that may be set back, and one failure or crash at any step.
SPECIFICATION LogSpec
CONSTANTS
    c1 = c1
    Channels = {c1}
    QueueMax = 3
    FetchRows = 2
    FlushRows = 2
    RotateStates = 1
    Batch = 2
    DayLength = 2
    MaxTime = 4
    MaxId = 3
    MaxFaults = 1
INVARIANTS CountExact RepeatsNeedFaults
PROPERTIES NoLineAfterClosing ImplementsDurableLog
CHECK_DEADLOCK FALSE
