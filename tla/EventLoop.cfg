\* Two or three connections, and budgets smaller than what they ask for.
SPECIFICATION Spec
CONSTANTS
    Clients = {1, 2, 3}
    InputMax = 2
    SendQ = 4
    FlushBudget = 2
    Window = 1
    RecordMax = 2
    PerClient = 1
    Handshakes = 1
    PingInterval = 1
    PingTimeout = 1
    MaxSaid = 6
    Configs <- AllConfigs
INVARIANTS OutputIntact
PROPERTIES PongHeard EveryoneServed OutputFlushed
