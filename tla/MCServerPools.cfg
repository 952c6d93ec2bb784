SPECIFICATION ServerSpec
CONSTANTS
    Workers = {w1, w2, w3}
    Capacity = 2
    MaxTasks = 3
    NoTask = NoTask
    Connections = {c1, c2}
    PoolSize = 2
    NoConnection = NoConnection
    MaxCalls = 1
CHECK_DEADLOCK FALSE
INVARIANTS NoLostWakeup CleanExit ConnsConserved NoLostConnection
PROPERTIES ImplementsQueue CallsReturn
