SPECIFICATION LiveSpec
CONSTANTS
    f1 = f1
    f2 = f2
    f3 = f3
    f4 = f4
    s1 = s1
    Fds = {f1, f2, f3, f4}
    Ids = {s1}
    Dirs = {root}
    Root = root
    NoSession = NoSession
    NoTask = NoTask
    Requests <- LiveRequests
    NoRequest = NoRequest
    Workers = {w1}
    QueueCapacity = 1
    MaxConns = 4
CHECK_DEADLOCK FALSE
PROPERTIES TaskFinishes InputServed ShutdownCompletes
