SPECIFICATION Spec
CONSTANTS
    Fds = {f1, f2}
    Ids = {s1, s2}
    Dirs = {root}
    Root = root
    NoSession = NoSession
    NoTask = NoTask
    Requests <- AnyRequest
    NoRequest = NoRequest
    Workers = {w1, w2}
    QueueCapacity = 1
    MaxConns = 2
CHECK_DEADLOCK FALSE
INVARIANTS OwnedOnce FreshEvents BindingsFresh TasksAuthorized TasksKeepConnection
SYMMETRY Symmetry
