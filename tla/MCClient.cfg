SPECIFICATION Spec
CONSTANTS
    get = get
    put = put
    Tasks = {get, put}
    TargetOf <- MCTargetOf
    NoTarget = NoTarget
    MaxConcurrent = 2
    MaxFd = 2
    Args <- MCArgs
    MaxSessions = 2
    MaxTrail = 4
    MaxDoubled = 1
    MaxDrift = 1
CHECK_DEADLOCK FALSE
INVARIANTS NoTouchAfterFree SocketsUnderControl MirrorAgrees
PROPERTIES ImplementsTransfers ExitCompletes
