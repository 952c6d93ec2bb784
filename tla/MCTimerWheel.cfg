SPECIFICATION Spec
CONSTANTS
    Fds = {f1, f2}
    Timeout = 2
    NanosPerSecond = 2
    MaxSecond = 7
    MaxLag = 1
INVARIANTS SlotsMatch NoneOverdue OnePass
PROPERTIES NeverEarly
