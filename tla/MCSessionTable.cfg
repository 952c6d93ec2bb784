SPECIFICATION TableSpec
CONSTANTS
    Fds = {f1, f2, f3}
    Ids = {s1, s2, s3, s4}
    Dirs = {root, docs}
    Root = root
    NoSession = NoSession
INVARIANTS IndexesAgree CountExact LiveIffBound
PROPERTIES NoSwitch
