SPECIFICATION Spec
CONSTANTS
    Workers = {w1}
    Paths = {"dir", "dir/a", "b"}
    Root = "/"
    Parent <- MCParent
    Commands = {"mkdir", "rmdir", "rm", "puts"}
    Size = 2
    Sizes = {1, 2}
    Data = {"good", "bad"}
    MaxRows = 5
    MaxFiles = 2
    Inodes = {1, 2, 3}
CHECK_DEADLOCK FALSE
INVARIANTS RefsExact ContentPresent PublishedVerified TreeConnected
