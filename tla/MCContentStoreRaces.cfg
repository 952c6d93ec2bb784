SPECIFICATION Spec
CONSTANTS
    Workers = {w1, w2}
    Paths = {"dir", "dir/a", "b"}
    Root = "/"
    Parent <- MCParent
    Commands = {"mkdir", "rmdir", "rm", "puts"}
    Size = 2
    Sizes = {2}
    Data = {"good"}
    MaxRows = 3
    MaxFiles = 2
    Inodes = {1, 2, 3}
CHECK_DEADLOCK FALSE
INVARIANTS RefsBounded ResumePrefix NoChildOfFile
SYMMETRY Symmetry
