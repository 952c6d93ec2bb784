SPECIFICATION Spec
CONSTANTS
    Workers = {w1, w2}
    Paths = {"a", "b"}
    Root = "/"
    Parent <- FlatParent
    Commands = {"rm", "puts"}
    Size = 2
    Sizes = {2}
    Data = {"good"}
    MaxRows = 4
    MaxFiles = 2
    Inodes = {1, 2, 3, 4}
SYMMETRY Symmetry
CHECK_DEADLOCK FALSE
INVARIANTS RefsExact
