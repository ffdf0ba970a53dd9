CONSTANTS
    Leaf <- MCLeaf
    AlignOption = {3, 4}
    Length = {0, 3}
    MaxFields = 2
    MaxSize = 20
    MaxTypes = 3
SPECIFICATION Spec
INVARIANTS
    SelectionsSucceed
    PaddingIsExact
CHECK_DEADLOCK FALSE
