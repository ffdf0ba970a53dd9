CONSTANTS
    Word = 12
    Byte = {0, 1}
    Wire <- MCWire
    Size <- MCSize
    Align <- MCAlign
    Slices <- MCSlices
    MaxDepth = 3
SPECIFICATION Spec
INVARIANTS
    TypeOK
    InputsStayChecked
    PathNested
    StreamPartitioned
PROPERTY WritesStayInOneRecord
