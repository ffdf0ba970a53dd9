CONSTANTS
    Node <- MCNode
    Root = 1
    Shape <- MCShape
    Kids <- MCKids
    Name <- MCName
    TagOf <- MCTagOf
    MaxFaults = 1
SPECIFICATION Spec
INVARIANT ChildErrorsAreKept
