CONSTANTS
    Node <- MCNode
    Root = 1
    Shape <- MCShape
    Kids <- MCKids
    Name <- MCName
    TagOf <- MCTagOf
    MaxFaults = 2
SPECIFICATION Spec
INVARIANT ErrorNamesCulprit
