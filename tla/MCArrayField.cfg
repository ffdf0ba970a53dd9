CONSTANTS
    Shape <- MCShape
    LeafSize = 2
    Byte = {0, 1}
    MaxIndex = 3
    Value <- MCValue
    Valid <- MCValid
    Preflight <- MCPreflight
    Commit <- MCCommit
SPECIFICATION Spec
INVARIANTS
    ElementsStayValid
    RejectionNamesFirstElement
    AccessNamesFirstElement
PROPERTY ImplementsElementTable
