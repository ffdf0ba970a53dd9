CONSTANTS
    Radix = 2
    NativeOrder = "little"
    Declaration <- MCDeclaration
    Utf8 <- MCUtf8
    Excess = 1
    NoText = NoText
SPECIFICATION Spec
INVARIANTS
    TypeOK
    HandleStaysProved
    UnusedBytesIrrelevant
PROPERTIES
    SetKeepsUnusedBytes
    ImplementsBoundedText
