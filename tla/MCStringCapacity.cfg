CONSTANTS
    Radix = 2
    NativeOrder = "little"
    Declaration <- MCDeclaration
    Utf8 <- MCUtf8
    Excess = 1
    NoText = NoText
SPECIFICATION Spec
INVARIANT CapacityIsAccepted
