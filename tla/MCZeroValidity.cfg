CONSTANTS
    Discriminant = {0, 1}
    Length = {0, 2}
    MaxFields = 3
    MaxTypes = 6
SPECIFICATION Spec
INVARIANTS
    TypeOK
    ConstantIsExact
    ClearIsSound
    ZeroStateIsSafe
    PresentIsNotAbsent
