CONSTANTS
    MaxRawSizeBytes = 1
    MaxParsedFields = 3
    MaxKeyLength = 1
    MaxStructuralNesting = 3
    EnforceUTF8 = TRUE
    Sizes = {1, 2}
    KeyLengths = {0, 1, 2}
SPECIFICATION Spec
INVARIANTS
    TypeOK
    WalkTracksDecoder
    AcceptedWithinLimits
    ViolationIsReal
