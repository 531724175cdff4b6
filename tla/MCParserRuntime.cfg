CONSTANTS
    Keys <- MCKeys
    Fold <- MCFold
    Pointer <- MCPointer
    Values <- MCValues
    FieldTypes = {"string", "integer"}
    Paths = {"src.ip", "src.port"}
    Typed <- MCTyped
    Coerce <- MCCoerce
    Failed = Failed
    Payloads <- MCPayloads
    Specs <- AllSpecs
SPECIFICATION Spec
INVARIANTS
    TypeOK
    Deterministic
    LineageLeadsBack
    NothingDiscarded
