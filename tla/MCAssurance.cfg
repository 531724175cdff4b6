CONSTANTS
    Parts <- MCParts
    Malformed = {"nowhere"}
    LineKinds <- MCLineKinds
    SampleLimit = 100
    Cast <- MCCast
    Extractions <- MCExtractions
    Unknown <- MCUnknown
    MaxEvents = 2
    Baseline <- MCBaseline
    Batches = {1, 60}
    MaxBatches = 3
    Specs <- MCSpecs
    Histories <- MCHistories
    RawEvents <- MCRawEvents
    Goldens <- MCGoldens
    MinAccuracy = 50
SPECIFICATION Spec
INVARIANTS
    TypeOK
    ActionDetectionsSurvive
    CriticalNotAveraged
    StableKeepsShape
    StableKeepsMeaning
    CertifiedParsesRight
