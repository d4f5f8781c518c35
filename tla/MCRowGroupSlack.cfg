\* Any valid batch, a build without assertions.
SPECIFICATION Spec
CONSTANTS
    i1 = i1
    i2 = i2
    x = x
    y = y
    IntValues <- MCIntValues
    Bytes <- MCBytes
    Schema <- MCSchema
    CandidateRows <- MCCandidateRows
    RowSpans <- MCRowSpans
    CandidateBatches <- MCAllBatches
    OffsetRange = 32
    Capacity = 3
    NDEBUG = TRUE
    MaxSlack = 3
INVARIANTS
    TypeOK
    CellsExtendLog
PROPERTIES
    InnerRowsStable
