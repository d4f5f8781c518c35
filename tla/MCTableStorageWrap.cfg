\* Offsets that wrap: 3 rows of at most 2 bytes, offsets 0..3.
SPECIFICATION Spec
CONSTANTS
    i1 = i1
    i2 = i2
    x = x
    y = y
    IntValues <- MCIntValues
    Bytes <- MCBytes
    Schema <- MCSchema
    CandidateRows <- MCCandidateRows
    RowSpans <- MCRowSpans
    CandidateBatches <- MCCandidateBatches
    Projections <- MCProjections
    OffsetRange = 4
    Capacity = 3
    MaxRows = 5
INVARIANTS
    Inv
    GroupsHoldLog
    ReadsInBounds
