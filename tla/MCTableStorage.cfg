\* Offsets that never wrap: 2 rows of at most 2 bytes per group.
SPECIFICATION FairSpec
CONSTANTS
    i1 = i1
    i2 = i2
    x = x
    y = y
    IntValues <- MCIntValues
    Bytes <- MCBytes
    Schema <- MCSchema
    CandidateRows <- MCCandidateRows
    RowSpans <- MCRowSpans
    CandidateBatches <- MCCandidateBatches
    Projections <- MCProjections
    OffsetRange = 8
    Capacity = 2
    MaxRows = 5
INVARIANTS
    TypeOK
    GroupsWellFormed
    ScanYieldsLog
    ProjectedScanYieldsLog
    SliceAccepted
PROPERTIES
    SealedGroupsImmutable
    ImplementsAppendOnlyTable
    CallsReturn
