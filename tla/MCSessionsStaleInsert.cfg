\* One session that connects between binding and execution; a build with assertions.
SPECIFICATION Spec
CONSTANTS
    main = main
    other = other
    public = public
    archive = archive
    tab = tab
    colA = colA
    colB = colB
    txtP = txtP
    s1 = s1
    s2 = s2
    EmptyName = ""
    DefaultDatabase = main
    PublicSchema = public
    NDEBUG = FALSE
    Sessions = {s1}
    Statements <- MCStatements
    DatabaseNames <- MCDatabaseNames
    RowBatches = {}
    ColumnarBatches <- MCColumnarBatches
    MaxRows = 2
    Closed = Closed
INVARIANTS
    InsertedRowsMatchSchema
CHECK_DEADLOCK FALSE
