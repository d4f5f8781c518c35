\* Two sessions and two databases; a build without assertions.
SPECIFICATION Spec
CONSTANTS
    main = main
    other = other
    public = public
    archive = archive
    tab = tab
    colA = colA
    colB = colB
    txtP = txtP
    s1 = s1
    s2 = s2
    EmptyName = ""
    DefaultDatabase = main
    PublicSchema = public
    NDEBUG = TRUE
    Sessions <- MCSessionSet
    Statements <- MCStatements
    DatabaseNames <- MCDatabaseNames
    RowBatches <- MCRowBatches
    ColumnarBatches <- MCColumnarBatches
    MaxRows = 2
    Closed = Closed
SYMMETRY Symmetry
INVARIANTS
    Inv
    TablesWellFormed
    SessionsConnected
    BoundStaysExecutable
    SelectAnswersByName
PROPERTIES
    NothingForgotten
CHECK_DEADLOCK FALSE
