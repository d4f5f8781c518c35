\* One shell, driven by lines; a build with assertions.
SPECIFICATION ShellSpec
CONSTANTS
    EmptyName <- NoCharacters
    DefaultDatabase <- MCMain
    PublicSchema <- MCPublic
    NDEBUG = FALSE
    repl = repl
    Sessions = {repl}
    Statements = {}
    DatabaseNames <- MCDatabaseNames
    RowBatches = {}
    ColumnarBatches = {}
    MaxRows = 9
    Closed = Closed
    Letters <- MCLetters
    Digits = {"1", "2"}
    Lower <- NoCharacters
    Keywords <- MCKeywords
    DigitValue <- MCDigitValue
    MaxInt64 = 20
    Lines <- MCLines
    MaxLines = 4
INVARIANTS
    ShellInv
    NeverAborts
    
    SelectAnswersByName
    JoinKeepsTokens
    ContinuesOnlyIncomplete
PROPERTIES
    RunReturns
CHECK_DEADLOCK FALSE
