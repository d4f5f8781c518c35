\* What the help says of semicolons.
SPECIFICATION ShellSpec
CONSTANTS
    EmptyName <- NoCharacters
    DefaultDatabase <- MCMain
    PublicSchema <- MCPublic
    NDEBUG = FALSE
    repl = repl
    Sessions = {repl}
    Statements = {}
    DatabaseNames <- MCDatabaseNames
    RowBatches = {}
    ColumnarBatches = {}
    MaxRows = 9
    Closed = Closed
    Letters <- MCLetters
    Digits = {"1", "2"}
    Lower <- NoCharacters
    Keywords <- MCKeywords
    DigitValue <- MCDigitValue
    MaxInt64 = 20
    Lines <- MCLines
    MaxLines = 2
INVARIANTS
    SemicolonsOptional
CHECK_DEADLOCK FALSE
