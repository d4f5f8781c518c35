\* Short texts over characters and over words.
SPECIFICATION FrontendSpec
CONSTANTS
    EmptyName <- NoCharacters
    Letters <- MCLetters
    Digits <- MCDigits
    Lower <- MCLower
    Keywords <- MCKeywords
    DigitValue <- MCDigitValue
    MaxInt64 = 20
    Inputs <- MCInputs
INVARIANTS
    ScansEnd
    LexemesInLanguage
    PlacesAreRight
    DecodesText
    ParsesToGrammar
    ErrorsPointAtCulprit
PROPERTIES
    GapsAreBlank
CHECK_DEADLOCK FALSE
