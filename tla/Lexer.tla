------------------------------- MODULE Lexer -------------------------------
(***************************************************************************)
(* The scanner: src/src/frontend/lexer.{hpp,cpp}, and the decoding of      *)
(* string literals in src/src/catalog/value.cpp.                           *)
(*                                                                         *)
(* A text is a sequence of characters.  Which characters are letters and   *)
(* digits, their lower case and the keywords are parameters: an instance   *)
(* may take whole words for single letters.  Positions are 1-based; a      *)
(* place is the state of the scanner: the position of the next character,  *)
(* its line and its column.                                                *)
(***************************************************************************)
EXTENDS Integers, SequencesExt

CONSTANTS
    Letters, Digits,
    Lower,          \* the lower case of letters that differ from it
    Keywords        \* the token kind of each keyword, spelled in lower case

Quote   == "'"
NewLine == "\n"
NUL     == "NUL"    \* the character '\0', which peek also returns at the end

Whitespace         == {" ", "\t", NewLine, "\r"}
IdentifierStart    == Letters \cup {"_"}
IdentifierContinue == IdentifierStart \cup Digits

Marks ==
    [c \in {",", ";", ".", "(", ")", "*", "=", "<", ">"} |->
        CASE c = "," -> "Comma"  [] c = ";" -> "Semicolon" [] c = "." -> "Dot"
          [] c = "(" -> "LParen" [] c = ")" -> "RParen"    [] c = "*" -> "Star"
          [] c = "=" -> "Equal"  [] c = "<" -> "Less"      [] c = ">" -> "Greater"]
CompoundMarks ==
    [pair \in {<<"<", "=">>, <<"<", ">">>, <<">", "=">>, <<"!", "=">>} |->
        IF pair[2] = ">" \/ pair[1] = "!" THEN "NotEqual"
        ELSE IF pair[1] = "<" THEN "LessEqual" ELSE "GreaterEqual"]

ASSUME CharactersAssumption ==
    LET special == Whitespace \cup DOMAIN Marks \cup {Quote, NUL, "_", "-", "!"}
    IN  Letters \cap Digits = {} /\ (Letters \cup Digits) \cap special = {}
ASSUME KeywordsAssumption ==
    /\ DOMAIN Lower \subseteq Letters
    /\ \A word \in DOMAIN Keywords :
           Keywords[word] \notin {"EndOfFile", "Invalid", "IntegerLiteral", "StringLiteral"}
                                   \cup Range(Marks) \cup Range(CompoundMarks)

-----------------------------------------------------------------------------
(* Moving over characters.                                                 *)
StartOfText == [pos |-> 1, line |-> 1, column |-> 1]

AtEnd(text, p) == p > Len(text)
Peek(text, p)  == IF AtEnd(text, p) THEN NUL ELSE text[p]

AdvanceMutant(place, character) ==              \* the column goes on in the next line
    [pos    |-> place.pos + 1,
     line   |-> IF character = NewLine THEN place.line + 1 ELSE place.line,
     column |-> place.column + 1]
Advance(place, character) ==
    IF character = NewLine
    THEN [pos |-> place.pos + 1, line |-> place.line + 1, column |-> 1]
    ELSE [pos |-> place.pos + 1, line |-> place.line, column |-> place.column + 1]
AdvanceTo(text, place, end) == FoldLeft(Advance, place, SubSeq(text, place.pos, end - 1))

(* The first position from p on that ends a run of characters of a class.  *)
EndOfRun(text, p, class) ==
    Min({q \in p .. Len(text) + 1 : AtEnd(text, q) \/ text[q] \notin class})
EndOfLine(text, p) ==
    Min({q \in p .. Len(text) + 1 : AtEnd(text, q) \/ text[q] = NewLine})

SkipMutant(text, p) ==                          \* only one comment is skipped
    LET q == EndOfRun(text, p, Whitespace)
    IN  IF Peek(text, q) = "-" /\ Peek(text, q + 1) = "-"
        THEN EndOfRun(text, EndOfLine(text, q), Whitespace)
        ELSE q
SkipWhitespaceAndComments(text, p) ==
    LET skip[q \in p .. Len(text) + 1] ==
            IF AtEnd(text, q) THEN q
            ELSE IF text[q] \in Whitespace THEN skip[q + 1]
            ELSE IF text[q] = "-" /\ Peek(text, q + 1) = "-" THEN skip[EndOfLine(text, q)]
            ELSE q
    IN  skip[p]

-----------------------------------------------------------------------------
(* Each scan returns the kind of the token that begins at p and the        *)
(* position behind it.                                                     *)
Scanned(kind, end) == [kind |-> kind, end |-> end]

LowerCase(lexeme) ==
    [i \in 1 .. Len(lexeme) |->
        IF lexeme[i] \in DOMAIN Lower THEN Lower[lexeme[i]] ELSE lexeme[i]]
ClassifyKeyword(lexeme) ==
    IF LowerCase(lexeme) \in DOMAIN Keywords THEN Keywords[LowerCase(lexeme)] ELSE "Identifier"

ScanIdentifierOrKeyword(text, p) ==
    LET end == EndOfRun(text, p, IdentifierContinue)
    IN  Scanned(ClassifyKeyword(SubSeq(text, p, end - 1)), end)

ScanNumber(text, p) == Scanned("IntegerLiteral", EndOfRun(text, p, Digits))

ScanStringMutant(text, p) ==                    \* a doubled quote ends the literal
    LET closing == {q \in p + 1 .. Len(text) : text[q] = Quote}
    IN  IF closing = {} THEN Scanned("Invalid", Len(text) + 1)
        ELSE Scanned("StringLiteral", Min(closing) + 1)
ScanString(text, p) ==
    LET scan[q \in p + 1 .. Len(text) + 1] ==
            IF AtEnd(text, q) THEN Scanned("Invalid", q)
            ELSE IF text[q] # Quote THEN scan[q + 1]
            ELSE IF Peek(text, q + 1) = Quote THEN scan[q + 2]
            ELSE Scanned("StringLiteral", q + 1)
    IN  scan[p + 1]

ScanPunctuationMutant(text, p) ==               \* an unknown character is not consumed
    LET pair == <<text[p], Peek(text, p + 1)>>
    IN  IF pair \in DOMAIN CompoundMarks THEN Scanned(CompoundMarks[pair], p + 2)
        ELSE IF text[p] \in DOMAIN Marks THEN Scanned(Marks[text[p]], p + 1)
        ELSE Scanned("Invalid", p)
ScanPunctuation(text, p) ==
    LET pair == <<text[p], Peek(text, p + 1)>>
    IN  IF pair \in DOMAIN CompoundMarks THEN Scanned(CompoundMarks[pair], p + 2)
        ELSE Scanned(IF text[p] \in DOMAIN Marks THEN Marks[text[p]] ELSE "Invalid", p + 1)

ScanToken(text, p) ==
    IF text[p] \in IdentifierStart THEN ScanIdentifierOrKeyword(text, p)
    ELSE IF text[p] \in Digits THEN ScanNumber(text, p)
    ELSE IF text[p] = Quote THEN ScanString(text, p)
    ELSE ScanPunctuation(text, p)

(* Lexer::next: the token and the place it leaves the scanner at.          *)
NextToken(text, place) ==
    LET start   == AdvanceTo(text, place, SkipWhitespaceAndComments(text, place.pos))
        scanned == IF AtEnd(text, start.pos) THEN Scanned("EndOfFile", start.pos)
                   ELSE ScanToken(text, start.pos)
    IN  [token |-> [kind   |-> scanned.kind,
                    lexeme |-> SubSeq(text, start.pos, scanned.end - 1),
                    line   |-> start.line,
                    column |-> start.column],
         place |-> AdvanceTo(text, start, scanned.end)]

-----------------------------------------------------------------------------
(* decode_string_literal: the text between the quotes, each pair of quotes *)
(* in it for one.                                                          *)
DecodeStringLiteralMutant(lexeme) == SubSeq(lexeme, 2, Len(lexeme) - 1)   \* pairs stay
DecodeStringLiteral(lexeme) ==
    LET from[q \in 2 .. Len(lexeme) + 1] ==
            IF q >= Len(lexeme) THEN << >>
            ELSE IF lexeme[q] = Quote /\ lexeme[q + 1] = Quote THEN <<Quote>> \o from[q + 2]
            ELSE <<lexeme[q]>> \o from[q + 1]
    IN  IF Len(lexeme) < 2 \/ lexeme[1] # Quote \/ lexeme[Len(lexeme)] # Quote THEN lexeme
        ELSE from[2]

=============================================================================
