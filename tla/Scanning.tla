------------------------------ MODULE Scanning ------------------------------
(***************************************************************************)
(* One text on its way through the scanner, src/src/frontend/lexer.cpp: a  *)
(* step is one call of Lexer::next.  The scanner never looks at its        *)
(* caller, so that whatever pulls the tokens gets these.                   *)
(***************************************************************************)
EXTENDS Lexer

CONSTANT Inputs     \* texts

ASSUME InputsAssumption == Inputs \subseteq Seq(STRING)

VARIABLES
    text,
    place,          \* of the scanner
    tokens          \* those scanned so far

scanVars == <<text, place, tokens>>

ScanInit ==
    /\ text \in Inputs
    /\ place = StartOfText
    /\ tokens = << >>

IsScanned == tokens # << >> /\ Last(tokens).kind = "EndOfFile"

Scan ==
    /\ ~IsScanned
    /\ LET next == NextToken(text, place)
       IN  tokens' = Append(tokens, next.token) /\ place' = next.place
    /\ UNCHANGED text

ScanSpec == ScanInit /\ [][Scan]_scanVars

-----------------------------------------------------------------------------
(* Every call consumes a character or reports the end: there are at most   *)
(* as many tokens as characters, and the end.  The parser's loops end      *)
(* because of this (lexer.cpp:139, 296).                                   *)
ScansEnd == Len(tokens) <= Len(text) + 1

(* What is skipped before a token, and only that, is blank: each character *)
(* is white space or lies in a comment, and the token begins neither with  *)
(* a blank nor inside a comment (lexer.cpp:184-204).                       *)
InComment(string, from, q, end) ==
    \E c \in from .. q :
        /\ c + 1 < end /\ string[c] = "-" /\ string[c + 1] = "-"
        /\ \A d \in c .. q : d < end => string[d] # NewLine
IsGap(string, from, end) ==
    /\ \A q \in from .. end - 1 :
           string[q] \in Whitespace \/ InComment(string, from, q, end)
    /\ end <= Len(string) =>
          /\ ~InComment(string, from, end, end)
          /\ string[end] \notin Whitespace
          /\ ~(string[end] = "-" /\ Peek(string, end + 1) = "-")
GapsAreBlank ==
    [][tokens' # tokens => IsGap(text, place.pos, place'.pos - Len(Last(tokens').lexeme))]_scanVars

(* The languages of the kinds of tokens.  In a string literal the quotes   *)
(* between the first one and the last one come in adjacent pairs, and so   *)
(* do those behind the first one of a literal that is not closed.          *)
QuotesPaired(s, from, end) ==
    \A i \in from .. end : \A j \in i .. end :
        (/\ \A k \in i .. j : s[k] = Quote
         /\ i > from => s[i - 1] # Quote
         /\ j < end => s[j + 1] # Quote) => (j - i) % 2 = 1
IsStringLiteral(s) ==
    Len(s) >= 2 /\ s[1] = Quote /\ s[Len(s)] = Quote /\ QuotesPaired(s, 2, Len(s) - 1)
IsUnterminated(s) == s[1] = Quote /\ QuotesPaired(s, 2, Len(s))
IsNumber(s) == s # << >> /\ ToSet(s) \subseteq Digits
IsWord(s)   == s # << >> /\ s[1] \in IdentifierStart /\ ToSet(s) \subseteq IdentifierContinue
IsMark(s)   == s \in DOMAIN CompoundMarks \/ (Len(s) = 1 /\ s[1] \in DOMAIN Marks)
IsLexeme(s) == IsWord(s) \/ IsNumber(s) \/ IsStringLiteral(s) \/ IsMark(s)

Belongs(s, kind) ==
    \/ kind = "EndOfFile" /\ s = << >>
    \/ kind = "Invalid" /\ ~IsLexeme(s) /\ (Len(s) = 1 \/ IsUnterminated(s))
    \/ kind = "IntegerLiteral" /\ IsNumber(s)
    \/ kind = "StringLiteral" /\ IsStringLiteral(s)
    \/ IsMark(s) /\ kind = (IF Len(s) = 1 THEN Marks[s[1]] ELSE CompoundMarks[s])
    \/ IsWord(s) /\ kind = ClassifyKeyword(s)

(* A token belongs to the language of its kind, and is as long as it can   *)
(* be: no longer piece of the text is a token, a string literal is not     *)
(* followed by a quote, and one that is not closed takes all the rest      *)
(* (lexer.cpp:216-294).                                                    *)
IsToken(string, start, end, kind) ==
    /\ Belongs(SubSeq(string, start, end - 1), kind)
    /\ \A later \in end .. Len(string) : ~IsLexeme(SubSeq(string, start, later))
    /\ kind = "StringLiteral" => Peek(string, end) # Quote
    /\ kind = "Invalid" /\ Peek(string, start) = Quote => end = Len(string) + 1
LexemesInLanguage ==
    tokens # << >> =>
        LET token == Last(tokens)
            start == place.pos - Len(token.lexeme)
        IN  /\ token.lexeme = SubSeq(text, start, place.pos - 1)
            /\ IsToken(text, start, place.pos, token.kind)

(* The line of a token is one more than the newlines before it, and its    *)
(* column counts from the last of them, also behind comments and strings   *)
(* that contain newlines (lexer.cpp:139-153).                              *)
NewlinesBefore(string, p) == {q \in 1 .. p - 1 : string[q] = NewLine}
IsPlaceOf(string, p, line, column) ==
    /\ line = Cardinality(NewlinesBefore(string, p)) + 1
    /\ column = p - Max(NewlinesBefore(string, p) \cup {0})
PlacesAreRight ==
    tokens # << >> =>
        LET token == Last(tokens)
        IN  IsPlaceOf(text, place.pos - Len(token.lexeme), token.line, token.column)

(* Decoding a string literal undoes the quoting: enclosed in quotes again, *)
(* with its own quotes doubled, the text is the literal (value.cpp:10-30). *)
Doubled(t) ==
    FlattenSeq([i \in 1 .. Len(t) |-> IF t[i] = Quote THEN <<Quote, Quote>> ELSE <<t[i]>>])
Enclosed(t) == <<Quote>> \o Doubled(t) \o <<Quote>>
DecodesText ==
    tokens # << >> /\ Last(tokens).kind = "StringLiteral" =>
        Enclosed(DecodeStringLiteral(Last(tokens).lexeme)) = Last(tokens).lexeme

-----------------------------------------------------------------------------
(* What the calls of next preserve.  A token that is not the end takes at  *)
(* least one character, and there is nothing to scan after the end.        *)
TokenKinds ==
    {"EndOfFile", "Invalid", "IntegerLiteral", "StringLiteral", "Identifier"}
        \cup Range(Marks) \cup Range(CompoundMarks) \cup Range(Keywords)
Token ==
    [kind : TokenKinds, lexeme : Seq(STRING), line : Nat \ {0}, column : Nat \ {0}]
ScanTypeOK ==
    /\ text \in Inputs
    /\ place.pos \in 1 .. Len(text) + 1
    /\ tokens \in Seq(Token)

TokensTakeCharacters == Len(tokens) < place.pos + (IF IsScanned THEN 1 ELSE 0)
PlaceIsRight         == IsPlaceOf(text, place.pos, place.line, place.column)

ScanInv ==
    /\ ScanTypeOK
    /\ TokensTakeCharacters
    /\ PlaceIsRight
    /\ LexemesInLanguage
    /\ PlacesAreRight

=============================================================================
