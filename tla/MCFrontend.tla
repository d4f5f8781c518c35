----------------------------- MODULE MCFrontend -----------------------------
(* Small instances of Frontend for TLC: short texts over single characters *)
(* for the scanner, texts made of whole words for the parser.              *)
EXTENDS Frontend

NoCharacters == << >>

(* A keyword is one letter here, except OR, which is two.                  *)
KeywordLetters ==
    {"select", "from", "where", "insert", "into", "values", "create", "table", "schema",
     "database", "int", "text", "and", "not"}
MCLetters  == {"o", "R", "a", "t"} \cup KeywordLetters
MCDigits   == {"1", "9"}
MCLower    == "R" :> "r"
MCKeywords ==
    (<<"select">> :> "Select") @@ (<<"from">> :> "From") @@ (<<"where">> :> "Where") @@
    (<<"insert">> :> "Insert") @@ (<<"into">> :> "Into") @@ (<<"values">> :> "Values") @@
    (<<"create">> :> "Create") @@ (<<"table">> :> "Table") @@ (<<"schema">> :> "Schema") @@
    (<<"database">> :> "Database") @@ (<<"int">> :> "Int") @@ (<<"text">> :> "Text") @@
    (<<"and">> :> "And") @@ (<<"o", "r">> :> "Or") @@ (<<"not">> :> "Not")
MCDigitValue == ("1" :> 1) @@ ("9" :> 9)

SeqsUpTo(set, n) == UNION {[1 .. k -> set] : k \in 0 .. n}

-----------------------------------------------------------------------------
(* All texts of at most 4 characters, and those of at most 5 in which      *)
(* quotes, comments and lines meet.                                        *)
Characters == {"o", "R", "1", "_", " ", NewLine, Quote, "-", "<", "=", "!", NUL}
MCTexts    == SeqsUpTo(Characters, 4) \cup SeqsUpTo({"o", " ", NewLine, Quote, "-"}, 5)

-----------------------------------------------------------------------------
(* Texts of words.  A word is one letter or mark, or one of these.         *)
Spelled(word) ==
    CASE word = "or"   -> <<"o", "R">>
      [] word = "'a'"  -> <<Quote, "a", Quote>>
      [] word = "19"   -> <<"1", "9">>
      [] word = "91"   -> <<"9", "1">>
      [] OTHER         -> <<word>>
Sentence(words) == FlattenSeq([i \in 1 .. Len(words) |-> Spelled(words[i]) \o <<" ">>])

SelectWhere == <<"select", "*", "from", "t", "where">>
Samples ==
    {<<"select", "a", ",", "a", "from", "t", ".", "t", "where", "a", "=", "a", "and", "a", ";">>,
     <<"create", "table", "t", ".", "t", "(", "a", "int", ",", "a", "text", ")">>,
     <<"create", "schema", "a", ";">>, <<"create", "database", "a">>,
     <<"insert", "into", "t", ".", "t", "values", "(", "a", ",", "(", "a", ")", ")", ";">>,
     SelectWhere \o <<"(", "a", "=", "a", ")">>}

(* The samples with one word replaced by another, or one put in.           *)
Words ==
    {"a", "19", "91", "'a'", "or", "and", "not", "select", "from", "where", "insert", "into",
     "values", "create", "table", "schema", "database", "int", "*", ",", ";", ".", "(", ")",
     "=", "!"}
Edits(words) ==
    {SubSeq(words, 1, k) \o <<word>> \o SubSeq(words, k + d, Len(words)) :
        word \in Words, k \in 0 .. Len(words), d \in {1, 2}}
(* All clauses of at most 5 words.                                         *)
WhereClauses ==
    {SelectWhere \o words : words \in SeqsUpTo({"a", "=", "and", "or", "(", ")"}, 5)}
MCSentences ==
    {Sentence(words) : words \in UNION {Edits(words) : words \in Samples} \cup WhereClauses}

MCInputs == MCTexts \cup MCSentences

=============================================================================
