------------------------------ MODULE MCShell ------------------------------
(* A small instance of Shell for TLC.  Every word is a letter.             *)
EXTENDS Shell

NoCharacters == << >>

MCLetters ==
    {"select", "from", "where", "insert", "into", "values", "create", "table", "schema",
     "database", "int", "text", "and", "or", "quit", "help", "connect", "main", "public", "d", "s", "t",
     "a", "b", "x"}
MCKeywords ==
    (<<"select">> :> "Select") @@ (<<"from">> :> "From") @@ (<<"where">> :> "Where") @@
    (<<"insert">> :> "Insert") @@ (<<"into">> :> "Into") @@ (<<"values">> :> "Values") @@
    (<<"create">> :> "Create") @@ (<<"table">> :> "Table") @@ (<<"schema">> :> "Schema") @@
    (<<"database">> :> "Database") @@ (<<"int">> :> "Int") @@ (<<"text">> :> "Text") @@
    (<<"and">> :> "And") @@ (<<"or">> :> "Or")
MCDigitValue == ("1" :> 1) @@ ("2" :> 2)

MCMain   == <<"main">>
MCPublic == <<"public">>
MCDatabaseNames == {MCMain, <<"x">>}    \* the second one does not exist

(* The words of a line, with a blank between two that are no signs.        *)
Signs == {"(", ")", ",", ";", ".", "=", "<", "*"}
Spelled(word) ==
    CASE word = "'x'" -> <<Quote, "x", Quote>>
      [] word = "'('" -> <<Quote, "(", Quote>>
      [] word = "--"  -> <<"-", "-", "x">>
      [] OTHER        -> <<word>>
Line(words) ==
    FlattenSeq([i \in 1 .. Len(words) |->
        IF i > 1 /\ {words[i - 1], words[i]} \cap Signs = {}
        THEN <<" ">> \o Spelled(words[i]) ELSE Spelled(words[i])])

Commands ==
    {<< >>, <<".", "quit">>, HelpCommand, ConnectCommand, ConnectCommand \o <<"d">>}

(* Statements on one line, with and without a semicolon.                   *)
Statements1 ==
    {Line(<<"create", "database", "d">>), Line(<<"create", "schema", "s", ";">>),
     Line(<<"create", "table", "t", "(", "a", "int", ",", "b", "text", ")">>),
     Line(<<"create", "table", "s", ".", "t", "(", "b", "text", ")", ";">>),
     Line(<<"insert", "into", "t", "values", "(", "1", ",", "'('", ")">>),
     Line(<<"insert", "into", "t", "values", "(", "'x'", ")", ";">>),
     Line(<<"insert", "into", "s", ".", "t", "values", "(", "'x'", ")", ";">>),
     Line(<<"select", "b", ",", "a", "from", "t", "where", "a", "=", "1">>),
     Line(<<"select", "*", "from", "t", "where", "(", "a", "=", "1", ")", "=", "2">>),
     Line(<<"select", "a", "from", "t", "where", "b", "=", "'x'", "or", "a", "<", "2">>),
     Line(<<"select", "*", "from", "s", ".", "t", ";", "--">>)}

(* Pieces of statements.                                                   *)
Pieces ==
    {Line(<<"create", "table", "t", "(">>), Line(<<"a", "int", ")", ";">>),
     Line(<<"select", "a", ",", "--">>), Line(<<"select", "b", ",">>),
     Line(<<"a", "from", "t">>)}

MCLines == Commands \cup Statements1 \cup Pieces

=============================================================================
