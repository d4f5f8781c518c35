------------------------------ MODULE Grammar ------------------------------
(***************************************************************************)
(* The language of src/src/frontend/parser.cpp as a grammar, to compare    *)
(* the parser with: the trees of the tokens i .. j, by every way to split  *)
(* them.                                                                   *)
(*                                                                         *)
(*    primary     = name | integer | string | ( disjunction )              *)
(*    comparison  = [ primary op ] primary                                 *)
(*    conjunction = [ conjunction AND ] comparison                         *)
(*    disjunction = [ disjunction OR ] conjunction                         *)
(*    names       = [ names , ] name                                       *)
(*    definition  = name type                                              *)
(*    definitions = [ definitions , ] definition                           *)
(*    values      = [ values , ] primary                                   *)
(*                                                                         *)
(* trees has the trees of other symbols and other pieces.                  *)
(***************************************************************************)
EXTENDS Parser

Splits(ts, i, j, kinds) == {k \in i + 1 .. j - 1 : Kind(ts, k) \in kinds}
IsOne(ts, i, j, kind)   == i = j /\ Kind(ts, i) = kind
InParens(ts, i, j)      == i < j /\ Kind(ts, i) = "LParen" /\ Kind(ts, j) = "RParen"

Names(ts, i, j) == {ts[k].lexeme : k \in {k \in {i} : IsOne(ts, i, j, "Identifier")}}

Primaries(ts, trees, i, j) ==
    CASE IsOne(ts, i, j, "Identifier") -> {ColumnExpr(ts[i].lexeme)}
      [] IsOne(ts, i, j, "IntegerLiteral") ->
            {LiteralExpr(Int64(n)) : n \in {DecimalValue(ts[i].lexeme)} \cap 0 .. MaxInt64}
      [] IsOne(ts, i, j, "StringLiteral") ->
            {LiteralExpr(Text(DecodeStringLiteral(ts[i].lexeme)))}
      [] InParens(ts, i, j) -> trees[<<"disjunction", i + 1, j - 1>>]
      [] OTHER -> {}

(* One of these operators, or none, between a left and a right side.       *)
Binaries(op, lefts, rights) == {Binary(op, left, right) : left \in lefts, right \in rights}
Joined(ts, trees, ops, lefts, rights, i, j) ==
    trees[<<rights, i, j>>] \cup
    UNION {Binaries(Kind(ts, k), trees[<<lefts, i, k - 1>>], trees[<<rights, k + 1, j>>]) :
               k \in Splits(ts, i, j, ops)}

(* Lists with commas.                                                      *)
Appended(lists, items) == {Append(list, item) : list \in lists, item \in items}
Listed(ts, trees, lists, items, i, j) ==
    {<<item>> : item \in trees[<<items, i, j>>]} \cup
    UNION {Appended(trees[<<lists, i, k - 1>>], trees[<<items, k + 1, j>>]) :
               k \in Splits(ts, i, j, {"Comma"})}

Definitions(ts, trees, i, j) ==
    IF i >= j THEN {}
    ELSE {ColumnDefinition(name, type) :
             name \in trees[<<"name", i, j - 1>>], type \in {Kind(ts, j)} \cap {"Int", "Text"}}

Symbols ==
    {"name", "primary", "comparison", "conjunction", "disjunction",
     "names", "definition", "definitions", "values"}
Rule(ts, trees, symbol, i, j) ==
    CASE symbol = "name"        -> Names(ts, i, j)
      [] symbol = "primary"     -> Primaries(ts, trees, i, j)
      [] symbol = "comparison"  -> Joined(ts, trees, ComparisonOperators, "primary", "primary", i, j)
      [] symbol = "conjunction" -> Joined(ts, trees, {"And"}, "conjunction", "comparison", i, j)
      [] symbol = "disjunction" -> Joined(ts, trees, {"Or"}, "disjunction", "conjunction", i, j)
      [] symbol = "names"       -> Listed(ts, trees, "names", "name", i, j)
      [] symbol = "definition"  -> Definitions(ts, trees, i, j)
      [] symbol = "definitions" -> Listed(ts, trees, "definitions", "definition", i, j)
      [] symbol = "values"      -> Listed(ts, trees, "values", "primary", i, j)

(* What the rules give: each value is made of those of shorter pieces, and *)
(* of those of other symbols for the same piece.                           *)
Derived(ts) ==
    LET trees[p \in Symbols \X (1 .. Len(ts) + 1) \X (0 .. Len(ts))] ==
            Rule(ts, trees, p[1], p[2], p[3])
    IN  trees

-----------------------------------------------------------------------------
(* Statements, without their ';': the trees of the first j tokens.         *)
References(ts, i, j) ==
    {TableReference(EmptyName, name) : name \in Names(ts, i, j)} \cup
    UNION {{TableReference(schema, name) :
               schema \in Names(ts, i, k - 1), name \in Names(ts, k + 1, j)} :
               k \in Splits(ts, i, j, {"Dot"})}

Selections(ts, trees, i, j) ==
    IF IsOne(ts, i, j, "Star") THEN {[all |-> TRUE, columns |-> << >>]}
    ELSE {[all |-> FALSE, columns |-> columns] : columns \in trees[<<"names", i, j>>]}
Clauses(trees, i, j) == IF i > j THEN {NoWhere} ELSE trees[<<"disjunction", i + 1, j>>]
ListsInParens(ts, trees, lists, i, j) ==
    IF InParens(ts, i, j) THEN trees[<<lists, i + 1, j - 1>>] ELSE {}

StartsWith(ts, j, kinds) ==
    Len(kinds) <= j /\ \A k \in 1 .. Len(kinds) : Kind(ts, k) = kinds[k]

Selects(ts, trees, j) ==
    UNION {UNION {
        {SelectStatement(ref.schema, ref.table, list.all, list.columns, where) :
            list \in Selections(ts, trees, 2, f - 1), ref \in References(ts, f + 1, w - 1),
            where \in Clauses(trees, w, j)} :
        w \in Splits(ts, f, j, {"Where"}) \cup {j + 1}} :
        f \in Splits(ts, 1, j, {"From"})}
CreateTables(ts, trees, j) ==
    UNION {{CreateTableStatement(ref.schema, ref.table, columns) :
        ref \in References(ts, 3, p - 1),
        columns \in ListsInParens(ts, trees, "definitions", p, j)} :
        p \in Splits(ts, 3, j, {"LParen"})}
Inserts(ts, trees, j) ==
    UNION {{InsertStatement(ref.schema, ref.table, values) :
        ref \in References(ts, 3, v - 1),
        values \in ListsInParens(ts, trees, "values", v + 1, j)} :
        v \in Splits(ts, 3, j, {"Values"})}
Bodies(ts, trees, j) ==
    CASE StartsWith(ts, j, <<"Select">>)             -> Selects(ts, trees, j)
      [] StartsWith(ts, j, <<"Create", "Table">>)    -> CreateTables(ts, trees, j)
      [] StartsWith(ts, j, <<"Create", "Schema">>)   ->
            {CreateSchemaStatement(name) : name \in Names(ts, 3, j)}
      [] StartsWith(ts, j, <<"Create", "Database">>) ->
            {CreateDatabaseStatement(name) : name \in Names(ts, 3, j)}
      [] StartsWith(ts, j, <<"Insert", "Into">>)     -> Inserts(ts, trees, j)
      [] OTHER -> {}

(* The trees of all tokens, of which the last is EndOfFile.                *)
Trees(ts) ==
    LET trees == Derived(ts)
    IN  Bodies(ts, trees, Len(ts) - 1) \cup
        IF Len(ts) > 1 /\ Kind(ts, Len(ts) - 1) = "Semicolon"
        THEN Bodies(ts, trees, Len(ts) - 2) ELSE {}

-----------------------------------------------------------------------------
(***************************************************************************)
(* Beginnings of statements, and their shortest ends: the rest of a        *)
(* shortest statement, or of an expression with n parentheses open.        *)
(***************************************************************************)
Before(ts, p, kind) == {i \in 1 .. p - 1 : Kind(ts, i) = kind}
Depth(ts, p) == Cardinality(Before(ts, p, "LParen")) - Cardinality(Before(ts, p, "RParen"))

Shortest ==
    {<<"Select", "Identifier", "From", "Identifier">>, <<"Create", "Schema", "Identifier">>,
     <<"Create", "Table", "Identifier", "LParen", "Identifier", "Int", "RParen">>,
     <<"Insert", "Into", "Identifier", "Values", "LParen", "Identifier", "RParen">>}
Closing(n) == [k \in 1 .. n |-> "RParen"]
Completions(n) ==
    (UNION {{SubSeq(kinds, k, Len(kinds)) : k \in 1 .. Len(kinds)} : kinds \in Shortest})
        \cup {Closing(n), <<"Identifier">> \o Closing(n)}

AnyToken(kind) == [kind |-> kind, lexeme |-> <<"_">>, line |-> 1, column |-> 1]
Completed(ts, kinds) ==
    ts \o [k \in 1 .. Len(kinds) |-> AnyToken(kinds[k])] \o <<AnyToken("EndOfFile")>>
CanBeCompleted(ts) ==
    \E kinds \in Completions(Depth(ts, Len(ts) + 1)) : Trees(Completed(ts, kinds)) # {}

=============================================================================
