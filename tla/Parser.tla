------------------------------- MODULE Parser -------------------------------
(***************************************************************************)
(* The recursive-descent parser: src/src/frontend/parser.{hpp,cpp}.        *)
(*                                                                         *)
(* It pulls one token at a time from the scanner and never goes back; here *)
(* a text is scanned to its end first, and a position in the sequence of   *)
(* tokens stands for the current token.  The last token is EndOfFile, and  *)
(* no function moves past it.  A parse ends with a tree and the position   *)
(* behind it, or with the position of the offending token; messages are    *)
(* left out.                                                               *)
(*                                                                         *)
(* The loops, and the recursion from a parenthesis to the expression in    *)
(* it, are functions of the position, where each value is made of those    *)
(* at later positions.                                                     *)
(***************************************************************************)
EXTENDS Ast, Lexer

CONSTANTS
    DigitValue,     \* the value of each digit
    MaxInt64        \* bound: the largest integer, 2^63 - 1 in the program

ASSUME MaxInt64Assumption   == MaxInt64 \in Nat
ASSUME DigitValueAssumption == DigitValue \in [Digits -> 0 .. 9]
ASSUME EmptyNameAssumption  == EmptyName = << >>

(* All tokens of a text: from each position on, where the scanner is then  *)
(* at the place that advancing to it gives.                                *)
Tokens(text) ==
    LET place[p \in 1 .. Len(text) + 1] ==
            IF p = 1 THEN StartOfText ELSE Advance(place[p - 1], text[p - 1])
        from[p \in 1 .. Len(text) + 1] ==
            LET next == NextToken(text, place[p])
            IN  IF next.token.kind = "EndOfFile" THEN <<next.token>>
                ELSE <<next.token>> \o from[next.place.pos]
    IN  from[1]

-----------------------------------------------------------------------------
Parsed(tree, p) == [ok |-> TRUE, tree |-> tree, behind |-> p]
Error(p)        == [ok |-> FALSE, at |-> p]

(* What every caller does with the result of a call: give an error on, or  *)
(* go on with the tree from the position behind it.                        *)
Then(result, Continue(_, _)) ==
    IF result.ok THEN Continue(result.tree, result.behind) ELSE result

Kind(ts, p) == ts[p].kind

(* check and advance, or fail.                                             *)
Expect(ts, p, kind) == IF Kind(ts, p) = kind THEN Parsed(ts[p].lexeme, p + 1) ELSE Error(p)

(* The loops of the parser: one item, and one more after each separator.   *)
(* rest has the lists that begin at later positions.                       *)
ListFrom(ts, separator, item, rest) ==
    Then(item, LAMBDA first, q :
        IF Kind(ts, q) # separator THEN Parsed(<<first>>, q)
        ELSE Then(rest[q + 1], LAMBDA items, r : Parsed(<<first>> \o items, r)))
ParseList(ts, separator, Item(_), p) ==
    LET list[q \in p .. Len(ts)] == ListFrom(ts, separator, Item(q), list)
    IN  list[p]

-----------------------------------------------------------------------------
(***************************************************************************)
(* Expressions.  nested has the expressions that begin at later positions. *)
(***************************************************************************)
DecimalValue(lexeme) ==
    LET value[n \in 0 .. Len(lexeme)] ==
            IF n = 0 THEN 0 ELSE 10 * value[n - 1] + DigitValue[lexeme[n]]
    IN  value[Len(lexeme)]

ParseIntegerLiteral(ts, p) ==
    LET value == DecimalValue(ts[p].lexeme)
    IN  IF value > MaxInt64 THEN Error(p) ELSE Parsed(LiteralExpr(Int64(value)), p + 1)

ParseStringLiteral(ts, p) ==
    Parsed(LiteralExpr(Text(DecodeStringLiteral(ts[p].lexeme))), p + 1)

ParseColumnReference(ts, p) ==
    Then(Expect(ts, p, "Identifier"), LAMBDA name, q : Parsed(ColumnExpr(name), q))

ParseParenthesized(ts, nested, p) ==
    Then(nested[p + 1], LAMBDA expression, q :
        Then(Expect(ts, q, "RParen"), LAMBDA paren, r : Parsed(expression, r)))

ParsePrimary(ts, nested, p) ==
    IF Kind(ts, p) = "Identifier" THEN ParseColumnReference(ts, p)
    ELSE IF Kind(ts, p) = "IntegerLiteral" THEN ParseIntegerLiteral(ts, p)
    ELSE IF Kind(ts, p) = "StringLiteral" THEN ParseStringLiteral(ts, p)
    ELSE IF Kind(ts, p) = "LParen" THEN ParseParenthesized(ts, nested, p)
    ELSE Error(p)

IsComparisonOperator(kind) == kind \in ComparisonOperators

(* One comparison at most: a = b = c is none.                              *)
ParseComparison(ts, nested, p) ==
    Then(ParsePrimary(ts, nested, p), LAMBDA left, q :
        IF ~IsComparisonOperator(Kind(ts, q)) THEN Parsed(left, q)
        ELSE Then(ParsePrimary(ts, nested, q + 1),
                  LAMBDA right, r : Parsed(Binary(Kind(ts, q), left, right), r)))

(* Operands with the same operator between them: a tree to the left.       *)
LeftTree(op, operands) ==
    LET tree[n \in 1 .. Len(operands)] ==
            IF n = 1 THEN operands[1] ELSE Binary(op, tree[n - 1], operands[n])
    IN  tree[Len(operands)]
ParseOperands(ts, op, Operand(_), p) ==
    Then(ParseList(ts, op, Operand, p),
         LAMBDA operands, q : Parsed(LeftTree(op, operands), q))

ParseAnd(ts, nested, p) ==
    ParseOperands(ts, "And", LAMBDA q : ParseComparison(ts, nested, q), p)
ParseOrMutant(ts, nested, p) ==             \* OR does not look for AND
    ParseOperands(ts, "Or", LAMBDA q : ParseComparison(ts, nested, q), p)
ParseOr(ts, nested, p) ==
    ParseOperands(ts, "Or", LAMBDA q : ParseAnd(ts, nested, q), p)

Expressions(ts) ==
    LET expression[p \in 1 .. Len(ts)] ==
            ParseOr(ts, [q \in p + 1 .. Len(ts) |-> expression[q]], p)
    IN  expression
ParseExpression(ts, p) == Expressions(ts)[p]

-----------------------------------------------------------------------------
(***************************************************************************)
(* The parts of statements.                                                *)
(***************************************************************************)
TableReference(schema, table) == [schema |-> schema, table |-> table]
ParseTableReference(ts, p) ==
    Then(Expect(ts, p, "Identifier"), LAMBDA name, q :
        IF Kind(ts, q) # "Dot" THEN Parsed(TableReference(EmptyName, name), q)
        ELSE Then(Expect(ts, q + 1, "Identifier"),
                  LAMBDA table, r : Parsed(TableReference(name, table), r)))

ParseColumnTypeMutant(ts, p) ==             \* advances before it looks
    IF Kind(ts, p) \in {"Int", "Text"} THEN Parsed(Kind(ts, p), p + 1)
    ELSE Error(IF p < Len(ts) THEN p + 1 ELSE p)
ParseColumnType(ts, p) ==
    IF Kind(ts, p) \in {"Int", "Text"} THEN Parsed(Kind(ts, p), p + 1)
    ELSE Error(p)

ParseColumnDefinition(ts, p) ==
    Then(Expect(ts, p, "Identifier"), LAMBDA name, q :
        Then(ParseColumnType(ts, q),
             LAMBDA type, r : Parsed(ColumnDefinition(name, type), r)))

ParseInParens(ts, Item(_), p) ==
    Then(Expect(ts, p, "LParen"), LAMBDA left, q :
        Then(ParseList(ts, "Comma", Item, q), LAMBDA items, r :
            Then(Expect(ts, r, "RParen"), LAMBDA right, s : Parsed(items, s))))

(* The columns of a SELECT, which are kept as expressions that are all     *)
(* names; the columns of a CREATE TABLE; the values of an INSERT.          *)
ParseColumns(ts, p) ==
    ParseList(ts, "Comma", LAMBDA q : Expect(ts, q, "Identifier"), p)
ParseDefinitions(ts, p) ==
    ParseInParens(ts, LAMBDA q : ParseColumnDefinition(ts, q), p)
ParseValues(ts, p) ==
    ParseInParens(ts, LAMBDA q : ParsePrimary(ts, Expressions(ts), q), p)

FinishStatement(ts, p, statement) ==
    LET q == IF Kind(ts, p) = "Semicolon" THEN p + 1 ELSE p
    IN  IF Kind(ts, q) = "EndOfFile" THEN Parsed(statement, q)
        ELSE Error(q)

-----------------------------------------------------------------------------
(***************************************************************************)
(* Statements.                                                             *)
(***************************************************************************)
ParseSelectList(ts, p) ==
    IF Kind(ts, p) = "Star" THEN Parsed([all |-> TRUE, columns |-> << >>], p + 1)
    ELSE Then(ParseColumns(ts, p),
              LAMBDA columns, q : Parsed([all |-> FALSE, columns |-> columns], q))
ParseWhere(ts, p) ==
    IF Kind(ts, p) = "Where" THEN ParseExpression(ts, p + 1) ELSE Parsed(NoWhere, p)

ParseSelect(ts, p) ==
    Then(ParseSelectList(ts, p), LAMBDA list, q :
        Then(Expect(ts, q, "From"), LAMBDA from, r :
            Then(ParseTableReference(ts, r), LAMBDA ref, s :
                Then(ParseWhere(ts, s), LAMBDA where, t :
                    FinishStatement(ts, t,
                        SelectStatement(ref.schema, ref.table, list.all, list.columns, where))))))

ParseCreateDatabase(ts, p) ==
    Then(Expect(ts, p, "Identifier"),
         LAMBDA name, q : FinishStatement(ts, q, CreateDatabaseStatement(name)))
ParseCreateSchema(ts, p) ==
    Then(Expect(ts, p, "Identifier"),
         LAMBDA name, q : FinishStatement(ts, q, CreateSchemaStatement(name)))
ParseCreateTable(ts, p) ==
    Then(ParseTableReference(ts, p), LAMBDA ref, q :
        Then(ParseDefinitions(ts, q), LAMBDA columns, r :
            FinishStatement(ts, r, CreateTableStatement(ref.schema, ref.table, columns))))

ParseCreate(ts, p) ==
    CASE Kind(ts, p) = "Database" -> ParseCreateDatabase(ts, p + 1)
      [] Kind(ts, p) = "Schema"   -> ParseCreateSchema(ts, p + 1)
      [] Kind(ts, p) = "Table"    -> ParseCreateTable(ts, p + 1)
      [] OTHER                    -> Error(p)

ParseInsert(ts, p) ==
    Then(Expect(ts, p, "Into"), LAMBDA into, q :
        Then(ParseTableReference(ts, q), LAMBDA ref, r :
            Then(Expect(ts, r, "Values"), LAMBDA values, s :
                Then(ParseValues(ts, s), LAMBDA items, t :
                    FinishStatement(ts, t, InsertStatement(ref.schema, ref.table, items))))))

ParseStatement(ts) ==
    CASE Kind(ts, 1) = "Select" -> ParseSelect(ts, 2)
      [] Kind(ts, 1) = "Create" -> ParseCreate(ts, 2)
      [] Kind(ts, 1) = "Insert" -> ParseInsert(ts, 2)
      [] OTHER                  -> Error(1)

=============================================================================
