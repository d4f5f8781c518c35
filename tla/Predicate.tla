----------------------------- MODULE Predicate -----------------------------
(***************************************************************************)
(* The leaves and the comparisons of a WHERE clause:                       *)
(* src/src/catalog/bound_expr.{hpp,cpp}, value.{hpp,cpp}, and the look-up  *)
(* of columns by name in schema.cpp.  The trees over them are in Where.    *)
(*                                                                         *)
(* Ordinals are 1-based here.  A value is a type and a datum; texts are    *)
(* only ever compared for equality.                                        *)
(***************************************************************************)
EXTENDS Integers, Sequences

Int64(n) == [type |-> "Int", data |-> n]
Text(t)  == [type |-> "Text", data |-> t]

(* The height of a tree, which the program has no need to keep: a node is  *)
(* made from its operands, so that no tree contains itself.                *)
Leaves    == {"Literal", "ColumnRef"}
Height(e) == IF e.kind \in Leaves THEN 0 ELSE e.height
HeightOver(left, right) == (IF Height(left) < Height(right) THEN Height(right) ELSE Height(left)) + 1

(* The syntax trees (frontend/ast.hpp) of a literal, of a column name and  *)
(* of an operator.                                                         *)
LiteralExpr(value) == [kind |-> "Literal", literal |-> value]
ColumnExpr(name)   == [kind |-> "ColumnRef", name |-> name]
Binary(op, left, right) ==
    [kind |-> "Binary", op |-> op, left |-> left, right |-> right,
     height |-> HeightOver(left, right)]

(* The bound expressions they become.                                      *)
Literal(value)           == [kind |-> "Literal", literal |-> value]
ColumnRef(ordinal, type) == [kind |-> "ColumnRef", ordinal |-> ordinal, type |-> type]
Comparison(op, left, right) ==
    [kind |-> "Comparison", op |-> op, left |-> left, right |-> right,
     height |-> HeightOver(left, right)]
LogicalNode(op, left, right) ==
    [kind |-> op, left |-> left, right |-> right, height |-> HeightOver(left, right)]

-----------------------------------------------------------------------------
(* TableSchema::column_index: the first column of that name, 0 if none.    *)
ColumnIndex(columns, name) ==
    IF \E c \in 1 .. Len(columns) : columns[c].name = name
    THEN CHOOSE c \in 1 .. Len(columns) :
            /\ columns[c].name = name
            /\ \A d \in 1 .. c - 1 : columns[d].name # name
    ELSE 0

BindLeaf(leaf, columns) ==
    IF leaf.kind = "Literal" THEN [status |-> "Ok", bound |-> Literal(leaf.literal)]
    ELSE LET ordinal == ColumnIndex(columns, leaf.name)
         IN  IF ordinal = 0 THEN [status |-> "column not found"]
             ELSE [status |-> "Ok", bound |-> ColumnRef(ordinal, columns[ordinal].type)]

-----------------------------------------------------------------------------
OrderingOperators   == {"Less", "LessEqual", "Greater", "GreaterEqual"}
ComparisonOperators == {"Equal", "NotEqual"} \cup OrderingOperators

(* A comparison and a logical expression count as integers.                *)
ExpressionType(expression) ==
    CASE expression.kind = "Literal"   -> expression.literal.type
      [] expression.kind = "ColumnRef" -> expression.type
      [] OTHER                    -> "Int"

ValidateComparison(left, right, op) ==
    IF ExpressionType(left) # ExpressionType(right) THEN "comparison type mismatch"
    ELSE IF op \in OrderingOperators /\ ExpressionType(left) # "Int"
    THEN "ordering comparison requires integer operands"
    ELSE "Ok"

-----------------------------------------------------------------------------
(* Evaluation on a row.  "Trap" is an assertion of Value::as_int or, in a  *)
(* build without assertions, the exception of std::get.                    *)
True  == [status |-> "Ok", truth |-> TRUE]
False == [status |-> "Ok", truth |-> FALSE]
Trap  == [status |-> "Trap", truth |-> FALSE]
Answer(truth) == [status |-> "Ok", truth |-> truth]

EvaluateValue(expression, r) ==
    IF expression.kind = "Literal" THEN [status |-> "Ok", value |-> expression.literal]
    ELSE IF expression.kind # "ColumnRef" THEN [status |-> "unsupported value expression"]
    ELSE IF expression.ordinal > Len(r) THEN [status |-> "column ordinal out of range"]
    ELSE [status |-> "Ok", value |-> r[expression.ordinal]]

Ordered(op, m, n) ==
    CASE op = "Less"         -> m < n
      [] op = "LessEqual"    -> m <= n
      [] op = "Greater"      -> m > n
      [] op = "GreaterEqual" -> m >= n

CompareValues(op, left, right) ==
    IF left.type # right.type THEN False
    ELSE IF op = "Equal" THEN Answer(left.data = right.data)
    ELSE IF op = "NotEqual" THEN Answer(left.data # right.data)
    ELSE IF left.type # "Int" THEN Trap
    ELSE Answer(Ordered(op, left.data, right.data))

EvaluateComparison(expression, r) ==
    LET left  == EvaluateValue(expression.left, r)
        right == EvaluateValue(expression.right, r)
    IN  IF left.status # "Ok" THEN [status |-> left.status, truth |-> FALSE]
        ELSE IF right.status # "Ok" THEN [status |-> right.status, truth |-> FALSE]
        ELSE CompareValues(expression.op, left.value, right.value)

=============================================================================
