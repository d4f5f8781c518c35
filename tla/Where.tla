------------------------------- MODULE Where -------------------------------
(***************************************************************************)
(* The trees of WHERE clauses: src/src/catalog/bound_expr.{hpp,cpp}.  A    *)
(* syntax tree is bound against the columns of a table, its shape is       *)
(* validated, and it is evaluated on rows.                                 *)
(*                                                                         *)
(* Binding and validation look for different mistakes: a comparison counts *)
(* as an integer when it is bound, so (a = 1) = 2 binds, and it is only    *)
(* validate_bound_predicate that refuses it; evaluation does not check     *)
(* anything again.  The functions recur from a tree to its operands.       *)
(***************************************************************************)
EXTENDS Predicate

Logical == {"And", "Or"}

(* A tree, its operands, theirs, and so on: no more levels than its height.*)
Operands(e) == IF e.kind \in Leaves THEN {} ELSE {e.left, e.right}
Subtrees(e) ==
    LET level[n \in 0 .. Height(e)] ==
            IF n = 0 THEN {e}
            ELSE level[n - 1] \cup UNION {Operands(t) : t \in level[n - 1]}
    IN  level[Height(e)]

(* What the parser makes: the nodes of frontend/ast.hpp, of finite height. *)
IsValue(value) ==
    value.type \in {"Int", "Text"} /\ (value.type = "Int" => value.data \in Int)
IsNode(e) ==
    \/ e.kind = "Literal" /\ IsValue(e.literal)
    \/ e.kind = "ColumnRef"
    \/ /\ e.kind = "Binary" /\ e.op \in ComparisonOperators \cup Logical
       /\ e.height \in Nat /\ {Height(e.left), Height(e.right)} \subseteq 0 .. e.height - 1
IsTree(e) == Height(e) \in Nat /\ \A t \in Subtrees(e) : IsNode(t)

-----------------------------------------------------------------------------
BindBinary(op, left, right) ==
    LET check == ValidateComparison(left.bound, right.bound, op)
    IN  IF left.status # "Ok" THEN left
        ELSE IF right.status # "Ok" THEN right
        ELSE IF op \in Logical
        THEN [status |-> "Ok", bound |-> LogicalNode(op, left.bound, right.bound)]
        ELSE IF check # "Ok" THEN [status |-> check]
        ELSE [status |-> "Ok", bound |-> Comparison(op, left.bound, right.bound)]

BindExpression(e, columns) ==
    LET bind[t \in Subtrees(e)] ==
            IF t.kind # "Binary" THEN BindLeaf(t, columns)
            ELSE BindBinary(t.op, bind[t.left], bind[t.right])
    IN  bind[e]

ValidateOperandMutant(b) == "Ok"            \* operands are not looked at
ValidateOperand(b) ==
    IF b.kind \in Leaves THEN "Ok" ELSE "expected literal or column reference in comparison"

BothOk(left, right) == IF left # "Ok" THEN left ELSE right
NotAPredicate == "where clause must be a predicate expression"

ValidatePredicate(b) ==
    LET validate[t \in Subtrees(b)] ==
            IF t.kind = "Comparison"
            THEN BothOk(ValidateOperand(t.left), ValidateOperand(t.right))
            ELSE IF t.kind \in Logical THEN BothOk(validate[t.left], validate[t.right])
            ELSE NotAPredicate
    IN  validate[b]

ValidateOrdinals(b, count) ==
    \A t \in Subtrees(b) : t.kind = "ColumnRef" => t.ordinal <= count

(* The checks of Executor::execute_select before its scan.                 *)
ValidateAgain(b, count) ==
    IF ValidatePredicate(b) # "Ok" THEN ValidatePredicate(b)
    ELSE IF ~ValidateOrdinals(b, count) THEN "column ordinal out of range"
    ELSE "Ok"

(* AND and OR evaluate their right side only if the left one leaves it     *)
(* open.                                                                   *)
EvaluateLogicalMutant(op, left, right) ==   \* each stops on the other's truth value
    IF left.status # "Ok" \/ left.truth = (op = "And") THEN left ELSE right
EvaluateLogical(op, left, right) ==
    IF left.status # "Ok" \/ left.truth = (op = "Or") THEN left ELSE right

Evaluate(b, r) ==
    LET evaluate[t \in Subtrees(b)] ==
            IF t.kind = "Comparison" THEN EvaluateComparison(t, r)
            ELSE IF t.kind \in Logical
            THEN EvaluateLogical(t.kind, evaluate[t.left], evaluate[t.right])
            ELSE [status |-> NotAPredicate, truth |-> FALSE]
    IN  evaluate[b]

-----------------------------------------------------------------------------
(***************************************************************************)
(* A reference definition of a WHERE clause, from its syntax tree alone.   *)
(***************************************************************************)
IsLeaf(e, columns) ==
    \/ e.kind = "Literal"
    \/ e.kind = "ColumnRef" /\ \E c \in 1 .. Len(columns) : columns[c].name = e.name
ColumnNamed(columns, name) == CHOOSE c \in 1 .. Len(columns) : columns[c].name = name
LeafType(e, columns) ==
    IF e.kind = "Literal" THEN e.literal.type ELSE columns[ColumnNamed(columns, e.name)].type
LeafData(e, columns, r) ==
    IF e.kind = "Literal" THEN e.literal.data ELSE r[ColumnNamed(columns, e.name)].data

IsPredicate(e, columns) ==
    LET is[t \in Subtrees(e)] ==
            /\ t.kind = "Binary"
            /\ IF t.op \in Logical THEN is[t.left] /\ is[t.right]
               ELSE /\ IsLeaf(t.left, columns) /\ IsLeaf(t.right, columns)
                    /\ LeafType(t.left, columns) = LeafType(t.right, columns)
                    /\ t.op \in OrderingOperators => LeafType(t.left, columns) = "Int"
    IN  is[e]

Compares(op, m, n) ==
    CASE op = "Equal"    -> m = n
      [] op = "NotEqual" -> m # n
      [] OTHER           -> Ordered(op, m, n)
Holds(e, columns, r) ==
    LET holds[t \in Subtrees(e)] ==
            /\ t.kind = "Binary"
            /\ IF t.op = "And" THEN holds[t.left] /\ holds[t.right]
               ELSE IF t.op = "Or" THEN holds[t.left] \/ holds[t.right]
               ELSE Compares(t.op, LeafData(t.left, columns, r), LeafData(t.right, columns, r))
    IN  holds[e]

=============================================================================
