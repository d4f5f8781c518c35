----------------------------- MODULE BoundExpr -----------------------------
(***************************************************************************)
(* The life of one WHERE clause: Binder::bind_select binds and validates   *)
(* it, and Executor::execute_select validates it again and evaluates it on *)
(* the rows of the table.  Where has the functions.                        *)
(***************************************************************************)
EXTENDS Where

CONSTANTS
    Columns,        \* the columns of the table: a sequence of [name, type]
    Clauses,        \* the WHERE clauses
    Rows            \* rows of the table

(* The columns of a table have names of their own (schema_catalog.cpp:62). *)
ASSUME ColumnsAssumption ==
    /\ Columns \in Seq({Columns[c] : c \in DOMAIN Columns})
    /\ \A c \in 1 .. Len(Columns) :
        /\ Columns[c].type \in {"Int", "Text"}
        /\ \A d \in 1 .. Len(Columns) : Columns[c].name = Columns[d].name => c = d

ASSUME RowsAssumption ==
    \A row \in Rows :
        /\ Len(row) = Len(Columns)
        /\ \A c \in 1 .. Len(Columns) : IsValue(row[c]) /\ row[c].type = Columns[c].type

ASSUME ClausesAssumption == \A e \in Clauses : IsTree(e)

VARIABLES
    clause,     \* the syntax tree
    bound,      \* the bound expression, if any
    stage,      \* parsed, bound, selected, evaluated or rejected
    row,        \* the row of the evaluation
    answer      \* how the last stage ended

vars == <<clause, bound, stage, row, answer>>

-----------------------------------------------------------------------------
Init ==
    /\ clause \in Clauses
    /\ bound = Literal(Int64(0)) /\ row = << >>
    /\ stage = "parsed" /\ answer = "Ok"

(* Binder::bind_select, as far as its WHERE clause is concerned.           *)
BindWhere ==
    /\ stage = "parsed"
    /\ LET result == BindExpression(clause, Columns)
       IN  IF result.status # "Ok"
           THEN stage' = "rejected" /\ answer' = result.status /\ UNCHANGED bound
           ELSE /\ bound' = result.bound
                /\ answer' = ValidatePredicate(result.bound)
                /\ stage' = IF answer' = "Ok" THEN "bound" ELSE "rejected"
    /\ UNCHANGED <<clause, row>>

(* The checks of Executor::execute_select before its scan.                 *)
StartScan ==
    /\ stage = "bound"
    /\ answer' = ValidateAgain(bound, Len(Columns))
    /\ stage' = IF answer' = "Ok" THEN "selected" ELSE "rejected"
    /\ UNCHANGED <<clause, bound, row>>

TruthName(truth) == IF truth THEN "matches" ELSE "no match"

(* The scan evaluates the clause on a row.                                 *)
VisitRow(r) ==
    /\ stage = "selected"
    /\ row' = r
    /\ LET result == Evaluate(bound, r)
       IN  answer' = IF result.status = "Ok" THEN TruthName(result.truth) ELSE result.status
    /\ stage' = "evaluated"
    /\ UNCHANGED <<clause, bound>>

Next == BindWhere \/ StartScan \/ \E r \in Rows : VisitRow(r)

Spec == Init /\ [][Next]_vars

-----------------------------------------------------------------------------
(* The two checks together accept exactly the clauses that the reference   *)
(* calls predicates, and no accepted clause is refused when it is executed *)
(* (bound_expr.cpp:49-223, executor.cpp:95-105).                           *)
AcceptsPredicates ==
    /\ stage = "rejected" => ~IsPredicate(clause, Columns)
    /\ stage \in {"bound", "selected", "evaluated"} => IsPredicate(clause, Columns)

(* A clause that was accepted has a truth value on every row of its table: *)
(* no error, no payload of the wrong type is taken out of a value          *)
(* (bound_expr.cpp:225-335), and the value is the reference's, although    *)
(* AND and OR leave their right side out.                                  *)
EvaluatesToReference == stage = "evaluated" => answer = TruthName(Holds(clause, Columns, row))

(* The inductive invariant: the executor is given what Bind made of a      *)
(* predicate.                                                              *)
ClauseInv ==
    /\ clause \in Clauses
    /\ stage \in {"parsed", "bound", "selected", "evaluated", "rejected"}
    /\ AcceptsPredicates
    /\ stage \in {"bound", "selected"} => bound = BindExpression(clause, Columns).bound
    /\ EvaluatesToReference

=============================================================================
