-------------------------- MODULE BoundExprProofs --------------------------
(***************************************************************************)
(* The life of a WHERE clause, for every set of columns, clauses and rows: *)
(* what the binder accepts the executor accepts, and what it evaluates to. *)
(* WhereProofs has the facts about the trees.                              *)
(***************************************************************************)
EXTENDS BoundExpr, WhereProofs

LEMMA InstanceFacts ==
    /\ Distinct(Columns)
    /\ \A e \in Clauses : IsTree(e)
    /\ \A r \in Rows : RowOf(r, Columns)
<1>1. Len(Columns) \in Nat
    BY ColumnsAssumption
<1>2. QED BY <1>1, ColumnsAssumption, ClausesAssumption, RowsAssumption DEF Distinct, RowOf

LEMMA ClauseStarts ==
    Init => ClauseInv
BY DEF Init, ClauseInv, AcceptsPredicates, EvaluatesToReference

LEMMA BindStep ==
    ASSUME ClauseInv, BindWhere
    PROVE  ClauseInv'
<1> DEFINE result == BindExpression(clause, Columns)
<1>1. clause \in Clauses /\ clause' = clause /\ row' = row
    BY DEF ClauseInv, BindWhere
<1>2. Accepts(clause, Columns) <=> IsPredicate(clause, Columns)
    BY <1>1, InstanceFacts, AcceptedIsPredicate
<1>3. CASE result.status # "Ok"
    <2>1. stage' = "rejected"
        BY <1>3 DEF BindWhere
    <2>2. ~IsPredicate(clause, Columns)
        BY <1>2, <1>3 DEF Accepts, Binds
    <2>3. QED BY <1>1, <2>1, <2>2 DEF ClauseInv, AcceptsPredicates, EvaluatesToReference
<1>4. CASE result.status = "Ok"
    <2>1. /\ bound' = result.bound
          /\ answer' = ValidatePredicate(result.bound)
          /\ stage' = IF answer' = "Ok" THEN "bound" ELSE "rejected"
        BY <1>4 DEF BindWhere
    <2>2. IsPredicate(clause, Columns) <=> answer' = "Ok"
        BY <1>2, <1>4, <2>1 DEF Accepts, Binds, BoundTo
    <2>3. QED BY <1>1, <2>1, <2>2 DEF ClauseInv, AcceptsPredicates, EvaluatesToReference
<1>5. QED BY <1>3, <1>4

LEMMA StartStep ==
    ASSUME ClauseInv, StartScan
    PROVE  ClauseInv'
<1>1. /\ clause \in Clauses /\ IsPredicate(clause, Columns) /\ bound = BoundTo(clause, Columns)
      /\ clause' = clause /\ row' = row /\ bound' = bound
    BY DEF ClauseInv, AcceptsPredicates, StartScan, BoundTo
<1>2. ValidatePredicate(bound) = "Ok" /\ Binds(clause, Columns)
    BY <1>1, InstanceFacts, AcceptedIsPredicate DEF Accepts
<1>3. ValidateOrdinals(bound, Len(Columns))
    BY <1>1, <1>2, InstanceFacts, BoundIsTree
<1>4. answer' = "Ok" /\ stage' = "selected"
    <2>1. answer' = "Ok"
        BY <1>2, <1>3, Zenon DEF StartScan, ValidateAgain
    <2>2. QED BY <2>1 DEF StartScan
<1>5. QED BY <1>1, <1>4 DEF ClauseInv, AcceptsPredicates, EvaluatesToReference, BoundTo

LEMMA VisitStep ==
    ASSUME ClauseInv, NEW r \in Rows, VisitRow(r)
    PROVE  ClauseInv'
<1> DEFINE truth == Holds(clause, Columns, r)
<1>1. /\ clause \in Clauses /\ IsPredicate(clause, Columns) /\ bound = BoundTo(clause, Columns)
      /\ clause' = clause /\ row' = r /\ bound' = bound /\ stage' = "evaluated"
    BY DEF ClauseInv, AcceptsPredicates, VisitRow, BoundTo
<1>2. Evaluate(bound, r) = Answer(truth)
    BY <1>1, InstanceFacts, PredicateEvaluates
<1>3. answer' = TruthName(truth)
    <2>1. Answer(truth).status = "Ok" /\ Answer(truth).truth = truth
        BY DEF Answer
    <2> HIDE DEF truth
    <2>2. QED BY <1>2, <2>1, Zenon DEF VisitRow
<1>4. QED BY <1>1, <1>3 DEF ClauseInv, AcceptsPredicates, EvaluatesToReference

(* Every stage keeps the invariant: the executor is given what the binder  *)
(* made of a predicate.                                                    *)
THEOREM ClauseInvariant ==
    Spec => []ClauseInv
<1>1. ASSUME ClauseInv, [Next]_vars
      PROVE  ClauseInv'
    <2>1. CASE BindWhere
        BY <1>1, <2>1, BindStep
    <2>2. CASE StartScan
        BY <1>1, <2>2, StartStep
    <2>3. CASE \E r \in Rows : VisitRow(r)
        BY <1>1, <2>3, VisitStep
    <2>4. CASE UNCHANGED vars
        BY <1>1, <2>4 DEF vars, ClauseInv, AcceptsPredicates, EvaluatesToReference
    <2>5. QED BY <1>1, <2>1, <2>2, <2>3, <2>4 DEF Next
<1>2. QED BY <1>1, ClauseStarts, PTL DEF Spec

(* Binder and executor accept exactly the predicates of the reference, and *)
(* what the binder accepted the executor does not refuse                   *)
(* (bound_expr.cpp:49-223, executor.cpp:95-105).                           *)
THEOREM PredicatesAreAccepted ==
    Spec => []AcceptsPredicates
<1>1. ClauseInv => AcceptsPredicates
    BY DEF ClauseInv
<1>2. QED BY <1>1, ClauseInvariant, PTL

(* The clause has the truth value of the reference on every row, whatever  *)
(* AND and OR leave out (bound_expr.cpp:225-335).                          *)
THEOREM PredicatesEvaluate ==
    Spec => []EvaluatesToReference
<1>1. ClauseInv => EvaluatesToReference
    BY DEF ClauseInv
<1>2. QED BY <1>1, ClauseInvariant, PTL

=============================================================================
