\* Every comparison of two leaves, and trees of AND, OR and comparisons.
SPECIFICATION Spec
CONSTANTS
    Columns <- MCColumns
    Clauses <- MCClauses
    Rows <- MCRows
INVARIANTS
    AcceptsPredicates
    EvaluatesToReference
CHECK_DEADLOCK FALSE
