---------------------------- MODULE MCBoundExpr ----------------------------
(* A small instance of BoundExpr for TLC: clauses of up to three levels.   *)
EXTENDS BoundExpr

MCColumns == <<[name |-> "id", type |-> "Int"], [name |-> "name", type |-> "Text"]>>

MCRows == {<<Int64(i), Text(t)>> : i \in 0 .. 2, t \in {"p", "q"}}

LeafTrees == {LiteralExpr(Int64(1)), LiteralExpr(Text("p")),
              ColumnExpr("id"), ColumnExpr("name"), ColumnExpr("missing")}

Comparisons ==
    {Binary(op, l, r) : op \in ComparisonOperators, l \in LeafTrees, r \in LeafTrees}

(* Some of them again, as the parts of larger clauses.                     *)
id   == ColumnExpr("id")
name == ColumnExpr("name")
Parts ==
    {id, LiteralExpr(Int64(1)), Binary("Less", id, LiteralExpr(Int64(1))),
     Binary("GreaterEqual", LiteralExpr(Int64(1)), id),
     Binary("Equal", name, LiteralExpr(Text("p"))),
     Binary("NotEqual", name, name), Binary("Greater", name, name), Binary("Equal", id, name)}
Pairs == {Binary(op, l, r) : op \in {"And", "Or", "Equal", "Less"}, l \in Parts, r \in Parts}
Trees == {Binary(op, l, r) : op \in {"And", "Or"}, l \in Pairs, r \in Parts}

MCClauses == LeafTrees \cup Comparisons \cup Pairs \cup Trees

=============================================================================
