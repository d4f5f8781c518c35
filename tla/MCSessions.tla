----------------------------- MODULE MCSessions -----------------------------
(* Small instances of Sessions for TLC.                                    *)
EXTENDS Sessions

CONSTANTS main, other, public, archive, tab, colA, colB, txtP, s1, s2

Numbers == <<ColumnDefinition(colA, "Int"), ColumnDefinition(colB, "Int")>>
Names   == <<ColumnDefinition(colB, "Text"), ColumnDefinition(colA, "Int")>>

MCSessionSet    == {s1, s2}
MCDatabaseNames == {main, other}

One == LiteralExpr(Int64(1))
Two == LiteralExpr(Int64(2))

Creations ==
    {CreateDatabaseStatement(other), CreateTableStatement(EmptyName, tab, Numbers),
     CreateTableStatement(EmptyName, tab, Names)}
Inserts ==
    {InsertStatement(EmptyName, tab, <<One, Two>>),
     InsertStatement(EmptyName, tab, <<LiteralExpr(Text(txtP)), One>>)}
Selects ==
    {SelectStatement(EmptyName, tab, FALSE, <<colB, colA>>,
                     Binary("Or", Binary("Less", ColumnExpr(colA), ColumnExpr(colB)),
                                  Binary("Equal", ColumnExpr(colB), One))),
     SelectStatement(EmptyName, tab, TRUE, << >>, Binary("Equal", ColumnExpr(colA), One))}

(* Statements that the binder, or the catalog, refuses.                    *)
TwoOfOneName == <<ColumnDefinition(colA, "Int"), ColumnDefinition(colA, "Text")>>
Refusals ==
    {CreateTableStatement(EmptyName, tab, TwoOfOneName),
     CreateTableStatement(archive, tab, Numbers),
     InsertStatement(EmptyName, tab, <<One>>),
     InsertStatement(EmptyName, tab, <<ColumnExpr(colA), One>>),
     SelectStatement(EmptyName, tab, FALSE, <<txtP>>, NoWhere),
     SelectStatement(EmptyName, tab, TRUE, << >>, ColumnExpr(colA)),
     SelectStatement(EmptyName, tab, TRUE, << >>,
                     Binary("Greater", ColumnExpr(colB), LiteralExpr(Text(txtP)))),
     SelectStatement(EmptyName, tab, TRUE, << >>,
                     Binary("Equal", Binary("Equal", ColumnExpr(colA), One), One))}

MCStatements == Creations \cup Inserts \cup Selects \cup Refusals

(* A table of two texts next to a table of two numbers.                    *)
Labels == <<ColumnDefinition(colA, "Text"), ColumnDefinition(colB, "Text")>>
Label  == LiteralExpr(Text(txtP))
MCLabelStatements ==
    {CreateDatabaseStatement(other), CreateTableStatement(EmptyName, tab, Numbers),
     CreateTableStatement(EmptyName, tab, Labels),
     InsertStatement(EmptyName, tab, <<Label, Label>>)} \cup Selects

MCRowBatches ==
    {[schema |-> public, table |-> tab, rows |-> <<<<Int64(2), Int64(1)>>, <<Int64(1)>>>>]}
MCColumnarBatches ==
    {[schema |-> public, table |-> tab, well_formed |-> TRUE, types |-> <<"Text", "Int">>,
      rows |-> <<<<Text(txtP), Int64(2)>>>>],
     [schema |-> public, table |-> tab, well_formed |-> FALSE, types |-> <<"Int", "Int">>,
      rows |-> <<<<Int64(1), Int64(1)>>>>]}

(* The two sessions are interchangeable.                                   *)
Symmetry == Permutations(MCSessionSet)

=============================================================================
