-------------------------------- MODULE Ast --------------------------------
(***************************************************************************)
(* Syntax trees of statements: src/src/frontend/ast.hpp.  The trees of     *)
(* expressions are in Predicate.  The bound forms of the CREATEs and of    *)
(* INSERT (src/src/catalog/binder.hpp) have the same fields.               *)
(***************************************************************************)
EXTENDS Predicate

CONSTANT EmptyName      \* the name of no characters, such as a schema left out

CreateTableStatement(schema, table, columns) ==
    [kind |-> "CreateTable", schema |-> schema, table |-> table, columns |-> columns]
CreateSchemaStatement(schema) == [kind |-> "CreateSchema", schema |-> schema]
CreateDatabaseStatement(database) == [kind |-> "CreateDatabase", database |-> database]
InsertStatement(schema, table, values) ==
    [kind |-> "Insert", schema |-> schema, table |-> table, values |-> values]
SelectStatement(schema, table, all, columns, where) ==
    [kind |-> "Select", schema |-> schema, table |-> table,
     select_all |-> all, columns |-> columns, where |-> where]

NoWhere == [kind |-> "None"]

ColumnDefinition(name, type) == [name |-> name, type |-> type]

=============================================================================
