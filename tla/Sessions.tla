------------------------------ MODULE Sessions ------------------------------
(***************************************************************************)
(* Sessions on one cluster: src/src/engine/session.{hpp,cpp},              *)
(* src/src/catalog/binder.{hpp,cpp} and src/src/execution/executor.{hpp,   *)
(* cpp}.                                                                   *)
(*                                                                         *)
(* A statement is bound against the catalog of the session's current       *)
(* database and executed later, against the catalog that is current then.  *)
(* The shell does the one right after the other, but a BoundStatement is a *)
(* value that a caller may keep: between the two, other sessions of the    *)
(* cluster may run, and the session itself may connect elsewhere.  There   *)
(* is one thread; a step of the specification is one call.                 *)
(***************************************************************************)
EXTENDS Catalog, Where, SequencesExt

CONSTANTS
    Sessions,
    Statements,         \* parsed statements
    DatabaseNames,      \* the names passed to Session and to connect
    RowBatches,         \* arguments of insert_batch
    ColumnarBatches,    \* arguments of insert_columnar_batch
    MaxRows,            \* bound: no table gets more rows than this
    Closed              \* the current database of a session that is not open

ASSUME ClosedAssumption == Closed \notin DatabaseNames \cup {DefaultDatabase}
ASSUME MaxRowsAssumption == MaxRows \in Nat

(* What the parser guarantees of a statement: names are not empty, a table *)
(* has columns, and a clause is a tree.                                    *)
IsSequence(s) == s \in Seq(ToSet(s))
IsParsed(s) ==
    \/ s.kind = "CreateTable" /\ s.table # EmptyName /\ s.columns # << >> /\ IsSequence(s.columns)
    \/ s.kind = "CreateSchema" /\ s.schema # EmptyName
    \/ s.kind = "CreateDatabase" /\ s.database # EmptyName
    \/ s.kind = "Insert" /\ IsSequence(s.values)
    \/ /\ s.kind = "Select" /\ IsSequence(s.columns)
       /\ s.where.kind = "None" \/ IsTree(s.where)
ASSUME StatementsAssumption == \A s \in Statements : IsParsed(s)

(* The views of a well-formed batch have the types that it names.          *)
ASSUME BatchesAssumption ==
    /\ \A batch \in RowBatches \cup ColumnarBatches : IsSequence(batch.rows)
    /\ \A batch \in ColumnarBatches : batch.well_formed =>
          \A i \in 1 .. Len(batch.rows) :
              /\ Len(batch.rows[i]) = Len(batch.types)
              /\ \A c \in 1 .. Len(batch.types) : batch.rows[i][c].type = batch.types[c]

VARIABLES
    cluster,
    current,    \* for each session: the name of its current database
    bound,      \* for each session: the bound statement it keeps, if any
    answer,     \* how the last call ended: a status, and the rows of a SELECT
    running     \* FALSE once the process has ended on an assertion

vars == <<cluster, current, bound, answer, running>>

-----------------------------------------------------------------------------
(***************************************************************************)
(* A bound statement is wrapped with two facts about its making that the   *)
(* code does not keep: the database and the statement it was bound from.   *)
(***************************************************************************)
NoStatement == [kind |-> "None"]

ResolveSchemaNameMutant(schema) == PublicSchema         \* the qualification is lost
ResolveSchemaName(schema) == IF schema = EmptyName THEN PublicSchema ELSE schema

Refused(status) == [status |-> status]
Accepted(statement) == [status |-> "Ok", bound |-> statement]

-----------------------------------------------------------------------------
(***************************************************************************)
(* The binder.                                                             *)
(***************************************************************************)
BindCreateTableMutant(catalog, s) ==        \* the schema is not looked up
    LET schema == ResolveSchemaName(s.schema)
    IN  IF TableExists(catalog, schema, s.table) THEN Refused("table already exists")
        ELSE Accepted(CreateTableStatement(schema, s.table, s.columns))
BindCreateTable(catalog, s) ==
    LET schema == ResolveSchemaName(s.schema)
    IN  IF schema \notin DOMAIN catalog THEN Refused("schema not found")
        ELSE IF TableExists(catalog, schema, s.table) THEN Refused("table already exists")
        ELSE Accepted(CreateTableStatement(schema, s.table, s.columns))

BindCreateSchema(catalog, s) ==
    IF s.schema \in DOMAIN catalog THEN Refused("schema already exists") ELSE Accepted(s)

BindCreateDatabase(databases, s) ==
    IF s.database \in databases THEN Refused("database already exists") ELSE Accepted(s)

BindInsertMutant(catalog, s) ==             \* the values are not validated
    LET schema == ResolveSchemaName(s.schema)
    IN  IF ~TableExists(catalog, schema, s.table) THEN Refused("table not found")
        ELSE IF \E i \in 1 .. Len(s.values) : s.values[i].kind # "Literal"
        THEN Refused("expected literal value in insert")
        ELSE Accepted(InsertStatement(schema, s.table,
                          [i \in 1 .. Len(s.values) |-> s.values[i].literal]))
BindInsert(catalog, s) ==
    LET schema == ResolveSchemaName(s.schema)
        values == [i \in 1 .. Len(s.values) |-> s.values[i].literal]
    IN  IF ~TableExists(catalog, schema, s.table) THEN Refused("table not found")
        ELSE IF \E i \in 1 .. Len(s.values) : s.values[i].kind # "Literal"
        THEN Refused("expected literal value in insert")
        ELSE IF ~ValidateValues(values, catalog[schema][s.table].columns)
        THEN Refused("row rejected")
        ELSE Accepted(InsertStatement(schema, s.table, values))

BindWhere(where, columns) ==
    IF where.kind = "None" THEN Accepted(NoWhere)
    ELSE LET result == BindExpression(where, columns)
             check  == ValidatePredicate(result.bound)
         IN  IF result.status # "Ok" THEN Refused(result.status)
             ELSE IF check # "Ok" THEN Refused(check)
             ELSE Accepted(result.bound)

SelectedOrdinals(s, columns) ==
    IF s.select_all THEN [c \in 1 .. Len(columns) |-> c]
    ELSE [j \in 1 .. Len(s.columns) |-> ColumnIndex(columns, s.columns[j])]

BindSelect(catalog, s) ==
    LET schema   == ResolveSchemaName(s.schema)
        columns  == catalog[schema][s.table].columns
        where    == BindWhere(s.where, columns)
        ordinals == SelectedOrdinals(s, columns)
    IN  IF ~TableExists(catalog, schema, s.table) THEN Refused("table not found")
        ELSE IF where.status # "Ok" THEN where
        ELSE IF \E j \in 1 .. Len(ordinals) : ordinals[j] = 0 THEN Refused("column not found")
        ELSE Accepted([kind |-> "Select", schema |-> schema, table |-> s.table,
                       column_ordinals |-> ordinals, where |-> where.bound])

BindStatement(database, s) ==
    CASE s.kind = "CreateTable"    -> BindCreateTable(cluster[database], s)
      [] s.kind = "CreateSchema"   -> BindCreateSchema(cluster[database], s)
      [] s.kind = "CreateDatabase" -> BindCreateDatabase(DOMAIN cluster, s)
      [] s.kind = "Insert"         -> BindInsert(cluster[database], s)
      [] s.kind = "Select"         -> BindSelect(cluster[database], s)

-----------------------------------------------------------------------------
(***************************************************************************)
(* The executor.  Execution looks the table up again; of a SELECT it also  *)
(* checks the clause and the ordinals again.                               *)
(***************************************************************************)
WhereStatus(where, columns) ==
    IF where.kind = "None" THEN "Ok" ELSE ValidateAgain(where, Len(columns))

RowMatches(where, values) ==
    IF where.kind = "None" THEN True ELSE Evaluate(where, values)

ProjectMutant(values, ordinals) == [j \in 1 .. Len(ordinals) |-> values[j]]   \* schema order
Project(values, ordinals) == [j \in 1 .. Len(ordinals) |-> values[ordinals[j]]]

(* The rows at some places of a list, in their order.                      *)
RowsAt(rows, places) ==
    LET order == SetToSortSeq(places, <)
    IN  [n \in 1 .. Len(order) |-> rows[order[n]]]
Matching(rows, where) ==
    RowsAt(rows, {i \in 1 .. Len(rows) : RowMatches(where, rows[i]).truth})

(* The rows that match, projected; or the first row on which evaluation    *)
(* does not end with a truth value.                                        *)
ScanRows(rows, where, ordinals) ==
    LET failed  == {i \in 1 .. Len(rows) : RowMatches(where, rows[i]).status # "Ok"}
        first   == CHOOSE i \in failed : \A j \in failed : i <= j
        matches == Matching(rows, where)
    IN  IF failed # {} THEN [status |-> RowMatches(where, rows[first]).status, rows |-> << >>]
        ELSE [status |-> "Ok",
              rows |-> [n \in 1 .. Len(matches) |-> Project(matches[n], ordinals)]]

ExecuteSelect(catalog, b) ==
    LET table   == catalog[b.schema][b.table]
        columns == table.columns
        Failed(status) == [status |-> status, rows |-> << >>]
    IN  IF ~TableExists(catalog, b.schema, b.table) THEN Failed("table not found")
        ELSE IF \E n \in ToSet(b.column_ordinals) : n > Len(columns)
        THEN Failed("column ordinal out of range")
        ELSE IF WhereStatus(b.where, columns) # "Ok" THEN Failed(WhereStatus(b.where, columns))
        ELSE ScanRows(table.rows, b.where, b.column_ordinals)

(* What executing b in a database answers, and the cluster it leaves.      *)
InDatabase(database, result) ==
    [status |-> result.status, rows |-> << >>,
     cluster |-> [cluster EXCEPT ![database] = result.catalog]]
ExecuteStatement(database, b) ==
    LET catalog == cluster[database]
    IN  CASE b.kind = "CreateTable" ->
                InDatabase(database, CreateTable(catalog, b.schema, b.table, b.columns))
          [] b.kind = "CreateSchema" ->
                InDatabase(database, CreateSchema(catalog, b.schema))
          [] b.kind = "CreateDatabase" ->
                LET result == CreateDatabase(cluster, b.database)
                IN  [status |-> result.status, rows |-> << >>, cluster |-> result.cluster]
          [] b.kind = "Insert" ->
                IF ~TableExists(catalog, b.schema, b.table)
                THEN [status |-> "table not found", rows |-> << >>, cluster |-> cluster]
                ELSE InDatabase(database, Insert(catalog, b.schema, b.table, b.values))
          [] b.kind = "Select" ->
                LET result == ExecuteSelect(catalog, b)
                IN  [status |-> result.status, rows |-> result.rows, cluster |-> cluster]

-----------------------------------------------------------------------------
Init ==
    /\ cluster = NewCluster
    /\ current = [s \in Sessions |-> Closed]
    /\ bound = [s \in Sessions |-> NoStatement]
    /\ answer = [status |-> "Ok", rows |-> << >>]
    /\ running = TRUE

IsOpen(s) == current[s] # Closed

Say(status) == answer' = [status |-> status, rows |-> << >>]

(* An abort, and the exception that nothing catches, end the process.      *)
Fatal == {"Abort", "Trap"}

InitialDatabaseMutant(name) == name         \* the name is taken as it comes
InitialDatabase(name) == IF name \in DOMAIN cluster THEN name ELSE DefaultDatabase

OpenSession(s, name) ==
    /\ running /\ ~IsOpen(s)
    /\ current' = [current EXCEPT ![s] = InitialDatabase(name)]
    /\ Say("Ok")
    /\ UNCHANGED <<cluster, bound, running>>

Connect(s, name) ==
    /\ running /\ IsOpen(s)
    /\ IF name \in DOMAIN cluster
       THEN current' = [current EXCEPT ![s] = name] /\ Say("Ok")
       ELSE Say("database not found") /\ UNCHANGED current
    /\ UNCHANGED <<cluster, bound, running>>

Bind(s, statement) ==
    /\ running /\ IsOpen(s)
    /\ LET result == BindStatement(current[s], statement)
       IN  /\ Say(result.status)
           /\ bound' = [bound EXCEPT ![s] =
                  IF result.status # "Ok" THEN NoStatement
                  ELSE [kind |-> "Bound", statement |-> result.bound,
                        database |-> current[s], parsed |-> statement]]
    /\ UNCHANGED <<cluster, current, running>>

RoomFor(s, schema, table, n) ==
    TableExists(cluster[current[s]], schema, table) =>
        Len(cluster[current[s]][schema][table].rows) + n <= MaxRows

(* The statement is moved into the executor: it is gone afterwards.        *)
Execute(s) ==
    /\ running /\ bound[s] # NoStatement
    /\ LET b == bound[s].statement
           result == ExecuteStatement(current[s], b)
       IN  /\ b.kind = "Insert" => RoomFor(s, b.schema, b.table, 1)
           /\ cluster' = result.cluster
           /\ answer' = [status |-> result.status, rows |-> result.rows]
           /\ running' = (result.status \notin Fatal)
    /\ bound' = [bound EXCEPT ![s] = NoStatement]
    /\ UNCHANGED current

(* The two calls of the catalog that SQL does not reach.                   *)
BulkInsert(s, batch) ==
    /\ running /\ IsOpen(s)
    /\ RoomFor(s, batch.schema, batch.table, Len(batch.rows))
    /\ LET result == InsertBatch(cluster[current[s]], batch.schema, batch.table, batch.rows)
       IN  /\ cluster' = [cluster EXCEPT ![current[s]] = result.catalog]
           /\ Say(result.status)
           /\ running' = (result.status \notin Fatal)
    /\ UNCHANGED <<current, bound>>

BulkInsertColumns(s, batch) ==
    /\ running /\ IsOpen(s)
    /\ RoomFor(s, batch.schema, batch.table, Len(batch.rows))
    /\ LET result == InsertColumnarBatch(cluster[current[s]], batch.schema, batch.table, batch)
       IN  /\ cluster' = [cluster EXCEPT ![current[s]] = result.catalog]
           /\ Say(result.status)
    /\ UNCHANGED <<current, bound, running>>

Next ==
    \E s \in Sessions :
        \/ \E name \in DatabaseNames : OpenSession(s, name)
        \/ \E name \in DatabaseNames : Connect(s, name)
        \/ \E statement \in Statements : Bind(s, statement)
        \/ Execute(s)
        \/ \E batch \in RowBatches : BulkInsert(s, batch)
        \/ \E batch \in ColumnarBatches : BulkInsertColumns(s, batch)

Spec == Init /\ [][Next]_vars

-----------------------------------------------------------------------------
(***************************************************************************)
(* Properties.                                                             *)
(***************************************************************************)

(* A table always has columns, of different names, and each of its rows    *)
(* fits them: whichever of the four ways in a row took                     *)
(* (schema_catalog.cpp:53-138), and whatever it was bound against.         *)
TableWellFormed(table) ==
    /\ table.columns # << >>
    /\ ~HasDuplicateColumns(table.columns)
    /\ \A i \in 1 .. Len(table.rows) : ValidateValues(table.rows[i], table.columns)
TablesWellFormed ==
    \A database \in DOMAIN cluster : \A schema \in DOMAIN cluster[database] :
        \A table \in DOMAIN cluster[database][schema] :
            TableWellFormed(cluster[database][schema][table])

(* The current database of every open session exists, so that              *)
(* Session::current_database_catalog, which dereferences the result of the *)
(* look-up unchecked (session.cpp:29-37), finds it; and the schema that an *)
(* unqualified name means exists in every database.                        *)
SessionsConnected ==
    /\ \A s \in Sessions : IsOpen(s) => current[s] \in DOMAIN cluster
    /\ \A s \in Sessions : bound[s] # NoStatement => IsOpen(s)
    /\ \A database \in DOMAIN cluster : PublicSchema \in DOMAIN cluster[database]

(* A statement that is executed in the database it was bound in does what  *)
(* binding it promised, whatever other sessions did in between: an INSERT  *)
(* and a SELECT succeed, and a CREATE fails only if the name was taken     *)
(* meanwhile or, for a table, because two columns have one name, which the *)
(* binder does not look at (binder.cpp:35-53).                             *)
MayAnswer(b) ==
    CASE b.kind = "CreateTable"    -> {"Ok", "table already exists", "duplicate column name"}
      [] b.kind = "CreateSchema"   -> {"Ok", "schema already exists"}
      [] b.kind = "CreateDatabase" -> {"Ok", "database already exists"}
      [] b.kind \in {"Insert", "Select"} -> {"Ok"}
IsFresh(s) == bound[s] # NoStatement /\ bound[s].database = current[s]
BoundStaysExecutable ==
    \A s \in Sessions : IsFresh(s) =>
        ExecuteStatement(current[s], bound[s].statement).status \in MayAnswer(bound[s].statement)

(* A SELECT answers by column names: executed in the database it was bound *)
(* in, it delivers, in their order, the rows of the table that satisfy the *)
(* clause as written, cut to the columns as written, although it only      *)
(* remembers ordinals (executor.cpp:80-154).                               *)
Cell(table, values, name) ==
    values[ColumnNamed(table.columns, name)]
Satisfies(table, values, where) ==
    where.kind = "None" \/ Holds(where, table.columns, values)
Expected(table, s) ==
    LET rows  == RowsAt(table.rows, {i \in 1 .. Len(table.rows) :
                                        Satisfies(table, table.rows[i], s.where)})
        names == IF s.select_all
                 THEN [c \in 1 .. Len(table.columns) |-> table.columns[c].name]
                 ELSE s.columns
    IN  [n \in 1 .. Len(rows) |->
            [j \in 1 .. Len(names) |-> Cell(table, rows[n], names[j])]]
SelectAnswersByName ==
    \A s \in Sessions : (IsFresh(s) /\ bound[s].parsed.kind = "Select") =>
        LET parsed  == bound[s].parsed
            catalog == cluster[current[s]]
            schema  == IF parsed.schema = EmptyName THEN PublicSchema ELSE parsed.schema
        IN  /\ TableExists(catalog, schema, parsed.table)
            /\ ExecuteSelect(catalog, bound[s].statement).rows =
                  Expected(catalog[schema][parsed.table], parsed)

(* No call takes anything away: databases, schemas and tables stay, a      *)
(* table keeps its columns, and its rows stay the first rows of what it    *)
(* has later.                                                              *)
Keeps(old, new) ==
    /\ DOMAIN old \subseteq DOMAIN new
    /\ \A schema \in DOMAIN old :
          /\ DOMAIN old[schema] \subseteq DOMAIN new[schema]
          /\ \A table \in DOMAIN old[schema] :
                /\ new[schema][table].columns = old[schema][table].columns
                /\ IsPrefix(old[schema][table].rows, new[schema][table].rows)
KeepsAll(old, new) ==
    /\ DOMAIN old \subseteq DOMAIN new
    /\ \A database \in DOMAIN old : Keeps(old[database], new[database])
NothingForgotten == [][KeepsAll(cluster, cluster')]_vars

(* A bound statement still fits the database it was bound in: the table it *)
(* names is there, the row to insert fits it, and the ordinals of a SELECT *)
(* are columns (binder.cpp:77-175).  With the type of tables and sessions  *)
(* and with BoundAsWritten, this makes the properties above inductive.     *)
Fits(b, catalog) ==
    \/ b.kind = "CreateTable" /\ IsParsed(b) /\ b.schema \in DOMAIN catalog
    \/ b.kind \in {"CreateSchema", "CreateDatabase"} /\ IsParsed(b)
    \/ /\ b.kind = "Insert" /\ TableExists(catalog, b.schema, b.table)
       /\ ValidateValues(b.values, catalog[b.schema][b.table].columns)
    \/ /\ b.kind = "Select" /\ TableExists(catalog, b.schema, b.table)
       /\ ToSet(b.column_ordinals) \subseteq 1 .. Len(catalog[b.schema][b.table].columns)
BoundFits ==
    \A s \in Sessions : bound[s] # NoStatement =>
        /\ bound[s].database \in DOMAIN cluster
        /\ Fits(bound[s].statement, cluster[bound[s].database])

(* A bound SELECT is what binding its text would give now: the tables and  *)
(* the columns that the binder looked at are still the same, so ordinals   *)
(* mean the names that were written, and the clause is one that the binder *)
(* has validated for these columns (binder.cpp:117-175).                   *)
BoundAsWritten ==
    \A s \in Sessions : bound[s] # NoStatement =>
        LET parsed == bound[s].parsed
        IN  /\ IsParsed(parsed) /\ parsed.kind = bound[s].statement.kind
            /\ parsed.kind = "Select" =>
                  BindSelect(cluster[bound[s].database], parsed) = Accepted(bound[s].statement)

IsTable(table) ==
    /\ table = [columns |-> table.columns, rows |-> table.rows]
    /\ IsSequence(table.columns) /\ IsSequence(table.rows)
TablesTyped ==
    \A database \in DOMAIN cluster : \A schema \in DOMAIN cluster[database] :
        \A table \in DOMAIN cluster[database][schema] :
            IsTable(cluster[database][schema][table])

Inv ==
    /\ DOMAIN current = Sessions /\ DOMAIN bound = Sessions
    /\ DefaultDatabase \in DOMAIN cluster
    /\ TablesTyped /\ TablesWellFormed
    /\ SessionsConnected /\ BoundFits /\ BoundAsWritten

(* No insertion reaches the storage with a row that its schema does not    *)
(* admit: the assertion assert_row_matches_schema (schema_catalog.cpp:     *)
(* 22-26), which aborts.                                                   *)
InsertedRowsMatchSchema == answer.status # "Abort"

(* No value is used as an integer that is none: the assertion of           *)
(* Value::as_int (value.cpp:67).                                           *)
IntegersAreIntegers == answer.status # "Trap"

=============================================================================
