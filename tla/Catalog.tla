------------------------------ MODULE Catalog ------------------------------
(***************************************************************************)
(* The catalogs: src/src/engine/cluster.{hpp,cpp},                         *)
(* src/src/catalog/database_catalog.{hpp,cpp} and schema_catalog.{hpp,cpp} *)
(* as operators on nested maps                                             *)
(*                                                                         *)
(*    cluster : database name -> schema name -> table name -> table        *)
(*                                                                         *)
(* A table is its columns and the sequence of its rows: module             *)
(* TableStorageProofs proves that TableStorage implements just that.       *)
(* Nothing is ever taken out of a map.  An operation returns a status and  *)
(* the map as it leaves it.                                                *)
(***************************************************************************)
EXTENDS Ast

CONSTANTS
    DefaultDatabase,    \* kDefaultDatabase
    PublicSchema,       \* kPublicSchema
    NDEBUG              \* TRUE: a build without assertions

ASSUME DefaultNamesAssumption == DefaultDatabase # EmptyName /\ PublicSchema # EmptyName
ASSUME NDEBUGAssumption == NDEBUG \in BOOLEAN

(* The map f with the entry key -> entry.                                  *)
With(f, key, entry) == [k \in DOMAIN f \cup {key} |-> IF k = key THEN entry ELSE f[k]]

NewSchemaCatalog   == [table \in {} |-> << >>]
NewDatabaseCatalog == [schema \in {PublicSchema} |-> NewSchemaCatalog]
NewCluster         == [database \in {DefaultDatabase} |-> NewDatabaseCatalog]

NewTable(columns) == [columns |-> columns, rows |-> << >>]

-----------------------------------------------------------------------------
ValidateValues(values, columns) ==
    /\ Len(values) = Len(columns)
    /\ \A c \in 1 .. Len(columns) : values[c].type = columns[c].type

HasDuplicateColumns(columns) ==
    \E c, d \in 1 .. Len(columns) : c < d /\ columns[c].name = columns[d].name

CreateDatabase(cluster, name) ==
    IF name = EmptyName THEN [status |-> "database name must not be empty", cluster |-> cluster]
    ELSE IF name \in DOMAIN cluster
    THEN [status |-> "database already exists", cluster |-> cluster]
    ELSE [status |-> "Ok", cluster |-> With(cluster, name, NewDatabaseCatalog)]

CreateSchema(catalog, name) ==
    IF name = EmptyName THEN [status |-> "schema name must not be empty", catalog |-> catalog]
    ELSE IF name \in DOMAIN catalog
    THEN [status |-> "schema already exists", catalog |-> catalog]
    ELSE [status |-> "Ok", catalog |-> With(catalog, name, NewSchemaCatalog)]

TableExists(catalog, schema, table) ==
    schema \in DOMAIN catalog /\ table \in DOMAIN catalog[schema]

CreateTableMutant(catalog, schema, table, columns) ==   \* an existing table is replaced
    [status |-> "Ok",
     catalog |-> With(catalog, schema, With(catalog[schema], table, NewTable(columns)))]
CreateTable(catalog, schema, table, columns) ==
    IF schema \notin DOMAIN catalog THEN [status |-> "schema not found", catalog |-> catalog]
    ELSE IF table = EmptyName THEN [status |-> "table name must not be empty", catalog |-> catalog]
    ELSE IF columns = << >>
    THEN [status |-> "table must have at least one column", catalog |-> catalog]
    ELSE IF HasDuplicateColumns(columns)
    THEN [status |-> "duplicate column name", catalog |-> catalog]
    ELSE IF table \in DOMAIN catalog[schema]
    THEN [status |-> "table already exists", catalog |-> catalog]
    ELSE [status |-> "Ok",
          catalog |-> With(catalog, schema, With(catalog[schema], table, NewTable(columns)))]

-----------------------------------------------------------------------------
(***************************************************************************)
(* Insertion.  In a build with assertions every row is checked against its *)
(* schema before it reaches the storage, and a bad row aborts the process. *)
(***************************************************************************)
AddRows(catalog, schema, table, rows) ==
    [catalog EXCEPT ![schema][table].rows = @ \o rows]

NoSuchTable(catalog, schema) ==
    [status |-> IF schema \in DOMAIN catalog THEN "table not found" ELSE "schema not found",
     catalog |-> catalog]

InsertMutant(catalog, schema, table, values) ==     \* the row is not validated
    IF ~TableExists(catalog, schema, table) THEN NoSuchTable(catalog, schema)
    ELSE [status |-> "Ok", catalog |-> AddRows(catalog, schema, table, <<values>>)]
Insert(catalog, schema, table, values) ==
    IF ~TableExists(catalog, schema, table) THEN NoSuchTable(catalog, schema)
    ELSE IF ValidateValues(values, catalog[schema][table].columns)
    THEN [status |-> "Ok", catalog |-> AddRows(catalog, schema, table, <<values>>)]
    ELSE [status |-> IF NDEBUG THEN "row rejected" ELSE "Abort", catalog |-> catalog]

(* TableStorage::append_rows keeps the rows before the first bad one.      *)
InsertBatch(catalog, schema, table, rows) ==
    IF ~TableExists(catalog, schema, table) THEN NoSuchTable(catalog, schema)
    ELSE LET columns == catalog[schema][table].columns
             bad     == {i \in 1 .. Len(rows) : ~ValidateValues(rows[i], columns)}
             first   == CHOOSE i \in bad : \A j \in bad : i <= j
         IN  IF bad = {}
             THEN [status |-> "Ok", catalog |-> AddRows(catalog, schema, table, rows)]
             ELSE IF ~NDEBUG THEN [status |-> "Abort", catalog |-> catalog]
             ELSE [status  |-> "row rejected",
                   catalog |-> AddRows(catalog, schema, table, SubSeq(rows, 1, first - 1))]

(* A batch is the type of each of its columns, its rows, and whether its   *)
(* views are well-formed (column_batch.cpp); it is accepted or refused as  *)
(* a whole, and no assertion looks at it.                                  *)
InsertColumnarBatch(catalog, schema, table, batch) ==
    IF ~TableExists(catalog, schema, table) THEN NoSuchTable(catalog, schema)
    ELSE LET columns == catalog[schema][table].columns
         IN  IF /\ batch.well_formed
                /\ Len(batch.types) = Len(columns)
                /\ \A c \in 1 .. Len(columns) : batch.types[c] = columns[c].type
             THEN [status |-> "Ok", catalog |-> AddRows(catalog, schema, table, batch.rows)]
             ELSE [status |-> "batch rejected", catalog |-> catalog]

=============================================================================
