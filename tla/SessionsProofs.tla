--------------------------- MODULE SessionsProofs ---------------------------
(***************************************************************************)
(* The invariant of Sessions, and that a statement executed in the         *)
(* database it was bound in does what binding it promised, for any number  *)
(* of sessions, databases, schemas and tables.                             *)
(*                                                                         *)
(* First come the operations of the catalogs, for all names, columns and   *)
(* rows: what an operation leaves is well-formed and keeps everything that *)
(* was there.  Then the binder, the executor, and one lemma per call.      *)
(***************************************************************************)
EXTENDS Sessions, WhereProofs, SequenceTheorems

(* A set of naturals that is not empty has a smallest member.              *)
LEMMA SmallestExists ==
    ASSUME NEW T \in SUBSET Nat, T # {}
    PROVE  \E x \in T : \A y \in T : x <= y
<1> DEFINE Less == {pair \in Nat \X Nat : pair[1] < pair[2]}
<1>1. IsWellFoundedOn(Less, Nat)
    BY NatLessThanWellFounded DEF OpToRel
<1>2. PICK x \in T : \A y \in T : <<y, x>> \notin Less
    <2> HIDE DEF Less
    <2> QED BY <1>1, WFMin
<1>3. \A y \in T : ~(y < x)
    BY <1>2
<1> QED BY <1>3

-----------------------------------------------------------------------------
(* Sequences.                                                              *)

LEMMA SeqIsSequence ==
    ASSUME NEW S, NEW s \in Seq(S)
    PROVE  IsSequence(s)
<1>1. /\ Len(s) \in Nat /\ DOMAIN s = 1 .. Len(s)
      /\ s \in [1 .. Len(s) -> S]
    BY LenProperties
<1>2. s \in [1 .. Len(s) -> ToSet(s)]
    BY <1>1 DEF ToSet
<1> QED BY <1>1, <1>2, SeqDef DEF IsSequence

LEMMA SequenceLength ==
    ASSUME NEW s, IsSequence(s)
    PROVE  Len(s) \in Nat /\ DOMAIN s = 1 .. Len(s)
BY LenProperties DEF IsSequence

(* The concatenation of two sequences begins with the first and goes on    *)
(* with the second.                                                        *)
LEMMA ConcatIsSequence ==
    ASSUME NEW s, NEW t, IsSequence(s), IsSequence(t)
    PROVE  /\ IsSequence(s \o t)
           /\ Len(s \o t) = Len(s) + Len(t)
           /\ \A i \in 1 .. Len(s) : (s \o t)[i] = s[i]
           /\ \A i \in 1 .. Len(t) : (s \o t)[Len(s) + i] = t[i]
           /\ IsPrefix(s, s \o t)
<1> DEFINE S == ToSet(s) \cup ToSet(t)
<1>1. s \in Seq(S) /\ t \in Seq(S)
    BY SeqMonotonic DEF IsSequence
<1> HIDE DEF S
<1>2. /\ Len(s) \in Nat /\ Len(t) \in Nat
      /\ s \o t \in Seq(S)
      /\ Len(s \o t) = Len(s) + Len(t)
      /\ \A i \in 1 .. Len(s) + Len(t) :
            (s \o t)[i] = IF i <= Len(s) THEN s[i] ELSE t[i - Len(s)]
    BY <1>1, ConcatProperties, LenProperties
<1>3. \A i \in 1 .. Len(s) : (s \o t)[i] = s[i]
    BY <1>2
<1>4. \A i \in 1 .. Len(t) : (s \o t)[Len(s) + i] = t[i]
    <2> TAKE i \in 1 .. Len(t)
    <2>1. /\ Len(s) + i \in 1 .. Len(s) + Len(t) /\ ~(Len(s) + i <= Len(s))
          /\ Len(s) + i - Len(s) = i
        BY <1>2
    <2> QED BY <1>2, <2>1
<1>5. SubSeq(s, 1, Len(s)) = SubSeq(s \o t, 1, Len(s))
    <2>1. CASE Len(s) = 0
        <3>1. 0 < 1
            OBVIOUS
        <3> QED BY <2>1, <3>1, SubSeqEmpty
    <2>2. CASE Len(s) # 0
        <3>1. 1 \in 1 .. Len(s) /\ Len(s) \in 1 .. Len(s)
            BY <1>2, <2>2
        <3> QED BY <1>1, <3>1, SubSeqOfConcat1
    <2> QED BY <2>1, <2>2
<1>6. Len(s) <= Len(s \o t)
    BY <1>2
<1>7. IsSequence(s \o t)
    BY <1>2, SeqIsSequence
<1>8. IsPrefix(s, s \o t)
    BY <1>5, <1>6 DEF IsPrefix
<1> QED BY <1>2, <1>3, <1>4, <1>7, <1>8

LEMMA PrefixReflexive ==
    ASSUME NEW s, IsSequence(s)
    PROVE  IsPrefix(s, s)
BY SequenceLength DEF IsPrefix

(* The first n elements of a sequence.                                     *)
LEMMA FirstElements ==
    ASSUME NEW s, IsSequence(s), NEW n \in 0 .. Len(s)
    PROVE  /\ IsSequence(SubSeq(s, 1, n))
           /\ Len(SubSeq(s, 1, n)) = n
           /\ \A i \in 1 .. n : SubSeq(s, 1, n)[i] = s[i]
<1>1. n \in Nat /\ Len(s) \in Nat /\ s \in Seq(ToSet(s))
    BY SequenceLength DEF IsSequence
<1>2. \A i \in 1 .. n : s[i] \in ToSet(s)
    BY <1>1, ElementOfSeq
<1>3. /\ SubSeq(s, 1, n) \in Seq(ToSet(s))
      /\ Len(SubSeq(s, 1, n)) = IF 1 <= n THEN n - 1 + 1 ELSE 0
      /\ \A i \in 1 .. n - 1 + 1 : SubSeq(s, 1, n)[i] = s[1 + i - 1]
    BY <1>1, <1>2, SubSeqProperties
<1>4. /\ (IF 1 <= n THEN n - 1 + 1 ELSE 0) = n
      /\ \A i \in 1 .. n : i \in 1 .. n - 1 + 1 /\ 1 + i - 1 = i
    BY <1>1
<1>5. IsSequence(SubSeq(s, 1, n))
    BY <1>3, SeqIsSequence
<1>6. \A i \in 1 .. n : SubSeq(s, 1, n)[i] = s[i]
    BY <1>3, <1>4
<1> QED BY <1>3, <1>4, <1>5, <1>6

LEMMA SingletonSequence ==
    ASSUME NEW x
    PROVE  IsSequence(<<x>>) /\ Len(<<x>>) = 1 /\ <<x>>[1] = x
<1>1. <<x>> \in Seq({x})
    OBVIOUS
<1> QED BY <1>1, SeqIsSequence

LEMMA EmptySequence == IsSequence(<< >>) /\ Len(<< >>) = 0
BY EmptySeq, SeqIsSequence

-----------------------------------------------------------------------------
(* Catalogs.  A good step leads from a catalog to a good one that keeps    *)
(* what the first one has.                                                 *)
GoodTable(table) == IsTable(table) /\ TableWellFormed(table)
GoodCatalog(catalog) ==
    /\ PublicSchema \in DOMAIN catalog
    /\ \A schema \in DOMAIN catalog : \A table \in DOMAIN catalog[schema] :
          GoodTable(catalog[schema][table])
GoodStep(old, new) == GoodCatalog(new) /\ Keeps(old, new)

LEMMA KeepsReflexive ==
    ASSUME NEW catalog, GoodCatalog(catalog)
    PROVE  GoodStep(catalog, catalog)
<1> SUFFICES ASSUME NEW schema \in DOMAIN catalog, NEW table \in DOMAIN catalog[schema]
             PROVE  IsPrefix(catalog[schema][table].rows, catalog[schema][table].rows)
    BY DEF GoodStep, Keeps
<1>1. IsSequence(catalog[schema][table].rows)
    BY DEF GoodCatalog, GoodTable, IsTable
<1> QED BY <1>1, PrefixReflexive

(* One more schema, or one more table in a schema.                         *)
LEMMA NewSchemaGood ==
    ASSUME NEW catalog, GoodCatalog(catalog), NEW name, name \notin DOMAIN catalog
    PROVE  GoodStep(catalog, With(catalog, name, NewSchemaCatalog))
<1> DEFINE new == With(catalog, name, NewSchemaCatalog)
<1>1. /\ DOMAIN new = DOMAIN catalog \cup {name}
      /\ new[name] = NewSchemaCatalog
      /\ \A k \in DOMAIN catalog : new[k] = catalog[k]
    BY DEF With
<1>2. DOMAIN NewSchemaCatalog = {}
    BY DEF NewSchemaCatalog
<1> HIDE DEF new
<1>3. GoodCatalog(new)
    BY <1>1, <1>2 DEF GoodCatalog
<1>4. Keeps(catalog, new)
    BY <1>1, KeepsReflexive DEF GoodStep, Keeps
<1> QED BY <1>3, <1>4 DEF GoodStep, new

LEMMA NewTableGood ==
    ASSUME NEW catalog, GoodCatalog(catalog), NEW schema \in DOMAIN catalog,
           NEW name, name \notin DOMAIN catalog[schema],
           NEW columns, IsSequence(columns), columns # << >>, ~HasDuplicateColumns(columns)
    PROVE  GoodStep(catalog,
                    With(catalog, schema, With(catalog[schema], name, NewTable(columns))))
<1> DEFINE tables == With(catalog[schema], name, NewTable(columns))
           new    == With(catalog, schema, tables)
<1>1. /\ DOMAIN tables = DOMAIN catalog[schema] \cup {name}
      /\ tables[name] = NewTable(columns)
      /\ \A k \in DOMAIN catalog[schema] : tables[k] = catalog[schema][k]
    BY DEF With
<1> HIDE DEF tables
<1>2. /\ DOMAIN new = DOMAIN catalog
      /\ new[schema] = tables
      /\ \A k \in DOMAIN catalog : k # schema => new[k] = catalog[k]
    BY DEF With
<1> HIDE DEF new
<1>3. GoodTable(NewTable(columns))
    <2>1. \A i \in 1 .. Len(<< >>) : FALSE
        BY EmptySequence
    <2> QED BY <2>1, EmptySequence DEF GoodTable, IsTable, TableWellFormed, NewTable
<1>4. GoodCatalog(new)
    BY <1>1, <1>2, <1>3 DEF GoodCatalog
<1>5. Keeps(catalog, new)
    BY <1>1, <1>2, KeepsReflexive DEF GoodStep, Keeps
<1> QED BY <1>4, <1>5 DEF GoodStep, new, tables

LEMMA TableWithRows ==
    ASSUME NEW table, table = [columns |-> table.columns, rows |-> table.rows], NEW more
    PROVE  [table EXCEPT !.rows = more] = [columns |-> table.columns, rows |-> more]
<1> DEFINE c == table.columns
           r == table.rows
<1>1. table \in [columns : {c}, rows : {r}]
    OBVIOUS
<1> HIDE DEF c, r
<1>2. [table EXCEPT !.rows = more] \in [columns : {c}, rows : {more}]
    BY <1>1
<1>3. [table EXCEPT !.rows = more] = [columns |-> c, rows |-> more]
    BY <1>2
<1> QED BY <1>3 DEF c

LEMMA RowsFitTogether ==
    ASSUME NEW s, IsSequence(s), NEW t, IsSequence(t), NEW columns,
           \A i \in 1 .. Len(s) : ValidateValues(s[i], columns),
           \A i \in 1 .. Len(t) : ValidateValues(t[i], columns)
    PROVE  \A i \in 1 .. Len(s \o t) : ValidateValues((s \o t)[i], columns)
<1> DEFINE m == Len(s)
           n == Len(t)
           r == s \o t
<1>1. /\ m \in Nat /\ n \in Nat /\ Len(r) = m + n
      /\ \A i \in 1 .. m : r[i] = s[i]
      /\ \A i \in 1 .. n : r[m + i] = t[i]
    BY ConcatIsSequence, SequenceLength
<1>2. /\ \A i \in 1 .. m : ValidateValues(s[i], columns)
      /\ \A i \in 1 .. n : ValidateValues(t[i], columns)
    OBVIOUS
<1> HIDE DEF m, n, r
<1>3. ASSUME NEW i \in 1 .. Len(r) PROVE ValidateValues(r[i], columns)
    <2>1. CASE i <= m
        <3>1. i \in 1 .. m
            BY <1>1, <2>1
        <3> QED BY <1>1, <1>2, <3>1
    <2>2. CASE ~(i <= m)
        <3>1. i - m \in 1 .. n /\ m + (i - m) = i
            BY <1>1, <2>2
        <3>2. r[i] = t[i - m]
            BY <1>1, <3>1
        <3> QED BY <1>2, <3>1, <3>2
    <2> QED BY <2>1, <2>2
<1> QED BY <1>3 DEF r

(* Rows that fit their table, put behind its rows.                         *)
LEMMA AddRowsGood ==
    ASSUME NEW catalog, GoodCatalog(catalog), NEW schema, NEW name,
           TableExists(catalog, schema, name), NEW rows, IsSequence(rows),
           \A i \in 1 .. Len(rows) : ValidateValues(rows[i], catalog[schema][name].columns)
    PROVE  GoodStep(catalog, AddRows(catalog, schema, name, rows))
<1> DEFINE new   == AddRows(catalog, schema, name, rows)
           table == catalog[schema][name]
           grown == [columns |-> table.columns, rows |-> table.rows \o rows]
<1>1. /\ schema \in DOMAIN catalog /\ name \in DOMAIN catalog[schema]
      /\ GoodTable(table)
    BY DEF TableExists, GoodCatalog
<1>2. [table EXCEPT !.rows = @ \o rows] = grown
    BY <1>1, TableWithRows DEF GoodTable, IsTable
<1>3. /\ DOMAIN new = DOMAIN catalog
      /\ \A k \in DOMAIN catalog : k # schema => new[k] = catalog[k]
      /\ DOMAIN new[schema] = DOMAIN catalog[schema]
      /\ \A k \in DOMAIN catalog[schema] : k # name => new[schema][k] = catalog[schema][k]
      /\ new[schema][name] = [table EXCEPT !.rows = @ \o rows]
    BY <1>1 DEF AddRows
<1> HIDE DEF new
<1>4. /\ IsSequence(table.rows \o rows)
      /\ IsPrefix(table.rows, table.rows \o rows)
      /\ \A i \in 1 .. Len(table.rows \o rows) :
            ValidateValues((table.rows \o rows)[i], table.columns)
    <2>1. IsSequence(table.rows)
        BY <1>1 DEF GoodTable, IsTable
    <2>2. \A i \in 1 .. Len(table.rows) : ValidateValues(table.rows[i], table.columns)
        BY <1>1 DEF GoodTable, TableWellFormed
    <2> QED BY <2>1, <2>2, ConcatIsSequence, RowsFitTogether
<1>5. GoodTable(grown)
    BY <1>1, <1>4 DEF GoodTable, IsTable, TableWellFormed
<1>6. GoodCatalog(new)
    BY <1>1, <1>2, <1>3, <1>5 DEF GoodCatalog
<1>7. Keeps(catalog, new)
    <2>1. /\ grown.columns = table.columns
          /\ IsPrefix(table.rows, grown.rows)
        BY <1>4
    <2>2. new[schema][name] = grown
        BY <1>2, <1>3
    <2>3. Keeps(catalog, catalog)
        BY KeepsReflexive DEF GoodStep
    <2> HIDE DEF grown
    <2>4. ASSUME NEW k \in DOMAIN catalog
          PROVE  /\ DOMAIN catalog[k] \subseteq DOMAIN new[k]
                 /\ \A l \in DOMAIN catalog[k] :
                       /\ new[k][l].columns = catalog[k][l].columns
                       /\ IsPrefix(catalog[k][l].rows, new[k][l].rows)
        <3>1. CASE k # schema
            BY <1>3, <2>3, <3>1 DEF Keeps
        <3>2. ASSUME k = schema, NEW l \in DOMAIN catalog[schema]
              PROVE  /\ new[schema][l].columns = catalog[schema][l].columns
                     /\ IsPrefix(catalog[schema][l].rows, new[schema][l].rows)
            <4>1. CASE l = name
                BY <2>1, <2>2, <4>1
            <4>2. CASE l # name
                BY <1>1, <1>3, <2>3, <4>2 DEF Keeps
            <4> QED BY <4>1, <4>2
        <3> QED BY <1>3, <3>1, <3>2
    <2> QED BY <1>3, <2>4 DEF Keeps
<1> QED BY <1>6, <1>7 DEF GoodStep, new

-----------------------------------------------------------------------------
(* The operations of a catalog: good steps, all of them.                   *)

LEMMA CreateSchemaGood ==
    ASSUME NEW catalog, GoodCatalog(catalog), NEW name
    PROVE  GoodStep(catalog, CreateSchema(catalog, name).catalog)
BY KeepsReflexive, NewSchemaGood DEF CreateSchema

LEMMA CreateTableGood ==
    ASSUME NEW catalog, GoodCatalog(catalog), NEW schema, NEW name,
           NEW columns, IsSequence(columns)
    PROVE  GoodStep(catalog, CreateTable(catalog, schema, name, columns).catalog)
BY KeepsReflexive, NewTableGood DEF CreateTable

LEMMA InsertGood ==
    ASSUME NEW catalog, GoodCatalog(catalog), NEW schema, NEW name, NEW values
    PROVE  GoodStep(catalog, Insert(catalog, schema, name, values).catalog)
<1>1. CASE /\ TableExists(catalog, schema, name)
           /\ ValidateValues(values, catalog[schema][name].columns)
    <2>1. \A i \in 1 .. Len(<<values>>) :
             ValidateValues(<<values>>[i], catalog[schema][name].columns)
        BY <1>1, SingletonSequence
    <2>2. GoodStep(catalog, AddRows(catalog, schema, name, <<values>>))
        BY <1>1, <2>1, SingletonSequence, AddRowsGood
    <2> QED BY <1>1, <2>2 DEF Insert
<1>2. CASE ~ /\ TableExists(catalog, schema, name)
             /\ ValidateValues(values, catalog[schema][name].columns)
    BY <1>2, KeepsReflexive DEF Insert, NoSuchTable
<1> QED BY <1>1, <1>2

LEMMA InsertBatchGood ==
    ASSUME NEW catalog, GoodCatalog(catalog), NEW schema, NEW name,
           NEW rows, IsSequence(rows)
    PROVE  GoodStep(catalog, InsertBatch(catalog, schema, name, rows).catalog)
<1> DEFINE columns == catalog[schema][name].columns
           bad     == {i \in 1 .. Len(rows) : ~ValidateValues(rows[i], columns)}
           first   == CHOOSE i \in bad : \A j \in bad : i <= j
           result  == InsertBatch(catalog, schema, name, rows)
<1>1. CASE ~TableExists(catalog, schema, name)
    BY <1>1, KeepsReflexive DEF InsertBatch, NoSuchTable
<1>2. CASE TableExists(catalog, schema, name) /\ bad = {}
    <2>1. result.catalog = AddRows(catalog, schema, name, rows)
        BY <1>2 DEF InsertBatch
    <2>2. \A i \in 1 .. Len(rows) : ValidateValues(rows[i], columns)
        BY <1>2
    <2> QED BY <1>2, <2>1, <2>2, AddRowsGood
<1>3. CASE TableExists(catalog, schema, name) /\ bad # {}
    <2>1. result.catalog = IF NDEBUG
             THEN AddRows(catalog, schema, name, SubSeq(rows, 1, first - 1)) ELSE catalog
        BY <1>3 DEF InsertBatch
    <2>2. first \in bad /\ \A j \in bad : first <= j
        <3>1. bad \in SUBSET Nat
            BY SequenceLength
        <3> HIDE DEF bad
        <3>2. \E i \in bad : \A j \in bad : i <= j
            BY <1>3, <3>1, SmallestExists
        <3> QED BY <3>2
    <2> HIDE DEF first
    <2> DEFINE n == first - 1
    <2>3. n \in 0 .. Len(rows) /\ \A i \in 1 .. n : i \in 1 .. Len(rows) /\ i \notin bad
        BY <2>2, SequenceLength
    <2> HIDE DEF n
    <2>4. \A i \in 1 .. n : ValidateValues(rows[i], columns)
        BY <2>3
    <2> HIDE DEF columns, bad, result
    <2>5. /\ IsSequence(SubSeq(rows, 1, n))
          /\ \A i \in 1 .. Len(SubSeq(rows, 1, n)) : ValidateValues(SubSeq(rows, 1, n)[i], columns)
        BY <2>3, <2>4, FirstElements
    <2>6. GoodStep(catalog, AddRows(catalog, schema, name, SubSeq(rows, 1, n)))
        BY <1>3, <2>5, AddRowsGood DEF columns
    <2> QED BY <2>1, <2>6, KeepsReflexive DEF n, result
<1> QED BY <1>1, <1>2, <1>3

(* What is assumed of the argument is BatchesAssumption.                   *)
LEMMA InsertColumnarBatchGood ==
    ASSUME NEW catalog, GoodCatalog(catalog), NEW schema, NEW name,
           NEW batch \in ColumnarBatches
    PROVE  GoodStep(catalog, InsertColumnarBatch(catalog, schema, name, batch).catalog)
<1> DEFINE columns == catalog[schema][name].columns
           result  == InsertColumnarBatch(catalog, schema, name, batch)
           accepted == /\ batch.well_formed
                       /\ Len(batch.types) = Len(columns)
                       /\ \A c \in 1 .. Len(columns) : batch.types[c] = columns[c].type
<1>1. CASE ~(TableExists(catalog, schema, name) /\ accepted)
    BY <1>1, KeepsReflexive DEF InsertColumnarBatch, NoSuchTable
<1>2. CASE TableExists(catalog, schema, name) /\ accepted
    <2>1. result.catalog = AddRows(catalog, schema, name, batch.rows)
        BY <1>2 DEF InsertColumnarBatch
    <2>2. IsSequence(batch.rows)
        BY BatchesAssumption
    <2>3. \A i \in 1 .. Len(batch.rows) : ValidateValues(batch.rows[i], columns)
        BY <1>2, BatchesAssumption DEF ValidateValues
    <2> QED BY <1>2, <2>1, <2>2, <2>3, AddRowsGood
<1> QED BY <1>1, <1>2

-----------------------------------------------------------------------------
(* Clusters.                                                               *)
GoodCluster(databases) ==
    /\ DefaultDatabase \in DOMAIN databases
    /\ \A database \in DOMAIN databases : GoodCatalog(databases[database])
GoodClusterStep(old, new) == GoodCluster(new) /\ KeepsAll(old, new)

LEMMA KeepsAllReflexive ==
    ASSUME NEW databases, GoodCluster(databases)
    PROVE  GoodClusterStep(databases, databases)
BY KeepsReflexive DEF GoodCluster, GoodClusterStep, KeepsAll, GoodStep

LEMMA NewDatabaseCatalogGood == GoodCatalog(NewDatabaseCatalog)
BY DEF GoodCatalog, NewDatabaseCatalog, NewSchemaCatalog

LEMMA NewClusterGood == GoodCluster(NewCluster)
BY NewDatabaseCatalogGood DEF GoodCluster, NewCluster

LEMMA CreateDatabaseGood ==
    ASSUME NEW databases, GoodCluster(databases), NEW name
    PROVE  GoodClusterStep(databases, CreateDatabase(databases, name).cluster)
<1> DEFINE new == With(databases, name, NewDatabaseCatalog)
<1>1. CASE name = EmptyName \/ name \in DOMAIN databases
    BY <1>1, KeepsAllReflexive DEF CreateDatabase
<1>2. CASE ~(name = EmptyName \/ name \in DOMAIN databases)
    <2>1. /\ DOMAIN new = DOMAIN databases \cup {name}
          /\ new[name] = NewDatabaseCatalog
          /\ \A k \in DOMAIN databases : new[k] = databases[k]
        BY <1>2 DEF With
    <2>2. CreateDatabase(databases, name).cluster = new
        BY <1>2 DEF CreateDatabase
    <2> HIDE DEF new
    <2>3. GoodCluster(new)
        BY <2>1, NewDatabaseCatalogGood DEF GoodCluster
    <2>4. KeepsAll(databases, new)
        BY <2>1, KeepsAllReflexive DEF GoodClusterStep, KeepsAll
    <2> QED BY <2>2, <2>3, <2>4 DEF GoodClusterStep
<1> QED BY <1>1, <1>2

(* A step of one database is a step of the cluster.                        *)
LEMMA DatabaseStepGood ==
    ASSUME NEW databases, GoodCluster(databases), NEW database \in DOMAIN databases,
           NEW catalog, GoodStep(databases[database], catalog)
    PROVE  GoodClusterStep(databases, [databases EXCEPT ![database] = catalog])
<1> DEFINE new == [databases EXCEPT ![database] = catalog]
<1>1. /\ DOMAIN new = DOMAIN databases
      /\ new[database] = catalog
      /\ \A k \in DOMAIN databases : k # database => new[k] = databases[k]
    OBVIOUS
<1> HIDE DEF new
<1>2. GoodCluster(new)
    BY <1>1 DEF GoodCluster, GoodStep
<1>3. KeepsAll(databases, new)
    BY <1>1, KeepsAllReflexive DEF GoodClusterStep, KeepsAll, GoodStep
<1> QED BY <1>2, <1>3 DEF GoodClusterStep, new

-----------------------------------------------------------------------------
(* Binding: what the binder accepts fits the catalog it was bound against. *)

LEMMA ColumnIndexInRange ==
    ASSUME NEW columns, IsSequence(columns), NEW name
    PROVE  ColumnIndex(columns, name) \in 0 .. Len(columns)
<1> DEFINE named == {c \in 1 .. Len(columns) : columns[c].name = name}
<1>1. Len(columns) \in Nat
    BY SequenceLength
<1>2. CASE named = {}
    BY <1>1, <1>2 DEF ColumnIndex
<1>3. CASE named # {}
    <2>1. \E x \in named : \A y \in named : x <= y
        <3>1. named \in SUBSET Nat
            BY <1>1
        <3> HIDE DEF named
        <3> QED BY <1>3, <3>1, SmallestExists
    <2>2. \E c \in 1 .. Len(columns) :
             columns[c].name = name /\ \A d \in 1 .. c - 1 : columns[d].name # name
        BY <1>1, <2>1
    <2>3. ColumnIndex(columns, name) \in 1 .. Len(columns)
        BY <2>2 DEF ColumnIndex
    <2> QED BY <1>1, <2>3
<1> QED BY <1>2, <1>3

LEMMA BindSelectFits ==
    ASSUME NEW catalog, GoodCatalog(catalog), NEW s, IsParsed(s), s.kind = "Select",
           BindSelect(catalog, s).status = "Ok"
    PROVE  Fits(BindSelect(catalog, s).bound, catalog)
<1> DEFINE schema   == ResolveSchemaName(s.schema)
           columns  == catalog[schema][s.table].columns
           where    == BindWhere(s.where, columns)
           ordinals == SelectedOrdinals(s, columns)
           b        == BindSelect(catalog, s).bound
<1>1. /\ TableExists(catalog, schema, s.table)
      /\ where.status = "Ok"
      /\ \A j \in 1 .. Len(ordinals) : ordinals[j] # 0
      /\ b = [kind |-> "Select", schema |-> schema, table |-> s.table,
              column_ordinals |-> ordinals, where |-> where.bound]
    BY DEF BindSelect, Refused, Accepted
<1>2. IsSequence(columns)
    BY <1>1 DEF TableExists, GoodCatalog, GoodTable, IsTable
<1>3. ToSet(ordinals) \subseteq 1 .. Len(columns)
    <2>1. CASE s.select_all
        BY <2>1 DEF SelectedOrdinals, ToSet
    <2>2. CASE ~s.select_all
        <3>1. ordinals = [j \in 1 .. Len(s.columns) |-> ColumnIndex(columns, s.columns[j])]
            BY <2>2 DEF SelectedOrdinals
        <3>2. IsSequence(s.columns)
            BY DEF IsParsed
        <3>3. Len(s.columns) \in Nat /\ Len(columns) \in Nat
            BY <1>2, <3>2, SequenceLength
        <3>4. \A j \in 1 .. Len(s.columns) : ordinals[j] \in 0 .. Len(columns)
            BY <1>2, <3>1, ColumnIndexInRange
        <3>5. DOMAIN ordinals = 1 .. Len(s.columns) /\ Len(ordinals) = Len(s.columns)
            BY <3>1, <3>3
        <3> HIDE DEF ordinals, columns
        <3>6. \A j \in DOMAIN ordinals : ordinals[j] \in 1 .. Len(columns)
            BY <1>1, <3>3, <3>4, <3>5
        <3> QED BY <3>6 DEF ToSet
    <2> QED BY <2>1, <2>2
<1> HIDE DEF b, schema, where, ordinals, columns
<1>4. /\ b.kind = "Select" /\ b.schema = schema /\ b.table = s.table
      /\ b.column_ordinals = ordinals
    BY <1>1
<1> QED BY <1>1, <1>3, <1>4 DEF Fits, b, columns

(* The binder accepts a SELECT with a bound statement and nothing else.    *)
LEMMA BindSelectAccepts ==
    ASSUME NEW catalog, NEW s, BindSelect(catalog, s).status = "Ok"
    PROVE  BindSelect(catalog, s) = Accepted(BindSelect(catalog, s).bound)
BY DEF BindSelect, Refused, Accepted

LEMMA BindInsertFits ==
    ASSUME NEW catalog, NEW s, BindInsert(catalog, s).status = "Ok"
    PROVE  Fits(BindInsert(catalog, s).bound, catalog)
<1> DEFINE schema == ResolveSchemaName(s.schema)
           values == [i \in 1 .. Len(s.values) |-> s.values[i].literal]
<1>1. /\ TableExists(catalog, schema, s.table)
      /\ ValidateValues(values, catalog[schema][s.table].columns)
      /\ BindInsert(catalog, s).bound = InsertStatement(schema, s.table, values)
    BY DEF BindInsert, Refused, Accepted
<1> HIDE DEF schema, values
<1> QED BY <1>1 DEF Fits, InsertStatement

LEMMA BindCreateTableFits ==
    ASSUME NEW catalog, NEW s, IsParsed(s), s.kind = "CreateTable",
           BindCreateTable(catalog, s).status = "Ok"
    PROVE  Fits(BindCreateTable(catalog, s).bound, catalog)
<1> DEFINE schema == ResolveSchemaName(s.schema)
<1>1. /\ schema \in DOMAIN catalog
      /\ BindCreateTable(catalog, s).bound = CreateTableStatement(schema, s.table, s.columns)
    BY DEF BindCreateTable, Refused, Accepted
<1> HIDE DEF schema
<1> QED BY <1>1 DEF Fits, IsParsed, CreateTableStatement

LEMMA BindStatementFits ==
    ASSUME NEW database, GoodCatalog(cluster[database]), NEW s, IsParsed(s),
           BindStatement(database, s).status = "Ok"
    PROVE  Fits(BindStatement(database, s).bound, cluster[database])
<1>1. CASE s.kind = "CreateTable"
    BY <1>1, BindCreateTableFits DEF BindStatement
<1>2. CASE s.kind = "CreateSchema"
    BY <1>2 DEF BindStatement, BindCreateSchema, Refused, Accepted, Fits
<1>3. CASE s.kind = "CreateDatabase"
    BY <1>3 DEF BindStatement, BindCreateDatabase, Refused, Accepted, Fits
<1>4. CASE s.kind = "Insert"
    BY <1>4, BindInsertFits DEF BindStatement
<1>5. CASE s.kind = "Select"
    BY <1>5, BindSelectFits DEF BindStatement
<1> QED BY <1>1, <1>2, <1>3, <1>4, <1>5 DEF IsParsed

(* Whatever happens to the catalog, the bound statement still fits it.     *)
LEMMA FitsKept ==
    ASSUME NEW b, NEW old, NEW new, Fits(b, old), Keeps(old, new)
    PROVE  Fits(b, new)
<1>1. ASSUME TableExists(old, b.schema, b.table)
      PROVE  /\ TableExists(new, b.schema, b.table)
             /\ new[b.schema][b.table].columns = old[b.schema][b.table].columns
    BY <1>1 DEF TableExists, Keeps
<1>2. b.schema \in DOMAIN old => b.schema \in DOMAIN new
    BY DEF Keeps
<1> QED BY <1>1, <1>2 DEF Fits

(* A SELECT that was bound is bound the same way later.                    *)
LEMMA BindSelectKept ==
    ASSUME NEW s, NEW old, NEW new, Keeps(old, new),
           NEW b, BindSelect(old, s) = Accepted(b)
    PROVE  BindSelect(new, s) = Accepted(b)
<1> DEFINE schema == ResolveSchemaName(s.schema)
<1>1. TableExists(old, schema, s.table)
    BY DEF BindSelect, Refused, Accepted
<1>2. /\ TableExists(new, schema, s.table)
      /\ new[schema][s.table].columns = old[schema][s.table].columns
    BY <1>1 DEF TableExists, Keeps
<1> QED BY <1>1, <1>2 DEF BindSelect

-----------------------------------------------------------------------------
(* Execution, in any database: the cluster stays good and keeps all it has.*)

LEMMA InDatabaseGood ==
    ASSUME GoodCluster(cluster), NEW database \in DOMAIN cluster,
           NEW result, GoodStep(cluster[database], result.catalog)
    PROVE  GoodClusterStep(cluster, InDatabase(database, result).cluster)
BY DatabaseStepGood DEF InDatabase

LEMMA ExecuteStatementGood ==
    ASSUME GoodCluster(cluster), NEW database \in DOMAIN cluster,
           NEW b, NEW home, Fits(b, home)
    PROVE  GoodClusterStep(cluster, ExecuteStatement(database, b).cluster)
<1> DEFINE catalog == cluster[database]
<1>1. GoodCatalog(catalog)
    BY DEF GoodCluster
<1>2. GoodClusterStep(cluster, cluster)
    BY KeepsAllReflexive
<1>3. CASE b.kind = "CreateTable"
    <2>1. IsSequence(b.columns)
        BY <1>3 DEF Fits, IsParsed
    <2>2. GoodStep(catalog, CreateTable(catalog, b.schema, b.table, b.columns).catalog)
        BY <1>1, <2>1, CreateTableGood
    <2>3. ExecuteStatement(database, b) =
             InDatabase(database, CreateTable(catalog, b.schema, b.table, b.columns))
        BY <1>3 DEF ExecuteStatement
    <2> QED BY <2>2, <2>3, InDatabaseGood
<1>4. CASE b.kind = "CreateSchema"
    <2>1. GoodStep(catalog, CreateSchema(catalog, b.schema).catalog)
        BY <1>1, CreateSchemaGood
    <2>2. ExecuteStatement(database, b) = InDatabase(database, CreateSchema(catalog, b.schema))
        BY <1>4 DEF ExecuteStatement
    <2> QED BY <2>1, <2>2, InDatabaseGood
<1>5. CASE b.kind = "CreateDatabase"
    BY <1>5, CreateDatabaseGood DEF ExecuteStatement
<1>6. CASE b.kind = "Insert"
    <2>1. GoodStep(catalog, Insert(catalog, b.schema, b.table, b.values).catalog)
        BY <1>1, InsertGood
    <2>2. \/ ExecuteStatement(database, b).cluster = cluster
          \/ ExecuteStatement(database, b) =
                InDatabase(database, Insert(catalog, b.schema, b.table, b.values))
        BY <1>6 DEF ExecuteStatement
    <2> QED BY <1>2, <2>1, <2>2, InDatabaseGood
<1>7. CASE b.kind = "Select"
    BY <1>2, <1>7 DEF ExecuteStatement
<1> QED BY <1>3, <1>4, <1>5, <1>6, <1>7 DEF Fits

-----------------------------------------------------------------------------
(* Execution in the database of the binding.                               *)

(* A clause that was bound passes the checks again, and on every row that  *)
(* fits the columns it has the truth value of the clause as it was written.*)
LEMMA BoundWhereMatches ==
    ASSUME NEW table, IsSequence(table.columns), ~HasDuplicateColumns(table.columns),
           NEW where, where.kind = "None" \/ IsTree(where),
           BindWhere(where, table.columns).status = "Ok"
    PROVE  LET b == BindWhere(where, table.columns).bound
           IN  /\ WhereStatus(b, table.columns) = "Ok"
               /\ \A row : ValidateValues(row, table.columns) =>
                    /\ RowMatches(b, row).status = "Ok"
                    /\ RowMatches(b, row).truth <=> Satisfies(table, row, where)
<1> DEFINE columns == table.columns
           b       == BindWhere(where, columns).bound
<1>1. CASE where.kind = "None"
    <2>1. b.kind = "None"
        BY <1>1 DEF BindWhere, Accepted, NoWhere
    <2> HIDE DEF b, columns
    <2>2. WhereStatus(b, columns) = "Ok" /\ \A row : RowMatches(b, row) = True
        BY <2>1 DEF WhereStatus, RowMatches
    <2>3. \A row : Satisfies(table, row, where)
        BY <1>1 DEF Satisfies
    <2> QED BY <2>2, <2>3 DEF True, b, columns
<1>2. CASE where.kind # "None"
    <2>1. IsTree(where)
        BY <1>2
    <2>2. Distinct(columns)
        <3>1. Len(columns) \in Nat
            BY SequenceLength
        <3>2. \A c, d \in 1 .. Len(columns) : columns[c].name = columns[d].name => c = d
            <4> SUFFICES ASSUME NEW c \in 1 .. Len(columns), NEW d \in 1 .. Len(columns),
                                columns[c].name = columns[d].name
                         PROVE  c = d
                OBVIOUS
            <4>1. ~(c < d) /\ ~(d < c)
                BY DEF HasDuplicateColumns
            <4> QED BY <3>1, <4>1
        <3> QED BY <3>1, <3>2 DEF Distinct
    <2>3. Accepts(where, columns) /\ b = BoundTo(where, columns)
        <3> DEFINE result == BindExpression(where, columns)
                   check  == ValidatePredicate(result.bound)
        <3>1. BindWhere(where, columns) = IF result.status # "Ok" THEN Refused(result.status)
                                          ELSE IF check # "Ok" THEN Refused(check)
                                          ELSE Accepted(result.bound)
            BY <1>2, Zenon DEF BindWhere
        <3> HIDE DEF result, check
        <3>2. result.status = "Ok" /\ check = "Ok" /\ b = result.bound
            BY <3>1 DEF Refused, Accepted
        <3> QED BY <3>2 DEF result, check, Accepts, Binds, BoundTo
    <2> HIDE DEF b, columns
    <2>4. IsPredicate(where, columns)
        BY <2>1, <2>2, <2>3, AcceptedIsPredicate
    <2>5. b.kind # "None"
        <3>1. where.kind = "Binary"
            BY <2>1, <2>4, IsPredicateUnfolds
        <3>2. Inner(where) /\ where.op \in ComparisonOperators \cup Logical
            BY <2>1, <3>1, TreeFacts, NodeFacts
        <3>3. b.kind \in Logical \cup {"Comparison"}
            BY <2>1, <2>3, <3>2, BindsBinary DEF Accepts
        <3> QED BY <3>3 DEF Logical
    <2>6. ValidateOrdinals(b, Len(columns)) /\ ValidatePredicate(b) = "Ok"
        BY <2>1, <2>2, <2>3, BoundIsTree DEF Accepts
    <2>7. WhereStatus(b, columns) = "Ok"
        BY <2>5, <2>6, Zenon DEF WhereStatus, ValidateAgain
    <2>8. ASSUME NEW row, ValidateValues(row, columns)
          PROVE  /\ RowMatches(b, row).status = "Ok"
                 /\ RowMatches(b, row).truth <=> Satisfies(table, row, where)
        <3> DEFINE truth == Holds(where, columns, row)
        <3>1. RowOf(row, columns)
            BY <2>8 DEF ValidateValues, RowOf
        <3>2. Evaluate(b, row) = Answer(truth) /\ truth \in BOOLEAN
            BY <2>1, <2>2, <2>3, <2>4, <3>1, PredicateEvaluates
        <3>3. RowMatches(b, row) = Evaluate(b, row)
            BY <2>5 DEF RowMatches
        <3>4. Satisfies(table, row, where) <=> truth
            BY <1>2 DEF Satisfies, columns
        <3> HIDE DEF truth
        <3> QED BY <3>2, <3>3, <3>4 DEF Answer
    <2> QED BY <2>7, <2>8 DEF b, columns
<1> QED BY <1>1, <1>2

(***************************************************************************)
(* What a SELECT answers.  A name that is bound is the name of exactly one *)
(* column, because the columns of a table have different names.            *)
(***************************************************************************)
LEMMA OnlyColumn ==
    ASSUME NEW columns, IsSequence(columns), ~HasDuplicateColumns(columns),
           NEW c \in 1 .. Len(columns), NEW name, columns[c].name = name
    PROVE  ColumnNamed(columns, name) = c
<1>1. Len(columns) \in Nat
    BY SequenceLength
<1>2. \A d \in 1 .. Len(columns) : columns[d].name = name => d = c
    <2> SUFFICES ASSUME NEW d \in 1 .. Len(columns), columns[d].name = name PROVE d = c
        OBVIOUS
    <2>1. ~(d < c) /\ ~(c < d)
        BY DEF HasDuplicateColumns
    <2> QED BY <1>1, <2>1
<1> QED BY <1>2 DEF ColumnNamed

LEMMA NamedColumn ==
    ASSUME NEW columns, IsSequence(columns), ~HasDuplicateColumns(columns),
           NEW name, ColumnIndex(columns, name) # 0
    PROVE  /\ ColumnIndex(columns, name) \in 1 .. Len(columns)
           /\ ColumnNamed(columns, name)
                = ColumnIndex(columns, name)
<1> DEFINE c == ColumnIndex(columns, name)
<1>1. c \in 1 .. Len(columns)
    BY ColumnIndexInRange, SequenceLength
<1>2. columns[c].name = name
    <2> DEFINE First(d) == columns[d].name = name /\ \A e \in 1 .. d - 1 : columns[e].name # name
               named == {d \in 1 .. Len(columns) : columns[d].name = name}
    <2>1. named # {} /\ named \in SUBSET Nat
        BY SequenceLength DEF ColumnIndex
    <2>2. \E d \in named : \A e \in named : d <= e
        <3> HIDE DEF named
        <3> QED BY <2>1, SmallestExists
    <2>3. \E d \in 1 .. Len(columns) : First(d)
        BY <2>2, SequenceLength
    <2>4. c = CHOOSE d \in 1 .. Len(columns) : First(d)
        BY <2>1 DEF ColumnIndex
    <2> HIDE DEF c, First
    <2>5. First(c)
        BY <2>3, <2>4
    <2> QED BY <2>5 DEF First
<1> HIDE DEF c
<1> QED BY <1>1, <1>2, OnlyColumn DEF c

(* The ordinals of a bound SELECT, applied to any row, are the columns     *)
(* that were written.                                                      *)
SelectedNames(s, columns) ==
    IF s.select_all THEN [c \in 1 .. Len(columns) |-> columns[c].name] ELSE s.columns

LEMMA ProjectByName ==
    ASSUME NEW table, IsSequence(table.columns), ~HasDuplicateColumns(table.columns),
           NEW s, IsSequence(s.columns), NEW row,
           \A j \in 1 .. Len(SelectedOrdinals(s, table.columns)) :
               SelectedOrdinals(s, table.columns)[j] # 0
    PROVE  LET names == SelectedNames(s, table.columns)
           IN  Project(row, SelectedOrdinals(s, table.columns))
                 = [j \in 1 .. Len(names) |-> Cell(table, row, names[j])]
<1> DEFINE columns  == table.columns
           ordinals == SelectedOrdinals(s, columns)
           names    == SelectedNames(s, columns)
<1>1. Len(columns) \in Nat /\ Len(s.columns) \in Nat
    BY SequenceLength
<1>2. CASE s.select_all
    <2>1. /\ ordinals = [c \in 1 .. Len(columns) |-> c]
          /\ names = [c \in 1 .. Len(columns) |-> columns[c].name]
        BY <1>2 DEF SelectedOrdinals, SelectedNames
    <2>2. Len(ordinals) = Len(columns) /\ Len(names) = Len(columns)
        BY <1>1, <2>1
    <2>3. \A c \in 1 .. Len(columns) : row[ordinals[c]] = Cell(table, row, names[c])
        <3> TAKE c \in 1 .. Len(columns)
        <3>1. ordinals[c] = c /\ names[c] = columns[c].name
            BY <2>1
        <3>2. ColumnNamed(columns, columns[c].name) = c
            BY OnlyColumn
        <3> QED BY <3>1, <3>2 DEF Cell
    <2> HIDE DEF ordinals, names
    <2> QED BY <2>2, <2>3 DEF Project, ordinals, names
<1>3. CASE ~s.select_all
    <2>1. /\ ordinals = [j \in 1 .. Len(s.columns) |-> ColumnIndex(columns, s.columns[j])]
          /\ names = s.columns
        BY <1>3 DEF SelectedOrdinals, SelectedNames
    <2>2. Len(ordinals) = Len(s.columns)
        BY <1>1, <2>1
    <2>3. ASSUME NEW j \in 1 .. Len(s.columns)
          PROVE  row[ordinals[j]] = Cell(table, row, s.columns[j])
        <3>1. ordinals[j] = ColumnIndex(columns, s.columns[j])
            BY <2>1
        <3>2. ordinals[j] # 0
            BY <2>2
        <3> HIDE DEF ordinals
        <3>3. ColumnNamed(columns, s.columns[j]) = ordinals[j]
            BY <3>1, <3>2, NamedColumn
        <3> QED BY <3>3 DEF Cell
    <2> HIDE DEF ordinals, names
    <2> QED BY <2>1, <2>2, <2>3 DEF Project, ordinals, names
<1> QED BY <1>2, <1>3

LEMMA SelectByName ==
    ASSUME NEW catalog, GoodCatalog(catalog), NEW s, IsParsed(s), s.kind = "Select",
           NEW b, BindSelect(catalog, s) = Accepted(b)
    PROVE  LET schema == ResolveSchemaName(s.schema)
           IN  /\ TableExists(catalog, schema, s.table)
               /\ ExecuteSelect(catalog, b).status = "Ok"
               /\ ExecuteSelect(catalog, b).rows = Expected(catalog[schema][s.table], s)
<1> DEFINE schema   == ResolveSchemaName(s.schema)
           table    == catalog[schema][s.table]
           columns  == table.columns
           where    == BindWhere(s.where, columns)
           ordinals == SelectedOrdinals(s, columns)
           names    == SelectedNames(s, columns)
<1>1. /\ TableExists(catalog, schema, s.table)
      /\ where.status = "Ok"
      /\ \A j \in 1 .. Len(ordinals) : ordinals[j] # 0
      /\ b = [kind |-> "Select", schema |-> schema, table |-> s.table,
              column_ordinals |-> ordinals, where |-> where.bound]
    <2>1. BindSelect(catalog, s).status = "Ok" /\ BindSelect(catalog, s).bound = b
        BY DEF Accepted
    <2>2. /\ TableExists(catalog, schema, s.table)
          /\ where.status = "Ok"
          /\ \A j \in 1 .. Len(ordinals) : ordinals[j] # 0
          /\ BindSelect(catalog, s).bound
                = [kind |-> "Select", schema |-> schema, table |-> s.table,
                   column_ordinals |-> ordinals, where |-> where.bound]
        BY <2>1 DEF BindSelect, Refused, Accepted
    <2> QED BY <2>1, <2>2
<1>2. /\ IsSequence(columns) /\ ~HasDuplicateColumns(columns)
      /\ \A i \in 1 .. Len(table.rows) : ValidateValues(table.rows[i], columns)
    BY <1>1 DEF TableExists, GoodCatalog, GoodTable, IsTable, TableWellFormed
<1>3. IsSequence(s.columns) /\ (s.where.kind = "None" \/ IsTree(s.where))
    BY DEF IsParsed
<1>4. /\ TableExists(catalog, b.schema, b.table)
      /\ ToSet(b.column_ordinals) \subseteq 1 .. Len(catalog[b.schema][b.table].columns)
    <2>1. BindSelect(catalog, s).status = "Ok" /\ BindSelect(catalog, s).bound = b
        BY DEF Accepted
    <2>2. Fits(b, catalog)
        BY <2>1, BindSelectFits
    <2> QED BY <1>1, <2>2 DEF Fits
<1> HIDE DEF schema, where, ordinals, names
<1>5. /\ b.schema = schema /\ b.table = s.table
      /\ b.column_ordinals = ordinals /\ b.where = where.bound
    BY <1>1
<1> DEFINE found == Matching(table.rows, where.bound)
           asked == RowsAt(table.rows, {i \in 1 .. Len(table.rows) :
                                           Satisfies(table, table.rows[i], s.where)})
<1>6. /\ WhereStatus(where.bound, columns) = "Ok"
      /\ \A i \in 1 .. Len(table.rows) :
            /\ RowMatches(where.bound, table.rows[i]).status = "Ok"
            /\ RowMatches(where.bound, table.rows[i]).truth
                  <=> Satisfies(table, table.rows[i], s.where)
    BY <1>1, <1>2, <1>3, BoundWhereMatches DEF where
<1>7. \A n \in ToSet(ordinals) : ~(n > Len(columns))
    <2>1. ToSet(ordinals) \subseteq 1 .. Len(columns) /\ Len(columns) \in Nat
        BY <1>2, <1>4, <1>5, SequenceLength
    <2> QED BY <2>1
<1>8. ExecuteSelect(catalog, b) = ScanRows(table.rows, where.bound, ordinals)
    <2>1. WhereStatus(b.where, columns) = "Ok"
        BY <1>5, <1>6
    <2> QED BY <1>4, <1>5, <1>7, <2>1, Zenon DEF ExecuteSelect
<1>9. ScanRows(table.rows, where.bound, ordinals)
        = [status |-> "Ok", rows |-> [n \in 1 .. Len(found) |-> Project(found[n], ordinals)]]
    BY <1>6 DEF ScanRows
<1>10. found = asked
    <2>1. {i \in 1 .. Len(table.rows) : RowMatches(where.bound, table.rows[i]).truth}
            = {i \in 1 .. Len(table.rows) : Satisfies(table, table.rows[i], s.where)}
        BY <1>6
    <2> QED BY <2>1 DEF Matching
<1>11. \A n \in 1 .. Len(asked) :
         Project(asked[n], ordinals) = [j \in 1 .. Len(names) |-> Cell(table, asked[n], names[j])]
    <2> TAKE n \in 1 .. Len(asked)
    <2> DEFINE row == asked[n]
    <2> HIDE DEF row, table, asked
    <2>1. \A j \in 1 .. Len(SelectedOrdinals(s, table.columns)) :
             SelectedOrdinals(s, table.columns)[j] # 0
        BY <1>1 DEF ordinals
    <2>2. Project(row, ordinals) = [j \in 1 .. Len(names) |-> Cell(table, row, names[j])]
        BY <1>2, <1>3, <2>1, ProjectByName DEF ordinals, names
    <2> QED BY <2>2 DEF row
<1>12. Expected(table, s)
        = [n \in 1 .. Len(asked) |-> [j \in 1 .. Len(names) |-> Cell(table, asked[n], names[j])]]
    BY DEF Expected, names, SelectedNames
<1> HIDE DEF found, asked, table
<1>13. /\ ExecuteSelect(catalog, b).status = "Ok"
       /\ ExecuteSelect(catalog, b).rows = Expected(table, s)
    BY <1>8, <1>9, <1>10, <1>11, <1>12
<1> QED BY <1>1, <1>13 DEF table, schema

(* What executing a bound statement in its database may answer.            *)
IsBoundFrom(b, catalog, s) ==
    /\ IsParsed(s) /\ s.kind = b.kind
    /\ s.kind = "Select" => BindSelect(catalog, s) = Accepted(b)

LEMMA FitsSucceeds ==
    ASSUME GoodCluster(cluster), NEW database \in DOMAIN cluster,
           NEW b, Fits(b, cluster[database]), NEW s, IsBoundFrom(b, cluster[database], s)
    PROVE  ExecuteStatement(database, b).status \in MayAnswer(b)
<1> DEFINE catalog == cluster[database]
<1>1. GoodCatalog(catalog)
    BY DEF GoodCluster
<1>2. CASE b.kind = "CreateTable"
    <2>1. /\ b.schema \in DOMAIN catalog /\ b.table # EmptyName /\ b.columns # << >>
        BY <1>2 DEF Fits, IsParsed
    <2>2. CreateTable(catalog, b.schema, b.table, b.columns).status
             \in {"Ok", "table already exists", "duplicate column name"}
        BY <2>1 DEF CreateTable
    <2> QED BY <1>2, <2>2 DEF ExecuteStatement, InDatabase, MayAnswer
<1>3. CASE b.kind = "CreateSchema"
    <2>1. b.schema # EmptyName
        BY <1>3 DEF Fits, IsParsed
    <2>2. CreateSchema(catalog, b.schema).status \in {"Ok", "schema already exists"}
        BY <2>1 DEF CreateSchema
    <2> QED BY <1>3, <2>2 DEF ExecuteStatement, InDatabase, MayAnswer
<1>4. CASE b.kind = "CreateDatabase"
    <2>1. b.database # EmptyName
        BY <1>4 DEF Fits, IsParsed
    <2>2. CreateDatabase(cluster, b.database).status \in {"Ok", "database already exists"}
        BY <2>1 DEF CreateDatabase
    <2> QED BY <1>4, <2>2 DEF ExecuteStatement, MayAnswer
<1>5. CASE b.kind = "Insert"
    <2>1. /\ TableExists(catalog, b.schema, b.table)
          /\ ValidateValues(b.values, catalog[b.schema][b.table].columns)
        BY <1>5 DEF Fits
    <2>2. Insert(catalog, b.schema, b.table, b.values).status = "Ok"
        BY <2>1 DEF Insert
    <2> QED BY <1>5, <2>1, <2>2 DEF ExecuteStatement, InDatabase, MayAnswer
<1>6. CASE b.kind = "Select"
    <2>1. ExecuteSelect(catalog, b).status = "Ok"
        BY <1>1, <1>6, SelectByName DEF IsBoundFrom
    <2> QED BY <1>6, <2>1 DEF ExecuteStatement, MayAnswer
<1> QED BY <1>2, <1>3, <1>4, <1>5, <1>6 DEF Fits

-----------------------------------------------------------------------------
(***************************************************************************)
(* The invariant: a good cluster, and sessions that are good in it.        *)
(***************************************************************************)
SessionsGood ==
    /\ DOMAIN current = Sessions /\ DOMAIN bound = Sessions
    /\ \A s \in Sessions : IsOpen(s) => current[s] \in DOMAIN cluster
    /\ \A s \in Sessions : bound[s] # NoStatement => IsOpen(s)
    /\ BoundFits /\ BoundAsWritten

LEMMA InvParts == Inv <=> GoodCluster(cluster) /\ SessionsGood
BY DEF Inv, TablesTyped, TablesWellFormed, SessionsConnected, SessionsGood,
       GoodCluster, GoodCatalog, GoodTable

LEMMA InvPartsNext == Inv' <=> GoodCluster(cluster') /\ SessionsGood'
BY DEF Inv, TablesTyped, TablesWellFormed, SessionsConnected, SessionsGood,
       GoodCluster, GoodCatalog, GoodTable

(* The binder answers with a statement of the same kind.                   *)
LEMMA BindStatementFrom ==
    ASSUME NEW database, NEW s, IsParsed(s), BindStatement(database, s).status = "Ok"
    PROVE  IsBoundFrom(BindStatement(database, s).bound, cluster[database], s)
<1> DEFINE b == BindStatement(database, s).bound
<1>1. CASE s.kind = "CreateTable"
    <2>1. b.kind = "CreateTable"
        BY <1>1 DEF BindStatement, BindCreateTable, Refused, Accepted, CreateTableStatement
    <2> QED BY <1>1, <2>1 DEF IsBoundFrom
<1>2. CASE s.kind = "CreateSchema"
    BY <1>2 DEF BindStatement, BindCreateSchema, Refused, Accepted, IsBoundFrom
<1>3. CASE s.kind = "CreateDatabase"
    BY <1>3 DEF BindStatement, BindCreateDatabase, Refused, Accepted, IsBoundFrom
<1>4. CASE s.kind = "Insert"
    <2>1. b.kind = "Insert"
        BY <1>4 DEF BindStatement, BindInsert, Refused, Accepted, InsertStatement
    <2> QED BY <1>4, <2>1 DEF IsBoundFrom
<1>5. CASE s.kind = "Select"
    <2>1. BindSelect(cluster[database], s) = Accepted(b)
        BY <1>5, BindSelectAccepts DEF BindStatement
    <2>2. b.kind = "Select"
        BY <1>5 DEF BindStatement, BindSelect, Refused, Accepted
    <2> QED BY <1>5, <2>1, <2>2 DEF IsBoundFrom
<1> QED BY <1>1, <1>2, <1>3, <1>4, <1>5 DEF IsParsed

(* A bound statement that nobody touches still fits, and so does a         *)
(* session: databases stay.                                                *)
LEMMA BoundStaysFit ==
    ASSUME Inv, GoodClusterStep(cluster, cluster'),
           NEW s \in Sessions, bound[s] # NoStatement
    PROVE  /\ bound[s].database \in DOMAIN cluster'
           /\ Fits(bound[s].statement, cluster'[bound[s].database])
           /\ IsBoundFrom(bound[s].statement, cluster'[bound[s].database], bound[s].parsed)
<1>1. /\ bound[s].database \in DOMAIN cluster
      /\ Fits(bound[s].statement, cluster[bound[s].database])
    BY DEF Inv, BoundFits
<1>2. /\ bound[s].database \in DOMAIN cluster'
      /\ Keeps(cluster[bound[s].database], cluster'[bound[s].database])
    BY <1>1 DEF GoodClusterStep, KeepsAll
<1>3. IsBoundFrom(bound[s].statement, cluster[bound[s].database], bound[s].parsed)
    BY DEF Inv, BoundAsWritten, IsBoundFrom
<1> QED BY <1>1, <1>2, <1>3, FitsKept, BindSelectKept DEF IsBoundFrom

LEMMA InitGood == Init => Inv
<1> SUFFICES ASSUME Init PROVE GoodCluster(cluster) /\ SessionsGood
    BY InvParts
<1>1. GoodCluster(cluster)
    BY NewClusterGood DEF Init
<1>2. SessionsGood
    BY DEF Init, SessionsGood, IsOpen, BoundFits, BoundAsWritten
<1> QED BY <1>1, <1>2

-----------------------------------------------------------------------------
(* One lemma per action.                                                   *)

LEMMA OpenSessionGood ==
    ASSUME Inv, NEW s \in Sessions, NEW name \in DatabaseNames, OpenSession(s, name)
    PROVE  Inv' /\ KeepsAll(cluster, cluster')
<1> USE DEF OpenSession
<1>1. GoodClusterStep(cluster, cluster')
    BY InvParts, KeepsAllReflexive
<1>2. InitialDatabase(name) \in DOMAIN cluster
    BY DEF InitialDatabase, Inv
<1>3. \A t \in Sessions : IsOpen(t)' => current'[t] \in DOMAIN cluster'
    BY <1>2 DEF Inv, SessionsConnected, IsOpen
<1>4. \A t \in Sessions : bound'[t] # NoStatement => IsOpen(t)'
    BY DEF Inv, SessionsConnected, IsOpen
<1>5. BoundFits' /\ BoundAsWritten'
    BY DEF Inv, BoundFits, BoundAsWritten
<1>6. SessionsGood'
    BY <1>3, <1>4, <1>5 DEF Inv, SessionsGood
<1> QED BY <1>1, <1>6, InvPartsNext DEF GoodClusterStep

LEMMA ConnectGood ==
    ASSUME Inv, NEW s \in Sessions, NEW name, name # Closed, Connect(s, name)
    PROVE  Inv' /\ KeepsAll(cluster, cluster')
<1> USE DEF Connect
<1>1. GoodClusterStep(cluster, cluster')
    BY InvParts, KeepsAllReflexive
<1>2. /\ DOMAIN current' = Sessions
      /\ current'[s] # Closed /\ current'[s] \in DOMAIN cluster
      /\ \A t \in Sessions : t # s => current'[t] = current[t]
    BY DEF Inv, SessionsConnected, IsOpen
<1>3. \A t \in Sessions : IsOpen(t)' => current'[t] \in DOMAIN cluster'
    BY <1>2 DEF Inv, SessionsConnected, IsOpen
<1>4. \A t \in Sessions : bound'[t] # NoStatement => IsOpen(t)'
    BY <1>2 DEF Inv, SessionsConnected, IsOpen
<1>5. BoundFits' /\ BoundAsWritten'
    BY DEF Inv, BoundFits, BoundAsWritten
<1>6. SessionsGood'
    BY <1>2, <1>3, <1>4, <1>5 DEF Inv, SessionsGood
<1> QED BY <1>1, <1>6, InvPartsNext DEF GoodClusterStep

LEMMA BindGood ==
    ASSUME Inv, NEW s \in Sessions, NEW statement, IsParsed(statement), Bind(s, statement)
    PROVE  Inv' /\ KeepsAll(cluster, cluster')
<1> DEFINE result == BindStatement(current[s], statement)
           kept   == IF result.status # "Ok" THEN NoStatement
                     ELSE [kind |-> "Bound", statement |-> result.bound,
                           database |-> current[s], parsed |-> statement]
<1>1. /\ UNCHANGED <<cluster, current>> /\ IsOpen(s)
      /\ bound' = [bound EXCEPT ![s] = kept]
    BY DEF Bind
<1>2. GoodCluster(cluster) /\ GoodClusterStep(cluster, cluster')
    BY <1>1, InvParts, KeepsAllReflexive
<1>3. current[s] \in DOMAIN cluster
    BY <1>1 DEF Inv, SessionsConnected
<1>4. kept # NoStatement =>
         /\ kept.database = current[s] /\ kept.parsed = statement
         /\ Fits(kept.statement, cluster[current[s]])
         /\ IsBoundFrom(kept.statement, cluster[current[s]], statement)
    <2>1. CASE result.status = "Ok"
        <3>1. Fits(result.bound, cluster[current[s]])
            BY <1>2, <1>3, <2>1, BindStatementFits DEF GoodCluster
        <3>2. IsBoundFrom(result.bound, cluster[current[s]], statement)
            BY <2>1, BindStatementFrom
        <3> QED BY <2>1, <3>1, <3>2
    <2> QED BY <2>1
<1> HIDE DEF kept, result
<1>5. /\ DOMAIN bound' = Sessions /\ bound'[s] = kept
      /\ \A t \in Sessions : t # s => bound'[t] = bound[t]
    BY <1>1 DEF Inv
<1>6. BoundFits' /\ BoundAsWritten'
    BY <1>1, <1>3, <1>4, <1>5 DEF Inv, BoundFits, BoundAsWritten, IsBoundFrom
<1>7. \A t \in Sessions : bound'[t] # NoStatement => IsOpen(t)'
    BY <1>1, <1>5 DEF Inv, SessionsConnected, IsOpen
<1>8. SessionsGood'
    BY <1>1, <1>5, <1>6, <1>7 DEF Inv, SessionsConnected, SessionsGood, IsOpen
<1> QED BY <1>2, <1>8, InvPartsNext DEF GoodClusterStep

(* A good step of the cluster that makes no session bind or connect.       *)
LEMMA ClusterStepGood ==
    ASSUME Inv, GoodClusterStep(cluster, cluster'), UNCHANGED current,
           DOMAIN bound' = Sessions,
           \A s \in Sessions : bound'[s] \in {bound[s], NoStatement}
    PROVE  Inv' /\ KeepsAll(cluster, cluster')
<1>1. DOMAIN cluster \subseteq DOMAIN cluster'
    BY DEF GoodClusterStep, KeepsAll
<1>2. BoundFits' /\ BoundAsWritten'
    <2> SUFFICES ASSUME NEW s \in Sessions, bound'[s] # NoStatement
                 PROVE  /\ bound'[s].database \in DOMAIN cluster'
                        /\ Fits(bound'[s].statement, cluster'[bound'[s].database])
                        /\ IsBoundFrom(bound'[s].statement, cluster'[bound'[s].database],
                                       bound'[s].parsed)
        BY DEF BoundFits, BoundAsWritten, IsBoundFrom
    <2>1. bound'[s] = bound[s] /\ bound[s] # NoStatement
        OBVIOUS
    <2> QED BY <2>1, BoundStaysFit
<1>3. SessionsGood'
    BY <1>1, <1>2 DEF Inv, SessionsConnected, SessionsGood, IsOpen
<1> QED BY <1>3, InvPartsNext DEF GoodClusterStep

LEMMA ExecuteGood ==
    ASSUME Inv, NEW s \in Sessions, Execute(s)
    PROVE  Inv' /\ KeepsAll(cluster, cluster')
<1>1. /\ bound[s] # NoStatement /\ UNCHANGED current
      /\ cluster' = ExecuteStatement(current[s], bound[s].statement).cluster
      /\ bound' = [bound EXCEPT ![s] = NoStatement]
    BY DEF Execute
<1>2. current[s] \in DOMAIN cluster
    BY <1>1 DEF Inv, SessionsConnected
<1>3. Fits(bound[s].statement, cluster[bound[s].database])
    BY <1>1 DEF Inv, BoundFits
<1>4. GoodClusterStep(cluster, cluster')
    BY <1>1, <1>2, <1>3, InvParts, ExecuteStatementGood
<1>5. /\ DOMAIN bound' = Sessions
      /\ \A t \in Sessions : bound'[t] \in {bound[t], NoStatement}
    BY <1>1 DEF Inv
<1> QED BY <1>1, <1>4, <1>5, ClusterStepGood

LEMMA BulkInsertGood ==
    ASSUME Inv, NEW s \in Sessions, NEW batch \in RowBatches, BulkInsert(s, batch)
    PROVE  Inv' /\ KeepsAll(cluster, cluster')
<1> DEFINE result == InsertBatch(cluster[current[s]], batch.schema, batch.table, batch.rows)
<1>1. /\ IsOpen(s) /\ UNCHANGED <<current, bound>>
      /\ cluster' = [cluster EXCEPT ![current[s]] = result.catalog]
    BY DEF BulkInsert
<1>2. GoodCluster(cluster) /\ current[s] \in DOMAIN cluster
    BY <1>1, InvParts DEF Inv, SessionsConnected
<1>3. GoodStep(cluster[current[s]], result.catalog)
    BY <1>2, InsertBatchGood, BatchesAssumption DEF GoodCluster
<1> HIDE DEF result
<1>4. GoodClusterStep(cluster, cluster')
    BY <1>1, <1>2, <1>3, DatabaseStepGood
<1> QED BY <1>1, <1>4, ClusterStepGood DEF Inv

LEMMA BulkInsertColumnsGood ==
    ASSUME Inv, NEW s \in Sessions, NEW batch \in ColumnarBatches, BulkInsertColumns(s, batch)
    PROVE  Inv' /\ KeepsAll(cluster, cluster')
<1> DEFINE result == InsertColumnarBatch(cluster[current[s]], batch.schema, batch.table, batch)
<1>1. /\ IsOpen(s) /\ UNCHANGED <<current, bound>>
      /\ cluster' = [cluster EXCEPT ![current[s]] = result.catalog]
    BY DEF BulkInsertColumns
<1>2. GoodCluster(cluster) /\ current[s] \in DOMAIN cluster
    BY <1>1, InvParts DEF Inv, SessionsConnected
<1>3. GoodStep(cluster[current[s]], result.catalog)
    BY <1>2, InsertColumnarBatchGood DEF GoodCluster
<1> HIDE DEF result
<1>4. GoodClusterStep(cluster, cluster')
    BY <1>1, <1>2, <1>3, DatabaseStepGood
<1> QED BY <1>1, <1>4, ClusterStepGood DEF Inv

LEMMA StepGood ==
    ASSUME Inv, [Next]_vars
    PROVE  Inv' /\ KeepsAll(cluster, cluster')
<1>1. CASE UNCHANGED vars
    <2>1. GoodClusterStep(cluster, cluster')
        BY <1>1, InvParts, KeepsAllReflexive DEF vars
    <2> QED BY <1>1, <2>1, ClusterStepGood DEF vars, Inv
<1>2. ASSUME NEW s \in Sessions, NEW name \in DatabaseNames,
             OpenSession(s, name) \/ Connect(s, name)
      PROVE  Inv' /\ KeepsAll(cluster, cluster')
    BY <1>2, OpenSessionGood, ConnectGood, ClosedAssumption
<1>3. ASSUME NEW s \in Sessions, NEW statement \in Statements, Bind(s, statement)
      PROVE  Inv' /\ KeepsAll(cluster, cluster')
    BY <1>3, BindGood, StatementsAssumption
<1>4. ASSUME NEW s \in Sessions, Execute(s)
      PROVE  Inv' /\ KeepsAll(cluster, cluster')
    BY <1>4, ExecuteGood
<1>5. ASSUME NEW s \in Sessions, NEW batch \in RowBatches, BulkInsert(s, batch)
      PROVE  Inv' /\ KeepsAll(cluster, cluster')
    BY <1>5, BulkInsertGood
<1>6. ASSUME NEW s \in Sessions, NEW batch \in ColumnarBatches, BulkInsertColumns(s, batch)
      PROVE  Inv' /\ KeepsAll(cluster, cluster')
    BY <1>6, BulkInsertColumnsGood
<1> QED BY <1>1, <1>2, <1>3, <1>4, <1>5, <1>6 DEF Next

LEMMA InvAnswersByName == Inv => SelectAnswersByName
<1> SUFFICES ASSUME Inv, NEW s \in Sessions, IsFresh(s), bound[s].parsed.kind = "Select"
             PROVE  LET parsed  == bound[s].parsed
                        catalog == cluster[current[s]]
                        schema  == ResolveSchemaName(parsed.schema)
                    IN  /\ TableExists(catalog, schema, parsed.table)
                        /\ ExecuteSelect(catalog, bound[s].statement).rows =
                              Expected(catalog[schema][parsed.table], parsed)
    BY DEF SelectAnswersByName, ResolveSchemaName
<1>1. /\ current[s] \in DOMAIN cluster /\ GoodCatalog(cluster[current[s]])
      /\ IsParsed(bound[s].parsed)
      /\ BindSelect(cluster[current[s]], bound[s].parsed) = Accepted(bound[s].statement)
    BY InvParts DEF Inv, BoundFits, BoundAsWritten, IsFresh, GoodCluster
<1> QED BY <1>1, SelectByName

-----------------------------------------------------------------------------
(* The inductive invariant.                                                *)
THEOREM SessionsInvariance == Spec => []Inv
<1>1. Init => Inv
    BY InitGood
<1>2. Inv /\ [Next]_vars => Inv'
    BY StepGood
<1> QED BY <1>1, <1>2, PTL DEF Spec

(* Tables have columns of different names and only rows that fit them, in  *)
(* whichever way a row came (schema_catalog.cpp:53-138).                   *)
THEOREM TablesStayWellFormed == Spec => []TablesWellFormed
<1>1. Inv => TablesWellFormed
    BY DEF Inv
<1> QED BY <1>1, SessionsInvariance, PTL

(* The current database of a session exists (session.cpp:29-37).           *)
THEOREM SessionsStayConnected == Spec => []SessionsConnected
<1>1. Inv => SessionsConnected
    BY DEF Inv
<1> QED BY <1>1, SessionsInvariance, PTL

(* A statement executed in the database it was bound in does what binding  *)
(* it promised, whatever happened in between (executor.cpp:12-154).        *)
THEOREM BoundStays == Spec => []BoundStaysExecutable
<1>1. Inv => BoundStaysExecutable
    <2> SUFFICES ASSUME Inv, NEW s \in Sessions, IsFresh(s)
                 PROVE  ExecuteStatement(current[s], bound[s].statement).status
                           \in MayAnswer(bound[s].statement)
        BY DEF BoundStaysExecutable
    <2>1. /\ current[s] \in DOMAIN cluster
          /\ Fits(bound[s].statement, cluster[current[s]])
          /\ IsBoundFrom(bound[s].statement, cluster[current[s]], bound[s].parsed)
        BY DEF Inv, BoundFits, BoundAsWritten, IsFresh, IsBoundFrom
    <2> QED BY <2>1, InvParts, FitsSucceeds
<1> QED BY <1>1, SessionsInvariance, PTL

(* A SELECT delivers the rows and the columns that its text names, in      *)
(* their order, although the bound statement only remembers ordinals and   *)
(* other sessions ran in between (binder.cpp:117-175, executor.cpp:80-154).*)
THEOREM SelectsAnswerByName == Spec => []SelectAnswersByName
BY InvAnswersByName, SessionsInvariance, PTL

(* No call takes a database, a schema, a table or a row away.              *)
THEOREM NothingIsForgotten == Spec => NothingForgotten
<1>1. Inv /\ [Next]_vars => [KeepsAll(cluster, cluster')]_vars
    BY StepGood
<1> QED BY <1>1, SessionsInvariance, PTL DEF Spec, NothingForgotten

=============================================================================
