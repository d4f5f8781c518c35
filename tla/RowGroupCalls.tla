--------------------------- MODULE RowGroupCalls ---------------------------
(***************************************************************************)
(* One row group used on its own, through the public functions of          *)
(* src/src/storage/row_group.{hpp,cpp}: append_row, append_rows and        *)
(* append_column_batch.  TableStorage only ever hands it non-empty slices  *)
(* without slack; a direct caller may pass any batch that                  *)
(* validate_column_batch accepts, also one of no rows, or one whose bytes  *)
(* go on behind the last text.                                             *)
(***************************************************************************)
EXTENDS RowGroup, SequencesExt

CONSTANTS
    CandidateRows,      \* rows passed to append_row, valid and invalid
    RowSpans,           \* spans of rows passed to append_rows
    CandidateBatches,   \* batches passed to append_column_batch
    NDEBUG,             \* TRUE: a build without assertions
    MaxSlack            \* bound: an empty batch is only passed to a group this small

ASSUME CallsAssumption ==
    /\ CandidateRows \subseteq Seq(Values)
    /\ RowSpans \subseteq Seq(CandidateRows)
    /\ CandidateBatches \subseteq ColumnBatches
    /\ NDEBUG \in BOOLEAN
    /\ MaxSlack \in Nat

VARIABLES
    group,
    status,     \* how the last call ended
    log         \* history: the rows the callers were promised

vars == <<group, status, log>>

(* append_rows stops at the first row that append_row refuses and keeps    *)
(* the rows before it.                                                     *)
RowGroupAppendRowsMutant(grp, rows) ==      \* goes on after a refused row
    LET after[n \in 0 .. Len(rows)] ==
            IF n = 0 THEN [status |-> "Ok", group |-> grp]
            ELSE RowGroupAppendRow(after[n - 1].group, rows[n])
    IN  after[Len(rows)]
RowGroupAppendRows(grp, rows) ==
    LET after[n \in 0 .. Len(rows)] ==
            IF n = 0 THEN [status |-> "Ok", group |-> grp]
            ELSE IF after[n - 1].status # "Ok" THEN after[n - 1]
            ELSE RowGroupAppendRow(after[n - 1].group, rows[n])
    IN  after[Len(rows)]

(* Does an assertion of TextColumnBuffer::append_batch stop a debug build? *)
Asserts(batch) ==
    /\ ~NDEBUG
    /\ \E c \in Columns :
          /\ Schema[c] = "Text"
          /\ ~AppendBatchAsserts(batch.columns[c].offsets, batch.columns[c].bytes,
                                 batch.row_count)

-----------------------------------------------------------------------------
(* What the callers are promised, in terms of the log alone.               *)
FreeRows == Capacity - Len(log)

AcceptedRows(rows) ==
    CHOOSE n \in 0 .. Len(rows) :
        /\ n <= FreeRows /\ \A i \in 1 .. n : ValidateValues(rows[i])
        /\ n = Len(rows) \/ n = FreeRows \/ ~ValidateValues(rows[n + 1])

AcceptsBatch(batch) ==
    FreeRows > 0 /\ ValidateColumnBatch(batch) /\ batch.row_count <= FreeRows

-----------------------------------------------------------------------------
Init == group = NewRowGroup /\ status = "Ok" /\ log = << >>

Alive == status # "Aborted"

AppendRows(rows) ==
    /\ Alive
    /\ LET write == RowGroupAppendRows(group, rows)
       IN  group' = write.group /\ status' = write.status
    /\ log' = log \o SubSeq(rows, 1, AcceptedRows(rows))

AppendRow(values) ==
    /\ Alive
    /\ LET write == RowGroupAppendRow(group, values)
       IN  group' = write.group /\ status' = write.status
    /\ log' = IF FreeRows > 0 /\ ValidateValues(values) THEN Append(log, values) ELSE log

(* An empty batch never fills the group: only the bound stops its bytes.   *)
WithinBound(batch) ==
    batch.row_count = 0 =>
        \A c \in Columns : Schema[c] = "Text" => Len(group[c].bytes) <= MaxSlack

AppendColumnBatch(batch) ==
    /\ Alive
    /\ WithinBound(batch)
    /\ LET write == RowGroupAppendColumnBatch(group, batch)
       IN  IF write.status = "Ok" /\ Asserts(batch)
           THEN status' = "Aborted" /\ UNCHANGED <<group, log>>
           ELSE /\ group' = write.group /\ status' = write.status
                /\ log' = IF AcceptsBatch(batch) THEN log \o BatchRows(batch) ELSE log

Next ==
    \/ \E values \in CandidateRows : AppendRow(values)
    \/ \E rows \in RowSpans : AppendRows(rows)
    \/ \E batch \in CandidateBatches : AppendColumnBatch(batch)

Spec == Init /\ [][Next]_vars

-----------------------------------------------------------------------------
(* Every group keeps the column kinds of the schema, and all columns have  *)
(* as many rows as the callers were promised.                              *)
TypeOK ==
    /\ group \in RowGroups
    /\ status \in {"Ok", "RowGroupFull", "RowRejected", "BatchRejected", "BatchTooLarge",
                   "Aborted"}
    /\ Len(log) <= Capacity
    /\ \A c \in Columns : ColumnSize(group[c]) = Len(log)

(* Each accepted row is read back as it was passed, whichever call brought *)
(* it and whatever was refused in between (row_group.cpp:48-139): a        *)
(* refused row or batch leaves no trace, a span leaves exactly the rows    *)
(* before its first bad one.                                               *)
RowsReadBack ==
    Addressable(group) => \A i \in 1 .. Len(log) : MaterializeRow(group, i) = log[i]

(* No call changes the rows before the last one, although a text ends      *)
(* where the next row's text begins (column_buffer.cpp:58-64): only the    *)
(* text that is still open at the end of the blob can become longer.       *)
InnerRowsStable ==
    [][Addressable(group)' =>
          \A i \in 1 .. RowCount(group) - 1 :
              MaterializeRow(group, i)' = MaterializeRow(group, i)]_vars

(* Bytes that a batch holds behind its last text are appended too and are  *)
(* read as part of a row's text (column_buffer.cpp:51, 58-64).  They do no *)
(* other damage: integers are exact, and a text only gains bytes at its    *)
(* end, however many such batches, empty or not, follow each other.        *)
CellsExtendLog ==
    Addressable(group) =>
        \A i \in 1 .. Len(log) : \A c \in Columns :
            LET cell == ValueAt(group, i, c)
            IN  /\ cell.type = log[i][c].type
                /\ IF Schema[c] = "Int" THEN cell.data = log[i][c].data
                                        ELSE IsPrefix(log[i][c].data, cell.data)

(* The text that was appended is the text that is read, for any amount of  *)
(* text: what row_group_test.cpp:46-55 expects of the offsets and bytes.   *)
TextReadsBack == \A i \in 1 .. Len(log) : MaterializeRow(group, i) = log[i]

=============================================================================
