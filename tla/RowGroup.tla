------------------------------ MODULE RowGroup ------------------------------
(***************************************************************************)
(* One row group: src/src/storage/row_group.{hpp,cpp}, with the validation *)
(* of rows (row.cpp) and of column batches (column_batch.cpp).             *)
(*                                                                         *)
(* A row group is one column buffer per column of the schema.  The code    *)
(* keeps no row counter: the number of rows is the size of the FIRST       *)
(* column, so a group only makes sense while every operation moves all its *)
(* columns together.  The operations are functions that return a status    *)
(* and the group as they leave it.                                         *)
(***************************************************************************)
EXTENDS ColumnBuffer

CONSTANTS
    Capacity,       \* kRowGroupCapacity
    Schema          \* the logical type of every column of the table

ASSUME CapacityAssumption == Capacity \in Nat \ {0}

(* CREATE TABLE has at least one column (frontend/parser.cpp).             *)
ASSUME SchemaAssumption == Schema \in Seq(LogicalTypes) /\ Schema # << >>

Columns == 1 .. Len(Schema)

(***************************************************************************)
(* A value declares a type and holds one alternative of a std::variant;    *)
(* nothing in struct Value makes the two agree, validate_values does.      *)
(***************************************************************************)
Values ==      [type : LogicalTypes, held : {"Int"}, data : IntValues]
          \cup [type : LogicalTypes, held : {"Text"}, data : Seq(Bytes)]

IntValue(n)  == [type |-> "Int", held |-> "Int", data |-> n]
TextValue(t) == [type |-> "Text", held |-> "Text", data |-> t]

ValidateValuesMutant(values) ==             \* the payload is not looked at
    /\ Len(values) = Len(Schema)
    /\ \A c \in Columns : values[c].type = Schema[c]
ValidateValues(values) ==
    /\ Len(values) = Len(Schema)
    /\ \A c \in Columns : /\ values[c].type = Schema[c]
                          /\ values[c].held = values[c].type

-----------------------------------------------------------------------------
(***************************************************************************)
(* A column batch is a number of rows and one view per column.  A view has *)
(* the shape of a buffer, but a TEXT view carries one offset more than it  *)
(* has rows: where its last text ends.                                     *)
(***************************************************************************)
ColumnViews   == ColumnBuffers
ColumnBatches == [row_count : Nat, columns : Seq(ColumnViews)]

TextOffsetsAreMonotonic(offsets) ==
    \A i \in 2 .. Len(offsets) : offsets[i] >= offsets[i - 1]

ValidateIntView(view, row_count) ==
    /\ view.type = "Int"
    /\ Len(view.values) >= row_count

ValidateTextView(view, row_count) ==
    /\ view.type = "Text"
    /\ Len(view.offsets) = row_count + 1
    /\ view.offsets[1] = 0
    /\ view.offsets[Len(view.offsets)] <= Len(view.bytes)
    /\ TextOffsetsAreMonotonic(view.offsets)

ValidateColumnBatch(batch) ==
    /\ Len(batch.columns) = Len(Schema)
    /\ \A c \in Columns :
          IF Schema[c] = "Int" THEN ValidateIntView(batch.columns[c], batch.row_count)
                               ELSE ValidateTextView(batch.columns[c], batch.row_count)

(* What a valid batch says its rows are: the i-th entry of every column.   *)
BatchCell(batch, i, c) ==
    LET view == batch.columns[c]
    IN  IF Schema[c] = "Int"
        THEN IntValue(view.values[i])
        ELSE TextValue(SubSeq(view.bytes, view.offsets[i] + 1, view.offsets[i + 1]))
BatchRow(batch, i) == [c \in Columns |-> BatchCell(batch, i, c)]
BatchRows(batch)   == [i \in 1 .. batch.row_count |-> BatchRow(batch, i)]

-----------------------------------------------------------------------------
RowGroups == {group \in [Columns -> ColumnBuffers] :
                 \A c \in Columns : group[c].type = Schema[c]}

NewRowGroup == [c \in Columns |-> MakeColumnBuffer(Schema[c])]

RowCount(group) == ColumnSize(group[1])

IsFullMutant(group) == RowCount(group) > Capacity
IsFull(group) == RowCount(group) >= Capacity

AppendValidatedRow(group, values) ==
    [c \in Columns |->
        IF values[c].type = "Int" THEN IntAppend(group[c], values[c].data)
                                  ELSE TextAppend(group[c], values[c].data)]

RowGroupAppendRow(group, values) ==
    IF IsFull(group) THEN [status |-> "RowGroupFull", group |-> group]
    ELSE IF ~ValidateValues(values) THEN [status |-> "RowRejected", group |-> group]
    ELSE [status |-> "Ok", group |-> AppendValidatedRow(group, values)]

AppendValidatedBatch(group, batch) ==
    [c \in Columns |->
        LET view == batch.columns[c]
        IN  IF view.type = "Int"
            THEN IntAppendSpan(group[c], SubSeq(view.values, 1, batch.row_count))
            ELSE TextAppendBatch(group[c], view.offsets, view.bytes, batch.row_count)]

RowGroupAppendColumnBatch(group, batch) ==
    IF IsFull(group) THEN [status |-> "RowGroupFull", group |-> group]
    ELSE IF ~ValidateColumnBatch(batch) THEN [status |-> "BatchRejected", group |-> group]
    ELSE IF batch.row_count > Capacity - RowCount(group)
         THEN [status |-> "BatchTooLarge", group |-> group]
    ELSE [status |-> "Ok", group |-> AppendValidatedBatch(group, batch)]

-----------------------------------------------------------------------------
ValueAt(group, row_index, c) ==
    IF Schema[c] = "Int" THEN IntValue(group[c].values[row_index])
                         ELSE TextValue(TextAt(group[c], row_index))

MaterializeRow(group, row_index) == [c \in Columns |-> ValueAt(group, row_index, c)]

-----------------------------------------------------------------------------
(* Vocabulary of the properties: all columns have the same number of rows; *)
(* the offsets can still address every byte of the blobs; every text ends  *)
(* behind its start and inside its blob.                                   *)
Aligned(group) == \A c \in Columns : ColumnSize(group[c]) = RowCount(group)

Addressable(group) ==
    \A c \in Columns : Schema[c] = "Text" => Len(group[c].bytes) < OffsetRange

TextOrdered(column) ==
    \A i \in 1 .. Len(column.offsets) :
        column.offsets[i] <= TextEnd(column, i) /\ TextEnd(column, i) <= Len(column.bytes)

GroupOrdered(group) == \A c \in Columns : Schema[c] = "Text" => TextOrdered(group[c])

=============================================================================
