---------------------------- MODULE TableStorage ----------------------------
(***************************************************************************)
(* The storage of one table: src/src/storage/table_storage.{hpp,cpp}.      *)
(*                                                                         *)
(* A table is a list of sealed row groups and one active row group.  Rows  *)
(* go into the active group; a full active group is moved to the sealed    *)
(* list, BEFORE the next row by append_row, and right AFTER the slice that *)
(* fills it by append_column_batch.                                        *)
(*                                                                         *)
(* The two calls that loop, append_rows and append_column_batch, take one  *)
(* step per iteration of their loop.  The program is single-threaded, so   *)
(* while such a call is pending nothing else happens.                      *)
(***************************************************************************)
EXTENDS RowGroup, SequencesExt

CONSTANTS
    CandidateRows,      \* rows passed to append_row, valid and invalid
    RowSpans,           \* spans of rows passed to append_rows
    CandidateBatches,   \* batches passed to append_column_batch
    Projections,        \* lists of column ordinals passed to scan_projected
    MaxRows             \* bound: no call starts that could grow the table further

ASSUME CandidateRowsAssumption    == CandidateRows \subseteq Seq(Values)
ASSUME RowSpansAssumption         == RowSpans \subseteq Seq(CandidateRows)
ASSUME CandidateBatchesAssumption == CandidateBatches \subseteq ColumnBatches
ASSUME ProjectionsAssumption      == Projections \subseteq Seq(Nat)
ASSUME MaxRowsAssumption          == MaxRows \in Nat

VARIABLES
    sealed_row_groups,
    active,
    pending,    \* the looping call that is in progress, if any
    status,     \* how the last call ended
    log         \* history: every row accepted so far, as its caller passed it

vars == <<sealed_row_groups, active, pending, status, log>>

NoCall == [call |-> "none"]
RowsCall(rows) == [call |-> "append_rows", rows |-> rows]
BatchCall(batch, start) ==
    [call |-> "append_column_batch", batch |-> batch, start |-> start]

-----------------------------------------------------------------------------
(***************************************************************************)
(* The private helpers, as functions of a record [sealed, active].         *)
(***************************************************************************)
Storage == [sealed |-> sealed_row_groups, active |-> active]

SealActiveIfFullMutant(storage) ==          \* the sealed list is replaced
    IF ~IsFull(storage.active) THEN storage
    ELSE [sealed |-> <<storage.active>>, active |-> NewRowGroup]
SealActiveIfFull(storage) ==
    IF ~IsFull(storage.active) THEN storage
    ELSE [sealed |-> Append(storage.sealed, storage.active), active |-> NewRowGroup]

AppendToActive(storage, values) ==
    LET room  == SealActiveIfFull(storage)
        write == RowGroupAppendRow(room.active, values)
    IN  [status |-> write.status, sealed |-> room.sealed, active |-> write.group]

(* The rows start+1 .. start+count of a batch, as a batch of their own:    *)
(* the offsets of a text column are rebased to the part of the blob that   *)
(* these rows use.                                                         *)
SliceViewMutant(view, start, count) ==      \* offsets copied, not rebased
    IF view.type = "Int"
    THEN [type |-> "Int", values |-> SubSeq(view.values, start + 1, start + count)]
    ELSE LET byte_base == view.offsets[start + 1]
         IN  [type    |-> "Text",
              offsets |-> [i \in 1 .. count + 1 |-> view.offsets[start + i]],
              bytes   |-> SubSeq(view.bytes, byte_base + 1, Len(view.bytes))]
SliceView(view, start, count) ==
    IF view.type = "Int"
    THEN [type |-> "Int", values |-> SubSeq(view.values, start + 1, start + count)]
    ELSE LET byte_base == view.offsets[start + 1]
         IN  [type    |-> "Text",
              offsets |-> [i \in 1 .. count + 1 |->
                             ToUint32(view.offsets[start + i] - byte_base)],
              bytes   |-> SubSeq(view.bytes, byte_base + 1,
                                 view.offsets[start + count + 1])]
MakeBatchSlice(batch, start, count) ==
    [row_count |-> count,
     columns   |-> [c \in Columns |-> SliceView(batch.columns[c], start, count)]]

(* One iteration of the loop of append_batch_to_active: the count of rows  *)
(* that fit, their slice, and what appending it leaves.                    *)
SliceCount(storage, batch, start) ==
    LET available == Capacity - RowCount(storage.active)
        rest      == batch.row_count - start
    IN  IF rest < available THEN rest ELSE available
AppendSlice(storage, batch, start) ==
    LET room  == SealActiveIfFull(storage)
        count == SliceCount(room, batch, start)
        write == RowGroupAppendColumnBatch(room.active, MakeBatchSlice(batch, start, count))
        after == SealActiveIfFull([sealed |-> room.sealed, active |-> write.group])
    IN  IF write.status # "Ok"
        THEN [status |-> write.status, count |-> 0,
              sealed |-> room.sealed, active |-> write.group]
        ELSE [status |-> "Ok", count |-> count,
              sealed |-> after.sealed, active |-> after.active]

-----------------------------------------------------------------------------
(***************************************************************************)
(* The calls.                                                              *)
(***************************************************************************)
Init ==
    /\ sealed_row_groups = << >>
    /\ active = NewRowGroup
    /\ pending = NoCall
    /\ status = "Ok"
    /\ log = << >>

AppendRow(values) ==
    /\ pending = NoCall
    /\ ValidateValues(values) => Len(log) < MaxRows
    /\ LET write == AppendToActive(Storage, values)
       IN  /\ sealed_row_groups' = write.sealed
           /\ active' = write.active
           /\ status' = write.status
           /\ log' = IF write.status = "Ok" THEN Append(log, values) ELSE log
    /\ UNCHANGED pending

BeginAppendRows(rows) ==
    /\ pending = NoCall
    /\ Len(log) + Len(rows) <= MaxRows
    /\ IF rows = << >> THEN pending' = NoCall /\ status' = "Ok"
                       ELSE pending' = RowsCall(rows) /\ status' = "Running"
    /\ UNCHANGED <<sealed_row_groups, active, log>>

(* One row of the span; the first row that fails ends the call.            *)
AppendRowsStep ==
    /\ pending.call = "append_rows"
    /\ LET row   == Head(pending.rows)
           rest  == Tail(pending.rows)
           write == AppendToActive(Storage, row)
       IN  /\ sealed_row_groups' = write.sealed
           /\ active' = write.active
           /\ IF write.status = "Ok" /\ rest # << >>
              THEN pending' = RowsCall(rest) /\ status' = "Running"
              ELSE pending' = NoCall /\ status' = write.status
           /\ log' = IF write.status = "Ok" THEN Append(log, row) ELSE log

BeginAppendColumnBatch(batch) ==
    /\ pending = NoCall
    /\ ValidateColumnBatch(batch) => Len(log) + batch.row_count <= MaxRows
    /\ IF ~ValidateColumnBatch(batch)
       THEN pending' = NoCall /\ status' = "BatchRejected"
       ELSE IF batch.row_count = 0
       THEN pending' = NoCall /\ status' = "Ok"
       ELSE pending' = BatchCall(batch, 0) /\ status' = "Running"
    /\ UNCHANGED <<sealed_row_groups, active, log>>

BatchDoneMutant(batch, start) == TRUE       \* one slice and return
BatchDone(batch, start) == start >= batch.row_count

(* One slice of the batch.                                                 *)
AppendColumnBatchStep ==
    /\ pending.call = "append_column_batch"
    /\ LET batch == pending.batch
           write == AppendSlice(Storage, batch, pending.start)
           start == pending.start + write.count
       IN  /\ sealed_row_groups' = write.sealed
           /\ active' = write.active
           /\ IF write.status = "Ok" /\ ~BatchDone(batch, start)
              THEN pending' = BatchCall(batch, start) /\ status' = "Running"
              ELSE pending' = NoCall /\ status' = write.status
           /\ log' = log \o [i \in 1 .. write.count |-> BatchRow(batch, pending.start + i)]

Next ==
    \/ \E values \in CandidateRows : AppendRow(values)
    \/ \E rows \in RowSpans : BeginAppendRows(rows)
    \/ AppendRowsStep
    \/ \E batch \in CandidateBatches : BeginAppendColumnBatch(batch)
    \/ AppendColumnBatchStep

Spec == Init /\ [][Next]_vars

(* A call that has begun keeps running: its thread executes the loop.      *)
FairSpec == Spec /\ WF_vars(AppendRowsStep) /\ WF_vars(AppendColumnBatchStep)

-----------------------------------------------------------------------------
(***************************************************************************)
(* Reading: for_each_row and scan_projected visit the sealed groups in     *)
(* order, then the active one.                                             *)
(***************************************************************************)
GroupsInOrder == Append(sealed_row_groups, active)

VisitsMutant ==                             \* the active group is visited first
    FlattenSeq([k \in 1 .. Len(sealed_row_groups) + 1 |->
        LET group == (<<active>> \o sealed_row_groups)[k]
        IN  [i \in 1 .. RowCount(group) |-> [group |-> group, row |-> i]]])
Visits ==
    FlattenSeq([k \in 1 .. Len(sealed_row_groups) + 1 |->
        LET group == GroupsInOrder[k]
        IN  [i \in 1 .. RowCount(group) |-> [group |-> group, row |-> i]]])

ForEachRow == [n \in 1 .. Len(Visits) |-> MaterializeRow(Visits[n].group, Visits[n].row)]

ScanProjectedMutant(ordinals) ==            \* reads the columns in schema order
    IF \E j \in 1 .. Len(ordinals) : ordinals[j] \notin Columns
    THEN [status |-> "OrdinalOutOfRange", rows |-> << >>]
    ELSE [status |-> "Ok",
          rows |-> [n \in 1 .. Len(Visits) |->
                      [j \in 1 .. Len(ordinals) |->
                         ValueAt(Visits[n].group, Visits[n].row, j)]]]
ScanProjected(ordinals) ==
    IF \E j \in 1 .. Len(ordinals) : ordinals[j] \notin Columns
    THEN [status |-> "OrdinalOutOfRange", rows |-> << >>]
    ELSE [status |-> "Ok",
          rows |-> [n \in 1 .. Len(Visits) |->
                      [j \in 1 .. Len(ordinals) |->
                         ValueAt(Visits[n].group, Visits[n].row, ordinals[j])]]]

TableRowCount ==
    RowCount(active)
    + SumFunction([k \in 1 .. Len(sealed_row_groups) |-> RowCount(sealed_row_groups[k])])

-----------------------------------------------------------------------------
(***************************************************************************)
(* Properties.                                                             *)
(***************************************************************************)
Statuses == {"Ok", "Running", "RowRejected", "BatchRejected", "RowGroupFull", "BatchTooLarge"}

PendingCalls ==
         {NoCall}
    \cup [call : {"append_rows"}, rows : Seq(CandidateRows)]
    \cup [call : {"append_column_batch"}, batch : CandidateBatches, start : Nat]

(* Every group keeps the column kinds of the schema, every stored offset   *)
(* fits its type, and a pending call has not answered yet and has          *)
(* something left to do.                                                   *)
TypeOK ==
    /\ sealed_row_groups \in Seq(RowGroups)
    /\ active \in RowGroups
    /\ pending \in PendingCalls
    /\ pending.call = "append_rows" => pending.rows # << >>
    /\ pending.call = "append_column_batch" =>
          /\ ValidateColumnBatch(pending.batch)
          /\ pending.start < pending.batch.row_count
    /\ status \in Statuses
    /\ status = "Running" <=> pending # NoCall
    /\ log \in Seq({row \in Seq(Values) : ValidateValues(row)})

(* All columns of a group have the same number of rows, sealed groups are  *)
(* exactly full and the active one never overflows, whatever mixture of    *)
(* rows and batches filled them: the row count is only ever read off the   *)
(* first column (row_group.cpp:24-30).                                     *)
GroupsWellFormed ==
    /\ \A k \in 1 .. Len(sealed_row_groups) :
          /\ Aligned(sealed_row_groups[k])
          /\ RowCount(sealed_row_groups[k]) = Capacity
    /\ Aligned(active)
    /\ RowCount(active) <= Capacity

(* Row i of a group is the row that its caller passed, i places after the  *)
(* group's first row in the order of acceptance: no row is lost, repeated, *)
(* moved or garbled when groups fill up, batches are cut at a group's end  *)
(* and text offsets are rebased (table_storage.cpp:12-101).  It is claimed *)
(* of the groups whose blobs the 32-bit offsets can address.               *)
GroupHolds(group, base) ==
    /\ base + RowCount(group) <= Len(log)
    /\ Addressable(group) =>
          \A i \in 1 .. RowCount(group) : MaterializeRow(group, i) = log[base + i]
FirstRow(k) == Capacity * (k - 1)
GroupsHoldLog ==
    /\ \A k \in 1 .. Len(sealed_row_groups) : GroupHolds(sealed_row_groups[k], FirstRow(k))
    /\ GroupHolds(active, FirstRow(Len(sealed_row_groups) + 1))
    /\ Len(log) = FirstRow(Len(sealed_row_groups) + 1) + RowCount(active)

(* for_each_row delivers exactly the accepted rows in the order of         *)
(* acceptance, and row_count agrees with it.                               *)
AllAddressable ==
    \A k \in 1 .. Len(sealed_row_groups) + 1 : Addressable(GroupsInOrder[k])
ScanYieldsLog ==
    /\ TableRowCount = Len(log)
    /\ AllAddressable => ForEachRow = log

(* scan_projected delivers, for any list of ordinals (reordered, repeated  *)
(* or empty), the same cells, and refuses the list as a whole when one     *)
(* ordinal is not a column.                                                *)
ProjectedScanYieldsLog ==
    AllAddressable =>
        \A ordinals \in Projections :
            ScanProjected(ordinals) =
                IF ToSet(ordinals) \subseteq Columns
                THEN [status |-> "Ok",
                      rows |-> [n \in 1 .. Len(log) |->
                                  [j \in 1 .. Len(ordinals) |-> log[n][ordinals[j]]]]]
                ELSE [status |-> "OrdinalOutOfRange", rows |-> << >>]

(* append_column_batch validates a batch once, up front, and then appends  *)
(* it slice by slice; it has no way back if a slice fails.  So no slice of *)
(* a valid batch may be empty, be refused by the row group, or break an    *)
(* assertion of TextColumnBuffer::append_batch (column_buffer.cpp:44-46),  *)
(* and an offset of a slice ends exactly at the end of its bytes.          *)
SliceAccepted ==
    pending.call = "append_column_batch" =>
        LET room  == SealActiveIfFull(Storage)
            count == SliceCount(room, pending.batch, pending.start)
            slice == MakeBatchSlice(pending.batch, pending.start, count)
        IN  /\ RowGroupAppendColumnBatch(room.active, slice).status = "Ok"
            /\ count > 0
            /\ \A c \in Columns : Schema[c] = "Text" =>
                  LET view == slice.columns[c]
                  IN  /\ AppendBatchAsserts(view.offsets, view.bytes, count)
                      /\ view.offsets[count + 1] = Len(view.bytes)

(* Text reads stay inside the blob, also after the offsets have wrapped:   *)
(* the string_view built by TextColumnBuffer::at (column_buffer.cpp:58-64) *)
(* is not checked by anything.                                             *)
ReadsInBounds ==
    \A k \in 1 .. Len(sealed_row_groups) + 1 : \A c \in Columns :
        LET column == GroupsInOrder[k][c]
        IN  Schema[c] = "Text" =>
              \A i \in 1 .. Len(column.offsets) :
                  column.offsets[i] + ToUint32(TextEnd(column, i) - column.offsets[i])
                      <= Len(column.bytes)

(* A sealed row group is immutable and stays where it is: a step may only  *)
(* add groups at the end.                                                  *)
SealedGroupsImmutable == [][IsPrefix(sealed_row_groups, sealed_row_groups')]_vars

(* The inductive invariant: with the above, the texts of an addressable    *)
(* group are ordered, and the rows of a pending batch are the last ones of *)
(* the log.                                                                *)
GroupsOrdered ==
    \A k \in 1 .. Len(sealed_row_groups) + 1 :
        Addressable(GroupsInOrder[k]) => GroupOrdered(GroupsInOrder[k])
PendingBatchLogged ==
    pending.call = "append_column_batch" =>
        /\ pending.start <= Len(log)
        /\ \A i \in 1 .. pending.start :
              log[Len(log) - pending.start + i] = BatchRow(pending.batch, i)
Inv == TypeOK /\ GroupsWellFormed /\ GroupsHoldLog /\ GroupsOrdered /\ PendingBatchLogged

(* TableStorage implements AppendOnlyTable: a table answers Ok exactly     *)
(* when it holds what it was given, a batch appears in one piece although  *)
(* it is written slice by slice (nobody can look before the call returns), *)
(* and the errors of a row group never reach a caller                      *)
(* (table_storage.cpp:72-122).                                             *)
PendingBatchRows == IF pending.call = "append_column_batch" THEN pending.start ELSE 0
VisibleRows == SubSeq(log, 1, Len(log) - PendingBatchRows)
VisibleCall ==
    IF pending.call = "append_column_batch"
    THEN [call |-> "append_column_batch", batch |-> pending.batch] ELSE pending
Abstract ==
    INSTANCE AppendOnlyTable WITH rows <- VisibleRows, call <- VisibleCall, result <- status
ImplementsAppendOnlyTable == Abstract!AbstractSpec

(* Every call returns: each iteration of a loop makes progress, also when  *)
(* it starts with a full active group.                                     *)
CallsReturn == pending # NoCall ~> pending = NoCall

=============================================================================
