-------------------------- MODULE AppendOnlyTable ---------------------------
(***************************************************************************)
(* What TableStorage promises its callers: a table is a sequence of rows   *)
(* that only grows, and that answers Ok exactly when it has stored what it *)
(* was given.  A row is added or rejected; a span of rows is added one row *)
(* at a time up to its first bad row; a column batch appears in one piece  *)
(* or not at all.  Row groups, sealing, capacities and encodings are       *)
(* invisible, and so are the failures of a row group: no caller ever sees  *)
(* "row group full" or "batch does not fit".                               *)
(***************************************************************************)
EXTENDS RowGroup

CONSTANTS
    CandidateRows,      \* the rows the callers append, valid or not
    RowSpans,           \* the spans of rows they append
    CandidateBatches    \* the column batches they append

VARIABLES
    rows,       \* the rows of the table
    call,       \* what a call in progress still has to append
    result      \* Running, or how the last call ended

abstractVars == <<rows, call, result>>

Idle == call.call = "none"
Return(answer) == call' = [call |-> "none"] /\ result' = answer
Continue(work) == call' = work /\ result' = "Running"

AbstractInit == rows = << >> /\ call = [call |-> "none"] /\ result = "Ok"

PutRow(row) ==
    /\ Idle
    /\ IF ValidateValues(row) THEN rows' = Append(rows, row) /\ Return("Ok")
                              ELSE rows' = rows /\ Return("RowRejected")

StartRows(span) ==
    /\ Idle
    /\ IF span = << >> THEN Return("Ok")
                       ELSE Continue([call |-> "append_rows", rows |-> span])
    /\ UNCHANGED rows

PutNextRow ==
    /\ call.call = "append_rows"
    /\ LET row  == Head(call.rows)
           rest == Tail(call.rows)
       IN  IF ~ValidateValues(row) THEN rows' = rows /\ Return("RowRejected")
           ELSE /\ rows' = Append(rows, row)
                /\ IF rest = << >> THEN Return("Ok")
                                   ELSE Continue([call |-> "append_rows", rows |-> rest])

StartBatch(batch) ==
    /\ Idle
    /\ IF ~ValidateColumnBatch(batch) THEN Return("BatchRejected")
       ELSE IF batch.row_count = 0 THEN Return("Ok")
       ELSE Continue([call |-> "append_column_batch", batch |-> batch])
    /\ UNCHANGED rows

PutBatch ==
    /\ call.call = "append_column_batch"
    /\ rows' = rows \o BatchRows(call.batch)
    /\ Return("Ok")

AbstractNext ==
    \/ \E row \in CandidateRows : PutRow(row)
    \/ \E span \in RowSpans : StartRows(span)
    \/ PutNextRow
    \/ \E batch \in CandidateBatches : StartBatch(batch)
    \/ PutBatch

AbstractSpec == AbstractInit /\ [][AbstractNext]_abstractVars

=============================================================================
