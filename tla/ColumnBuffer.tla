---------------------------- MODULE ColumnBuffer ----------------------------
(***************************************************************************)
(* The column buffers of src/src/storage/column_buffer.{hpp,cpp}.          *)
(*                                                                         *)
(* An INT column is a vector of integers.  A TEXT column is one blob of    *)
(* bytes and, per row, the offset where the row's text starts; a text ends *)
(* where the next one starts, the last one at the end of the blob.  The    *)
(* offsets are std::uint32_t while the blob grows without a limit, so      *)
(* every offset is stored, and every length computed, modulo OffsetRange   *)
(* (2^32 in the program).                                                  *)
(*                                                                         *)
(* Indices are 1-based here and 0-based in the program; offsets are        *)
(* positions in the blob and stay 0-based.                                 *)
(***************************************************************************)
EXTENDS Integers, Sequences

CONSTANTS
    IntValues,      \* the integers a column can hold
    Bytes,          \* the bytes of a text
    OffsetRange     \* number of values of the type of an offset

ASSUME OffsetRangeAssumption == OffsetRange \in Nat \ {0}

LogicalTypes == {"Int", "Text"}

Offsets == 0 .. OffsetRange - 1

(* The std::variant ColumnBuffer: "type" tells which alternative it holds. *)
IntColumnBuffers  == [type : {"Int"}, values : Seq(IntValues)]
TextColumnBuffers == [type : {"Text"}, offsets : Seq(Offsets), bytes : Seq(Bytes)]
ColumnBuffers     == IntColumnBuffers \cup TextColumnBuffers

MakeColumnBuffer(type) ==
    IF type = "Int" THEN [type |-> "Int", values |-> << >>]
                    ELSE [type |-> "Text", offsets |-> << >>, bytes |-> << >>]

-----------------------------------------------------------------------------
IntAppend(column, value) ==
    [type |-> "Int", values |-> Append(column.values, value)]

IntAppendSpan(column, values) ==
    [type |-> "Int", values |-> column.values \o values]

-----------------------------------------------------------------------------
(* Arithmetic on std::uint32_t.                                            *)
ToUint32(n) == n % OffsetRange

TextAppendMutant(column, value) ==          \* an empty text leaves no row behind
    [type    |-> "Text",
     offsets |-> IF value = << >> THEN column.offsets
                 ELSE Append(column.offsets, ToUint32(Len(column.bytes))),
     bytes   |-> column.bytes \o value]
TextAppendSwappedMutant(column, value) ==   \* the offset is taken after the bytes
    [type    |-> "Text",
     offsets |-> Append(column.offsets, ToUint32(Len(column.bytes \o value))),
     bytes   |-> column.bytes \o value]
TextAppend(column, value) ==
    [type    |-> "Text",
     offsets |-> Append(column.offsets, ToUint32(Len(column.bytes))),
     bytes   |-> column.bytes \o value]

(* Appends row_count texts at once: the blob is appended whole, and the    *)
(* first row_count offsets of the caller are moved behind the old blob.    *)
TextAppendBatchMutant(column, offsets, bytes, row_count) ==   \* moved behind the new blob
    [type    |-> "Text",
     offsets |-> column.offsets
                 \o [i \in 1 .. row_count |->
                       ToUint32(Len(column.bytes \o bytes) + offsets[i])],
     bytes   |-> column.bytes \o bytes]
TextAppendBatch(column, offsets, bytes, row_count) ==
    [type    |-> "Text",
     offsets |-> column.offsets
                 \o [i \in 1 .. row_count |-> ToUint32(Len(column.bytes) + offsets[i])],
     bytes   |-> column.bytes \o bytes]

(* The assertions at the head of TextColumnBuffer::append_batch.           *)
AppendBatchAsserts(offsets, bytes, row_count) ==
    /\ row_count > 0
    /\ Len(offsets) = row_count + 1
    /\ offsets[Len(offsets)] <= Len(bytes)

-----------------------------------------------------------------------------
(* Where the text of a row ends: where the next one starts, or at the end  *)
(* of the blob.                                                            *)
TextEndMutant(column, index) ==             \* the last two texts end with the blob
    IF index + 1 < Len(column.offsets) THEN column.offsets[index + 1]
                                       ELSE ToUint32(Len(column.bytes))
TextEnd(column, index) ==
    IF index < Len(column.offsets) THEN column.offsets[index + 1]
                                   ELSE ToUint32(Len(column.bytes))

TextAt(column, index) ==
    LET start  == column.offsets[index]
        length == ToUint32(TextEnd(column, index) - start)
    IN  SubSeq(column.bytes, start + 1, start + length)

ColumnSize(column) ==
    IF column.type = "Int" THEN Len(column.values) ELSE Len(column.offsets)

=============================================================================
