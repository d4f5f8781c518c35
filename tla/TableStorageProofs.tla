------------------------- MODULE TableStorageProofs -------------------------
(***************************************************************************)
(* Proofs about TableStorage, for every schema, capacity, width of an      *)
(* offset, set of inputs and bound.                                        *)
(***************************************************************************)
EXTENDS TableStorage, RowGroupProofs, FiniteSetTheorems

-----------------------------------------------------------------------------
(***************************************************************************)
(* make_batch_slice: any non-empty slice of a valid batch is a valid batch *)
(* without slack bytes, whose rows are those rows of the batch.  This is   *)
(* what lets append_batch_to_active go on without a way back.              *)
(***************************************************************************)
LEMMA SliceExact ==
    ASSUME NEW batch \in ColumnBatches, ValidateColumnBatch(batch),
           NEW start \in Nat, NEW count \in Nat, count > 0, start + count <= batch.row_count
    PROVE  LET slice == MakeBatchSlice(batch, start, count)
           IN  /\ slice \in ColumnBatches
               /\ slice.row_count = count
               /\ ExactBatch(slice)
               /\ \A j \in 1 .. count : BatchRow(slice, j) = BatchRow(batch, start + j)
<1> DEFINE slice == MakeBatchSlice(batch, start, count)
           rows  == batch.row_count
<1>1. rows \in Nat /\ Len(Schema) \in Nat
    BY FirstColumn DEF ColumnBatches
<1>2. slice = [row_count |-> count,
               columns   |-> [c \in 1 .. Len(Schema) |-> SliceView(batch.columns[c], start, count)]]
    BY DEF MakeBatchSlice, Columns
<1> HIDE DEF slice
<1>3. /\ slice.row_count = count
      /\ DOMAIN slice.columns = 1 .. Len(Schema)
      /\ \A c \in Columns : slice.columns[c] = SliceView(batch.columns[c], start, count)
    BY <1>2 DEF Columns
<1>4. ASSUME NEW c \in Columns
      PROVE  /\ slice.columns[c] \in ColumnBuffers
             /\ Schema[c] = "Int" => ValidateIntView(slice.columns[c], count)
             /\ Schema[c] = "Text" =>
                   /\ ValidateTextView(slice.columns[c], count)
                   /\ slice.columns[c].offsets[count + 1] = Len(slice.columns[c].bytes)
             /\ \A j \in 1 .. count : BatchCell(slice, j, c) = BatchCell(batch, start + j, c)
    <2> DEFINE view == batch.columns[c]
    <2>1. CASE Schema[c] = "Int"
        <3> DEFINE values == view.values
                   part   == SubSeq(values, start + 1, start + count)
        <3>1. view.type = "Int" /\ values \in Seq(IntValues) /\ rows <= Len(values) /\ Len(values) \in Nat
            BY <2>1, ValidView
        <3>2. slice.columns[c] = [type |-> "Int", values |-> part]
            BY <1>3, <3>1 DEF SliceView
        <3>3. \A j \in 1 .. count :
                 BatchCell(slice, j, c) = IntValue(slice.columns[c].values[j])
                 /\ BatchCell(batch, start + j, c) = IntValue(values[start + j])
            BY <2>1 DEF BatchCell
        <3> HIDE DEF values, rows
        <3>4. \A k \in start + 1 .. start + count : values[k] \in IntValues
            BY <1>1, <3>1, ElementOfSeq DEF rows
        <3>5. /\ part \in Seq(IntValues) /\ Len(part) = count
              /\ \A j \in 1 .. count : part[j] = values[start + j]
            BY <3>4, SubSeqProperties
        <3> HIDE DEF part
        <3>6. slice.columns[c] \in IntColumnBuffers
            BY <3>2, <3>5 DEF IntColumnBuffers
        <3>7. ValidateIntView(slice.columns[c], count)
            BY <3>2, <3>5 DEF ValidateIntView
        <3>8. QED BY <2>1, <3>2, <3>3, <3>5, <3>6, <3>7 DEF ColumnBuffers
    <2>2. CASE Schema[c] = "Text"
        <3> DEFINE offsets == view.offsets
                   bytes   == view.bytes
                   base    == offsets[start + 1]
                   end     == offsets[start + count + 1]
                   rebased == [i \in 1 .. count + 1 |-> ToUint32(offsets[start + i] - base)]
                   part    == SubSeq(bytes, base + 1, end)
        <3>1. /\ view.type = "Text"
              /\ offsets \in Seq(Offsets) /\ bytes \in Seq(Bytes)
              /\ Len(offsets) = rows + 1 /\ TextOffsetsAreMonotonic(offsets)
              /\ offsets[rows + 1] <= Len(bytes) /\ Len(bytes) \in Nat
            BY <2>2, ValidView, LenProperties
        <3>2. slice.columns[c] = [type |-> "Text", offsets |-> rebased, bytes |-> part]
            BY <1>3, <3>1 DEF SliceView
        <3>3. \A j \in 1 .. count :
                 /\ BatchCell(slice, j, c)
                      = TextValue(SubSeq(slice.columns[c].bytes, slice.columns[c].offsets[j] + 1,
                                         slice.columns[c].offsets[j + 1]))
                 /\ BatchCell(batch, start + j, c)
                      = TextValue(SubSeq(bytes, offsets[start + j] + 1, offsets[start + j + 1]))
            BY <2>2 DEF BatchCell
        <3>4. \A k \in 1 .. rows + 1 : offsets[k] \in Offsets /\ offsets[k] \in Nat
            BY <3>1, ElementOfSeq, OffsetRangeAssumption DEF Offsets
        <3>5. \A k \in 1 .. rows + 1 : \A m \in k .. rows + 1 : offsets[k] <= offsets[m]
            BY <3>1, MonotonicOffsets
        <3> HIDE DEF offsets, bytes, rows, view
        <3>6. start + count <= rows
            BY DEF rows
        <3>7. ASSUME NEW i \in 1 .. count + 1
              PROVE  /\ base \in Nat /\ end \in Nat /\ end <= Len(bytes)
                     /\ offsets[start + i] \in Nat
                     /\ base <= offsets[start + i] /\ offsets[start + i] <= end
                     /\ ToUint32(offsets[start + i] - base) = offsets[start + i] - base
                     /\ offsets[start + i] - base \in Offsets
            <4>1. /\ start + 1 \in 1 .. rows + 1 /\ start + i \in start + 1 .. rows + 1
                  /\ start + i \in 1 .. rows + 1
                  /\ start + count + 1 \in start + i .. rows + 1
                  /\ start + count + 1 \in 1 .. rows + 1
                  /\ rows + 1 \in start + count + 1 .. rows + 1 /\ rows + 1 \in 1 .. rows + 1
                BY <1>1, <3>6
            <4>2. /\ base \in Nat /\ end \in Nat /\ offsets[start + i] \in Nat
                  /\ base \in Offsets /\ offsets[start + i] \in Offsets /\ offsets[rows + 1] \in Nat
                BY <3>4, <4>1
            <4>3. /\ base <= offsets[start + i] /\ offsets[start + i] <= end
                  /\ end <= offsets[rows + 1]
                BY <3>5, <4>1
            <4> HIDE DEF base, end
            <4>4. offsets[start + i] - base \in Offsets
                BY <4>2, <4>3, OffsetRangeAssumption DEF Offsets
            <4>5. ToUint32(offsets[start + i] - base) = offsets[start + i] - base
                BY <4>4, ToUint32Identity
            <4>6. QED BY <3>1, <4>2, <4>3, <4>4, <4>5
        <3>8. /\ base \in Nat /\ end \in Nat /\ base <= end /\ end <= Len(bytes)
            <4>1. 1 \in 1 .. count + 1 /\ start + (count + 1) = start + count + 1
                OBVIOUS
            <4>2. QED BY <3>7, <4>1
        <3>9. /\ rebased \in Seq(Offsets) /\ Len(rebased) = count + 1
              /\ \A i \in 1 .. count + 1 : rebased[i] = offsets[start + i] - base
            <4> HIDE DEF base, end
            <4>1. \A i \in 1 .. count + 1 :
                     /\ ToUint32(offsets[start + i] - base) \in Offsets
                     /\ ToUint32(offsets[start + i] - base) = offsets[start + i] - base
                BY <3>7
            <4>2. count + 1 \in Nat
                OBVIOUS
            <4>3. QED BY <4>1, <4>2
        <3>10. /\ rebased[1] = 0 /\ rebased[count + 1] = end - base
               /\ TextOffsetsAreMonotonic(rebased)
            <4>1. \A i \in 2 .. count + 1 : rebased[i] >= rebased[i - 1]
                <5> TAKE i \in 2 .. count + 1
                <5>1. /\ i \in 1 .. count + 1 /\ i - 1 \in 1 .. count + 1
                      /\ start + (i - 1) \in 1 .. rows + 1 /\ start + i \in start + (i - 1) .. rows + 1
                    BY <1>1, <3>6
                <5>2. offsets[start + (i - 1)] <= offsets[start + i]
                    BY <3>5, <5>1
                <5>3. rebased[i] = offsets[start + i] - base
                      /\ rebased[i - 1] = offsets[start + (i - 1)] - base
                    BY <3>9, <5>1
                <5>4. offsets[start + i] \in Nat /\ offsets[start + (i - 1)] \in Nat
                    BY <3>7, <5>1
                <5> HIDE DEF rebased, base
                <5>5. QED BY <3>8, <5>2, <5>3, <5>4
            <4>2. /\ 1 \in 1 .. count + 1 /\ count + 1 \in 1 .. count + 1
                  /\ start + (count + 1) = start + count + 1
                OBVIOUS
            <4>3. rebased[1] = base - base /\ rebased[count + 1] = end - base
                BY <3>9, <4>2
            <4> HIDE DEF rebased, base, end
            <4>4. QED BY <3>8, <3>9, <4>1, <4>3 DEF TextOffsetsAreMonotonic
        <3>11. part \in Seq(Bytes) /\ Len(part) = end - base
            <4> HIDE DEF base, end
            <4>1. \A k \in base + 1 .. end : bytes[k] \in Bytes
                BY <3>1, <3>8, ElementOfSeq
            <4>2. QED BY <3>8, <4>1, SubSeqProperties
        <3>12. ASSUME NEW j \in 1 .. count
               PROVE  SubSeq(part, rebased[j] + 1, rebased[j + 1])
                        = SubSeq(bytes, offsets[start + j] + 1, offsets[start + j + 1])
            <4> DEFINE a == offsets[start + j]
                       b == offsets[start + j + 1]
            <4>1. /\ j \in 1 .. count + 1 /\ j + 1 \in 1 .. count + 1
                  /\ start + (j + 1) = start + j + 1
                  /\ start + j \in 1 .. rows + 1 /\ start + j + 1 \in start + j .. rows + 1
                BY <1>1, <3>6
            <4>2. /\ a \in Nat /\ b \in Nat /\ base <= a /\ a <= b /\ b <= end
                BY <3>5, <3>7, <4>1
            <4>3. rebased[j] = a - base /\ rebased[j + 1] = b - base
                BY <3>9, <4>1
            <4> HIDE DEF a, b, rebased, base, end
            <4>4. SubSeq(SubSeq(bytes, base + 1, end), a - base + 1, b - base)
                    = SubSeq(bytes, a + 1, b)
                BY <3>1, <3>8, <4>2, SubSeqOfPart
            <4>5. QED BY <4>3, <4>4 DEF a, b
        <3> HIDE DEF part, rebased, base, end
        <3>13. slice.columns[c] \in TextColumnBuffers
            BY <3>2, <3>9, <3>11 DEF TextColumnBuffers
        <3>14. ValidateTextView(slice.columns[c], count)
            BY <3>2, <3>8, <3>9, <3>10, <3>11 DEF ValidateTextView
        <3>15. slice.columns[c].offsets[count + 1] = Len(slice.columns[c].bytes)
            BY <3>2, <3>10, <3>11
        <3>16. \A j \in 1 .. count : BatchCell(slice, j, c) = BatchCell(batch, start + j, c)
            <4> TAKE j \in 1 .. count
            <4>1. slice.columns[c].bytes = part /\ slice.columns[c].offsets = rebased
                BY <3>2
            <4>2. BatchCell(slice, j, c) = TextValue(SubSeq(part, rebased[j] + 1, rebased[j + 1]))
                BY <3>3, <4>1
            <4>3. BatchCell(batch, start + j, c)
                    = TextValue(SubSeq(bytes, offsets[start + j] + 1, offsets[start + j + 1]))
                BY <3>3
            <4>4. QED BY <3>12, <4>2, <4>3
        <3>17. QED BY <2>2, <3>13, <3>14, <3>15, <3>16 DEF ColumnBuffers
    <2>3. Schema[c] \in {"Int", "Text"}
        BY SchemaAssumption, ElementOfSeq DEF Columns, LogicalTypes
    <2>4. QED BY <2>1, <2>2, <2>3
<1>5. slice.columns \in Seq(ColumnBuffers) /\ Len(slice.columns) = Len(Schema)
    <2>1. \A c \in 1 .. Len(Schema) : SliceView(batch.columns[c], start, count) \in ColumnBuffers
        BY <1>3, <1>4 DEF Columns
    <2>2. slice.columns = [c \in 1 .. Len(Schema) |-> SliceView(batch.columns[c], start, count)]
        BY <1>2
    <2>3. QED BY <1>1, <2>1, <2>2
<1>6. slice \in ColumnBatches
    BY <1>2, <1>5 DEF ColumnBatches, ColumnViews
<1>7. ValidateColumnBatch(slice)
    BY <1>3, <1>4, <1>5, SchemaAssumption, ElementOfSeq
    DEF ValidateColumnBatch, Columns, LogicalTypes
<1>8. ExactBatch(slice)
    BY <1>3, <1>4, <1>7 DEF ExactBatch
<1>9. \A j \in 1 .. count : BatchRow(slice, j) = BatchRow(batch, start + j)
    BY <1>4 DEF BatchRow
<1>10. QED BY <1>3, <1>6, <1>8, <1>9 DEF slice

-----------------------------------------------------------------------------
(***************************************************************************)
(* Holds(sealed, act, lg): the groups sealed and act are well-formed and   *)
(* store the rows of lg.  Each private helper keeps it.                    *)
(***************************************************************************)
Stored(group, lg, base) ==
    /\ base + RowCount(group) <= Len(lg)
    /\ Addressable(group) =>
          /\ GroupOrdered(group)
          /\ \A i \in 1 .. RowCount(group) : MaterializeRow(group, i) = lg[base + i]

FullGroup(group, lg, base) ==
    Aligned(group) /\ RowCount(group) = Capacity /\ Stored(group, lg, base)

Holds(sealed, act, lg) ==
    /\ sealed \in Seq(RowGroups) /\ act \in RowGroups /\ lg \in Seq(GoodRows)
    /\ \A k \in 1 .. Len(sealed) : FullGroup(sealed[k], lg, FirstRow(k))
    /\ Aligned(act) /\ RowCount(act) <= Capacity
    /\ Stored(act, lg, FirstRow(Len(sealed) + 1))
    /\ Len(lg) = FirstRow(Len(sealed) + 1) + RowCount(act)

LEMMA FirstRowFacts ==
    ASSUME NEW k \in Nat
    PROVE  FirstRow(k + 1) \in Nat /\ FirstRow(k + 2) = FirstRow(k + 1) + Capacity
<1>1. Capacity \in Nat
    BY CapacityAssumption
<1>2. FirstRow(k + 1) = Capacity * k /\ FirstRow(k + 2) = Capacity * (k + 1)
    BY <1>1 DEF FirstRow
<1>3. Capacity * k \in Nat /\ Capacity * (k + 1) = Capacity * k + Capacity
    BY <1>1
<1>4. QED BY <1>2, <1>3

(* What a group stores is not affected by rows added to the log.           *)
LEMMA StoredInLongerLog ==
    ASSUME NEW lg \in Seq(GoodRows), NEW more \in Seq(GoodRows),
           NEW group \in RowGroups, NEW base \in Nat, Stored(group, lg, base)
    PROVE  Stored(group, lg \o more, base)
<1>1. /\ Len(lg) \in Nat /\ Len(more) \in Nat /\ RowCount(group) \in Nat
      /\ Len(lg \o more) = Len(lg) + Len(more)
      /\ \A i \in 1 .. Len(lg) : (lg \o more)[i] = lg[i]
    BY ConcatProperties, LenProperties, RowCountType
<1>2. base + RowCount(group) <= Len(lg)
    BY DEF Stored
<1>3. ASSUME NEW i \in 1 .. RowCount(group)
      PROVE  (lg \o more)[base + i] = lg[base + i]
    <2>1. base + i \in 1 .. Len(lg)
        BY <1>1, <1>2
    <2>2. QED BY <1>1, <2>1
<1>4. base + RowCount(group) <= Len(lg \o more)
    BY <1>1, <1>2
<1>5. QED BY <1>3, <1>4 DEF Stored

(* seal_active_if_full keeps what is stored and makes room for a row.      *)
LEMMA SealKeeps ==
    ASSUME NEW sealed, NEW act, NEW lg, Holds(sealed, act, lg)
    PROVE  LET room == SealActiveIfFull([sealed |-> sealed, active |-> act])
           IN  /\ Holds(room.sealed, room.active, lg)
               /\ RowCount(room.active) < Capacity
               /\ ~IsFull(room.active)
               /\ IsPrefix(sealed, room.sealed)
<1> DEFINE room == SealActiveIfFull([sealed |-> sealed, active |-> act])
<1>1. /\ sealed \in Seq(RowGroups) /\ act \in RowGroups /\ lg \in Seq(GoodRows)
      /\ Len(sealed) \in Nat /\ RowCount(act) \in Nat /\ Capacity \in Nat /\ Capacity > 0
    BY LenProperties, RowCountType, CapacityAssumption DEF Holds
<1>2. CASE ~IsFull(act)
    <2>1. room.sealed = sealed /\ room.active = act
        BY <1>2 DEF SealActiveIfFull
    <2>2. IsPrefix(sealed, sealed)
        BY <1>1 DEF IsPrefix
    <2>3. QED BY <1>1, <1>2, <2>1, <2>2 DEF IsFull
<1>3. CASE IsFull(act)
    <2>1. room.sealed = Append(sealed, act) /\ room.active = NewRowGroup
        BY <1>3 DEF SealActiveIfFull
    <2> HIDE DEF room
    <2>2. /\ room.sealed \in Seq(RowGroups)
          /\ Len(room.sealed) = Len(sealed) + 1
          /\ \A k \in 1 .. Len(sealed) : room.sealed[k] = sealed[k]
          /\ room.sealed[Len(sealed) + 1] = act
        BY <1>1, <2>1, AppendProperties
    <2>3. RowCount(act) = Capacity
        BY <1>1, <1>3 DEF IsFull, Holds
    <2>4. FullGroup(act, lg, FirstRow(Len(sealed) + 1))
        BY <2>3 DEF Holds, FullGroup
    <2>5. \A k \in 1 .. Len(room.sealed) : FullGroup(room.sealed[k], lg, FirstRow(k))
        <3> TAKE k \in 1 .. Len(room.sealed)
        <3>1. CASE k \in 1 .. Len(sealed)
            BY <2>2, <3>1 DEF Holds
        <3>2. CASE k = Len(sealed) + 1
            BY <2>2, <2>4, <3>2
        <3>3. QED BY <1>1, <2>2, <3>1, <3>2
    <2>6. /\ NewRowGroup \in RowGroups /\ Aligned(NewRowGroup)
          /\ RowCount(NewRowGroup) = 0 /\ GroupOrdered(NewRowGroup)
        BY NewRowGroupFacts
    <2>7. Len(lg) = FirstRow(Len(sealed) + 2) /\ FirstRow(Len(sealed) + 2) \in Nat
        BY <1>1, <2>3, FirstRowFacts DEF Holds
    <2>8. Stored(NewRowGroup, lg, FirstRow(Len(sealed) + 2))
        BY <2>6, <2>7 DEF Stored
    <2>9. (Len(sealed) + 1) + 1 = Len(sealed) + 2
        BY <1>1
    <2>10. Holds(room.sealed, NewRowGroup, lg)
        BY <1>1, <2>2, <2>5, <2>6, <2>7, <2>8, <2>9 DEF Holds
    <2>11. IsPrefix(sealed, room.sealed)
        <3>1. \A i \in 1 .. Len(sealed) : sealed[i] \in RowGroups /\ room.sealed[i] \in RowGroups
            BY <1>1, <2>2, ElementOfSeq
        <3>2. SubSeq(sealed, 1, Len(sealed)) = SubSeq(room.sealed, 1, Len(sealed))
            BY <1>1, <2>2
        <3>3. QED BY <1>1, <2>2, <3>2 DEF IsPrefix
    <2>12. QED BY <1>1, <2>1, <2>6, <2>10, <2>11 DEF IsFull, room
<1>4. QED BY <1>2, <1>3 DEF room

(* Rows that the active group gains and the log gains with it.             *)
LEMMA ActiveGrows ==
    ASSUME NEW sealed, NEW act, NEW lg, Holds(sealed, act, lg),
           NEW more \in Seq(GoodRows),
           NEW new \in RowGroups, Aligned(new),
           RowCount(new) = RowCount(act) + Len(more), RowCount(new) <= Capacity,
           Addressable(new) => Addressable(act),
           Addressable(new) /\ GroupOrdered(act) =>
              /\ GroupOrdered(new)
              /\ \A i \in 1 .. RowCount(act) : MaterializeRow(new, i) = MaterializeRow(act, i)
              /\ \A j \in 1 .. Len(more) : MaterializeRow(new, RowCount(act) + j) = more[j]
    PROVE  Holds(sealed, new, lg \o more)
<1> DEFINE base == FirstRow(Len(sealed) + 1)
           old  == RowCount(act)
           n    == Len(more)
<1>1. /\ sealed \in Seq(RowGroups) /\ act \in RowGroups /\ lg \in Seq(GoodRows)
      /\ Len(sealed) \in Nat /\ old \in Nat /\ n \in Nat /\ Len(lg) \in Nat
      /\ base \in Nat
    BY LenProperties, RowCountType, FirstRowFacts DEF Holds
<1>2. /\ lg \o more \in Seq(GoodRows)
      /\ Len(lg \o more) = Len(lg) + n
      /\ \A i \in 1 .. Len(lg) + n :
            (lg \o more)[i] = IF i <= Len(lg) THEN lg[i] ELSE more[i - Len(lg)]
    BY <1>1, ConcatProperties
<1>3. Len(lg) = base + old /\ Stored(act, lg, base)
    BY DEF Holds
<1>4. \A k \in 1 .. Len(sealed) : FullGroup(sealed[k], lg \o more, FirstRow(k))
    <2> TAKE k \in 1 .. Len(sealed)
    <2>1. sealed[k] \in RowGroups /\ FullGroup(sealed[k], lg, FirstRow(k))
        BY <1>1, ElementOfSeq DEF Holds
    <2>2. FirstRow(k) \in Nat
        <3>1. k - 1 \in Nat /\ (k - 1) + 1 = k
            BY <1>1
        <3>2. QED BY <3>1, FirstRowFacts
    <2>3. QED BY <1>1, <2>1, <2>2, StoredInLongerLog DEF FullGroup
<1> HIDE DEF base, old, n
<1>5. ASSUME Addressable(new)
      PROVE  /\ GroupOrdered(new)
             /\ \A i \in 1 .. old + n : MaterializeRow(new, i) = (lg \o more)[base + i]
    <2>1. /\ GroupOrdered(act)
          /\ \A i \in 1 .. old : MaterializeRow(act, i) = lg[base + i]
        BY <1>3, <1>5 DEF Stored, old
    <2>2. /\ GroupOrdered(new)
          /\ \A i \in 1 .. old : MaterializeRow(new, i) = MaterializeRow(act, i)
          /\ \A j \in 1 .. n : MaterializeRow(new, old + j) = more[j]
        BY <1>5, <2>1 DEF old, n
    <2>3. ASSUME NEW i \in 1 .. old
          PROVE  MaterializeRow(new, i) = (lg \o more)[base + i]
        <3>1. base + i \in 1 .. Len(lg) + n /\ base + i <= Len(lg)
            BY <1>1, <1>3
        <3>2. (lg \o more)[base + i] = lg[base + i]
            BY <1>2, <3>1
        <3>3. QED BY <2>1, <2>2, <3>2
    <2>4. ASSUME NEW j \in 1 .. n
          PROVE  MaterializeRow(new, old + j) = (lg \o more)[base + (old + j)]
        <3>1. /\ base + (old + j) \in 1 .. Len(lg) + n /\ ~(base + (old + j) <= Len(lg))
              /\ base + (old + j) - Len(lg) = j
            BY <1>1, <1>3
        <3> DEFINE p == base + (old + j)
        <3>2. p \in 1 .. Len(lg) + n /\ ~(p <= Len(lg)) /\ p - Len(lg) = j
            BY <1>1, <1>3
        <3> HIDE DEF p
        <3>3. (lg \o more)[p] = more[p - Len(lg)]
            BY <1>2, <3>2
        <3>4. (lg \o more)[p] = more[j]
            BY <3>2, <3>3
        <3>5. MaterializeRow(new, old + j) = more[j]
            BY <2>2
        <3>6. QED BY <3>4, <3>5 DEF p
    <2>5. ASSUME NEW i \in 1 .. old + n
          PROVE  MaterializeRow(new, i) = (lg \o more)[base + i]
        <3>1. CASE i \in 1 .. old
            BY <2>3, <3>1
        <3>2. CASE i - old \in 1 .. n
            <4> DEFINE j == i - old
            <4>1. old + j = i /\ j \in 1 .. n
                BY <1>1, <3>2
            <4> HIDE DEF j
            <4>2. MaterializeRow(new, old + j) = (lg \o more)[base + (old + j)]
                BY <2>4, <4>1
            <4>3. PICK k : k = old + j
                OBVIOUS
            <4>4. k = i
                BY <4>1, <4>3
            <4>5. MaterializeRow(new, k) = (lg \o more)[base + k]
                BY <4>2, <4>3
            <4>6. QED BY <4>4, <4>5
        <3>3. i \in 1 .. old \/ i - old \in 1 .. n
            <4>1. old \in Nat /\ n \in Nat
                BY <1>1
            <4>2. QED BY <4>1
        <3>4. QED BY <3>1, <3>2, <3>3
    <2>6. QED BY <2>2, <2>5
<1>6. RowCount(new) = old + n
    BY DEF old, n
<1>7. Stored(new, lg \o more, base)
    BY <1>1, <1>2, <1>3, <1>5, <1>6 DEF Stored
<1>8. Len(lg \o more) = base + RowCount(new)
    BY <1>1, <1>2, <1>3, <1>6
<1>9. QED BY <1>1, <1>2, <1>4, <1>7, <1>8 DEF Holds, base

(* append_to_active accepts exactly the valid rows and stores them.        *)
LEMMA AppendToActiveKeeps ==
    ASSUME NEW sealed, NEW act, NEW lg, Holds(sealed, act, lg), NEW values \in Seq(Values)
    PROVE  LET write == AppendToActive([sealed |-> sealed, active |-> act], values)
           IN  /\ write.status = IF ValidateValues(values) THEN "Ok" ELSE "RowRejected"
               /\ Holds(write.sealed, write.active,
                        IF ValidateValues(values) THEN Append(lg, values) ELSE lg)
               /\ IsPrefix(sealed, write.sealed)
<1> DEFINE room  == SealActiveIfFull([sealed |-> sealed, active |-> act])
           write == AppendToActive([sealed |-> sealed, active |-> act], values)
<1>1. /\ Holds(room.sealed, room.active, lg) /\ RowCount(room.active) < Capacity
      /\ ~IsFull(room.active) /\ IsPrefix(sealed, room.sealed)
    BY SealKeeps
<1>2. /\ write.status = RowGroupAppendRow(room.active, values).status
      /\ write.sealed = room.sealed
      /\ write.active = RowGroupAppendRow(room.active, values).group
    BY DEF AppendToActive
<1> HIDE DEF room, write
<1>3. CASE ~ValidateValues(values)
    BY <1>1, <1>2, <1>3 DEF RowGroupAppendRow, write
<1>4. CASE ValidateValues(values)
    <2> DEFINE new == AppendValidatedRow(room.active, values)
    <2>1. write.status = "Ok" /\ write.active = new
        BY <1>1, <1>2, <1>4 DEF RowGroupAppendRow
    <2>2. room.active \in RowGroups /\ Aligned(room.active) /\ lg \in Seq(GoodRows)
          /\ RowCount(room.active) \in Nat /\ Capacity \in Nat
        BY <1>1, RowCountType, CapacityAssumption DEF Holds
    <2>3. values \in GoodRows
        BY <1>4 DEF GoodRows
    <2>4. /\ <<values>> \in Seq(GoodRows) /\ Len(<<values>>) = 1 /\ <<values>>[1] = values
          /\ Append(lg, values) = lg \o <<values>>
        BY <2>2, <2>3, AppendIsConcat
    <2>5. /\ new \in RowGroups /\ Aligned(new)
          /\ RowCount(new) = RowCount(room.active) + 1
        BY <1>4, <2>2, AppendValidatedRowStructure
    <2>6. Addressable(new) => Addressable(room.active)
        BY <1>4, <2>2, AddressableBefore
    <2>7. Addressable(new) /\ GroupOrdered(room.active) =>
             /\ GroupOrdered(new)
             /\ \A i \in 1 .. RowCount(room.active) :
                   MaterializeRow(new, i) = MaterializeRow(room.active, i)
             /\ MaterializeRow(new, RowCount(room.active) + 1) = values
        BY <1>4, <2>2, AppendValidatedRowExact
    <2> HIDE DEF new
    <2>8. \A j \in 1 .. Len(<<values>>) : j = 1
        BY <2>4
    <2>9. RowCount(new) <= Capacity
        BY <1>1, <2>2, <2>5
    <2>10. Holds(room.sealed, new, lg \o <<values>>)
        BY <1>1, <2>4, <2>5, <2>6, <2>7, <2>8, <2>9, ActiveGrows
    <2>11. QED BY <1>1, <1>2, <1>4, <2>1, <2>4, <2>10 DEF write
<1>5. QED BY <1>3, <1>4

(* An iteration of append_batch_to_active: the slice is accepted, and its  *)
(* rows become the next rows of the log.                                   *)
SliceWritten(storage, lg, batch, start) ==
    LET room  == SealActiveIfFull(storage)
        count == SliceCount(room, batch, start)
        slice == MakeBatchSlice(batch, start, count)
        write == AppendSlice(storage, batch, start)
    IN  /\ count \in 1 .. batch.row_count - start
        /\ ExactBatch(slice) /\ slice \in ColumnBatches /\ slice.row_count = count
        /\ RowGroupAppendColumnBatch(room.active, slice).status = "Ok"
        /\ write.status = "Ok" /\ write.count = count
        /\ Holds(write.sealed, write.active,
                 lg \o [i \in 1 .. count |-> BatchRow(batch, start + i)])
        /\ IsPrefix(storage.sealed, write.sealed)

LEMMA AppendSliceKeeps ==
    ASSUME NEW sealed, NEW act, NEW lg, Holds(sealed, act, lg),
           NEW batch \in ColumnBatches, ValidateColumnBatch(batch),
           NEW start \in Nat, start < batch.row_count
    PROVE  SliceWritten([sealed |-> sealed, active |-> act], lg, batch, start)
<1> DEFINE storage == [sealed |-> sealed, active |-> act]
           room    == SealActiveIfFull(storage)
           count   == SliceCount(room, batch, start)
           slice   == MakeBatchSlice(batch, start, count)
           new     == AppendValidatedBatch(room.active, slice)
           after   == SealActiveIfFull([sealed |-> room.sealed, active |-> new])
           rows    == [i \in 1 .. count |-> BatchRow(batch, start + i)]
           write   == AppendSlice(storage, batch, start)
<1>1. /\ Holds(room.sealed, room.active, lg) /\ RowCount(room.active) < Capacity
      /\ ~IsFull(room.active) /\ IsPrefix(sealed, room.sealed)
    BY SealKeeps
<1> HIDE DEF room
<1>2. /\ room.active \in RowGroups /\ Aligned(room.active) /\ lg \in Seq(GoodRows)
      /\ RowCount(room.active) \in Nat /\ Capacity \in Nat /\ batch.row_count \in Nat
      /\ sealed \in Seq(RowGroups) /\ room.sealed \in Seq(RowGroups)
    BY <1>1, RowCountType, CapacityAssumption DEF Holds, ColumnBatches
<1>3. /\ count \in Nat /\ count > 0 /\ start + count <= batch.row_count
      /\ RowCount(room.active) + count <= Capacity
      /\ ~(count > Capacity - RowCount(room.active))
    <2> DEFINE available == Capacity - RowCount(room.active)
               rest      == batch.row_count - start
    <2>1. count = IF rest < available THEN rest ELSE available
        BY Zenon DEF SliceCount
    <2>2. available \in Int /\ available > 0 /\ rest \in Int /\ rest > 0
        BY <1>1, <1>2
    <2> HIDE DEF available, rest, count
    <2>3. count \in Nat /\ count > 0 /\ count <= rest /\ count <= available
        BY <2>1, <2>2
    <2>4. QED BY <1>2, <2>3 DEF available, rest
<1> HIDE DEF count
<1>4. /\ slice \in ColumnBatches /\ slice.row_count = count /\ ExactBatch(slice)
      /\ \A j \in 1 .. count : BatchRow(slice, j) = BatchRow(batch, start + j)
    BY <1>3, SliceExact
<1> HIDE DEF slice
<1>5. ValidateColumnBatch(slice)
    BY <1>4 DEF ExactBatch
<1>6. RowGroupAppendColumnBatch(room.active, slice) = [status |-> "Ok", group |-> new]
    BY <1>1, <1>3, <1>4, <1>5 DEF RowGroupAppendColumnBatch
<1>7. write = [status |-> "Ok", count |-> count, sealed |-> after.sealed, active |-> after.active]
    BY <1>6 DEF AppendSlice, room, count, slice
<1>8. new \in RowGroups /\ Aligned(new) /\ RowCount(new) = RowCount(room.active) + count
    BY <1>2, <1>4, <1>5, AppendValidatedBatchStructure
<1>9. Addressable(new) => Addressable(room.active)
    BY <1>2, <1>4, <1>5, AddressableBefore
<1>10. ASSUME Addressable(new), GroupOrdered(room.active)
       PROVE  /\ GroupOrdered(new)
              /\ \A i \in 1 .. RowCount(room.active) :
                    MaterializeRow(new, i) = MaterializeRow(room.active, i)
              /\ \A j \in 1 .. count :
                    MaterializeRow(new, RowCount(room.active) + j) = BatchRow(slice, j)
    BY <1>2, <1>4, <1>10, AppendValidatedBatchExact
<1> HIDE DEF new
<1>11. /\ rows \in Seq(GoodRows) /\ Len(rows) = count
       /\ \A j \in 1 .. count : rows[j] = BatchRow(batch, start + j)
    <2>1. ASSUME NEW j \in 1 .. count
          PROVE  BatchRow(batch, start + j) \in GoodRows
        <3>1. start + j \in 1 .. batch.row_count
            BY <1>2, <1>3
        <3>2. QED BY <3>1, BatchRowValid
    <2>2. QED BY <1>3, <2>1
<1> HIDE DEF rows
<1>12. ASSUME Addressable(new), GroupOrdered(room.active)
       PROVE  \A j \in 1 .. count : MaterializeRow(new, RowCount(room.active) + j) = rows[j]
    BY <1>4, <1>10, <1>11, <1>12
<1>13. RowCount(new) <= Capacity
    BY <1>3, <1>8
<1>14. Holds(room.sealed, new, lg \o rows)
    BY <1>1, <1>8, <1>9, <1>10, <1>11, <1>12, <1>13, ActiveGrows
<1>15. Holds(after.sealed, after.active, lg \o rows) /\ IsPrefix(room.sealed, after.sealed)
    BY <1>14, SealKeeps
<1> HIDE DEF after, write
<1>16. IsPrefix(sealed, after.sealed)
    <2>1. after.sealed \in Seq(RowGroups)
        BY <1>15 DEF Holds
    <2>2. QED BY <1>1, <1>2, <1>15, <2>1, PrefixTransitive
<1>17. count \in 1 .. batch.row_count - start
    BY <1>2, <1>3
<1>18. QED BY <1>4, <1>6, <1>7, <1>15, <1>16, <1>17
       DEF SliceWritten, room, count, slice, rows, write

-----------------------------------------------------------------------------
(***************************************************************************)
(* The inductive invariant, in the form the lemmas use.                    *)
(***************************************************************************)
PendingOK ==
    /\ pending \in PendingCalls
    /\ pending.call = "append_rows" => pending.rows # << >>
    /\ pending.call = "append_column_batch" =>
          /\ ValidateColumnBatch(pending.batch)
          /\ pending.start < pending.batch.row_count
    /\ status \in Statuses
    /\ status = "Running" <=> pending # NoCall

LogHeld == Holds(sealed_row_groups, active, log)

LEMMA InvParts == Inv <=> LogHeld /\ PendingOK /\ PendingBatchLogged
<1> DEFINE sealed == sealed_row_groups
           n      == Len(sealed_row_groups)
           Typed  == sealed \in Seq(RowGroups) /\ active \in RowGroups /\ log \in Seq(GoodRows)
           Groups == GroupsWellFormed /\ GroupsHoldLog /\ GroupsOrdered
<1>1. TypeOK <=> Typed /\ PendingOK
    BY DEF TypeOK, PendingOK, GoodRows
<1>2. ASSUME Typed
      PROVE  Groups <=> LogHeld
    <2>1. n \in Nat
        BY <1>2, LenProperties
    <2>2. /\ Len(GroupsInOrder) = n + 1
          /\ \A k \in 1 .. n : GroupsInOrder[k] = sealed[k]
          /\ GroupsInOrder[n + 1] = active
        BY <1>2, AppendProperties DEF GroupsInOrder
    <2>3. GroupsOrdered <=> /\ \A k \in 1 .. n : Addressable(sealed[k]) => GroupOrdered(sealed[k])
                            /\ Addressable(active) => GroupOrdered(active)
        <3>1. \A k \in 1 .. n + 1 : k \in 1 .. n \/ k = n + 1
            BY <2>1
        <3>2. (\A k \in 1 .. n : k \in 1 .. n + 1) /\ n + 1 \in 1 .. n + 1
            BY <2>1
        <3>3. QED BY <2>2, <3>1, <3>2 DEF GroupsOrdered
    <2>4. QED BY <1>2, <2>3
          DEF GroupsWellFormed, GroupsHoldLog, GroupHolds, LogHeld, Holds, FullGroup, Stored
<1>3. LogHeld => Typed
    BY DEF LogHeld, Holds
<1>4. QED BY <1>1, <1>2, <1>3 DEF Inv

LEMMA InitInv == Init => Inv
<1> SUFFICES ASSUME Init PROVE Inv
    OBVIOUS
<1>1. /\ NewRowGroup \in RowGroups /\ Aligned(NewRowGroup)
      /\ RowCount(NewRowGroup) = 0 /\ GroupOrdered(NewRowGroup)
    BY NewRowGroupFacts
<1>2. FirstRow(1) = 0 /\ Capacity \in Nat
    BY CapacityAssumption DEF FirstRow
<1>3. << >> \in Seq(RowGroups) /\ << >> \in Seq(GoodRows) /\ Len(<< >>) = 0
    BY EmptySeq
<1>4. Stored(NewRowGroup, << >>, FirstRow(1))
    BY <1>1, <1>2, <1>3 DEF Stored
<1>5. LogHeld
    BY <1>1, <1>2, <1>3, <1>4 DEF Init, LogHeld, Holds
<1>6. PendingOK /\ PendingBatchLogged
    BY DEF Init, PendingOK, PendingBatchLogged, PendingCalls, NoCall, Statuses
<1>7. QED BY <1>5, <1>6, InvParts

(* What a step has to keep.                                                *)
Kept ==
    /\ LogHeld' /\ PendingOK' /\ PendingBatchLogged'
    /\ IsPrefix(sealed_row_groups, sealed_row_groups')

LEMMA PrefixReflexive == LogHeld => IsPrefix(sealed_row_groups, sealed_row_groups)
    BY PrefixElements, LenProperties DEF LogHeld, Holds

LEMMA AppendRowKeeps ==
    ASSUME LogHeld, NEW values \in CandidateRows, AppendRow(values)
    PROVE  Kept
<1> DEFINE write == AppendToActive(Storage, values)
<1>1. values \in Seq(Values)
    BY CandidateRowsAssumption
<1>2. Storage = [sealed |-> sealed_row_groups, active |-> active]
    BY DEF Storage
<1>3. /\ write.status = IF ValidateValues(values) THEN "Ok" ELSE "RowRejected"
      /\ Holds(write.sealed, write.active,
               IF ValidateValues(values) THEN Append(log, values) ELSE log)
      /\ IsPrefix(sealed_row_groups, write.sealed)
    BY <1>1, <1>2, AppendToActiveKeeps DEF LogHeld
<1>4. /\ sealed_row_groups' = write.sealed /\ active' = write.active
      /\ status' = write.status /\ pending' = NoCall
      /\ log' = IF write.status = "Ok" THEN Append(log, values) ELSE log
    BY DEF AppendRow
<1> HIDE DEF write
<1>5. LogHeld'
    BY <1>3, <1>4 DEF LogHeld
<1>6. PendingOK' /\ PendingBatchLogged'
    BY <1>3, <1>4 DEF PendingOK, PendingBatchLogged, PendingCalls, NoCall, Statuses
<1>7. QED BY <1>3, <1>4, <1>5, <1>6 DEF Kept

LEMMA BeginAppendRowsKeeps ==
    ASSUME LogHeld, NEW rows \in RowSpans, BeginAppendRows(rows)
    PROVE  Kept
<1>1. LogHeld' /\ sealed_row_groups' = sealed_row_groups
    BY DEF BeginAppendRows, LogHeld
<1>2. rows \in Seq(CandidateRows)
    BY RowSpansAssumption
<1>3. \/ pending' = NoCall /\ status' = "Ok"
      \/ pending' = RowsCall(rows) /\ status' = "Running" /\ rows # << >>
    BY DEF BeginAppendRows
<1>4. PendingOK' /\ PendingBatchLogged'
    BY <1>2, <1>3 DEF PendingOK, PendingBatchLogged, PendingCalls, NoCall, RowsCall, Statuses
<1>5. QED BY <1>1, <1>4, PrefixReflexive DEF Kept

LEMMA AppendRowsStepKeeps ==
    ASSUME LogHeld, PendingOK, AppendRowsStep
    PROVE  Kept
<1> DEFINE row   == Head(pending.rows)
           rest  == Tail(pending.rows)
           write == AppendToActive(Storage, row)
<1>1. pending.rows \in Seq(CandidateRows) /\ pending.rows # << >>
    BY DEF AppendRowsStep, PendingOK, PendingCalls, NoCall
<1>2. row \in CandidateRows /\ rest \in Seq(CandidateRows)
    BY <1>1, HeadTailProperties
<1>3. row \in Seq(Values)
    BY <1>2, CandidateRowsAssumption
<1>4. Storage = [sealed |-> sealed_row_groups, active |-> active]
    BY DEF Storage
<1>5. /\ write.status = IF ValidateValues(row) THEN "Ok" ELSE "RowRejected"
      /\ Holds(write.sealed, write.active,
               IF ValidateValues(row) THEN Append(log, row) ELSE log)
      /\ IsPrefix(sealed_row_groups, write.sealed)
    BY <1>3, <1>4, AppendToActiveKeeps DEF LogHeld
<1>6. /\ sealed_row_groups' = write.sealed /\ active' = write.active
      /\ \/ pending' = RowsCall(rest) /\ status' = "Running" /\ rest # << >>
         \/ pending' = NoCall /\ status' = write.status
      /\ log' = IF write.status = "Ok" THEN Append(log, row) ELSE log
    BY DEF AppendRowsStep
<1> HIDE DEF row, rest, write
<1>7. LogHeld'
    BY <1>5, <1>6 DEF LogHeld
<1>8. PendingOK' /\ PendingBatchLogged'
    BY <1>2, <1>5, <1>6
    DEF PendingOK, PendingBatchLogged, PendingCalls, NoCall, RowsCall, Statuses
<1>9. QED BY <1>5, <1>6, <1>7, <1>8 DEF Kept

LEMMA BeginAppendColumnBatchKeeps ==
    ASSUME LogHeld, NEW batch \in CandidateBatches, BeginAppendColumnBatch(batch)
    PROVE  Kept
<1>1. LogHeld' /\ sealed_row_groups' = sealed_row_groups /\ log' = log
    BY DEF BeginAppendColumnBatch, LogHeld
<1>2. batch.row_count \in Nat
    BY CandidateBatchesAssumption DEF ColumnBatches
<1>3. \/ pending' = NoCall /\ status' \in {"Ok", "BatchRejected"}
      \/ /\ pending' = BatchCall(batch, 0) /\ status' = "Running"
         /\ ValidateColumnBatch(batch) /\ batch.row_count # 0
    BY DEF BeginAppendColumnBatch
<1>4. PendingOK'
    BY <1>2, <1>3 DEF PendingOK, PendingCalls, NoCall, BatchCall, Statuses
<1>5. PendingBatchLogged'
    <2>1. Len(log) \in Nat
        BY LenProperties DEF LogHeld, Holds
    <2>2. CASE pending' = NoCall
        BY <2>2 DEF PendingBatchLogged, NoCall
    <2>3. CASE pending' = BatchCall(batch, 0)
        <3>1. pending'.start = 0
            BY <2>3 DEF BatchCall
        <3>2. QED BY <1>1, <2>1, <3>1 DEF PendingBatchLogged
    <2>4. QED BY <1>3, <2>2, <2>3
<1>6. QED BY <1>1, <1>4, <1>5, PrefixReflexive DEF Kept

(* One slice: it is accepted, and the call goes on exactly if rows remain. *)
LEMMA BatchStepFacts ==
    ASSUME LogHeld, PendingOK, AppendColumnBatchStep
    PROVE  LET batch == pending.batch
               start == pending.start
           IN  /\ batch \in CandidateBatches /\ batch \in ColumnBatches
               /\ ValidateColumnBatch(batch) /\ batch.row_count \in Nat
               /\ start \in Nat /\ start < batch.row_count
               /\ \E count \in 1 .. batch.row_count - start :
                     /\ log' = log \o [i \in 1 .. count |-> BatchRow(batch, start + i)]
                     /\ LogHeld' /\ IsPrefix(sealed_row_groups, sealed_row_groups')
                     /\ IF start + count >= batch.row_count
                        THEN pending' = NoCall /\ status' = "Ok"
                        ELSE pending' = BatchCall(batch, start + count) /\ status' = "Running"
<1> DEFINE batch == pending.batch
           start == pending.start
           room  == SealActiveIfFull(Storage)
           count == SliceCount(room, batch, start)
           write == AppendSlice(Storage, batch, start)
<1>1. /\ batch \in CandidateBatches /\ batch \in ColumnBatches
      /\ ValidateColumnBatch(batch) /\ batch.row_count \in Nat
      /\ start \in Nat /\ start < batch.row_count
    BY CandidateBatchesAssumption
    DEF AppendColumnBatchStep, PendingOK, PendingCalls, NoCall, ColumnBatches
<1>2. Storage = [sealed |-> sealed_row_groups, active |-> active]
    BY DEF Storage
<1>3. /\ count \in 1 .. batch.row_count - start
      /\ write.status = "Ok" /\ write.count = count
      /\ Holds(write.sealed, write.active,
               log \o [i \in 1 .. count |-> BatchRow(batch, start + i)])
      /\ IsPrefix(sealed_row_groups, write.sealed)
    <2>1. SliceWritten(Storage, log, batch, start)
        BY <1>1, <1>2, AppendSliceKeeps DEF LogHeld
    <2>2. Storage.sealed = sealed_row_groups
        BY <1>2
    <2>3. QED BY <2>1, <2>2 DEF SliceWritten
<1>4. /\ sealed_row_groups' = write.sealed /\ active' = write.active
      /\ IF write.status = "Ok" /\ ~BatchDone(batch, start + write.count)
         THEN pending' = BatchCall(batch, start + write.count) /\ status' = "Running"
         ELSE pending' = NoCall /\ status' = write.status
      /\ log' = log \o [i \in 1 .. write.count |-> BatchRow(batch, start + i)]
    BY DEF AppendColumnBatchStep
<1> HIDE DEF write, count
<1>5. LogHeld' /\ log' = log \o [i \in 1 .. count |-> BatchRow(batch, start + i)]
    BY <1>3, <1>4 DEF LogHeld
<1>6. IF start + count >= batch.row_count
      THEN pending' = NoCall /\ status' = "Ok"
      ELSE pending' = BatchCall(batch, start + count) /\ status' = "Running"
    BY <1>3, <1>4 DEF BatchDone
<1>7. QED BY <1>1, <1>3, <1>4, <1>5, <1>6

(* The rows of the log after a slice: the old ones, then those of the      *)
(* slice.                                                                  *)
LEMMA LogAfterSlice ==
    ASSUME LogHeld, NEW f, NEW count \in Nat,
           NEW longer, longer = log \o [i \in 1 .. count |-> f[i]]
    PROVE  /\ Len(log) \in Nat /\ Len(longer) = Len(log) + count
           /\ \A i \in 1 .. Len(log) : longer[i] = log[i]
           /\ \A i \in 1 .. count : longer[Len(log) + i] = f[i]
<1> DEFINE S    == GoodRows \cup {f[i] : i \in 1 .. count}
           rows == [i \in 1 .. count |-> f[i]]
<1>1. log \in Seq(GoodRows) /\ Len(log) \in Nat
    BY LenProperties DEF LogHeld, Holds
<1>2. \A i \in 1 .. Len(log) : log[i] \in S
    BY <1>1, ElementOfSeq
<1>3. log \in Seq(S)
    BY <1>1, SeqMonotonic
<1>4. rows \in Seq(S) /\ Len(rows) = count /\ \A i \in 1 .. count : rows[i] = f[i]
    <2>1. \A i \in 1 .. count : f[i] \in S
        OBVIOUS
    <2> HIDE DEF S
    <2>2. QED BY <2>1
<1> HIDE DEF S, rows
<1>5. /\ Len(log \o rows) = Len(log) + count
      /\ \A i \in 1 .. Len(log) + count :
            (log \o rows)[i] = IF i <= Len(log) THEN log[i] ELSE rows[i - Len(log)]
    BY <1>3, <1>4, ConcatProperties
<1>6. longer = log \o rows
    BY DEF rows
<1>7. ASSUME NEW i \in 1 .. count
      PROVE  longer[Len(log) + i] = f[i]
    <2> DEFINE p == Len(log) + i
    <2>1. p \in 1 .. Len(log) + count /\ ~(p <= Len(log)) /\ p - Len(log) = i
        BY <1>1
    <2> HIDE DEF p
    <2>2. longer[p] = rows[p - Len(log)]
        BY <1>5, <1>6, <2>1
    <2>3. longer[p] = f[i]
        BY <1>4, <2>1, <2>2
    <2>4. QED BY <2>3 DEF p
<1>8. \A i \in 1 .. Len(log) : longer[i] = log[i]
    BY <1>1, <1>5, <1>6
<1>9. QED BY <1>1, <1>5, <1>6, <1>7, <1>8

LEMMA AppendColumnBatchStepKeeps ==
    ASSUME LogHeld, PendingOK, PendingBatchLogged, AppendColumnBatchStep
    PROVE  Kept
<1> DEFINE batch == pending.batch
           start == pending.start
<1>1. /\ batch \in CandidateBatches /\ batch \in ColumnBatches
      /\ ValidateColumnBatch(batch) /\ batch.row_count \in Nat
      /\ start \in Nat /\ start < batch.row_count
    BY BatchStepFacts
<1>2. PICK count \in 1 .. batch.row_count - start :
         /\ log' = log \o [i \in 1 .. count |-> BatchRow(batch, start + i)]
         /\ LogHeld' /\ IsPrefix(sealed_row_groups, sealed_row_groups')
         /\ IF start + count >= batch.row_count
            THEN pending' = NoCall /\ status' = "Ok"
            ELSE pending' = BatchCall(batch, start + count) /\ status' = "Running"
    BY BatchStepFacts
<1>3. PendingOK'
    BY <1>1, <1>2 DEF PendingOK, PendingCalls, NoCall, BatchCall, Statuses
<1>4. /\ start <= Len(log)
      /\ \A i \in 1 .. start : log[Len(log) - start + i] = BatchRow(batch, i)
    BY DEF PendingBatchLogged, AppendColumnBatchStep
<1>5. PendingBatchLogged'
    <2>1. CASE pending' = NoCall
        BY <2>1 DEF PendingBatchLogged, NoCall
    <2>2. CASE pending' = BatchCall(batch, start + count)
        <3> DEFINE f == [i \in 1 .. count |-> BatchRow(batch, start + i)]
                   L == Len(log)
        <3>1. /\ L \in Nat /\ Len(log') = L + count
              /\ \A i \in 1 .. L : log'[i] = log[i]
              /\ \A i \in 1 .. count : log'[L + i] = BatchRow(batch, start + i)
            <4>1. count \in Nat /\ log' = log \o [i \in 1 .. count |-> f[i]]
                BY <1>2
            <4> HIDE DEF f
            <4>2. /\ L \in Nat /\ Len(log') = L + count
                  /\ \A i \in 1 .. L : log'[i] = log[i]
                  /\ \A i \in 1 .. count : log'[L + i] = f[i]
                BY <4>1, LogAfterSlice
            <4>3. \A i \in 1 .. count : f[i] = BatchRow(batch, start + i)
                BY DEF f
            <4>4. QED BY <4>2, <4>3
        <3>2. pending'.batch = batch /\ pending'.start = start + count
            BY <2>2 DEF BatchCall
        <3> HIDE DEF L, batch, start
        <3>3. start + count <= L + count
            BY <1>1, <1>2, <1>4, <3>1 DEF L
        <3>4. ASSUME NEW i \in 1 .. start + count
              PROVE  log'[(L + count) - (start + count) + i] = BatchRow(batch, i)
            <4> DEFINE p == L - start + i
            <4>1. (L + count) - (start + count) + i = p
                BY <1>1, <1>2, <3>1
            <4>2. CASE i <= start
                <5>1. i \in 1 .. start /\ p \in 1 .. L
                    BY <1>1, <1>2, <1>4, <3>1, <4>2 DEF L
                <5>2. log[p] = BatchRow(batch, i)
                    BY <1>4, <5>1 DEF L
                <5>3. QED BY <3>1, <4>1, <5>1, <5>2
            <4>3. CASE i > start
                <5> DEFINE j == i - start
                <5>1. j \in 1 .. count /\ L + j = p /\ start + j = i
                    BY <1>1, <1>2, <3>1, <4>3
                <5> HIDE DEF j, p
                <5>2. PICK q : q = L + j
                    OBVIOUS
                <5>3. PICK m : m = start + j
                    OBVIOUS
                <5>4. log'[q] = BatchRow(batch, m)
                    BY <3>1, <5>1, <5>2, <5>3
                <5>5. q = p /\ m = i
                    BY <5>1, <5>2, <5>3
                <5>6. QED BY <4>1, <5>4, <5>5
            <4>4. i <= start \/ i > start
                <5>1. start \in Nat /\ start + count \in Nat
                    BY <1>1, <1>2
                <5>2. QED BY <5>1
            <4>5. QED BY <4>2, <4>3, <4>4
        <3>5. QED BY <3>1, <3>2, <3>3, <3>4 DEF PendingBatchLogged
    <2>3. QED BY <1>2, <2>1, <2>2
<1>6. QED BY <1>2, <1>3, <1>5 DEF Kept

LEMMA StepKeeps ==
    ASSUME Inv, Next
    PROVE  Kept
<1>1. LogHeld /\ PendingOK /\ PendingBatchLogged
    BY InvParts
<1>2. CASE \E values \in CandidateRows : AppendRow(values)
    BY <1>1, <1>2, AppendRowKeeps
<1>3. CASE \E rows \in RowSpans : BeginAppendRows(rows)
    BY <1>1, <1>3, BeginAppendRowsKeeps
<1>4. CASE AppendRowsStep
    BY <1>1, <1>4, AppendRowsStepKeeps
<1>5. CASE \E batch \in CandidateBatches : BeginAppendColumnBatch(batch)
    BY <1>1, <1>5, BeginAppendColumnBatchKeeps
<1>6. CASE AppendColumnBatchStep
    BY <1>1, <1>6, AppendColumnBatchStepKeeps
<1>7. QED BY <1>2, <1>3, <1>4, <1>5, <1>6 DEF Next

-----------------------------------------------------------------------------
(***************************************************************************)
(* The theorems.                                                           *)
(***************************************************************************)
(* Inv is inductive: every call, and every iteration of a call's loop,     *)
(* keeps the groups well-formed and equal to the log of accepted rows.     *)
THEOREM Invariance == Spec => []Inv
<1>1. Init => Inv
    BY InitInv
<1>2. Inv /\ [Next]_vars => Inv'
    <2> SUFFICES ASSUME Inv, [Next]_vars PROVE Inv'
        OBVIOUS
    <2>1. CASE Next
        <3>1. LogHeld' /\ PendingOK' /\ PendingBatchLogged'
            BY <2>1, StepKeeps DEF Kept
        <3>2. (Inv <=> LogHeld /\ PendingOK /\ PendingBatchLogged)'
            BY InvParts, PTL
        <3>3. QED BY <3>1, <3>2
    <2>2. CASE UNCHANGED vars
        BY <2>2 DEF vars, Inv, TypeOK, GroupsWellFormed, GroupsHoldLog, GroupHolds,
                    GroupsOrdered, GroupsInOrder, PendingBatchLogged
    <2>3. QED BY <2>1, <2>2
<1>3. QED BY <1>1, <1>2, PTL DEF Spec

(* The stored groups, offsets and calls always have their types.           *)
THEOREM TypeCorrect == Spec => []TypeOK
<1>1. Inv => TypeOK
    BY DEF Inv
<1>2. QED BY <1>1, Invariance, PTL

(* Columns never get out of step, sealed groups are exactly full and the   *)
(* active group never overflows.                                           *)
THEOREM WellFormed == Spec => []GroupsWellFormed
<1>1. Inv => GroupsWellFormed
    BY DEF Inv
<1>2. QED BY <1>1, Invariance, PTL

(* Every group stores exactly the rows accepted into it, in their order.   *)
THEOREM NothingLost == Spec => []GroupsHoldLog
<1>1. Inv => GroupsHoldLog
    BY DEF Inv
<1>2. QED BY <1>1, Invariance, PTL

(* No slice of a validated batch is empty, is refused by the row group, or *)
(* trips an assertion.                                                     *)
THEOREM SlicesNeverFail == Spec => []SliceAccepted
<1>1. Inv => SliceAccepted
    <2> SUFFICES ASSUME Inv, pending.call = "append_column_batch" PROVE SliceAccepted
        BY DEF SliceAccepted
    <2> DEFINE batch == pending.batch
               start == pending.start
               room  == SealActiveIfFull(Storage)
               count == SliceCount(room, batch, start)
               slice == MakeBatchSlice(batch, start, count)
    <2>1. LogHeld /\ PendingOK
        BY InvParts
    <2>2. /\ batch \in ColumnBatches /\ ValidateColumnBatch(batch)
          /\ start \in Nat /\ start < batch.row_count
        BY <2>1, CandidateBatchesAssumption DEF PendingOK, PendingCalls, NoCall
    <2>3. Storage = [sealed |-> sealed_row_groups, active |-> active]
        BY DEF Storage
    <2>4. /\ count \in 1 .. batch.row_count - start
          /\ ExactBatch(slice) /\ slice \in ColumnBatches /\ slice.row_count = count
          /\ RowGroupAppendColumnBatch(room.active, slice).status = "Ok"
        <3>1. Holds(sealed_row_groups, active, log)
            BY <2>1 DEF LogHeld
        <3> HIDE DEF batch, start
        <3>2. SliceWritten(Storage, log, batch, start)
            BY <2>2, <2>3, <3>1, AppendSliceKeeps
        <3>3. QED BY <3>2 DEF SliceWritten
    <2>5. count \in Nat /\ count > 0
        BY <2>2, <2>4 DEF ColumnBatches
    <2> HIDE DEF room, count, slice
    <2>6. ASSUME NEW c \in Columns, Schema[c] = "Text"
          PROVE  /\ AppendBatchAsserts(slice.columns[c].offsets, slice.columns[c].bytes, count)
                 /\ slice.columns[c].offsets[count + 1] = Len(slice.columns[c].bytes)
        <3> DEFINE view == slice.columns[c]
        <3>1. /\ Len(view.offsets) = count + 1
              /\ view.offsets[count + 1] <= Len(view.bytes)
              /\ view.offsets[count + 1] = Len(view.bytes)
            BY <2>4, <2>6, ValidView DEF ExactBatch
        <3> HIDE DEF view
        <3>2. QED BY <2>5, <3>1 DEF AppendBatchAsserts, view
    <2>7. QED BY <2>4, <2>5, <2>6 DEF SliceAccepted, room, count, slice
<1>2. QED BY <1>1, Invariance, PTL

(* Sealed groups never change and never move.                              *)
THEOREM SealedStay == Spec => SealedGroupsImmutable
<1>1. Inv /\ [Next]_vars => [IsPrefix(sealed_row_groups, sealed_row_groups')]_vars
    BY StepKeeps DEF Kept
<1>2. QED BY <1>1, Invariance, PTL DEF Spec, SealedGroupsImmutable

-----------------------------------------------------------------------------
(***************************************************************************)
(* The refinement.                                                         *)
(***************************************************************************)
(* What is left of a log without its last k rows.                          *)
LEMMA FrontOfLog ==
    ASSUME NEW lg \in Seq(GoodRows), NEW k \in Nat, k <= Len(lg)
    PROVE  LET front == SubSeq(lg, 1, Len(lg) - k)
           IN  /\ front \in Seq(GoodRows) /\ Len(front) = Len(lg) - k
               /\ \A i \in 1 .. Len(lg) - k : front[i] = lg[i]
               /\ k = 0 => front = lg
<1> DEFINE n     == Len(lg) - k
           front == SubSeq(lg, 1, n)
<1>1. Len(lg) \in Nat
    BY LenProperties
<1>2. n \in Nat /\ n <= Len(lg)
    BY <1>1
<1>3. k = 0 => n = Len(lg)
    BY <1>1
<1> HIDE DEF n
<1>4. \A i \in 1 .. n : lg[i] \in GoodRows
    BY <1>1, <1>2, ElementOfSeq
<1>5. front \in Seq(GoodRows) /\ Len(front) = n /\ \A i \in 1 .. n : front[i] = lg[i]
    BY <1>2, <1>4, SubSeqProperties
<1>6. k = 0 => front = lg
    BY <1>3, SubSeqFull
<1>7. QED BY <1>5, <1>6 DEF n

LEMMA LogLength == LogHeld => log \in Seq(GoodRows) /\ Len(log) \in Nat
    BY LenProperties DEF LogHeld, Holds

(* Without a pending batch the whole log is visible.                       *)
LEMMA AllVisible ==
    LogHeld /\ pending.call # "append_column_batch" => VisibleRows = log
<1> SUFFICES ASSUME LogHeld, pending.call # "append_column_batch" PROVE VisibleRows = log
    OBVIOUS
<1>1. log \in Seq(GoodRows) /\ Len(log) \in Nat
    BY LogLength
<1>2. VisibleRows = SubSeq(log, 1, Len(log) - 0)
    BY DEF VisibleRows, PendingBatchRows
<1>3. QED BY <1>1, <1>2, FrontOfLog

(* The abstract table reads rows and batches the way TableStorage does.    *)
LEMMA SameInputs ==
    /\ \A row : Abstract!ValidateValues(row) = ValidateValues(row)
    /\ \A batch : Abstract!ValidateColumnBatch(batch) = ValidateColumnBatch(batch)
    /\ \A batch : Abstract!BatchRows(batch) = BatchRows(batch)
<1>1. Abstract!Columns = Columns
    BY DEF Abstract!Columns, Columns
<1>2. \A row : Abstract!ValidateValues(row) = ValidateValues(row)
    BY <1>1 DEF Abstract!ValidateValues, ValidateValues
<1>3. \A batch : Abstract!ValidateColumnBatch(batch) = ValidateColumnBatch(batch)
    BY <1>1 DEF Abstract!ValidateColumnBatch, ValidateColumnBatch,
                Abstract!ValidateIntView, ValidateIntView,
                Abstract!ValidateTextView, ValidateTextView,
                Abstract!TextOffsetsAreMonotonic, TextOffsetsAreMonotonic
<1>4. \A batch : Abstract!BatchRows(batch) = BatchRows(batch)
    BY <1>1 DEF Abstract!BatchRows, BatchRows, Abstract!BatchRow, BatchRow,
                Abstract!BatchCell, BatchCell, Abstract!IntValue, IntValue,
                Abstract!TextValue, TextValue
<1>5. QED BY <1>2, <1>3, <1>4

(* A slice is a stutter of the abstract table, the last one is PutBatch.   *)
LEMMA SliceStep ==
    ASSUME Inv, Inv', AppendColumnBatchStep
    PROVE  Abstract!PutBatch \/ UNCHANGED Abstract!abstractVars
<1> DEFINE batch == pending.batch
           start == pending.start
           n     == Len(log) - start
<1>1. LogHeld /\ PendingOK /\ PendingBatchLogged /\ pending.call = "append_column_batch"
    BY InvParts DEF AppendColumnBatchStep
<1>2. /\ batch \in CandidateBatches /\ batch \in ColumnBatches
      /\ ValidateColumnBatch(batch) /\ batch.row_count \in Nat
      /\ start \in Nat /\ start < batch.row_count
    BY <1>1, BatchStepFacts
<1>3. PICK count \in 1 .. batch.row_count - start :
         /\ log' = log \o [i \in 1 .. count |-> BatchRow(batch, start + i)]
         /\ LogHeld' /\ IsPrefix(sealed_row_groups, sealed_row_groups')
         /\ IF start + count >= batch.row_count
            THEN pending' = NoCall /\ status' = "Ok"
            ELSE pending' = BatchCall(batch, start + count) /\ status' = "Running"
    BY <1>1, BatchStepFacts
<1>4. /\ start <= Len(log) /\ Len(log) \in Nat /\ n \in Nat
      /\ VisibleRows \in Seq(GoodRows) /\ Len(VisibleRows) = n
      /\ \A i \in 1 .. n : VisibleRows[i] = log[i]
      /\ \A i \in 1 .. start : log[n + i] = BatchRow(batch, i)
    <2>1. /\ start \in Nat /\ start <= Len(log) /\ Len(log) \in Nat
          /\ VisibleRows \in Seq(GoodRows) /\ Len(VisibleRows) = n
          /\ \A i \in 1 .. n : VisibleRows[i] = log[i]
        <3>1. log \in Seq(GoodRows) /\ Len(log) \in Nat
            BY <1>1, LogLength
        <3>2. start <= Len(log)
            BY <1>1 DEF PendingBatchLogged
        <3>3. VisibleRows = SubSeq(log, 1, Len(log) - start)
            BY <1>1 DEF VisibleRows, PendingBatchRows
        <3> HIDE DEF start
        <3>4. QED BY <1>2, <3>1, <3>2, <3>3, FrontOfLog
    <2>2. \A i \in 1 .. start : log[n + i] = BatchRow(batch, i)
        BY <1>1 DEF PendingBatchLogged
    <2>3. QED BY <2>1, <2>2
<1>5. /\ Len(log') = Len(log) + count
      /\ \A i \in 1 .. Len(log) : log'[i] = log[i]
      /\ \A i \in 1 .. count : log'[Len(log) + i] = BatchRow(batch, start + i)
    <2> DEFINE f == [i \in 1 .. count |-> BatchRow(batch, start + i)]
    <2>1. count \in Nat /\ log' = log \o [i \in 1 .. count |-> f[i]]
        BY <1>2, <1>3
    <2> HIDE DEF f
    <2>2. /\ Len(log') = Len(log) + count
          /\ \A i \in 1 .. Len(log) : log'[i] = log[i]
          /\ \A i \in 1 .. count : log'[Len(log) + i] = f[i]
        BY <1>1, <2>1, LogAfterSlice
    <2>3. \A i \in 1 .. count : f[i] = BatchRow(batch, start + i)
        BY DEF f
    <2>4. QED BY <2>2, <2>3
<1>6. /\ log' \in Seq(GoodRows) /\ Len(log') \in Nat /\ count \in Nat
      /\ start + count \in Nat /\ start + count <= Len(log')
    <2>1. log' \in Seq(GoodRows) /\ Len(log') \in Nat
        BY <1>3, LenProperties DEF LogHeld, Holds
    <2>2. QED BY <1>2, <1>3, <1>4, <1>5, <2>1
<1>7. VisibleCall = [call |-> "append_column_batch", batch |-> batch]
    BY <1>1 DEF VisibleCall
<1>8. CASE ~(start + count >= batch.row_count)
    <2>1. pending' = BatchCall(batch, start + count) /\ status' = "Running"
        BY <1>3, <1>8
    <2>2. status = "Running"
        BY <1>1 DEF PendingOK, NoCall
    <2>3. VisibleCall' = [call |-> "append_column_batch", batch |-> batch]
        BY <2>1 DEF VisibleCall, BatchCall
    <2>4. VisibleRows' = SubSeq(log', 1, Len(log') - (start + count))
        BY <2>1 DEF VisibleRows, PendingBatchRows, BatchCall
    <2>5. Len(log') - (start + count) = n
        BY <1>2, <1>3, <1>4, <1>5, <1>6
    <2> HIDE DEF n, batch, start
    <2>6. /\ VisibleRows' \in Seq(GoodRows) /\ Len(VisibleRows') = n
          /\ \A i \in 1 .. n : VisibleRows'[i] = log'[i]
        BY <1>6, <2>4, <2>5, FrontOfLog
    <2>7. \A i \in 1 .. n : VisibleRows'[i] = VisibleRows[i]
        <3>1. \A i \in 1 .. n : i \in 1 .. Len(log)
            BY <1>2, <1>4 DEF n, start
        <3>2. QED BY <1>4, <1>5, <2>6, <3>1
    <2>8. VisibleRows' = VisibleRows
        BY <1>4, <2>6, <2>7, SeqEqual
    <2>9. QED BY <1>7, <2>1, <2>2, <2>3, <2>8 DEF Abstract!abstractVars
<1>9. CASE start + count >= batch.row_count
    <2>1. pending' = NoCall /\ status' = "Ok" /\ start + count = batch.row_count
        <3>1. pending' = NoCall /\ status' = "Ok"
            BY <1>3, <1>9
        <3> HIDE DEF batch, start
        <3>2. count \in Nat /\ count <= batch.row_count - start
            BY <1>2, <1>6
        <3>3. start + count = batch.row_count
            BY <1>2, <1>9, <3>2
        <3>4. QED BY <3>1, <3>3
    <2>2. VisibleRows' = log'
        BY <1>3, <2>1, <1>6, FrontOfLog DEF VisibleRows, PendingBatchRows, NoCall
    <2>3. VisibleCall' = [call |-> "none"]
        BY <2>1 DEF VisibleCall, NoCall
    <2> DEFINE total == batch.row_count
    <2>4. /\ BatchRows(batch) \in Seq(GoodRows) /\ Len(BatchRows(batch)) = total
          /\ \A i \in 1 .. total : BatchRows(batch)[i] = BatchRow(batch, i)
        <3>1. \A i \in 1 .. total : BatchRow(batch, i) \in GoodRows
            BY <1>2, BatchRowValid
        <3>2. BatchRows(batch) = [i \in 1 .. total |-> BatchRow(batch, i)]
            BY DEF BatchRows
        <3> HIDE DEF total
        <3>3. total \in Nat
            BY <1>2 DEF total
        <3>4. QED BY <3>1, <3>2, <3>3
    <2> HIDE DEF n, batch, start, total
    <2>5. /\ VisibleRows \o BatchRows(batch) \in Seq(GoodRows)
          /\ Len(VisibleRows \o BatchRows(batch)) = n + total
          /\ \A i \in 1 .. n + total :
                (VisibleRows \o BatchRows(batch))[i]
                    = IF i <= n THEN VisibleRows[i] ELSE BatchRows(batch)[i - n]
        <3> DEFINE old == VisibleRows
                   new == BatchRows(batch)
        <3>1. old \in Seq(GoodRows) /\ Len(old) = n /\ new \in Seq(GoodRows) /\ Len(new) = total
            BY <1>4, <2>4
        <3> HIDE DEF old, new
        <3>2. /\ old \o new \in Seq(GoodRows)
              /\ Len(old \o new) = Len(old) + Len(new)
              /\ \A i \in 1 .. Len(old) + Len(new) :
                    (old \o new)[i] = IF i <= Len(old) THEN old[i] ELSE new[i - Len(old)]
            BY <3>1, ConcatProperties
        <3>3. QED BY <3>1, <3>2 DEF old, new
    <2>6. n + total = Len(log') /\ total \in Nat
        BY <1>2, <1>3, <1>4, <1>5, <1>6, <2>1 DEF n, total, batch, start
    <2>7. ASSUME NEW i \in 1 .. n + total
          PROVE  (VisibleRows \o BatchRows(batch))[i] = log'[i]
        <3>0. /\ n \in Nat /\ start \in Nat /\ count \in Nat /\ total \in Nat
              /\ start + count = total /\ Len(log) = n + start /\ i \in 1 .. n + total
            BY <1>2, <1>4, <1>6, <2>1, <2>6 DEF n, total
        <3>1. CASE i <= n
            <4>1. i \in 1 .. n /\ i \in 1 .. Len(log)
                BY <3>0, <3>1
            <4>2. QED BY <1>4, <1>5, <2>5, <3>1, <4>1
        <3>2. CASE ~(i <= n) /\ i - n <= start
            <4> DEFINE j == i - n
            <4>1. j \in 1 .. start /\ j \in 1 .. total /\ n + j = i /\ i \in 1 .. Len(log)
                BY <1>2, <1>4, <2>6, <3>2, <3>0
            <4>2. (VisibleRows \o BatchRows(batch))[i] = BatchRows(batch)[j]
                BY <2>5, <3>2
            <4> HIDE DEF j
            <4>3. PICK q : q = n + j
                OBVIOUS
            <4>4. log[q] = BatchRow(batch, j)
                BY <1>4, <4>1, <4>3
            <4>5. q = i
                BY <4>1, <4>3
            <4>6. QED BY <1>5, <2>4, <4>1, <4>2, <4>4, <4>5
        <3>3. CASE ~(i <= n) /\ ~(i - n <= start)
            <4> DEFINE j == i - n
                       m == j - start
            <4>1. /\ m \in 1 .. count /\ j \in 1 .. total
                  /\ Len(log) + m = i /\ start + m = j
                BY <3>0, <3>3
            <4>2. (VisibleRows \o BatchRows(batch))[i] = BatchRows(batch)[j]
                BY <2>5, <3>3
            <4> HIDE DEF j, m
            <4>3. PICK q : q = Len(log) + m
                OBVIOUS
            <4>4. PICK r : r = start + m
                OBVIOUS
            <4>5. log'[q] = BatchRow(batch, r)
                BY <1>5, <4>1, <4>3, <4>4
            <4>6. q = i /\ r = j
                BY <4>1, <4>3, <4>4
            <4>7. QED BY <2>4, <4>1, <4>2, <4>5, <4>6
        <3>4. QED BY <3>1, <3>2, <3>3
    <2>8. VisibleRows' = VisibleRows \o BatchRows(batch)
        BY <1>6, <2>2, <2>5, <2>6, <2>7, SeqEqual
    <2>9. QED BY <1>7, <2>1, <2>3, <2>8, SameInputs DEF Abstract!PutBatch, Abstract!Return
<1>10. QED BY <1>8, <1>9

(* Every other step is the step of the same name.                          *)
LEMMA OtherSteps ==
    ASSUME Inv, Inv'
    PROVE  /\ \A values \in CandidateRows : AppendRow(values) => Abstract!PutRow(values)
           /\ \A rows \in RowSpans : BeginAppendRows(rows) => Abstract!StartRows(rows)
           /\ AppendRowsStep => Abstract!PutNextRow
           /\ \A batch \in CandidateBatches :
                 BeginAppendColumnBatch(batch) => Abstract!StartBatch(batch)
<1>1. LogHeld /\ PendingOK /\ log \in Seq(GoodRows)
    BY InvParts, LogLength
<1>2. LogHeld' /\ log' \in Seq(GoodRows)
    <2>1. (Inv => LogHeld)'
        BY InvParts, PTL
    <2>2. QED BY <2>1 DEF LogHeld, Holds
<1>3. ASSUME pending.call # "append_column_batch"
      PROVE  VisibleRows = log /\ VisibleCall = pending
    BY <1>1, <1>3, AllVisible DEF VisibleCall
<1>4. ASSUME pending'.call # "append_column_batch"
      PROVE  VisibleRows' = log' /\ VisibleCall' = pending'
    <2>1. (LogHeld /\ pending.call # "append_column_batch" => VisibleRows = log)'
        BY AllVisible, PTL
    <2>2. QED BY <1>2, <1>4, <2>1 DEF VisibleCall
<1>5. Storage = [sealed |-> sealed_row_groups, active |-> active]
    BY DEF Storage
<1>6. ASSUME NEW row \in CandidateRows
      PROVE  AppendToActive(Storage, row).status
                = IF ValidateValues(row) THEN "Ok" ELSE "RowRejected"
    BY <1>1, <1>5, <1>6, CandidateRowsAssumption, AppendToActiveKeeps DEF LogHeld
<1>7. ASSUME NEW values \in CandidateRows, AppendRow(values)
      PROVE  Abstract!PutRow(values)
    <2>1. /\ pending = NoCall /\ pending' = NoCall
          /\ status' = IF ValidateValues(values) THEN "Ok" ELSE "RowRejected"
          /\ log' = IF ValidateValues(values) THEN Append(log, values) ELSE log
        BY <1>6, <1>7 DEF AppendRow
    <2>2. /\ VisibleRows = log /\ VisibleCall = [call |-> "none"]
          /\ VisibleRows' = log' /\ VisibleCall' = [call |-> "none"]
        BY <1>3, <1>4, <2>1 DEF NoCall
    <2>3. QED BY <2>1, <2>2, SameInputs DEF Abstract!PutRow, Abstract!Idle, Abstract!Return
<1>8. ASSUME NEW rows \in RowSpans, BeginAppendRows(rows)
      PROVE  Abstract!StartRows(rows)
    <2>1. /\ pending = NoCall /\ log' = log
          /\ IF rows = << >> THEN pending' = NoCall /\ status' = "Ok"
                             ELSE pending' = RowsCall(rows) /\ status' = "Running"
        BY <1>8 DEF BeginAppendRows
    <2>2. /\ VisibleRows = log /\ VisibleCall = [call |-> "none"]
          /\ VisibleRows' = log' /\ VisibleCall' = pending'
        BY <1>3, <1>4, <2>1 DEF NoCall, RowsCall
    <2>3. QED BY <2>1, <2>2
          DEF Abstract!StartRows, Abstract!Idle, Abstract!Return, Abstract!Continue,
              NoCall, RowsCall
<1>9. ASSUME AppendRowsStep
      PROVE  Abstract!PutNextRow
    <2> DEFINE row  == Head(pending.rows)
               rest == Tail(pending.rows)
    <2>1. row \in CandidateRows
        <3>1. pending.rows \in Seq(CandidateRows) /\ pending.rows # << >>
            BY <1>1, <1>9 DEF AppendRowsStep, PendingOK, PendingCalls, NoCall
        <3>2. QED BY <3>1, HeadTailProperties
    <2>2. /\ pending.call = "append_rows"
          /\ IF ValidateValues(row) /\ rest # << >>
             THEN pending' = RowsCall(rest) /\ status' = "Running"
             ELSE pending' = NoCall
                  /\ status' = IF ValidateValues(row) THEN "Ok" ELSE "RowRejected"
          /\ log' = IF ValidateValues(row) THEN Append(log, row) ELSE log
        BY <1>6, <1>9, <2>1 DEF AppendRowsStep
    <2>3. /\ VisibleRows = log /\ VisibleCall = pending
          /\ VisibleRows' = log' /\ VisibleCall' = pending'
        BY <1>3, <1>4, <2>2 DEF NoCall, RowsCall
    <2>4. QED BY <2>2, <2>3, SameInputs
          DEF Abstract!PutNextRow, Abstract!Return, Abstract!Continue, NoCall, RowsCall
<1>10. ASSUME NEW batch \in CandidateBatches, BeginAppendColumnBatch(batch)
       PROVE  Abstract!StartBatch(batch)
    <2>1. /\ pending = NoCall /\ log' = log
          /\ IF ~ValidateColumnBatch(batch) THEN pending' = NoCall /\ status' = "BatchRejected"
             ELSE IF batch.row_count = 0 THEN pending' = NoCall /\ status' = "Ok"
             ELSE pending' = BatchCall(batch, 0) /\ status' = "Running"
        BY <1>10 DEF BeginAppendColumnBatch
    <2>2. VisibleRows = log /\ VisibleCall = [call |-> "none"]
        BY <1>3, <2>1 DEF NoCall
    <2>3. CASE pending' = NoCall
        <3>1. VisibleRows' = log' /\ VisibleCall' = [call |-> "none"]
            BY <1>4, <2>3 DEF NoCall
        <3>2. NoCall # BatchCall(batch, 0)
            BY DEF NoCall, BatchCall
        <3>3. QED BY <2>1, <2>2, <2>3, <3>1, <3>2, SameInputs
              DEF Abstract!StartBatch, Abstract!Idle, Abstract!Return
    <2>4. CASE pending' = BatchCall(batch, 0)
        <3>1. VisibleCall' = [call |-> "append_column_batch", batch |-> batch]
            BY <2>4 DEF VisibleCall, BatchCall
        <3>2. VisibleRows' = SubSeq(log', 1, Len(log') - 0)
            BY <2>4 DEF VisibleRows, PendingBatchRows, BatchCall
        <3>3. VisibleRows' = log
            BY <1>1, <2>1, <3>2, FrontOfLog, LogLength
        <3>4. NoCall # BatchCall(batch, 0)
            BY DEF NoCall, BatchCall
        <3>5. QED BY <2>1, <2>2, <2>4, <3>1, <3>3, <3>4, SameInputs
              DEF Abstract!StartBatch, Abstract!Idle, Abstract!Continue
    <2>5. QED BY <2>1, <2>3, <2>4
<1>11. QED BY <1>7, <1>8, <1>9, <1>10

(* A table is an append-only sequence of rows: it answers Ok exactly when  *)
(* it holds what it was given, and a column batch is all or nothing.       *)
THEOREM Implementation == Spec => ImplementsAppendOnlyTable
<1>1. Init => Abstract!AbstractInit
    <2> SUFFICES ASSUME Init PROVE Abstract!AbstractInit
        OBVIOUS
    <2>1. LogHeld /\ pending = NoCall
        BY InitInv, InvParts DEF Init
    <2>2. VisibleRows = << >> /\ VisibleCall = [call |-> "none"]
        BY <2>1, AllVisible DEF Init, NoCall, VisibleCall
    <2>3. QED BY <2>2 DEF Init, Abstract!AbstractInit
<1>2. Inv /\ Inv' /\ [Next]_vars => [Abstract!AbstractNext]_Abstract!abstractVars
    <2> SUFFICES ASSUME Inv, Inv', [Next]_vars
                 PROVE  [Abstract!AbstractNext]_Abstract!abstractVars
        OBVIOUS
    <2>1. CASE AppendColumnBatchStep
        BY <2>1, SliceStep DEF Abstract!AbstractNext
    <2>2. CASE \/ \E values \in CandidateRows : AppendRow(values)
               \/ \E rows \in RowSpans : BeginAppendRows(rows)
               \/ AppendRowsStep
               \/ \E batch \in CandidateBatches : BeginAppendColumnBatch(batch)
        BY <2>2, OtherSteps DEF Abstract!AbstractNext
    <2>3. CASE UNCHANGED vars
        BY <2>3 DEF vars, VisibleRows, PendingBatchRows, VisibleCall, Abstract!abstractVars
    <2>4. QED BY <2>1, <2>2, <2>3 DEF Next
<1>3. QED BY <1>1, <1>2, Invariance, PTL
      DEF Spec, ImplementsAppendOnlyTable, Abstract!AbstractSpec

-----------------------------------------------------------------------------
(***************************************************************************)
(* Reading a table.  Text reads stay inside the blob (ReadsInBounds), also *)
(* when the blob has outgrown the offsets, for groups that are not         *)
(* addressable and of which the other invariants claim nothing.  And the   *)
(* scans deliver the accepted rows in order (ScanYieldsLog,                *)
(* ProjectedScanYieldsLog).                                                *)
(***************************************************************************)

(* Arithmetic modulo OffsetRange.                                          *)
LEMMA ToUint32Small ==
    ASSUME NEW n \in Nat
    PROVE  ToUint32(n) \in Nat /\ ToUint32(n) <= n
BY OffsetRangeAssumption DEF ToUint32

LEMMA ToUint32Period ==
    ASSUME NEW n \in Int
    PROVE  ToUint32(n + OffsetRange) = ToUint32(n)
<1> DEFINE W == OffsetRange
           q == n \div W
           p == (n + W) \div W
           r == n % W
           s == (n + W) % W
<1>1. W \in Int /\ W > 0 /\ n + W \in Int
    BY OffsetRangeAssumption
<1> HIDE DEF W
<1>2. q \in Int /\ r \in 0 .. W - 1 /\ n = W * q + r
    BY <1>1
<1>3. p \in Int /\ s \in 0 .. W - 1 /\ n + W = W * p + s
    BY <1>1
<1> HIDE DEF q, p, r, s
<1> DEFINE d == p - q - 1
<1>4. d \in Int /\ p = q + 1 + d
    BY <1>2, <1>3
<1> HIDE DEF d
<1>5. W * p = W * q + W + W * d /\ W * d \in Int /\ W * q \in Int
    BY <1>1, <1>2, <1>4
<1>6. W * d = r - s
    BY <1>1, <1>2, <1>3, <1>5
<1>7. d = 0
    <2>1. d >= 1 => W * d >= W
        BY <1>1, <1>4
    <2>2. d <= -1 => W * d <= -W
        BY <1>1, <1>4
    <2>3. QED BY <1>1, <1>2, <1>3, <1>4, <1>6, <2>1, <2>2
<1>8. r = s
    BY <1>1, <1>2, <1>3, <1>6, <1>7
<1>9. QED BY <1>8 DEF ToUint32, r, s, W

(* A text that starts at a and ends at b is read at a place, and with a    *)
(* length, that end at b or before, whatever the wraps.                    *)
LEMMA WrappedTextEnds ==
    ASSUME NEW a \in Nat, NEW b \in Nat, a <= b
    PROVE  ToUint32(a) + ToUint32(ToUint32(b) - ToUint32(a)) <= b
<1> DEFINE start == ToUint32(a)
           end   == ToUint32(b)
<1>1. OffsetRange \in Nat /\ OffsetRange > 0 /\ start \in Offsets /\ end \in Offsets
    BY OffsetRangeAssumption, ToUint32Type
<1>2. start \in 0 .. OffsetRange - 1 /\ end \in 0 .. OffsetRange - 1
    BY <1>1 DEF Offsets
<1>3. start <= a /\ end <= b
    BY ToUint32Small
<1>4. CASE start <= end
    <2> HIDE DEF start, end
    <2>1. end - start \in Offsets
        BY <1>1, <1>2, <1>4 DEF Offsets
    <2>2. ToUint32(end - start) = end - start
        BY <2>1, ToUint32Identity
    <2>3. start + (end - start) <= b
        BY <1>2, <1>3
    <2>4. QED BY <2>2, <2>3 DEF start, end
<1>5. CASE end < start
    <2>1. ~(b < OffsetRange)
        <3> SUFFICES ASSUME b < OffsetRange PROVE FALSE
            OBVIOUS
        <3>1. a \in Offsets /\ b \in Offsets
            BY <1>1 DEF Offsets
        <3>2. start = a /\ end = b
            BY <3>1, ToUint32Identity
        <3> HIDE DEF start, end
        <3>3. QED BY <1>5, <3>2
    <2>2. end <= b - OffsetRange
        <3> DEFINE c == b - OffsetRange
        <3>1. c \in Nat /\ c + OffsetRange = b
            BY <1>1, <2>1
        <3> HIDE DEF c
        <3>2. ToUint32(c) = ToUint32(c + OffsetRange) /\ ToUint32(c) <= c
            BY <3>1, ToUint32Period, ToUint32Small
        <3>3. ToUint32(c) = end
            BY <3>1, <3>2
        <3> HIDE DEF end
        <3>4. QED BY <3>1, <3>2, <3>3 DEF c
    <2> DEFINE d == end - start
    <2> HIDE DEF start, end
    <2>3. d \in Int /\ d + OffsetRange \in Offsets
        BY <1>1, <1>2, <1>5 DEF Offsets
    <2>4. ToUint32(d) = d + OffsetRange
        <3> HIDE DEF d
        <3>1. ToUint32(d + OffsetRange) = ToUint32(d)
            BY <2>3, ToUint32Period
        <3>2. QED BY <2>3, <3>1, ToUint32Identity
    <2>5. start + (d + OffsetRange) <= b
        BY <1>1, <1>2, <2>2
    <2>6. QED BY <2>4, <2>5 DEF start, end
<1>6. QED BY <1>2, <1>4, <1>5

-----------------------------------------------------------------------------
(***************************************************************************)
(* The invariant: every offset of a column is a place in its blob modulo   *)
(* OffsetRange, the places of later texts are no earlier.  The places are  *)
(* not stored by the code, so there only exists a list of them.            *)
(***************************************************************************)
AreStarts(starts, column) ==
    /\ starts \in [1 .. Len(column.offsets) -> 0 .. Len(column.bytes)]
    /\ \A i \in 1 .. Len(column.offsets) : column.offsets[i] = ToUint32(starts[i])
    /\ \A i \in 1 .. Len(column.offsets) - 1 : starts[i] <= starts[i + 1]
Started(column) == \E starts : AreStarts(starts, column)

(* With such a list, no text of a column is read outside its blob.         *)
LEMMA StartedReadsInBounds ==
    ASSUME NEW column \in TextColumnBuffers, Started(column),
           NEW i \in 1 .. Len(column.offsets)
    PROVE  column.offsets[i] + ToUint32(TextEnd(column, i) - column.offsets[i])
              <= Len(column.bytes)
<1> DEFINE n    == Len(column.offsets)
           size == Len(column.bytes)
<1>1. n \in Nat /\ size \in Nat
    BY LenProperties DEF TextColumnBuffers
<1>2. PICK starts : AreStarts(starts, column)
    BY DEF Started
<1>3. starts[i] \in 0 .. size /\ column.offsets[i] = ToUint32(starts[i])
    BY <1>2 DEF AreStarts
<1>4. CASE i < n
    <2>1. i + 1 \in 1 .. n /\ i \in 1 .. n - 1
        BY <1>1, <1>4
    <2>2. /\ starts[i + 1] \in 0 .. size /\ starts[i] <= starts[i + 1]
          /\ column.offsets[i + 1] = ToUint32(starts[i + 1])
        BY <1>2, <2>1 DEF AreStarts
    <2>3. TextEnd(column, i) = ToUint32(starts[i + 1])
        BY <1>4, <2>2 DEF TextEnd
    <2> DEFINE a == starts[i]
               b == starts[i + 1]
               top == ToUint32(a) + ToUint32(ToUint32(b) - ToUint32(a))
    <2>4. a \in Nat /\ b \in Nat /\ a <= b /\ b <= size
        BY <1>1, <1>3, <2>2
    <2> HIDE DEF a, b
    <2>5. top <= b
        BY <2>4, WrappedTextEnds
    <2>6. top \in Int
        <3>1. ToUint32(a) \in Int /\ ToUint32(b) \in Int
            BY <2>4, ToUint32Type DEF Offsets
        <3>2. ToUint32(ToUint32(b) - ToUint32(a)) \in Int
            BY <3>1, ToUint32Type DEF Offsets
        <3>3. QED BY <3>1, <3>2
    <2> HIDE DEF top
    <2>7. top <= size
        BY <1>1, <2>4, <2>5, <2>6
    <2>8. QED BY <1>3, <2>3, <2>7 DEF top, a, b
<1>5. CASE ~(i < n)
    <2>1. TextEnd(column, i) = ToUint32(size)
        BY <1>5 DEF TextEnd
    <2>2. starts[i] \in Nat /\ starts[i] <= size
        BY <1>1, <1>3
    <2>3. ToUint32(starts[i]) + ToUint32(ToUint32(size) - ToUint32(starts[i])) <= size
        BY <1>1, <2>2, WrappedTextEnds
    <2>4. QED BY <1>3, <2>1, <2>3
<1>6. QED BY <1>4, <1>5

(* Texts that are added behind the blob have places behind the old ones.   *)
LEMMA StartsExtend ==
    ASSUME NEW column \in TextColumnBuffers, Started(column),
           NEW after \in TextColumnBuffers, NEW m \in Nat, NEW more,
           Len(after.offsets) = Len(column.offsets) + m,
           Len(column.bytes) <= Len(after.bytes),
           \A i \in 1 .. Len(column.offsets) : after.offsets[i] = column.offsets[i],
           \A j \in 1 .. m :
              /\ after.offsets[Len(column.offsets) + j] = ToUint32(more[j])
              /\ more[j] \in Len(column.bytes) .. Len(after.bytes),
           \A j \in 1 .. m - 1 : more[j] <= more[j + 1]
    PROVE  Started(after)
<1> DEFINE n      == Len(column.offsets)
           size   == Len(column.bytes)
           longer == Len(after.bytes)
<1>1. n \in Nat /\ size \in Nat /\ longer \in Nat /\ size <= longer
    BY LenProperties DEF TextColumnBuffers
<1>2. PICK old : AreStarts(old, column)
    BY DEF Started
<1>3. /\ \A i \in 1 .. n : old[i] \in 0 .. size /\ column.offsets[i] = ToUint32(old[i])
      /\ \A i \in 1 .. n - 1 : old[i] <= old[i + 1]
    BY <1>2 DEF AreStarts
<1>4. \A j \in 1 .. m : /\ after.offsets[n + j] = ToUint32(more[j])
                        /\ more[j] \in size .. longer
    OBVIOUS
<1>5. Len(after.offsets) = n + m /\ \A i \in 1 .. n : after.offsets[i] = column.offsets[i]
    OBVIOUS
<1> HIDE DEF n, size, longer
<1> DEFINE new == [i \in 1 .. n + m |-> IF i <= n THEN old[i] ELSE more[i - n]]
<1>6. ASSUME NEW i \in 1 .. n + m
      PROVE  /\ i <= n => i \in 1 .. n /\ new[i] = old[i]
             /\ ~(i <= n) => i - n \in 1 .. m /\ n + (i - n) = i /\ new[i] = more[i - n]
    BY <1>1
<1>7. new \in [1 .. n + m -> 0 .. longer]
    <2>1. ASSUME NEW i \in 1 .. n + m
          PROVE  new[i] \in 0 .. longer
        <3> HIDE DEF new
        <3>1. CASE i <= n
            BY <1>1, <1>3, <1>6, <3>1
        <3>2. CASE ~(i <= n)
            <4>1. i - n \in 1 .. m /\ new[i] = more[i - n]
                BY <1>6, <3>2
            <4>2. more[i - n] \in size .. longer
                BY <1>4, <4>1
            <4>3. QED BY <1>1, <4>1, <4>2
        <3>3. QED BY <3>1, <3>2
    <2>2. new = [i \in 1 .. n + m |-> new[i]]
        OBVIOUS
    <2> HIDE DEF new
    <2>3. QED BY <2>1, <2>2
<1>8. ASSUME NEW i \in 1 .. n + m
      PROVE  after.offsets[i] = ToUint32(new[i])
    <2> HIDE DEF new
    <2>1. CASE i <= n
        BY <1>3, <1>5, <1>6, <2>1
    <2>2. CASE ~(i <= n)
        <3>1. PICK j : j = i - n
            OBVIOUS
        <3>2. j \in 1 .. m /\ n + j = i /\ new[i] = more[j]
            BY <1>6, <2>2, <3>1
        <3>3. after.offsets[n + j] = ToUint32(more[j])
            BY <1>4, <3>2
        <3>4. QED BY <3>2, <3>3
    <2>3. QED BY <2>1, <2>2
<1>9. ASSUME NEW i \in 1 .. n + m - 1
      PROVE  new[i] <= new[i + 1]
    <2> DEFINE k == i + 1
    <2>1. i \in 1 .. n + m /\ k \in 1 .. n + m /\ k = i + 1
        BY <1>1
    <2> HIDE DEF k, new
    <2>2. CASE k <= n
        <3>1. i \in 1 .. n - 1 /\ i <= n
            BY <1>1, <2>1, <2>2
        <3>2. old[i] <= old[k]
            BY <1>3, <2>1, <3>1
        <3>3. new[i] = old[i] /\ new[k] = old[k]
            BY <1>6, <2>1, <2>2, <3>1
        <3>4. QED BY <3>2, <3>3 DEF k
    <2>3. CASE i <= n /\ ~(k <= n)
        <3>1. new[i] = old[i] /\ old[i] \in 0 .. size
            BY <1>3, <1>6, <2>1, <2>3
        <3>2. k - n \in 1 .. m /\ new[k] = more[k - n]
            BY <1>6, <2>1, <2>3
        <3>3. new[k] \in size .. longer
            BY <1>4, <3>2
        <3>4. new[i] <= new[k]
            BY <1>1, <3>1, <3>3
        <3>5. QED BY <3>4 DEF k
    <2>4. CASE ~(i <= n)
        <3>1. PICK j : j = i - n
            OBVIOUS
        <3>2. j \in 1 .. m - 1 /\ k - n = j + 1 /\ ~(k <= n)
            BY <1>1, <2>1, <2>4, <3>1
        <3>3. new[i] = more[j] /\ new[k] = more[j + 1]
            BY <1>6, <2>1, <2>4, <3>1, <3>2
        <3>4. more[j] <= more[j + 1]
            BY <3>2
        <3>5. QED BY <3>3, <3>4 DEF k
    <2>5. QED BY <2>2, <2>3, <2>4
<1> HIDE DEF new
<1>10. AreStarts(new, after)
    <2>1. n + m = Len(after.offsets) /\ longer = Len(after.bytes)
        BY <1>5 DEF longer
    <2>2. new \in [1 .. Len(after.offsets) -> 0 .. Len(after.bytes)]
        BY <1>7, <2>1, Zenon
    <2>3. \A i \in 1 .. Len(after.offsets) : after.offsets[i] = ToUint32(new[i])
        BY <1>8, <2>1
    <2>4. \A i \in 1 .. Len(after.offsets) - 1 : new[i] <= new[i + 1]
        <3> TAKE i \in 1 .. Len(after.offsets) - 1
        <3>1. i \in 1 .. n + m - 1
            BY <1>1, <2>1
        <3>2. QED BY <1>9, <3>1
    <2>5. QED BY <2>2, <2>3, <2>4 DEF AreStarts
<1>11. QED BY <1>10 DEF Started

(* TextColumnBuffer::append.                                               *)
LEMMA TextAppendStarted ==
    ASSUME NEW column \in TextColumnBuffers, Started(column), NEW value \in Seq(Bytes)
    PROVE  Started(TextAppend(column, value))
<1> DEFINE after   == TextAppend(column, value)
           offsets == column.offsets
           bytes   == column.bytes
           next    == ToUint32(Len(bytes))
<1>1. /\ offsets \in Seq(Offsets) /\ bytes \in Seq(Bytes)
      /\ Len(offsets) \in Nat /\ Len(bytes) \in Nat /\ Len(value) \in Nat
    BY LenProperties DEF TextColumnBuffers
<1>2. next \in Offsets
    BY <1>1, ToUint32Type
<1>3. after = [type |-> "Text", offsets |-> Append(offsets, next), bytes |-> bytes \o value]
    BY DEF TextAppend
<1> HIDE DEF after, offsets, bytes, next
<1>4. /\ Append(offsets, next) \in Seq(Offsets)
      /\ Len(Append(offsets, next)) = Len(offsets) + 1
      /\ \A i \in 1 .. Len(offsets) : Append(offsets, next)[i] = offsets[i]
      /\ Append(offsets, next)[Len(offsets) + 1] = next
    BY <1>1, <1>2, AppendProperties
<1>5. bytes \o value \in Seq(Bytes) /\ Len(bytes \o value) = Len(bytes) + Len(value)
    BY <1>1, ConcatProperties
<1>6. after \in TextColumnBuffers
    BY <1>3, <1>4, <1>5 DEF TextColumnBuffers
<1> DEFINE more == [j \in 1 .. 1 |-> Len(bytes)]
<1>7. \A j \in 1 .. 1 : more[j] = Len(bytes) /\ j = 1
    OBVIOUS
<1> HIDE DEF more
<1>8. /\ Len(after.offsets) = Len(offsets) + 1 /\ Len(bytes) <= Len(after.bytes)
      /\ Len(after.bytes) \in Nat
      /\ \A i \in 1 .. Len(offsets) : after.offsets[i] = offsets[i]
      /\ \A j \in 1 .. 1 : after.offsets[Len(offsets) + j] = ToUint32(more[j])
    BY <1>1, <1>3, <1>4, <1>5, <1>7 DEF next
<1>9. /\ \A j \in 1 .. 1 : more[j] \in Len(bytes) .. Len(after.bytes)
      /\ \A j \in 1 .. 1 - 1 : more[j] <= more[j + 1]
    BY <1>1, <1>7, <1>8
<1>10. Started(after)
    BY <1>6, <1>8, <1>9, StartsExtend DEF offsets, bytes
<1>11. QED BY <1>10 DEF after

(* TextColumnBuffer::append_batch, on a view that validation let pass.     *)
LEMMA TextAppendBatchStarted ==
    ASSUME NEW column \in TextColumnBuffers, Started(column),
           NEW view_offsets \in Seq(Offsets), NEW view_bytes \in Seq(Bytes),
           NEW row_count \in Nat,
           Len(view_offsets) = row_count + 1,
           view_offsets[row_count + 1] <= Len(view_bytes),
           TextOffsetsAreMonotonic(view_offsets)
    PROVE  Started(TextAppendBatch(column, view_offsets, view_bytes, row_count))
<1> DEFINE after   == TextAppendBatch(column, view_offsets, view_bytes, row_count)
           offsets == column.offsets
           bytes   == column.bytes
           n       == Len(offsets)
           size    == Len(bytes)
           more    == [j \in 1 .. row_count |-> size + view_offsets[j]]
           moved   == [j \in 1 .. row_count |-> ToUint32(size + view_offsets[j])]
<1>1. /\ offsets \in Seq(Offsets) /\ bytes \in Seq(Bytes)
      /\ n \in Nat /\ size \in Nat /\ Len(view_bytes) \in Nat
    BY LenProperties DEF TextColumnBuffers
<1>2. \A j \in 1 .. row_count + 1 :
         view_offsets[j] \in Nat /\ view_offsets[j] <= Len(view_bytes)
    <2> TAKE j \in 1 .. row_count + 1
    <2>1. /\ j \in 1 .. Len(view_offsets) /\ row_count + 1 \in j .. Len(view_offsets)
          /\ row_count + 1 \in 1 .. Len(view_offsets)
        OBVIOUS
    <2>2. view_offsets[j] \in Nat /\ view_offsets[row_count + 1] \in Nat
        BY <2>1, ElementOfSeq, OffsetRangeAssumption DEF Offsets
    <2>3. view_offsets[j] <= view_offsets[row_count + 1]
        BY <2>1, MonotonicOffsets
    <2>4. QED BY <1>1, <2>2, <2>3
<1>3. after = [type |-> "Text", offsets |-> offsets \o moved, bytes |-> bytes \o view_bytes]
    BY DEF TextAppendBatch
<1> HIDE DEF after, offsets, bytes, n, size
<1>4. \A j \in 1 .. row_count :
         /\ more[j] = size + view_offsets[j]
         /\ moved[j] = ToUint32(more[j])
         /\ moved[j] \in Offsets
    <2> TAKE j \in 1 .. row_count
    <2>1. more[j] = size + view_offsets[j] /\ moved[j] = ToUint32(size + view_offsets[j])
        OBVIOUS
    <2>2. size + view_offsets[j] \in Int
        BY <1>1, <1>2
    <2>3. ToUint32(size + view_offsets[j]) \in Offsets
        BY <2>2, ToUint32Type
    <2>4. QED BY <2>1, <2>3
<1>5. moved \in Seq(Offsets) /\ Len(moved) = row_count
    <2>1. \A j \in 1 .. row_count : ToUint32(size + view_offsets[j]) \in Offsets
        BY <1>4
    <2>2. QED BY <2>1
<1> HIDE DEF more, moved
<1>6. /\ offsets \o moved \in Seq(Offsets) /\ Len(offsets \o moved) = n + row_count
      /\ \A i \in 1 .. n : (offsets \o moved)[i] = offsets[i]
      /\ \A j \in 1 .. row_count : (offsets \o moved)[n + j] = moved[j]
    <2>1. /\ offsets \o moved \in Seq(Offsets) /\ Len(offsets \o moved) = n + row_count
          /\ \A i \in 1 .. n + row_count :
                (offsets \o moved)[i] = IF i <= n THEN offsets[i] ELSE moved[i - n]
        BY <1>1, <1>5, ConcatProperties DEF n
    <2>2. \A i \in 1 .. n : (offsets \o moved)[i] = offsets[i]
        BY <1>1, <2>1
    <2>3. ASSUME NEW j \in 1 .. row_count
          PROVE  (offsets \o moved)[n + j] = moved[j]
        <3> DEFINE i == n + j
        <3>1. i \in 1 .. n + row_count /\ ~(i <= n) /\ i - n = j
            BY <1>1
        <3> HIDE DEF i
        <3>2. (offsets \o moved)[i] = moved[i - n]
            BY <2>1, <3>1
        <3>3. QED BY <3>1, <3>2 DEF i
    <2>4. QED BY <2>1, <2>2, <2>3
<1>7. bytes \o view_bytes \in Seq(Bytes) /\ Len(bytes \o view_bytes) = size + Len(view_bytes)
    BY <1>1, ConcatProperties DEF size
<1>8. after \in TextColumnBuffers
    BY <1>3, <1>6, <1>7 DEF TextColumnBuffers
<1>9. /\ Len(after.offsets) = n + row_count
      /\ Len(after.bytes) = size + Len(view_bytes)
      /\ \A i \in 1 .. n : after.offsets[i] = offsets[i]
      /\ \A j \in 1 .. row_count : after.offsets[n + j] = ToUint32(more[j])
    BY <1>3, <1>4, <1>6, <1>7
<1>10. /\ size <= Len(after.bytes)
       /\ \A j \in 1 .. row_count : more[j] \in size .. Len(after.bytes)
    <2>1. size <= Len(after.bytes)
        BY <1>1, <1>9
    <2>2. ASSUME NEW j \in 1 .. row_count
          PROVE  more[j] \in size .. Len(after.bytes)
        <3>1. more[j] = size + view_offsets[j]
            BY <1>4
        <3> DEFINE v     == view_offsets[j]
                   extra == Len(view_bytes)
        <3>2. v \in Nat /\ v <= extra /\ extra \in Nat /\ Len(after.bytes) = size + extra
            BY <1>1, <1>2, <1>9
        <3> HIDE DEF v, extra
        <3>3. more[j] = size + v
            BY <3>1 DEF v
        <3>4. QED BY <1>1, <3>2, <3>3
    <2>3. QED BY <2>1, <2>2
<1>11. ASSUME NEW j \in 1 .. row_count - 1
       PROVE  more[j] <= more[j + 1]
    <2>1. /\ j \in 1 .. row_count /\ j + 1 \in 1 .. row_count
          /\ j \in 1 .. Len(view_offsets) /\ j + 1 \in j .. Len(view_offsets)
        OBVIOUS
    <2>2. view_offsets[j] <= view_offsets[j + 1]
        BY <2>1, MonotonicOffsets
    <2>3. view_offsets[j] \in Nat /\ view_offsets[j + 1] \in Nat
        BY <1>2, <2>1
    <2>4. more[j] = size + view_offsets[j] /\ more[j + 1] = size + view_offsets[j + 1]
        BY <1>4, <2>1
    <2>5. QED BY <1>1, <2>2, <2>3, <2>4
<1>12. Started(after)
    BY <1>8, <1>9, <1>10, <1>11, StartsExtend DEF offsets, bytes, n, size
<1>13. QED BY <1>12 DEF after

-----------------------------------------------------------------------------
(* Row groups.                                                             *)
GroupStarted(group) == \A c \in Columns : Schema[c] = "Text" => Started(group[c])

LEMMA NewRowGroupStarted == GroupStarted(NewRowGroup)
<1> SUFFICES ASSUME NEW c \in Columns, Schema[c] = "Text"
             PROVE  Started(NewRowGroup[c])
    BY DEF GroupStarted
<1>1. NewRowGroup[c].offsets = << >> /\ NewRowGroup[c].bytes = << >>
    BY DEF NewRowGroup, MakeColumnBuffer
<1>2. Len(<< >>) = 0
    BY EmptySeq
<1> DEFINE starts == [i \in 1 .. 0 |-> 0]
<1>3. starts \in [1 .. 0 -> 0 .. 0]
    OBVIOUS
<1> HIDE DEF starts
<1>4. AreStarts(starts, NewRowGroup[c])
    BY <1>1, <1>2, <1>3 DEF AreStarts
<1>5. QED BY <1>4 DEF Started

LEMMA AppendValidatedRowStarted ==
    ASSUME NEW group \in RowGroups, GroupStarted(group),
           NEW values \in Seq(Values), ValidateValues(values)
    PROVE  GroupStarted(AppendValidatedRow(group, values))
<1> SUFFICES ASSUME NEW c \in Columns, Schema[c] = "Text"
             PROVE  Started(AppendValidatedRow(group, values)[c])
    BY DEF GroupStarted
<1>1. values[c].type = "Text" /\ values[c].data \in Seq(Bytes)
    BY ValidCell
<1>2. AppendValidatedRow(group, values)[c] = TextAppend(group[c], values[c].data)
    BY <1>1 DEF AppendValidatedRow
<1>3. group[c] \in TextColumnBuffers /\ Started(group[c])
    BY GroupColumn DEF GroupStarted
<1>4. QED BY <1>1, <1>2, <1>3, TextAppendStarted

LEMMA AppendValidatedBatchStarted ==
    ASSUME NEW group \in RowGroups, GroupStarted(group),
           NEW batch \in ColumnBatches, ValidateColumnBatch(batch)
    PROVE  GroupStarted(AppendValidatedBatch(group, batch))
<1> SUFFICES ASSUME NEW c \in Columns, Schema[c] = "Text"
             PROVE  Started(AppendValidatedBatch(group, batch)[c])
    BY DEF GroupStarted
<1> DEFINE view == batch.columns[c]
<1>1. /\ batch.row_count \in Nat /\ view.type = "Text"
      /\ view.offsets \in Seq(Offsets) /\ view.bytes \in Seq(Bytes)
      /\ Len(view.offsets) = batch.row_count + 1
      /\ view.offsets[batch.row_count + 1] <= Len(view.bytes)
      /\ TextOffsetsAreMonotonic(view.offsets)
    BY ValidView
<1>2. AppendValidatedBatch(group, batch)[c]
        = TextAppendBatch(group[c], view.offsets, view.bytes, batch.row_count)
    BY <1>1 DEF AppendValidatedBatch
<1>3. group[c] \in TextColumnBuffers /\ Started(group[c])
    BY GroupColumn DEF GroupStarted
<1> HIDE DEF view
<1>4. QED BY <1>1, <1>2, <1>3, TextAppendBatchStarted

-----------------------------------------------------------------------------
(***************************************************************************)
(* The storage: every group it holds is started.  That a slice is a valid  *)
(* batch, so that append_batch_to_active passes only such views on, is     *)
(* part of the invariant proved in TableStorageProofs.                     *)
(***************************************************************************)
AllStarted(sealed, act) ==
    /\ \A k \in 1 .. Len(sealed) : GroupStarted(sealed[k])
    /\ GroupStarted(act)

LEMMA SealStarted ==
    ASSUME NEW sealed \in Seq(RowGroups), NEW act \in RowGroups, AllStarted(sealed, act)
    PROVE  LET room == SealActiveIfFull([sealed |-> sealed, active |-> act])
           IN  AllStarted(room.sealed, room.active)
<1> DEFINE room == SealActiveIfFull([sealed |-> sealed, active |-> act])
<1>1. Len(sealed) \in Nat
    BY LenProperties
<1>2. CASE ~IsFull(act)
    BY <1>2 DEF SealActiveIfFull
<1>3. CASE IsFull(act)
    <2>1. room.sealed = Append(sealed, act) /\ room.active = NewRowGroup
        BY <1>3 DEF SealActiveIfFull
    <2> HIDE DEF room
    <2>2. /\ Len(room.sealed) = Len(sealed) + 1
          /\ \A k \in 1 .. Len(sealed) : room.sealed[k] = sealed[k]
          /\ room.sealed[Len(sealed) + 1] = act
        BY <1>1, <2>1, AppendProperties
    <2>3. \A k \in 1 .. Len(room.sealed) : k \in 1 .. Len(sealed) \/ k = Len(sealed) + 1
        BY <1>1, <2>2
    <2>4. \A k \in 1 .. Len(room.sealed) : GroupStarted(room.sealed[k])
        BY <2>2, <2>3 DEF AllStarted
    <2>5. QED BY <2>1, <2>4, NewRowGroupStarted DEF AllStarted, room
<1>4. QED BY <1>2, <1>3

LEMMA AppendToActiveStarted ==
    ASSUME NEW sealed, NEW act, NEW lg, Holds(sealed, act, lg), AllStarted(sealed, act),
           NEW values \in Seq(Values)
    PROVE  LET write == AppendToActive([sealed |-> sealed, active |-> act], values)
           IN  AllStarted(write.sealed, write.active)
<1> DEFINE room  == SealActiveIfFull([sealed |-> sealed, active |-> act])
           write == AppendToActive([sealed |-> sealed, active |-> act], values)
<1>1. AllStarted(room.sealed, room.active) /\ room.active \in RowGroups
    BY SealStarted, SealKeeps DEF Holds
<1>2. /\ write.sealed = room.sealed
      /\ write.active = RowGroupAppendRow(room.active, values).group
    BY DEF AppendToActive
<1> HIDE DEF room, write
<1>3. \/ write.active = room.active
      \/ ValidateValues(values) /\ write.active = AppendValidatedRow(room.active, values)
    BY <1>2 DEF RowGroupAppendRow
<1>4. GroupStarted(write.active)
    BY <1>1, <1>3, AppendValidatedRowStarted DEF AllStarted
<1>5. QED BY <1>1, <1>2, <1>4 DEF AllStarted, write

LEMMA AppendSliceStarted ==
    ASSUME NEW sealed, NEW act, NEW lg, Holds(sealed, act, lg), AllStarted(sealed, act),
           NEW batch \in ColumnBatches, ValidateColumnBatch(batch),
           NEW start \in Nat, start < batch.row_count
    PROVE  LET write == AppendSlice([sealed |-> sealed, active |-> act], batch, start)
           IN  AllStarted(write.sealed, write.active)
<1> DEFINE storage == [sealed |-> sealed, active |-> act]
           room    == SealActiveIfFull(storage)
           count   == SliceCount(room, batch, start)
           slice   == MakeBatchSlice(batch, start, count)
           written == RowGroupAppendColumnBatch(room.active, slice)
           new     == AppendValidatedBatch(room.active, slice)
           after   == SealActiveIfFull([sealed |-> room.sealed, active |-> written.group])
           write   == AppendSlice(storage, batch, start)
<1>1. AllStarted(room.sealed, room.active) /\ room.active \in RowGroups
    BY SealStarted, SealKeeps DEF Holds
<1>2. /\ slice \in ColumnBatches /\ ValidateColumnBatch(slice) /\ written.status = "Ok"
    <2>1. SliceWritten(storage, lg, batch, start)
        BY AppendSliceKeeps
    <2>2. QED BY <2>1 DEF SliceWritten, ExactBatch
<1>3. write.sealed = after.sealed /\ write.active = after.active
    BY <1>2 DEF AppendSlice
<1> HIDE DEF room, slice, write
<1>4. written.group = new
    BY <1>2 DEF RowGroupAppendColumnBatch
<1>5. room.sealed \in Seq(RowGroups) /\ new \in RowGroups
    <2>1. Holds(room.sealed, room.active, lg)
        BY SealKeeps DEF room
    <2>2. QED BY <1>2, <2>1, AppendValidatedBatchStructure DEF Holds
<1>6. AllStarted(room.sealed, new)
    BY <1>1, <1>2, AppendValidatedBatchStarted DEF AllStarted
<1> HIDE DEF new, written
<1>7. AllStarted(after.sealed, after.active)
    BY <1>4, <1>5, <1>6, SealStarted
<1>8. QED BY <1>3, <1>7 DEF write

GroupsStarted == AllStarted(sealed_row_groups, active)

LEMMA InitStarted == Init => GroupsStarted
<1>1. Len(<< >>) = 0
    BY EmptySeq
<1>2. QED BY <1>1, NewRowGroupStarted DEF Init, GroupsStarted, AllStarted

LEMMA StepStarted ==
    ASSUME Inv, GroupsStarted, Next
    PROVE  GroupsStarted'
<1>1. LogHeld /\ PendingOK
    BY InvParts
<1>2. Storage = [sealed |-> sealed_row_groups, active |-> active]
    BY DEF Storage
<1>3. ASSUME NEW values \in Seq(Values),
             sealed_row_groups' = AppendToActive(Storage, values).sealed,
             active' = AppendToActive(Storage, values).active
      PROVE  GroupsStarted'
    BY <1>1, <1>2, <1>3, AppendToActiveStarted DEF LogHeld, GroupsStarted
<1>4. CASE \E values \in CandidateRows : AppendRow(values)
    BY <1>3, <1>4, CandidateRowsAssumption DEF AppendRow
<1>5. CASE AppendRowsStep
    <2> DEFINE row == Head(pending.rows)
    <2>1. row \in Seq(Values)
        <3>1. pending.rows \in Seq(CandidateRows) /\ pending.rows # << >>
            BY <1>1, <1>5 DEF AppendRowsStep, PendingOK, PendingCalls, NoCall
        <3>2. row \in CandidateRows
            BY <3>1, HeadTailProperties
        <3>3. QED BY <3>2, CandidateRowsAssumption
    <2>2. /\ sealed_row_groups' = AppendToActive(Storage, row).sealed
          /\ active' = AppendToActive(Storage, row).active
        BY <1>5 DEF AppendRowsStep
    <2> HIDE DEF row
    <2>3. QED BY <1>3, <2>1, <2>2
<1>6. CASE \/ \E rows \in RowSpans : BeginAppendRows(rows)
           \/ \E batch \in CandidateBatches : BeginAppendColumnBatch(batch)
    BY <1>6 DEF BeginAppendRows, BeginAppendColumnBatch, GroupsStarted
<1>7. CASE AppendColumnBatchStep
    <2> DEFINE batch == pending.batch
               start == pending.start
               write == AppendSlice(Storage, batch, start)
    <2>1. /\ batch \in ColumnBatches /\ ValidateColumnBatch(batch)
          /\ start \in Nat /\ start < batch.row_count
        BY <1>1, <1>7, BatchStepFacts
    <2>2. AllStarted(write.sealed, write.active)
        BY <1>1, <1>2, <2>1, AppendSliceStarted DEF LogHeld, GroupsStarted
    <2>3. sealed_row_groups' = write.sealed /\ active' = write.active
        BY <1>7 DEF AppendColumnBatchStep
    <2> HIDE DEF write
    <2>4. QED BY <2>2, <2>3 DEF GroupsStarted
<1>8. QED BY <1>4, <1>5, <1>6, <1>7 DEF Next

LEMMA GroupsStartedReadsInBounds == Inv /\ GroupsStarted => ReadsInBounds
<1> SUFFICES ASSUME Inv, GroupsStarted,
                    NEW k \in 1 .. Len(sealed_row_groups) + 1, NEW c \in Columns,
                    Schema[c] = "Text",
                    NEW i \in 1 .. Len(GroupsInOrder[k][c].offsets)
             PROVE  GroupsInOrder[k][c].offsets[i]
                      + ToUint32(TextEnd(GroupsInOrder[k][c], i) - GroupsInOrder[k][c].offsets[i])
                          <= Len(GroupsInOrder[k][c].bytes)
    BY DEF ReadsInBounds
<1>1. sealed_row_groups \in Seq(RowGroups) /\ active \in RowGroups
    BY DEF Inv, TypeOK
<1>2. Len(sealed_row_groups) \in Nat
    BY <1>1, LenProperties
<1>3. /\ \A j \in 1 .. Len(sealed_row_groups) : GroupsInOrder[j] = sealed_row_groups[j]
      /\ GroupsInOrder[Len(sealed_row_groups) + 1] = active
    BY <1>1, AppendProperties DEF GroupsInOrder
<1>4. k \in 1 .. Len(sealed_row_groups) \/ k = Len(sealed_row_groups) + 1
    BY <1>2
<1>5. GroupsInOrder[k] \in RowGroups /\ GroupStarted(GroupsInOrder[k])
    BY <1>1, <1>3, <1>4, ElementOfSeq DEF GroupsStarted, AllStarted
<1>6. GroupsInOrder[k][c] \in TextColumnBuffers /\ Started(GroupsInOrder[k][c])
    BY <1>5, GroupColumn DEF GroupStarted
<1>7. QED BY <1>6, StartedReadsInBounds

(* No read of a text leaves the blob, whatever was appended and however    *)
(* often the offsets have wrapped: TextColumnBuffer::at                    *)
(* (column_buffer.cpp:58-64) needs no check.                               *)
THEOREM ReadsStayInBounds == Spec => []ReadsInBounds
<1>1. Init => GroupsStarted
    BY InitStarted
<1>2. Inv /\ GroupsStarted /\ [Next]_vars => GroupsStarted'
    <2> SUFFICES ASSUME Inv, GroupsStarted, [Next]_vars PROVE GroupsStarted'
        OBVIOUS
    <2>1. CASE Next
        BY <2>1, StepStarted
    <2>2. CASE UNCHANGED vars
        BY <2>2 DEF vars, GroupsStarted
    <2>3. QED BY <2>1, <2>2
<1>3. Inv /\ GroupsStarted => ReadsInBounds
    BY GroupsStartedReadsInBounds
<1>4. QED BY <1>1, <1>2, <1>3, Invariance, PTL DEF Spec

-----------------------------------------------------------------------------
(***************************************************************************)
(* Scans.  A scan visits the groups in order, so the visits are the        *)
(* concatenation of one list per group.  FlattensTo(f, lists): f[k] is the *)
(* concatenation of the first k lists.                                     *)
(***************************************************************************)
FlattensTo(f, lists) ==
    /\ f[1] = lists[1]
    /\ \A k \in 2 .. Len(lists) : f[k] = f[k - 1] \o lists[k]
    /\ FlattenSeq(lists) = f[Len(lists)]

LEMMA FlattenStepwise ==
    ASSUME NEW lists, Len(lists) \in Nat, Len(lists) > 0
    PROVE  \E f : FlattensTo(f, lists)
<1> DEFINE N == Len(lists)
           Steps(f, k) == f = [i \in 1 .. k |-> IF i = 1 THEN lists[i] ELSE f[i - 1] \o lists[i]]
           T == {k \in Nat : \E f : Steps(f, k)}
<1>1. 0 \in T
    <2>1. Steps([i \in 1 .. 0 |-> lists[i]], 0)
        OBVIOUS
    <2>2. QED BY <2>1
<1>2. \A k \in T : k + 1 \in T
    <2> TAKE k \in T
    <2>1. PICK f : Steps(f, k)
        OBVIOUS
    <2>2. k \in Nat
        OBVIOUS
    <2> DEFINE last == IF k + 1 = 1 THEN lists[k + 1] ELSE f[k] \o lists[k + 1]
               g == [i \in 1 .. k + 1 |-> IF i <= k THEN f[i] ELSE last]
    <2>3. (\A i \in 1 .. k : g[i] = f[i]) /\ g[k + 1] = last
        <3> HIDE DEF last, T
        <3>1. QED BY <2>2
    <2>4. \A i \in 1 .. k : f[i] = IF i = 1 THEN lists[i] ELSE f[i - 1] \o lists[i]
        BY <2>1
    <2>5. g = [i \in 1 .. k + 1 |-> g[i]]
        OBVIOUS
    <2> HIDE DEF g, T, Steps
    <2>6. ASSUME NEW i \in 1 .. k + 1
          PROVE  g[i] = IF i = 1 THEN lists[i] ELSE g[i - 1] \o lists[i]
        <3>1. CASE i = k + 1
            <4>1. i # 1 => i - 1 = k /\ k \in 1 .. k
                BY <2>2, <3>1
            <4>2. QED BY <2>3, <3>1, <4>1
        <3>2. CASE i \in 1 .. k
            <4>1. i # 1 => i - 1 \in 1 .. k
                BY <2>2, <3>2
            <4>2. QED BY <2>3, <2>4, <3>2, <4>1
        <3>3. QED BY <2>2, <3>1, <3>2
    <2>7. Steps(g, k + 1)
        BY <2>5, <2>6 DEF Steps
    <2>8. QED BY <2>2, <2>7 DEF T
<1> DEFINE flatten[i \in 1 .. N] == IF i = 1 THEN lists[i] ELSE flatten[i - 1] \o lists[i]
<1>3. FlattenSeq(lists) = flatten[N]
    BY DEF FlattenSeq
<1>4. \E f : Steps(f, N)
    <2>1. T \in SUBSET Nat
        OBVIOUS
    <2> HIDE DEF T
    <2>2. T = Nat
        BY <1>1, <1>2, <2>1, NatSetInduction
    <2>3. N \in T
        BY <2>2
    <2>4. QED BY <2>3 DEF T
<1>5. Steps(flatten, N)
    BY ONLY <1>4, Zenon
<1>6. \A i \in 1 .. N : flatten[i] = IF i = 1 THEN lists[i] ELSE flatten[i - 1] \o lists[i]
    <2> HIDE DEF flatten
    <2>1. QED BY <1>5
<1> HIDE DEF flatten, T, Steps
<1>7. 1 \in 1 .. N /\ \A k \in 2 .. N : k \in 1 .. N /\ k # 1
    OBVIOUS
<1>8. FlattensTo(flatten, lists)
    BY <1>3, <1>6, <1>7 DEF FlattensTo
<1>9. QED BY <1>8

(* A sum over sealed groups, all of which are full.                        *)
LEMMA SumOfEqual ==
    ASSUME NEW n \in Nat, NEW m \in Nat, NEW counts \in [1 .. n -> {m}]
    PROVE  SumFunction(counts) = m * n
<1> DEFINE S == 1 .. n
           picked(s) == CHOOSE x \in s : TRUE
           Sums(f) == f = [s \in SUBSET S |->
                             IF s = {} THEN 0 ELSE counts[picked(s)] + f[s \ {picked(s)}]]
           iter[s \in SUBSET S] ==
               IF s = {} THEN 0 ELSE counts[picked(s)] + iter[s \ {picked(s)}]
<1>1. IsFiniteSet(S) /\ Cardinality(S) = n
    BY FS_Interval
<1>2. ASSUME NEW s \in SUBSET S
      PROVE  /\ IsFiniteSet(s) /\ Cardinality(s) \in Nat
             /\ s = {} <=> Cardinality(s) = 0
             /\ s # {} => /\ picked(s) \in s /\ counts[picked(s)] = m
                          /\ s \ {picked(s)} \in SUBSET S
                          /\ Cardinality(s \ {picked(s)}) = Cardinality(s) - 1
    <2>1. IsFiniteSet(s)
        BY <1>1, FS_Subset
    <2>2. Cardinality(s) \in Nat /\ (s = {} <=> Cardinality(s) = 0)
        BY <2>1, FS_CardinalityType, FS_EmptySet
    <2>3. ASSUME s # {}
          PROVE  picked(s) \in s
        BY <2>3
    <2>4. ASSUME s # {}
          PROVE  Cardinality(s \ {picked(s)}) = Cardinality(s) - 1
        BY <2>1, <2>3, <2>4, FS_RemoveElement
    <2> HIDE DEF picked
    <2>5. ASSUME s # {}
          PROVE  counts[picked(s)] = m /\ s \ {picked(s)} \in SUBSET S
        BY <2>3, <2>5
    <2>6. QED BY <2>1, <2>2, <2>3, <2>4, <2>5
<1>3. \E f : Sums(f)
    <2> DEFINE f == [s \in SUBSET S |-> m * Cardinality(s)]
    <2> HIDE DEF picked
    <2>1. ASSUME NEW s \in SUBSET S
          PROVE  f[s] = IF s = {} THEN 0 ELSE counts[picked(s)] + f[s \ {picked(s)}]
        <3>1. f[s] = m * Cardinality(s)
            OBVIOUS
        <3>2. CASE s = {}
            <4> DEFINE size == Cardinality(s)
            <4>1. f[s] = m * size /\ size = 0
                BY <1>2, <3>1, <3>2
            <4> HIDE DEF size, f
            <4>2. f[s] = 0
                BY <4>1
            <4>3. QED BY <3>2, <4>2
        <3>3. CASE s # {}
            <4> DEFINE size == Cardinality(s)
            <4>1. f[s \ {picked(s)}] = m * (size - 1) /\ size \in Nat /\ counts[picked(s)] = m
                BY <1>2, <3>3
            <4> HIDE DEF size, f
            <4>2. m * size = m + m * (size - 1)
                BY <4>1
            <4>3. QED BY <3>1, <3>3, <4>1, <4>2 DEF size
        <3>4. QED BY <3>2, <3>3
    <2>2. f = [s \in SUBSET S |-> f[s]]
        OBVIOUS
    <2> HIDE DEF f
    <2>3. Sums(f)
        BY <2>1, <2>2
    <2>4. QED BY <2>3
<1>4. Sums(iter)
    BY ONLY <1>3, Zenon
<1>5. DOMAIN counts = S
    OBVIOUS
<1>6. SumFunction(counts) = iter[S]
    BY <1>5 DEF SumFunction, SumFunctionOnSet, FoldFunctionOnSet, MapThenFoldSet
<1> HIDE DEF picked, iter
<1>7. \A s \in SUBSET S : iter[s] = IF s = {} THEN 0 ELSE counts[picked(s)] + iter[s \ {picked(s)}]
    BY <1>4
<1> HIDE DEF Sums, S
<1> DEFINE T == {k \in Nat : \A s \in SUBSET S : Cardinality(s) = k => iter[s] = m * k}
<1>8. 0 \in T
    <2>1. \A s \in SUBSET S : Cardinality(s) = 0 => iter[s] = 0
        BY <1>2, <1>7
    <2>2. m * 0 = 0
        OBVIOUS
    <2>3. QED BY <2>1, <2>2
<1>9. \A k \in T : k + 1 \in T
    <2> SUFFICES ASSUME NEW k \in T, NEW s \in SUBSET S, Cardinality(s) = k + 1
                 PROVE  iter[s] = m * (k + 1)
        OBVIOUS
    <2>1. k \in Nat
        OBVIOUS
    <2>2. s # {} /\ Cardinality(s \ {picked(s)}) = k
        BY <1>2, <2>1
    <2>3. iter[s \ {picked(s)}] = m * k
        BY <1>2, <2>2
    <2>4. iter[s] = m + m * k
        BY <1>2, <1>7, <2>2, <2>3
    <2>5. QED BY <2>1, <2>4
<1>10. T = Nat
    <2>1. T \in SUBSET Nat
        OBVIOUS
    <2> HIDE DEF T
    <2>2. QED BY <1>8, <1>9, <2>1, NatSetInduction
<1>11. S \in SUBSET S
    OBVIOUS
<1>12. n \in T
    BY <1>10
<1>13. iter[S] = m * n
    BY <1>1, <1>11, <1>12
<1>14. QED BY <1>6, <1>13

-----------------------------------------------------------------------------
(***************************************************************************)
(* The visits.  Shows(visits, n): visits are the places of the first n     *)
(* rows of the log, in order.                                              *)
(***************************************************************************)
VisitsOf(group) == [i \in 1 .. RowCount(group) |-> [group |-> group, row |-> i]]
VisitLists == [k \in 1 .. Len(sealed_row_groups) + 1 |-> VisitsOf(GroupsInOrder[k])]
VisitPlaces == [group : RowGroups, row : Nat]
Shows(visits, n) ==
    /\ visits \in Seq(VisitPlaces)
    /\ Len(visits) = n
    /\ \A i \in 1 .. n : MaterializeRow(visits[i].group, visits[i].row) = log[i]

(* The groups in order: each starts in the log where the previous ended.   *)
LEMMA GroupsFollow ==
    ASSUME Inv
    PROVE  LET n == Len(sealed_row_groups)
           IN  /\ n \in Nat /\ Len(GroupsInOrder) = n + 1 /\ log \in Seq(GoodRows)
               /\ \A k \in 1 .. n : GroupsInOrder[k] = sealed_row_groups[k]
               /\ GroupsInOrder[n + 1] = active
               /\ \A k \in 1 .. n + 1 :
                     /\ GroupsInOrder[k] \in RowGroups
                     /\ RowCount(GroupsInOrder[k]) \in Nat
                     /\ GroupHolds(GroupsInOrder[k], FirstRow(k))
               /\ FirstRow(1) = 0
               /\ \A k \in 1 .. n :
                     /\ RowCount(sealed_row_groups[k]) = Capacity
                     /\ FirstRow(k) \in Nat
                     /\ FirstRow(k + 1) = FirstRow(k) + RowCount(GroupsInOrder[k])
               /\ FirstRow(n + 1) = Capacity * n
               /\ Len(log) = FirstRow(n + 1) + RowCount(active)
<1> DEFINE n == Len(sealed_row_groups)
<1>1. /\ sealed_row_groups \in Seq(RowGroups) /\ active \in RowGroups
      /\ log \in Seq(GoodRows) /\ n \in Nat
    BY LenProperties DEF Inv, TypeOK, GoodRows
<1>2. /\ Len(GroupsInOrder) = n + 1
      /\ \A k \in 1 .. n : GroupsInOrder[k] = sealed_row_groups[k]
      /\ GroupsInOrder[n + 1] = active
    BY <1>1, AppendProperties DEF GroupsInOrder
<1>3. /\ \A k \in 1 .. n : RowCount(sealed_row_groups[k]) = Capacity
      /\ \A k \in 1 .. n : GroupHolds(sealed_row_groups[k], FirstRow(k))
      /\ GroupHolds(active, FirstRow(n + 1))
      /\ Len(log) = FirstRow(n + 1) + RowCount(active)
    BY DEF Inv, GroupsWellFormed, GroupsHoldLog
<1>4. \A k \in 1 .. n + 1 : k \in 1 .. n \/ k = n + 1
    BY <1>1
<1>5. \A k \in 1 .. n + 1 :
         /\ GroupsInOrder[k] \in RowGroups
         /\ RowCount(GroupsInOrder[k]) \in Nat
         /\ GroupHolds(GroupsInOrder[k], FirstRow(k))
    <2> TAKE k \in 1 .. n + 1
    <2>1. GroupsInOrder[k] \in RowGroups
        BY <1>1, <1>2, <1>4, ElementOfSeq
    <2>2. GroupHolds(GroupsInOrder[k], FirstRow(k))
        BY <1>2, <1>3, <1>4
    <2>3. QED BY <2>1, <2>2, RowCountType
<1> HIDE DEF n
<1>6. ASSUME NEW k \in 1 .. n
      PROVE  FirstRow(k) \in Nat /\ FirstRow(k + 1) = FirstRow(k) + RowCount(GroupsInOrder[k])
    <2> DEFINE j == k - 1
    <2>1. j \in Nat /\ j + 1 = k /\ j + 2 = k + 1
        BY <1>1
    <2> HIDE DEF j
    <2>2. FirstRow(j + 1) \in Nat /\ FirstRow(j + 2) = FirstRow(j + 1) + Capacity
        BY <2>1, FirstRowFacts
    <2>3. RowCount(GroupsInOrder[k]) = Capacity
        BY <1>2, <1>3 DEF n
    <2>4. QED BY <2>1, <2>2, <2>3
<1>7. FirstRow(1) = 0 /\ FirstRow(n + 1) = Capacity * n
    BY <1>1, CapacityAssumption DEF FirstRow
<1>8. QED BY <1>1, <1>2, <1>3, <1>5, <1>6, <1>7 DEF n

LEMMA VisitsOfFacts ==
    ASSUME NEW group \in RowGroups, RowCount(group) \in Nat
    PROVE  /\ VisitsOf(group) \in Seq(VisitPlaces)
           /\ Len(VisitsOf(group)) = RowCount(group)
           /\ \A i \in 1 .. RowCount(group) : VisitsOf(group)[i] = [group |-> group, row |-> i]
<1> DEFINE n == RowCount(group)
           visits == [i \in 1 .. n |-> [group |-> group, row |-> i]]
<1>1. \A i \in 1 .. n : [group |-> group, row |-> i] \in VisitPlaces
    BY DEF VisitPlaces
<1> HIDE DEF n
<1>2. /\ visits \in Seq(VisitPlaces) /\ Len(visits) = n
      /\ \A i \in 1 .. n : visits[i] = [group |-> group, row |-> i]
    BY <1>1 DEF n
<1>3. QED BY <1>2 DEF VisitsOf, n

LEMMA ShowsMore ==
    ASSUME Inv, NEW n \in Nat, NEW visits, Shows(visits, n),
           NEW group \in RowGroups, RowCount(group) \in Nat,
           GroupHolds(group, n), Addressable(group)
    PROVE  Shows(visits \o VisitsOf(group), n + RowCount(group))
<1> DEFINE more == VisitsOf(group)
           m    == RowCount(group)
           all  == visits \o more
<1>1. /\ visits \in Seq(VisitPlaces) /\ Len(visits) = n
      /\ \A i \in 1 .. n : MaterializeRow(visits[i].group, visits[i].row) = log[i]
    BY DEF Shows
<1>2. /\ more \in Seq(VisitPlaces) /\ Len(more) = m
      /\ \A i \in 1 .. m : more[i] = [group |-> group, row |-> i]
    BY VisitsOfFacts
<1>3. \A i \in 1 .. m : MaterializeRow(group, i) = log[n + i]
    BY DEF GroupHolds
<1>4. m \in Nat
    OBVIOUS
<1> HIDE DEF more, m
<1>5. /\ all \in Seq(VisitPlaces) /\ Len(all) = n + m
      /\ \A i \in 1 .. n + m : all[i] = IF i <= n THEN visits[i] ELSE more[i - n]
    <2>1. /\ all \in Seq(VisitPlaces) /\ Len(all) = Len(visits) + Len(more)
          /\ \A i \in 1 .. Len(visits) + Len(more) :
                all[i] = IF i <= Len(visits) THEN visits[i] ELSE more[i - Len(visits)]
        BY <1>1, <1>2, ConcatProperties
    <2>2. QED BY <1>1, <1>2, <2>1
<1> HIDE DEF all
<1>6. ASSUME NEW i \in 1 .. n + m
      PROVE  MaterializeRow(all[i].group, all[i].row) = log[i]
    <2>1. CASE i <= n
        <3>1. i \in 1 .. n
            BY <2>1
        <3>2. QED BY <1>1, <1>5, <2>1, <3>1
    <2>2. CASE ~(i <= n)
        <3> DEFINE j == i - n
        <3>1. j \in 1 .. m /\ n + j = i
            BY <1>4, <2>2
        <3>2. all[i] = more[j]
            BY <1>5, <2>2
        <3> HIDE DEF j
        <3>3. all[i].group = group /\ all[i].row = j
            BY <1>2, <3>1, <3>2
        <3>4. QED BY <1>3, <3>1, <3>3
    <2>3. QED BY <2>1, <2>2
<1>7. QED BY <1>5, <1>6 DEF Shows, all, more, m

LEMMA VisitsShowLog ==
    ASSUME Inv, AllAddressable
    PROVE  Shows(Visits, Len(log))
<1> DEFINE n == Len(sealed_row_groups)
<1>1. /\ n \in Nat
      /\ \A k \in 1 .. n + 1 :
            /\ GroupsInOrder[k] \in RowGroups
            /\ RowCount(GroupsInOrder[k]) \in Nat
            /\ GroupHolds(GroupsInOrder[k], FirstRow(k))
            /\ Addressable(GroupsInOrder[k])
    BY GroupsFollow DEF AllAddressable
<1>2. /\ FirstRow(1) = 0
      /\ \A k \in 1 .. n :
            FirstRow(k) \in Nat /\ FirstRow(k + 1) = FirstRow(k) + RowCount(GroupsInOrder[k])
      /\ Len(log) = FirstRow(n + 1) + RowCount(GroupsInOrder[n + 1])
    BY GroupsFollow
<1>3. Visits = FlattenSeq(VisitLists)
    BY DEF Visits, VisitLists, VisitsOf
<1>4. /\ Len(VisitLists) = n + 1
      /\ \A k \in 1 .. n + 1 : VisitLists[k] = VisitsOf(GroupsInOrder[k])
    BY <1>1 DEF VisitLists
<1> HIDE DEF n
<1>5. PICK f : FlattensTo(f, VisitLists)
    BY <1>1, <1>4, FlattenStepwise
<1>6. /\ f[1] = VisitsOf(GroupsInOrder[1])
      /\ \A k \in 2 .. n + 1 : f[k] = f[k - 1] \o VisitsOf(GroupsInOrder[k])
      /\ Visits = f[n + 1]
    <2>1. 1 \in 1 .. n + 1 /\ \A k \in 2 .. n + 1 : k \in 1 .. n + 1
        BY <1>1
    <2>2. QED BY <1>3, <1>4, <1>5, <2>1 DEF FlattensTo
<1> DEFINE Shown(k) == Shows(f[k], FirstRow(k) + RowCount(GroupsInOrder[k]))
           T == {k \in Nat : k <= n => Shown(k + 1)}
<1>7. 0 \in T
    <2> DEFINE group == GroupsInOrder[1]
    <2>1. /\ group \in RowGroups /\ RowCount(group) \in Nat /\ GroupHolds(group, 0)
          /\ Addressable(group) /\ f[1] = VisitsOf(group)
        <3>1. 1 \in 1 .. n + 1
            BY <1>1
        <3>2. QED BY <1>1, <1>2, <1>6, <3>1
    <2> HIDE DEF group
    <2>2. Shows(<< >>, 0)
        BY EmptySeq DEF Shows
    <2>3. Shows(<< >> \o VisitsOf(group), 0 + RowCount(group))
        BY <2>1, <2>2, ShowsMore
    <2>4. << >> \o VisitsOf(group) = VisitsOf(group)
        BY <2>1, VisitsOfFacts, ConcatEmptySeq
    <2>5. Shows(f[1], FirstRow(1) + RowCount(GroupsInOrder[1]))
        BY <1>2, <2>1, <2>3, <2>4 DEF group
    <2>6. 0 + 1 = 1
        OBVIOUS
    <2> HIDE DEF Shown
    <2>7. Shown(1)
        BY <2>5 DEF Shown
    <2>8. QED BY <2>6, <2>7
<1>8. \A k \in T : k + 1 \in T
    <2> SUFFICES ASSUME NEW k \in T, k + 1 <= n PROVE Shown((k + 1) + 1)
        OBVIOUS
    <2> DEFINE j     == k + 1
               group == GroupsInOrder[j + 1]
               base  == FirstRow(j + 1)
    <2>1. /\ k \in Nat /\ k <= n /\ j \in 1 .. n /\ j + 1 \in 2 .. n + 1 /\ j + 1 \in 1 .. n + 1
          /\ (j + 1) - 1 = j /\ j \in 1 .. n + 1
        BY <1>1
    <2>2. Shown(j)
        BY <2>1
    <2> HIDE DEF j
    <2>3. Shows(f[j], base) /\ base \in Nat
        BY <1>1, <1>2, <2>1, <2>2
    <2>4. /\ group \in RowGroups /\ RowCount(group) \in Nat /\ GroupHolds(group, base)
          /\ Addressable(group) /\ f[j + 1] = f[j] \o VisitsOf(group)
        BY <1>1, <1>6, <2>1
    <2> HIDE DEF group, base
    <2>5. Shows(f[j] \o VisitsOf(group), base + RowCount(group))
        BY <2>3, <2>4, ShowsMore
    <2>6. Shown(j + 1)
        BY <2>4, <2>5 DEF group, base
    <2>7. QED BY <2>6 DEF j
<1>9. n \in T
    <2>1. T \in SUBSET Nat
        OBVIOUS
    <2> HIDE DEF T
    <2>2. T = Nat
        BY <1>7, <1>8, <2>1, NatSetInduction
    <2>3. QED BY <1>1, <2>2
<1>10. Shown(n + 1)
    BY <1>1, <1>9
<1>11. QED BY <1>2, <1>6, <1>10

-----------------------------------------------------------------------------
LEMMA RowCountIsLogLength ==
    ASSUME Inv
    PROVE  TableRowCount = Len(log) /\ Len(log) \in Nat
<1> DEFINE n      == Len(sealed_row_groups)
           counts == [k \in 1 .. n |-> RowCount(sealed_row_groups[k])]
           last   == RowCount(active)
<1>1. /\ n \in Nat /\ \A k \in 1 .. n : RowCount(sealed_row_groups[k]) = Capacity
      /\ FirstRow(n + 1) = Capacity * n /\ Len(log) = FirstRow(n + 1) + last
    BY GroupsFollow
<1>2. last \in Nat
    <2>1. n + 1 \in 1 .. n + 1
        BY <1>1
    <2>2. QED BY <2>1, GroupsFollow
<1>3. TableRowCount = last + SumFunction(counts)
    BY DEF TableRowCount
<1> HIDE DEF n, last
<1>4. Capacity \in Nat /\ counts \in [1 .. n -> {Capacity}]
    BY <1>1, CapacityAssumption
<1> HIDE DEF counts
<1>5. SumFunction(counts) = Capacity * n
    BY <1>1, <1>4, SumOfEqual
<1>6. Capacity * n \in Nat
    BY <1>1, <1>4
<1>7. QED BY <1>1, <1>2, <1>3, <1>5, <1>6

LEMMA InvScanYieldsLog == Inv => ScanYieldsLog
<1> SUFFICES ASSUME Inv PROVE ScanYieldsLog
    OBVIOUS
<1>1. TableRowCount = Len(log) /\ log \in Seq(GoodRows)
    BY RowCountIsLogLength, GroupsFollow
<1>2. ASSUME AllAddressable PROVE ForEachRow = log
    <2>1. Shows(Visits, Len(log))
        BY <1>2, VisitsShowLog
    <2>2. ForEachRow = [i \in 1 .. Len(log) |-> log[i]]
        BY <2>1 DEF ForEachRow, Shows
    <2>3. log = [i \in 1 .. Len(log) |-> log[i]]
        BY <1>1, LenProperties
    <2>4. QED BY <2>2, <2>3
<1>3. QED BY <1>1, <1>2 DEF ScanYieldsLog

(* One cell of a projected row is the cell of the row itself.              *)
LEMMA CellOfRow ==
    ASSUME NEW group, NEW row, NEW c \in Columns
    PROVE  ValueAt(group, row, c) = MaterializeRow(group, row)[c]
BY DEF MaterializeRow

LEMMA InvProjectedScanYieldsLog == Inv => ProjectedScanYieldsLog
<1> SUFFICES ASSUME Inv, AllAddressable, NEW ordinals \in Projections
             PROVE  ScanProjected(ordinals) =
                        IF ToSet(ordinals) \subseteq Columns
                        THEN [status |-> "Ok",
                              rows |-> [n \in 1 .. Len(log) |->
                                          [j \in 1 .. Len(ordinals) |-> log[n][ordinals[j]]]]]
                        ELSE [status |-> "OrdinalOutOfRange", rows |-> << >>]
    BY DEF ProjectedScanYieldsLog
<1>1. Shows(Visits, Len(log))
    BY VisitsShowLog
<1>2. ordinals \in Seq(Nat) /\ Len(ordinals) \in Nat /\ DOMAIN ordinals = 1 .. Len(ordinals)
    BY ProjectionsAssumption, LenProperties
<1>3. ToSet(ordinals) \subseteq Columns <=> \A j \in 1 .. Len(ordinals) : ordinals[j] \in Columns
    BY <1>2 DEF ToSet
<1>4. CASE ~(ToSet(ordinals) \subseteq Columns)
    BY <1>3, <1>4 DEF ScanProjected
<1>5. CASE ToSet(ordinals) \subseteq Columns
    <2> DEFINE width == Len(ordinals)
    <2>1. ASSUME NEW n \in 1 .. Len(log)
          PROVE  [j \in 1 .. width |-> ValueAt(Visits[n].group, Visits[n].row, ordinals[j])]
                   = [j \in 1 .. width |-> log[n][ordinals[j]]]
        <3>1. \A j \in 1 .. width :
                 ValueAt(Visits[n].group, Visits[n].row, ordinals[j]) = log[n][ordinals[j]]
            BY <1>1, <1>3, <1>5, CellOfRow DEF Shows
        <3>2. QED BY <3>1
    <2>2. Len(Visits) = Len(log)
        BY <1>1 DEF Shows
    <2>3. ScanProjected(ordinals)
            = [status |-> "Ok",
               rows |-> [n \in 1 .. Len(Visits) |->
                           [j \in 1 .. width |->
                              ValueAt(Visits[n].group, Visits[n].row, ordinals[j])]]]
        BY <1>3, <1>5 DEF ScanProjected
    <2>4. [n \in 1 .. Len(Visits) |->
             [j \in 1 .. width |-> ValueAt(Visits[n].group, Visits[n].row, ordinals[j])]]
            = [n \in 1 .. Len(log) |-> [j \in 1 .. width |-> log[n][ordinals[j]]]]
        BY <2>1, <2>2
    <2>5. QED BY <1>5, <2>3, <2>4
<1>6. QED BY <1>4, <1>5

(* for_each_row delivers exactly the accepted rows, in the order of their  *)
(* acceptance, as long as the 32-bit offsets address the blobs, and        *)
(* row_count is their number (table_storage.hpp:28-45,                     *)
(* table_storage.cpp:54-61).                                               *)
THEOREM ScansAreFaithful == Spec => []ScanYieldsLog
BY Invariance, InvScanYieldsLog, PTL

(* scan_projected delivers the same rows restricted to the columns asked   *)
(* for, and refuses the whole list of ordinals if one is not a column      *)
(* (table_storage.hpp:47-77).                                              *)
THEOREM ProjectionsAreFaithful == Spec => []ProjectedScanYieldsLog
BY Invariance, InvProjectedScanYieldsLog, PTL

=============================================================================
