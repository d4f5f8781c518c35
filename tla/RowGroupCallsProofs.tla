------------------------ MODULE RowGroupCallsProofs ------------------------
(***************************************************************************)
(* Proofs about one row group under direct calls, with any batch that      *)
(* validation lets pass: also one of no rows, or with bytes behind its     *)
(* last text.  The inductive invariant is that the group promises the log: *)
(* its cells extend those of the log, and its texts are ordered.  What a   *)
(* call adds is proved per column buffer, per group, and for append_rows   *)
(* by induction over the span; then there is one lemma per action.         *)
(***************************************************************************)
EXTENDS RowGroupCalls, RowGroupProofs

-----------------------------------------------------------------------------
(* A part of a sequence is a prefix of a longer part from the same place.  *)
LEMMA PrefixOfLongerPart ==
    ASSUME NEW S, NEW s \in Seq(S), NEW a \in Nat, NEW b \in Nat, NEW c \in Nat,
           a <= b, b <= c, c <= Len(s)
    PROVE  IsPrefix(SubSeq(s, a + 1, b), SubSeq(s, a + 1, c))
<1> DEFINE short == SubSeq(s, a + 1, b)
           long  == SubSeq(s, a + 1, c)
<1>1. \A i \in a + 1 .. c : s[i] \in S
    BY ElementOfSeq, LenProperties
<1>2. /\ long \in Seq(S) /\ Len(long) = c - a
      /\ \A i \in 1 .. c - a : long[i] = s[a + i]
    BY <1>1, SubSeqProperties
<1>3. /\ short \in Seq(S) /\ Len(short) = b - a
      /\ \A i \in 1 .. b - a : short[i] = s[a + i]
    BY <1>1, SubSeqProperties
<1> HIDE DEF short, long
<1>4. Len(short) <= Len(long) /\ \A i \in 1 .. Len(short) : short[i] = long[i]
    BY <1>2, <1>3
<1>5. IsPrefix(short, long)
    BY <1>2, <1>3, <1>4, PrefixElements
<1>6. QED BY <1>5 DEF short, long

(* TextColumnBuffer::append_batch on any valid view: the texts of the view *)
(* are there, perhaps longer at their end, and so are the texts that were  *)
(* there before; of these only the last one can have become longer.        *)
LEMMA TextAppendBatchExtends ==
    ASSUME NEW column \in TextColumnBuffers, TextOrdered(column),
           NEW view_offsets \in Seq(Offsets), NEW view_bytes \in Seq(Bytes),
           NEW row_count \in Nat,
           Len(view_offsets) = row_count + 1, view_offsets[1] = 0,
           view_offsets[row_count + 1] <= Len(view_bytes),
           TextOffsetsAreMonotonic(view_offsets),
           Len(TextAppendBatch(column, view_offsets, view_bytes, row_count).bytes) < OffsetRange
    PROVE  LET after == TextAppendBatch(column, view_offsets, view_bytes, row_count)
               n     == Len(column.offsets)
           IN  /\ TextOrdered(after)
               /\ \A i \in 1 .. n : IsPrefix(TextAt(column, i), TextAt(after, i))
               /\ \A i \in 1 .. n - 1 : TextAt(after, i) = TextAt(column, i)
               /\ \A j \in 1 .. row_count :
                     IsPrefix(SubSeq(view_bytes, view_offsets[j] + 1, view_offsets[j + 1]),
                              TextAt(after, n + j))
<1> DEFINE after   == TextAppendBatch(column, view_offsets, view_bytes, row_count)
           offsets == column.offsets
           bytes   == column.bytes
           n       == Len(offsets)
           size    == Len(bytes)
           longer  == Len(after.bytes)
           moved   == [j \in 1 .. row_count |-> ToUint32(size + view_offsets[j])]
<1>1. /\ offsets \in Seq(Offsets) /\ bytes \in Seq(Bytes)
      /\ n \in Nat /\ size \in Nat /\ Len(view_bytes) \in Nat
    BY LenProperties DEF TextColumnBuffers
<1>2. /\ after.bytes = bytes \o view_bytes /\ after.bytes \in Seq(Bytes)
      /\ longer = size + Len(view_bytes) /\ longer < OffsetRange
    BY <1>1, ConcatProperties DEF TextAppendBatch
<1>3. after = [type |-> "Text", offsets |-> offsets \o moved, bytes |-> bytes \o view_bytes]
    BY DEF TextAppendBatch
<1> HIDE DEF after, offsets, bytes, n, size, longer
<1>4. \A j \in 1 .. row_count + 1 :
         /\ view_offsets[j] \in Nat /\ view_offsets[j] <= Len(view_bytes)
         /\ size + view_offsets[j] \in Offsets
         /\ ToUint32(size + view_offsets[j]) = size + view_offsets[j]
    <2> TAKE j \in 1 .. row_count + 1
    <2>1. /\ j \in 1 .. Len(view_offsets) /\ row_count + 1 \in j .. Len(view_offsets)
          /\ row_count + 1 \in 1 .. Len(view_offsets)
        OBVIOUS
    <2>2. view_offsets[j] \in Nat /\ view_offsets[row_count + 1] \in Nat
        <3>1. view_offsets[j] \in Offsets /\ view_offsets[row_count + 1] \in Offsets
            BY <2>1, ElementOfSeq
        <3>2. QED BY <3>1, OffsetRangeAssumption DEF Offsets
    <2>3. view_offsets[j] <= view_offsets[row_count + 1]
        BY <2>1, MonotonicOffsets
    <2>4. view_offsets[j] <= Len(view_bytes)
        BY <1>1, <2>2, <2>3
    <2>5. size + view_offsets[j] \in Offsets
        <3> DEFINE v     == view_offsets[j]
                   extra == Len(view_bytes)
        <3>1. v \in Nat /\ v <= extra /\ extra \in Nat /\ size + extra < OffsetRange
            BY <1>1, <1>2, <2>2, <2>4
        <3> HIDE DEF v, extra
        <3>2. size + v \in 0 .. OffsetRange - 1
            BY <1>1, <3>1, OffsetRangeAssumption
        <3>3. QED BY <3>2 DEF v, Offsets
    <2>6. QED BY <2>2, <2>4, <2>5, ToUint32Identity
<1>5. \A j \in 1 .. row_count : view_offsets[j + 1] \in Nat /\ view_offsets[j] <= view_offsets[j + 1]
    <2> TAKE j \in 1 .. row_count
    <2>1. /\ j \in 1 .. Len(view_offsets) /\ j + 1 \in j .. Len(view_offsets)
          /\ j + 1 \in 1 .. row_count + 1
        OBVIOUS
    <2>2. QED BY <1>4, <2>1, MonotonicOffsets
<1>6. /\ moved \in Seq(Offsets) /\ Len(moved) = row_count
      /\ \A j \in 1 .. row_count : moved[j] = size + view_offsets[j]
    <2>1. \A j \in 1 .. row_count : j \in 1 .. row_count + 1
        OBVIOUS
    <2>2. \A j \in 1 .. row_count :
             /\ ToUint32(size + view_offsets[j]) \in Offsets
             /\ ToUint32(size + view_offsets[j]) = size + view_offsets[j]
        BY <1>4, <2>1
    <2>3. QED BY <2>2
<1> HIDE DEF moved
<1>7. /\ after.offsets \in Seq(Offsets) /\ Len(after.offsets) = n + row_count
      /\ \A i \in 1 .. n : after.offsets[i] = offsets[i]
      /\ \A j \in 1 .. row_count : after.offsets[n + j] = size + view_offsets[j]
    <2>1. /\ offsets \o moved \in Seq(Offsets) /\ Len(offsets \o moved) = n + row_count
          /\ \A i \in 1 .. n + row_count :
                (offsets \o moved)[i] = IF i <= n THEN offsets[i] ELSE moved[i - n]
        <3>1. moved \in Seq(Offsets) /\ Len(moved) = row_count /\ Len(offsets) = n
            BY <1>6 DEF n
        <3>2. /\ offsets \o moved \in Seq(Offsets)
              /\ Len(offsets \o moved) = Len(offsets) + Len(moved)
              /\ \A i \in 1 .. Len(offsets) + Len(moved) :
                    (offsets \o moved)[i]
                        = IF i <= Len(offsets) THEN offsets[i] ELSE moved[i - Len(offsets)]
            BY <1>1, <3>1, ConcatProperties
        <3>3. QED BY <3>1, <3>2
    <2>2. after.offsets = offsets \o moved
        BY <1>3
    <2>3. \A i \in 1 .. n : after.offsets[i] = offsets[i]
        BY <1>1, <2>1, <2>2
    <2>4. ASSUME NEW j \in 1 .. row_count
          PROVE  after.offsets[n + j] = size + view_offsets[j]
        <3> DEFINE i == n + j
        <3>1. i \in 1 .. n + row_count /\ ~(i <= n) /\ i - n = j
            BY <1>1
        <3> HIDE DEF i
        <3>2. after.offsets[i] = moved[i - n]
            BY <2>1, <2>2, <3>1
        <3>3. QED BY <1>6, <3>1, <3>2 DEF i
    <2>5. QED BY <2>1, <2>2, <2>3, <2>4
<1>8. after \in TextColumnBuffers
    BY <1>1, <1>2, <1>3, <1>7 DEF TextColumnBuffers
<1>9. longer \in Nat /\ size <= longer /\ ToUint32(longer) = longer
    <2>1. longer \in Nat /\ size <= longer
        BY <1>1, <1>2
    <2>2. longer \in Offsets
        BY <1>2, <2>1, OffsetRangeAssumption DEF Offsets
    <2>3. QED BY <2>1, <2>2, ToUint32Identity
<1>10. ASSUME NEW i \in 1 .. n
       PROVE  /\ offsets[i] \in Nat /\ TextEnd(column, i) \in Nat
              /\ offsets[i] <= TextEnd(column, i) /\ TextEnd(column, i) <= size
              /\ TextAt(column, i) = SubSeq(bytes, offsets[i] + 1, TextEnd(column, i))
              /\ TextEnd(column, i) = IF i < n THEN offsets[i + 1] ELSE size
    <2>1. Len(column.bytes) < OffsetRange
        BY <1>1, <1>2, <1>9, OffsetRangeAssumption DEF size, bytes
    <2>2. i \in 1 .. Len(column.offsets)
        BY DEF n, offsets
    <2>3. TextEnd(column, i) = IF i < n THEN offsets[i + 1] ELSE ToUint32(size)
        BY DEF TextEnd, n, offsets, size, bytes
    <2>4. ToUint32(size) = size
        <3>1. size \in Offsets
            BY <1>1, <2>1, OffsetRangeAssumption DEF Offsets, size, bytes
        <3>2. QED BY <3>1, ToUint32Identity
    <2>5. column.offsets[i] \in Nat /\ TextEnd(column, i) \in Nat
        BY <2>2, TextEndType
    <2>6. column.offsets[i] <= TextEnd(column, i) /\ TextEnd(column, i) <= Len(column.bytes)
        BY <2>2 DEF TextOrdered
    <2>7. TextAt(column, i) = SubSeq(column.bytes, column.offsets[i] + 1, TextEnd(column, i))
        BY <2>1, <2>2, TextAtOrdered
    <2>8. QED BY <2>3, <2>4, <2>5, <2>6, <2>7 DEF offsets, bytes, size
<1>11. ASSUME NEW i \in 1 .. n
       PROVE  /\ TextEnd(column, i) <= TextEnd(after, i) /\ TextEnd(after, i) <= longer
              /\ TextEnd(after, i) \in Nat
              /\ i < n => TextEnd(after, i) = TextEnd(column, i)
    <2>1. CASE i < n
        <3>1. i < n + row_count /\ i + 1 \in 1 .. n
            BY <1>1, <2>1
        <3>2. TextEnd(after, i) = offsets[i + 1]
            <4>1. Len(after.offsets) = n + row_count /\ after.offsets[i + 1] = offsets[i + 1]
                BY <1>7, <3>1
            <4>2. QED BY <3>1, <4>1 DEF TextEnd
        <3>3. TextEnd(column, i) = offsets[i + 1]
            BY <1>10, <2>1
        <3>4. TextEnd(column, i) \in Nat /\ TextEnd(column, i) <= size
            BY <1>10
        <3>5. TextEnd(after, i) = TextEnd(column, i)
            BY <3>2, <3>3
        <3>6. TextEnd(column, i) <= TextEnd(column, i) /\ TextEnd(column, i) <= longer
            <4> DEFINE end == TextEnd(column, i)
            <4>1. end \in Nat /\ end <= size
                BY <3>4
            <4> HIDE DEF end
            <4>2. end <= end /\ end <= longer
                BY <1>1, <1>9, <4>1
            <4>3. QED BY <4>2 DEF end
        <3>7. QED BY <3>4, <3>5, <3>6
    <2>2. CASE i = n /\ row_count = 0
        <3>1. TextEnd(after, i) = longer
            BY <1>1, <1>7, <1>9, <2>2 DEF TextEnd, longer
        <3>2. TextEnd(column, i) = size
            BY <1>1, <1>10, <2>2
        <3>3. QED BY <1>1, <1>9, <2>2, <3>1, <3>2
    <2>3. CASE i = n /\ row_count > 0
        <3>1. i < n + row_count /\ 1 \in 1 .. row_count
            BY <1>1, <2>3
        <3>2. after.offsets[n + 1] = size + 0
            BY <1>7, <3>1
        <3>3. TextEnd(after, i) = size
            BY <1>1, <1>7, <2>3, <3>1, <3>2 DEF TextEnd
        <3>4. TextEnd(column, i) = size
            BY <1>1, <1>10, <2>3
        <3>5. QED BY <1>1, <1>9, <2>3, <3>3, <3>4
    <2>4. QED BY <1>1, <2>1, <2>2, <2>3
<1>12. ASSUME NEW j \in 1 .. row_count
       PROVE  /\ size + view_offsets[j + 1] <= TextEnd(after, n + j)
              /\ TextEnd(after, n + j) <= longer /\ TextEnd(after, n + j) \in Nat
    <2>1. view_offsets[j + 1] \in Nat /\ view_offsets[j + 1] <= Len(view_bytes)
        <3>1. j + 1 \in 1 .. row_count + 1
            OBVIOUS
        <3>2. QED BY <1>4, <3>1
    <2> DEFINE i == n + j
               v == view_offsets[j + 1]
    <2>0. v \in Nat /\ size + v <= longer /\ size + v \in Nat
        <3> DEFINE extra == Len(view_bytes)
        <3>1. v \in Nat /\ v <= extra /\ extra \in Nat /\ longer = size + extra
            BY <1>1, <1>2, <2>1
        <3> HIDE DEF v, extra
        <3>2. QED BY <1>1, <3>1
    <2>2. CASE j < row_count
        <3>1. i < n + row_count /\ j + 1 \in 1 .. row_count /\ i + 1 = n + (j + 1)
            BY <1>1, <2>2
        <3>2. after.offsets[n + (j + 1)] = size + view_offsets[j + 1]
            BY <1>7, <3>1
        <3> HIDE DEF i
        <3>3. TextEnd(after, i) = size + view_offsets[j + 1]
            BY <1>7, <3>1, <3>2 DEF TextEnd
        <3> HIDE DEF v
        <3>4. TextEnd(after, i) = size + v
            BY <3>3 DEF v
        <3>5. size + v <= TextEnd(after, i) /\ TextEnd(after, i) <= longer /\ TextEnd(after, i) \in Nat
            BY <2>0, <3>4
        <3>6. QED BY <3>5 DEF i, v
    <2>3. CASE ~(j < row_count)
        <3>1. ~(i < n + row_count)
            BY <1>1, <2>3
        <3> HIDE DEF i
        <3>2. TextEnd(after, i) = longer
            BY <1>7, <1>9, <3>1 DEF TextEnd, longer
        <3> HIDE DEF v
        <3>3. size + v <= TextEnd(after, i) /\ TextEnd(after, i) <= longer /\ TextEnd(after, i) \in Nat
            BY <1>9, <2>0, <3>2
        <3>4. QED BY <3>3 DEF i, v
    <2>4. QED BY <2>2, <2>3
<1>13. ASSUME NEW i \in 1 .. n + row_count
       PROVE  i \in 1 .. n \/ \E j \in 1 .. row_count : i = n + j
    <2>1. CASE i <= n
        BY <1>1, <2>1
    <2>2. CASE ~(i <= n)
        <3>1. i - n \in 1 .. row_count /\ i = n + (i - n)
            BY <1>1, <2>2
        <3>2. QED BY <3>1
    <2>3. QED BY <2>1, <2>2
<1>14. TextOrdered(after)
    <2>1. ASSUME NEW i \in 1 .. n
          PROVE  after.offsets[i] <= TextEnd(after, i) /\ TextEnd(after, i) <= longer
        <3>1. /\ offsets[i] \in Nat /\ TextEnd(column, i) \in Nat /\ TextEnd(after, i) \in Nat
              /\ offsets[i] <= TextEnd(column, i)
              /\ TextEnd(column, i) <= TextEnd(after, i) /\ TextEnd(after, i) <= longer
            BY <1>10, <1>11
        <3>2. after.offsets[i] = offsets[i]
            BY <1>7
        <3>3. QED BY <3>1, <3>2
    <2>2. ASSUME NEW j \in 1 .. row_count
          PROVE  after.offsets[n + j] <= TextEnd(after, n + j) /\ TextEnd(after, n + j) <= longer
        <3>1. /\ view_offsets[j] \in Nat /\ view_offsets[j + 1] \in Nat
              /\ view_offsets[j] <= view_offsets[j + 1]
            <4>1. j \in 1 .. row_count + 1
                OBVIOUS
            <4>2. QED BY <1>4, <1>5, <4>1
        <3>2. /\ size + view_offsets[j + 1] <= TextEnd(after, n + j)
              /\ TextEnd(after, n + j) <= longer /\ TextEnd(after, n + j) \in Nat
            BY <1>12
        <3>3. after.offsets[n + j] = size + view_offsets[j]
            BY <1>7
        <3> DEFINE v == view_offsets[j]
                   w == view_offsets[j + 1]
                   e == TextEnd(after, n + j)
        <3>4. v \in Nat /\ w \in Nat /\ v <= w /\ size + w <= e /\ e <= longer /\ e \in Nat
            BY <3>1, <3>2
        <3> HIDE DEF v, w, e
        <3>5. size + v <= e
            BY <1>1, <3>4
        <3>6. QED BY <3>3, <3>4, <3>5 DEF v, e
    <2>3. QED BY <1>7, <1>13, <2>1, <2>2 DEF TextOrdered, longer
<1>15. \A i \in 1 .. n + row_count :
           TextAt(after, i) = SubSeq(after.bytes, after.offsets[i] + 1, TextEnd(after, i))
    BY <1>2, <1>7, <1>8, <1>14, TextAtOrdered DEF longer
<1>16. ASSUME NEW i \in 1 .. n
       PROVE  /\ IsPrefix(TextAt(column, i), TextAt(after, i))
              /\ i < n => TextAt(after, i) = TextAt(column, i)
    <2> DEFINE a == offsets[i]
               b == TextEnd(column, i)
               c == TextEnd(after, i)
    <2>1. /\ a \in Nat /\ b \in Nat /\ c \in Nat /\ a <= b /\ b <= size /\ b <= c /\ c <= longer
          /\ TextAt(column, i) = SubSeq(bytes, a + 1, b)
          /\ i < n => c = b
        BY <1>10, <1>11
    <2>2. TextAt(after, i) = SubSeq(after.bytes, a + 1, c)
        <3>1. i \in 1 .. n + row_count
            BY <1>1
        <3>2. QED BY <1>7, <1>15, <3>1
    <2> HIDE DEF a, b, c
    <2>3. SubSeq(after.bytes, a + 1, b) = SubSeq(bytes, a + 1, b)
        BY <1>1, <1>2, <2>1, SubSeqOfFirst DEF size
    <2>4. IsPrefix(SubSeq(after.bytes, a + 1, b), SubSeq(after.bytes, a + 1, c))
        BY <1>2, <2>1, PrefixOfLongerPart DEF longer
    <2>5. QED BY <2>1, <2>2, <2>3, <2>4
<1>17. ASSUME NEW j \in 1 .. row_count
       PROVE  IsPrefix(SubSeq(view_bytes, view_offsets[j] + 1, view_offsets[j + 1]),
                       TextAt(after, n + j))
    <2> DEFINE a == view_offsets[j]
               b == view_offsets[j + 1]
               c == TextEnd(after, n + j)
    <2>1. /\ a \in Nat /\ b \in Nat /\ a <= b /\ b <= Len(view_bytes)
          /\ c \in Nat /\ size + b <= c /\ c <= longer
        <3>1. j \in 1 .. row_count + 1 /\ j + 1 \in 1 .. row_count + 1
            OBVIOUS
        <3>2. QED BY <1>4, <1>5, <1>12, <3>1
    <2>2. TextAt(after, n + j) = SubSeq(after.bytes, (size + a) + 1, c)
        <3>1. n + j \in 1 .. n + row_count
            BY <1>1
        <3>2. after.offsets[n + j] = size + a
            BY <1>7
        <3> HIDE DEF a, c
        <3>3. QED BY <1>15, <3>1, <3>2 DEF c
    <2> HIDE DEF a, b, c
    <2>3. SubSeq(after.bytes, size + a + 1, size + b) = SubSeq(view_bytes, a + 1, b)
        <3>1. SubSeq(bytes \o view_bytes, Len(bytes) + a + 1, Len(bytes) + b)
                 = SubSeq(view_bytes, a + 1, b)
            BY <1>1, <2>1, SubSeqOfSecond
        <3>2. QED BY <1>2, <3>1 DEF size
    <2>4. IsPrefix(SubSeq(after.bytes, (size + a) + 1, size + b),
                   SubSeq(after.bytes, (size + a) + 1, c))
        <3>1. size + a \in Nat /\ size + b \in Nat /\ size + a <= size + b
            BY <1>1, <2>1
        <3>2. QED BY <1>2, <2>1, <3>1, PrefixOfLongerPart DEF longer
    <2>5. QED BY <2>2, <2>3, <2>4 DEF a, b
<1>18. \A i \in 1 .. n - 1 : TextAt(after, i) = TextAt(column, i)
    <2>1. \A i \in 1 .. n - 1 : i \in 1 .. n /\ i < n
        BY <1>1
    <2>2. QED BY <1>16, <2>1
<1>19. QED BY <1>14, <1>16, <1>17, <1>18 DEF after, n, offsets

(* A text that is read is a sequence of bytes.                             *)
LEMMA TextAtType ==
    ASSUME NEW column \in TextColumnBuffers, TextOrdered(column),
           Len(column.bytes) < OffsetRange, NEW i \in 1 .. Len(column.offsets)
    PROVE  TextAt(column, i) \in Seq(Bytes)
<1> DEFINE a == column.offsets[i]
           b == TextEnd(column, i)
<1>1. TextAt(column, i) = SubSeq(column.bytes, a + 1, b)
    BY TextAtOrdered
<1>2. a \in Nat /\ b \in Nat /\ a <= b /\ b <= Len(column.bytes)
    BY TextEndType DEF TextOrdered
<1>3. column.bytes \in Seq(Bytes) /\ Len(column.bytes) \in Nat
    BY LenProperties DEF TextColumnBuffers
<1> HIDE DEF a, b
<1>4. \A k \in a + 1 .. b : column.bytes[k] \in Bytes
    BY <1>2, <1>3, ElementOfSeq
<1>5. SubSeq(column.bytes, a + 1, b) \in Seq(Bytes)
    BY <1>2, <1>4, SubSeqProperties
<1>6. QED BY <1>1, <1>5

-----------------------------------------------------------------------------
(* Row groups.  A cell extends a value if it is the value, or a text that  *)
(* begins with it.                                                         *)
CellExtends(cell, value, c) ==
    /\ cell.type = value.type
    /\ IF Schema[c] = "Int" THEN cell.data = value.data
                            ELSE IsPrefix(value.data, cell.data)

LEMMA AppendValidatedBatchExtends ==
    ASSUME NEW grp \in RowGroups, Aligned(grp), GroupOrdered(grp),
           NEW batch \in ColumnBatches, ValidateColumnBatch(batch),
           Addressable(AppendValidatedBatch(grp, batch)), NEW c \in Columns
    PROVE  LET after == AppendValidatedBatch(grp, batch)
               n     == RowCount(grp)
           IN  /\ Schema[c] = "Text" => TextOrdered(after[c])
               /\ \A i \in 1 .. n : CellExtends(ValueAt(after, i, c), ValueAt(grp, i, c), c)
               /\ \A i \in 1 .. n - 1 : ValueAt(after, i, c) = ValueAt(grp, i, c)
               /\ \A j \in 1 .. batch.row_count :
                     CellExtends(ValueAt(after, n + j, c), BatchCell(batch, j, c), c)
<1> DEFINE after == AppendValidatedBatch(grp, batch)
           n     == RowCount(grp)
           count == batch.row_count
           view  == batch.columns[c]
<1>1. n \in Nat /\ count \in Nat /\ view.type = Schema[c] /\ ColumnSize(grp[c]) = n
    BY RowCountType, ValidView DEF Aligned
<1>2. CASE Schema[c] = "Int"
    <2> DEFINE values == view.values
               first  == SubSeq(values, 1, count)
               old    == grp[c].values
    <2>1. /\ values \in Seq(IntValues) /\ Len(values) \in Nat /\ count <= Len(values)
          /\ old \in Seq(IntValues) /\ Len(old) = n
        <3>1. values \in Seq(IntValues) /\ Len(values) \in Nat /\ count <= Len(values)
            BY <1>2, ValidView
        <3>2. old \in Seq(IntValues)
            BY <1>2, GroupColumn DEF IntColumnBuffers
        <3>3. Len(old) = n
            BY <1>1, <1>2, ColumnSizeType
        <3>4. QED BY <3>1, <3>2, <3>3
    <2>2. after[c].values = old \o first
        <3> DEFINE column == grp[c]
        <3>1. after[c] = IntAppendSpan(column, first)
            BY <1>1, <1>2 DEF AppendValidatedBatch
        <3> HIDE DEF column, first, after
        <3>2. IntAppendSpan(column, first).values = column.values \o first
            BY DEF IntAppendSpan
        <3>3. QED BY <3>1, <3>2 DEF column
    <2>3. /\ \A i : ValueAt(after, i, c) = IntValue(after[c].values[i])
          /\ \A i : ValueAt(grp, i, c) = IntValue(old[i])
          /\ \A j : BatchCell(batch, j, c) = IntValue(values[j])
        BY <1>2 DEF ValueAt, BatchCell
    <2> HIDE DEF values, old, n, count, view, after
    <2>4. \A k \in 1 .. count : values[k] \in IntValues
        BY <1>1, <2>1, ElementOfSeq
    <2>5. /\ first \in Seq(IntValues) /\ Len(first) = count
          /\ \A j \in 1 .. count : first[j] = values[j]
        BY <1>1, <2>4, SubSeqProperties
    <2> HIDE DEF first
    <2>6. \A i \in 1 .. Len(old) + Len(first) :
             (old \o first)[i] = IF i <= Len(old) THEN old[i] ELSE first[i - Len(old)]
        BY <2>1, <2>5, ConcatProperties
    <2>7. \A i \in 1 .. n : after[c].values[i] = old[i]
        BY <1>1, <2>1, <2>2, <2>5, <2>6
    <2>8. ASSUME NEW j \in 1 .. count
          PROVE  after[c].values[n + j] = values[j]
        <3>1. n + j \in 1 .. Len(old) + Len(first) /\ ~(n + j <= Len(old)) /\ (n + j) - Len(old) = j
            BY <1>1, <2>1, <2>5
        <3> DEFINE p == n + j
        <3>2. p \in 1 .. Len(old) + Len(first) /\ ~(p <= Len(old)) /\ p - Len(old) = j
            BY <3>1
        <3> HIDE DEF p
        <3>3. after[c].values[p] = first[p - Len(old)]
            BY <2>2, <2>6, <3>2
        <3>4. QED BY <2>5, <3>2, <3>3 DEF p
    <2>9. \A i \in 1 .. n : ValueAt(after, i, c) = ValueAt(grp, i, c)
        BY <2>3, <2>7
    <2>10. \A j \in 1 .. count : ValueAt(after, n + j, c) = BatchCell(batch, j, c)
        BY <2>3, <2>8
    <2>11. \A i \in 1 .. n - 1 : i \in 1 .. n
        BY <1>1
    <2>12. QED BY <1>2, <2>9, <2>10, <2>11 DEF CellExtends, n, count, after
<1>3. CASE Schema[c] = "Text"
    <2> DEFINE offsets == view.offsets
               bytes   == view.bytes
    <2>1. /\ offsets \in Seq(Offsets) /\ bytes \in Seq(Bytes)
          /\ Len(offsets) = count + 1 /\ offsets[1] = 0
          /\ offsets[count + 1] <= Len(bytes) /\ TextOffsetsAreMonotonic(offsets)
        BY <1>3, ValidView
    <2>2. grp[c] \in TextColumnBuffers /\ TextOrdered(grp[c]) /\ Len(grp[c].offsets) = n
        BY <1>1, <1>3, GroupColumn, ColumnSizeType DEF GroupOrdered
    <2>3. after[c] = TextAppendBatch(grp[c], offsets, bytes, count)
        BY <1>1, <1>3 DEF AppendValidatedBatch
    <2>4. Len(after[c].bytes) < OffsetRange
        BY <1>3 DEF Addressable
    <2>5. /\ \A i : ValueAt(after, i, c) = TextValue(TextAt(after[c], i))
          /\ \A i : ValueAt(grp, i, c) = TextValue(TextAt(grp[c], i))
          /\ \A j : BatchCell(batch, j, c)
                       = TextValue(SubSeq(bytes, offsets[j] + 1, offsets[j + 1]))
        BY <1>3 DEF ValueAt, BatchCell
    <2> HIDE DEF offsets, bytes, n, count, view, after
    <2>6. /\ TextOrdered(after[c])
          /\ \A i \in 1 .. n : IsPrefix(TextAt(grp[c], i), TextAt(after[c], i))
          /\ \A i \in 1 .. n - 1 : TextAt(after[c], i) = TextAt(grp[c], i)
          /\ \A j \in 1 .. count :
                IsPrefix(SubSeq(bytes, offsets[j] + 1, offsets[j + 1]), TextAt(after[c], n + j))
        <3> DEFINE column == grp[c]
                   new    == TextAppendBatch(column, offsets, bytes, count)
        <3>1. /\ column \in TextColumnBuffers /\ TextOrdered(column) /\ Len(column.offsets) = n
              /\ after[c] = new /\ Len(new.bytes) < OffsetRange
            BY <2>2, <2>3, <2>4
        <3> HIDE DEF column
        <3>2. /\ TextOrdered(new)
              /\ \A i \in 1 .. Len(column.offsets) : IsPrefix(TextAt(column, i), TextAt(new, i))
              /\ \A i \in 1 .. Len(column.offsets) - 1 : TextAt(new, i) = TextAt(column, i)
              /\ \A j \in 1 .. count :
                    IsPrefix(SubSeq(bytes, offsets[j] + 1, offsets[j + 1]),
                             TextAt(new, Len(column.offsets) + j))
            BY <1>1, <2>1, <3>1, TextAppendBatchExtends
        <3> HIDE DEF new
        <3>3. QED BY <3>1, <3>2 DEF column
    <2>7. \A s, t : IsPrefix(s, t) => CellExtends(TextValue(t), TextValue(s), c)
        BY <1>3 DEF CellExtends, TextValue
    <2>8. QED BY <2>5, <2>6, <2>7 DEF n, count, after
<1>4. QED BY <1>2, <1>3, GroupColumn

(* CellExtends is reflexive on the values of a group or a row, and         *)
(* transitive.                                                             *)
TypedFor(value, c) ==
    /\ value.type = Schema[c]
    /\ Schema[c] = "Text" => value.data \in Seq(Bytes)

LEMMA CellExtendsReflexive ==
    ASSUME NEW c \in Columns, NEW value, TypedFor(value, c)
    PROVE  CellExtends(value, value, c)
<1>1. Schema[c] \in {"Int", "Text"}
    BY SchemaAssumption, ElementOfSeq DEF Columns, LogicalTypes
<1>2. CASE Schema[c] = "Int"
    BY <1>2 DEF CellExtends
<1>3. CASE Schema[c] = "Text"
    <2>1. value.data \in Seq(Bytes) /\ Len(value.data) \in Nat
        BY <1>3, LenProperties DEF TypedFor
    <2>2. IsPrefix(value.data, value.data)
        BY <2>1, PrefixElements
    <2>3. QED BY <1>3, <2>2 DEF CellExtends
<1>4. QED BY <1>1, <1>2, <1>3

LEMMA CellExtendsTransitive ==
    ASSUME NEW c \in Columns, NEW u, NEW v, NEW w,
           TypedFor(u, c), TypedFor(v, c), TypedFor(w, c),
           CellExtends(v, u, c), CellExtends(w, v, c)
    PROVE  CellExtends(w, u, c)
<1>1. Schema[c] \in {"Int", "Text"}
    BY SchemaAssumption, ElementOfSeq DEF Columns, LogicalTypes
<1>2. CASE Schema[c] = "Int"
    BY <1>2 DEF CellExtends
<1>3. CASE Schema[c] = "Text"
    <2>1. u.data \in Seq(Bytes) /\ v.data \in Seq(Bytes) /\ w.data \in Seq(Bytes)
        BY <1>3 DEF TypedFor
    <2>2. IsPrefix(u.data, v.data) /\ IsPrefix(v.data, w.data)
        BY <1>3 DEF CellExtends
    <2>3. IsPrefix(u.data, w.data)
        BY <2>1, <2>2, PrefixTransitive
    <2>4. QED BY <1>3, <2>3 DEF CellExtends
<1>4. QED BY <1>1, <1>2, <1>3

(* The cells of a group whose texts are ordered, and those of a valid row. *)
LEMMA GroupCellTyped ==
    ASSUME NEW grp \in RowGroups, Aligned(grp), Addressable(grp), GroupOrdered(grp),
           NEW c \in Columns, NEW i \in 1 .. RowCount(grp)
    PROVE  TypedFor(ValueAt(grp, i, c), c)
<1>1. Schema[c] \in {"Int", "Text"}
    BY GroupColumn
<1>2. CASE Schema[c] = "Int"
    BY <1>2 DEF TypedFor, ValueAt, IntValue
<1>3. CASE Schema[c] = "Text"
    <2>1. /\ grp[c] \in TextColumnBuffers /\ TextOrdered(grp[c])
          /\ Len(grp[c].bytes) < OffsetRange
        BY <1>3, GroupColumn DEF GroupOrdered, Addressable
    <2>2. Len(grp[c].offsets) = RowCount(grp)
        BY <1>3, ColumnSizeType DEF Aligned
    <2>3. TextAt(grp[c], i) \in Seq(Bytes)
        BY <2>1, <2>2, TextAtType
    <2>4. QED BY <1>3, <2>3 DEF TypedFor, ValueAt, TextValue
<1>4. QED BY <1>1, <1>2, <1>3

LEMMA GoodRowTyped ==
    ASSUME NEW row \in GoodRows, NEW c \in Columns
    PROVE  TypedFor(row[c], c)
BY ValidCell DEF GoodRows, TypedFor

-----------------------------------------------------------------------------
(***************************************************************************)
(* Promised(grp, lg): the group is well-formed, has as many rows as lg,    *)
(* and, while its blobs can be addressed, its cells extend those of lg.    *)
(***************************************************************************)
RowExtends(grp, i, row) == \A c \in Columns : CellExtends(ValueAt(grp, i, c), row[c], c)

Promised(grp, lg) ==
    /\ grp \in RowGroups /\ Aligned(grp) /\ lg \in Seq(GoodRows)
    /\ RowCount(grp) = Len(lg) /\ Len(lg) <= Capacity
    /\ Addressable(grp) =>
          GroupOrdered(grp) /\ \A i \in 1 .. Len(lg) : RowExtends(grp, i, lg[i])

(* What a call keeps of the rows that were there: the first k of them.     *)
KeepsRows(old, new, k) ==
    Addressable(new) =>
        /\ Addressable(old)
        /\ \A i \in 1 .. k : MaterializeRow(new, i) = MaterializeRow(old, i)

LEMMA NewRowGroupPromised == Promised(NewRowGroup, << >>)
<1>1. /\ NewRowGroup \in RowGroups /\ Aligned(NewRowGroup)
      /\ RowCount(NewRowGroup) = 0 /\ GroupOrdered(NewRowGroup)
    BY NewRowGroupFacts
<1>2. << >> \in Seq(GoodRows) /\ Len(<< >>) = 0
    BY EmptySeq
<1>3. QED BY <1>1, <1>2, CapacityAssumption DEF Promised

LEMMA RowPromised ==
    ASSUME NEW grp, NEW lg, Promised(grp, lg), Len(lg) < Capacity,
           NEW values \in Seq(Values), ValidateValues(values)
    PROVE  /\ Promised(AppendValidatedRow(grp, values), Append(lg, values))
           /\ KeepsRows(grp, AppendValidatedRow(grp, values), RowCount(grp))
<1> DEFINE new  == AppendValidatedRow(grp, values)
           more == Append(lg, values)
           n    == Len(lg)
<1>1. /\ grp \in RowGroups /\ Aligned(grp) /\ lg \in Seq(GoodRows)
      /\ RowCount(grp) = n /\ n \in Nat /\ Capacity \in Nat /\ values \in GoodRows
    BY CapacityAssumption, LenProperties DEF Promised, GoodRows
<1>2. /\ more \in Seq(GoodRows) /\ Len(more) = n + 1
      /\ \A i \in 1 .. n : more[i] = lg[i]
      /\ more[n + 1] = values
    BY <1>1, AppendProperties
<1>3. new \in RowGroups /\ Aligned(new) /\ RowCount(new) = n + 1
    BY <1>1, AppendValidatedRowStructure
<1>4. Addressable(new) => Addressable(grp)
    BY <1>1, AddressableBefore
<1>5. ASSUME Addressable(new)
      PROVE  /\ GroupOrdered(new)
             /\ \A i \in 1 .. n : MaterializeRow(new, i) = MaterializeRow(grp, i)
             /\ MaterializeRow(new, n + 1) = values
             /\ \A i \in 1 .. n : RowExtends(grp, i, lg[i])
    <2>1. GroupOrdered(grp) /\ \A i \in 1 .. n : RowExtends(grp, i, lg[i])
        BY <1>4, <1>5 DEF Promised
    <2>2. QED BY <1>1, <1>5, <2>1, AppendValidatedRowExact
<1> HIDE DEF new, more, n
<1>6. ASSUME Addressable(new), NEW i \in 1 .. n + 1
      PROVE  RowExtends(new, i, more[i])
    <2>1. ASSUME NEW g, NEW k, NEW c \in Columns
          PROVE  ValueAt(g, k, c) = MaterializeRow(g, k)[c]
        BY DEF MaterializeRow
    <2>2. CASE i \in 1 .. n
        <3>1. MaterializeRow(new, i) = MaterializeRow(grp, i) /\ RowExtends(grp, i, lg[i])
            BY <1>5, <1>6, <2>2
        <3>2. \A c \in Columns : ValueAt(new, i, c) = ValueAt(grp, i, c)
            BY <2>1, <3>1
        <3>3. QED BY <1>2, <2>2, <3>1, <3>2 DEF RowExtends
    <2>3. CASE i = n + 1
        <3>1. \A c \in Columns : ValueAt(new, n + 1, c) = values[c]
            BY <1>5, <1>6, <2>1
        <3>2. \A c \in Columns : CellExtends(values[c], values[c], c)
            BY <1>1, GoodRowTyped, CellExtendsReflexive
        <3>3. QED BY <1>2, <2>3, <3>1, <3>2 DEF RowExtends
    <2>4. QED BY <1>1, <2>2, <2>3
<1>7. Promised(new, more)
    BY <1>1, <1>2, <1>3, <1>5, <1>6 DEF Promised, n
<1>8. KeepsRows(grp, new, RowCount(grp))
    BY <1>1, <1>4, <1>5 DEF KeepsRows
<1>9. QED BY <1>7, <1>8 DEF new, more

LEMMA BatchPromised ==
    ASSUME NEW grp, NEW lg, Promised(grp, lg),
           NEW batch \in ColumnBatches, ValidateColumnBatch(batch),
           batch.row_count <= Capacity - Len(lg)
    PROVE  /\ Promised(AppendValidatedBatch(grp, batch), lg \o BatchRows(batch))
           /\ KeepsRows(grp, AppendValidatedBatch(grp, batch), RowCount(grp) - 1)
<1> DEFINE new   == AppendValidatedBatch(grp, batch)
           rows  == BatchRows(batch)
           more  == lg \o rows
           n     == Len(lg)
           count == batch.row_count
<1>1. /\ grp \in RowGroups /\ Aligned(grp) /\ lg \in Seq(GoodRows)
      /\ RowCount(grp) = n /\ n \in Nat /\ Capacity \in Nat
      /\ count \in Nat /\ count <= Capacity - n
    BY CapacityAssumption, LenProperties DEF Promised, ColumnBatches
<1>2. /\ rows \in Seq(GoodRows) /\ Len(rows) = count
      /\ \A j \in 1 .. count : rows[j] = BatchRow(batch, j)
    <2>1. \A j \in 1 .. count : BatchRow(batch, j) \in GoodRows
        BY BatchRowValid
    <2>2. rows = [j \in 1 .. count |-> BatchRow(batch, j)]
        BY DEF BatchRows
    <2>3. QED BY <1>1, <2>1, <2>2
<1>3. new \in RowGroups /\ Aligned(new) /\ RowCount(new) = n + count
    BY <1>1, AppendValidatedBatchStructure
<1>4. Addressable(new) => Addressable(grp)
    BY <1>1, AddressableBefore
<1>5. ASSUME Addressable(new), NEW c \in Columns
      PROVE  /\ Schema[c] = "Text" => TextOrdered(new[c])
             /\ \A i \in 1 .. n : CellExtends(ValueAt(new, i, c), ValueAt(grp, i, c), c)
             /\ \A i \in 1 .. n - 1 : ValueAt(new, i, c) = ValueAt(grp, i, c)
             /\ \A j \in 1 .. count :
                   CellExtends(ValueAt(new, n + j, c), BatchCell(batch, j, c), c)
    <2>1. GroupOrdered(grp)
        BY <1>4, <1>5 DEF Promised
    <2>2. QED BY <1>1, <1>5, <2>1, AppendValidatedBatchExtends
<1>6. \A j \in 1 .. count, c \in Columns : rows[j][c] = BatchCell(batch, j, c)
    BY <1>2 DEF BatchRow
<1> HIDE DEF new, rows, more, n, count
<1>7. /\ more \in Seq(GoodRows) /\ Len(more) = n + count
      /\ \A i \in 1 .. n : more[i] = lg[i]
      /\ \A j \in 1 .. count : more[n + j] = rows[j]
    <2>1. /\ more \in Seq(GoodRows) /\ Len(more) = Len(lg) + Len(rows)
          /\ \A i \in 1 .. Len(lg) + Len(rows) :
                more[i] = IF i <= Len(lg) THEN lg[i] ELSE rows[i - Len(lg)]
        BY <1>1, <1>2, ConcatProperties DEF more
    <2>2. Len(lg) = n /\ Len(rows) = count
        BY <1>2 DEF n
    <2>3. \A i \in 1 .. n : more[i] = lg[i]
        BY <1>1, <2>1, <2>2
    <2>4. ASSUME NEW j \in 1 .. count
          PROVE  more[n + j] = rows[j]
        <3> DEFINE i == n + j
        <3>1. i \in 1 .. n + count /\ ~(i <= n) /\ i - n = j
            BY <1>1
        <3> HIDE DEF i
        <3>2. more[i] = rows[i - n]
            BY <2>1, <2>2, <3>1
        <3>3. QED BY <3>1, <3>2 DEF i
    <2>5. QED BY <2>1, <2>2, <2>3, <2>4
<1>8. ASSUME Addressable(new)
      PROVE  GroupOrdered(new)
    BY <1>5, <1>8 DEF GroupOrdered
<1>9. ASSUME Addressable(new), NEW i \in 1 .. n + count, NEW c \in Columns
      PROVE  CellExtends(ValueAt(new, i, c), more[i][c], c)
    <2>1. CASE i \in 1 .. n
        <3>1. GroupOrdered(grp) /\ RowExtends(grp, i, lg[i])
            BY <1>4, <1>9, <2>1 DEF Promised, n
        <3>2. CellExtends(ValueAt(grp, i, c), lg[i][c], c)
            BY <3>1 DEF RowExtends
        <3>3. CellExtends(ValueAt(new, i, c), ValueAt(grp, i, c), c)
            BY <1>5, <1>9, <2>1
        <3>4. TypedFor(ValueAt(grp, i, c), c)
            BY <1>1, <1>4, <1>9, <2>1, <3>1, GroupCellTyped
        <3>5. TypedFor(ValueAt(new, i, c), c)
            BY <1>3, <1>8, <1>9, GroupCellTyped
        <3>6. TypedFor(lg[i][c], c)
            <4>1. lg[i] \in GoodRows
                BY <1>1, <2>1, ElementOfSeq DEF n
            <4>2. QED BY <4>1, GoodRowTyped
        <3>7. CellExtends(ValueAt(new, i, c), lg[i][c], c)
            BY <3>2, <3>3, <3>4, <3>5, <3>6, CellExtendsTransitive
        <3>8. QED BY <1>7, <2>1, <3>7
    <2>2. CASE ~(i \in 1 .. n)
        <3> DEFINE j == i - n
        <3>1. j \in 1 .. count /\ i = n + j
            BY <1>1, <2>2
        <3> HIDE DEF j
        <3>2. CellExtends(ValueAt(new, n + j, c), BatchCell(batch, j, c), c)
            BY <1>5, <1>9, <3>1
        <3>3. more[n + j][c] = BatchCell(batch, j, c)
            BY <1>6, <1>7, <3>1
        <3>4. QED BY <3>1, <3>2, <3>3
    <2>3. QED BY <2>1, <2>2
<1>10. Promised(new, more)
    <2>1. \A i \in 1 .. n + count : Addressable(new) => RowExtends(new, i, more[i])
        BY <1>9 DEF RowExtends
    <2>2. n + count <= Capacity
        BY <1>1
    <2>3. QED BY <1>3, <1>7, <1>8, <2>1, <2>2 DEF Promised
<1>11. KeepsRows(grp, new, RowCount(grp) - 1)
    <2>1. ASSUME Addressable(new), NEW i \in 1 .. n - 1
          PROVE  MaterializeRow(new, i) = MaterializeRow(grp, i)
        BY <1>5, <2>1 DEF MaterializeRow
    <2>2. QED BY <1>1, <1>4, <2>1 DEF KeepsRows
<1>12. QED BY <1>10, <1>11 DEF new, more, rows

-----------------------------------------------------------------------------
(* append_rows: the rows are appended one after the other, and what the    *)
(* first n of them leave is a function of what the first n - 1 left.       *)
AfterRow(write, values) ==
    IF write.status # "Ok" THEN write ELSE RowGroupAppendRow(write.group, values)

AppendsStepwise(f, grp, rows) ==
    /\ RowGroupAppendRows(grp, rows) = f[Len(rows)]
    /\ f[0] = [status |-> "Ok", group |-> grp]
    /\ \A n \in 1 .. Len(rows) : f[n] = AfterRow(f[n - 1], rows[n])

LEMMA AppendRowsStepwise ==
    ASSUME NEW grp, NEW rows, Len(rows) \in Nat
    PROVE  \E f : AppendsStepwise(f, grp, rows)
<1> DEFINE start      == [status |-> "Ok", group |-> grp]
           Steps(f, k) == f = [n \in 0 .. k |->
                                  IF n = 0 THEN start
                                  ELSE IF f[n - 1].status # "Ok" THEN f[n - 1]
                                  ELSE RowGroupAppendRow(f[n - 1].group, rows[n])]
           T == {k \in Nat : \E f : Steps(f, k)}
<1>1. 0 \in T
    <2>1. Steps([n \in 0 .. 0 |-> start], 0)
        OBVIOUS
    <2>2. QED BY <2>1
<1>2. \A k \in T : k + 1 \in T
    <2> TAKE k \in T
    <2>1. PICK f : Steps(f, k)
        OBVIOUS
    <2>2. k \in Nat
        OBVIOUS
    <2> DEFINE g == [n \in 0 .. k + 1 |-> IF n <= k THEN f[n] ELSE AfterRow(f[k], rows[k + 1])]
    <2>3. \A n \in 0 .. k : g[n] = f[n]
        BY <2>2
    <2>4. g[k + 1] = AfterRow(f[k], rows[k + 1])
        BY <2>2
    <2>5. DOMAIN g = 0 .. k + 1 /\ g = [n \in 0 .. k + 1 |-> g[n]]
        OBVIOUS
    <2>6. f[0] = start /\ \A n \in 1 .. k : f[n] = AfterRow(f[n - 1], rows[n])
        <3>1. \A n \in 0 .. k : f[n] = IF n = 0 THEN start
                                  ELSE IF f[n - 1].status # "Ok" THEN f[n - 1]
                                  ELSE RowGroupAppendRow(f[n - 1].group, rows[n])
            BY <2>1
        <3> HIDE DEF Steps, start
        <3>2. 0 \in 0 .. k /\ \A n \in 1 .. k : n \in 0 .. k /\ n # 0
            BY <2>2
        <3>3. QED BY <3>1, <3>2 DEF AfterRow
    <2> HIDE DEF g, start, T, Steps
    <2>7. \A n \in 0 .. k + 1 :
             g[n] = IF n = 0 THEN start
                    ELSE IF g[n - 1].status # "Ok" THEN g[n - 1]
                    ELSE RowGroupAppendRow(g[n - 1].group, rows[n])
        <3> TAKE n \in 0 .. k + 1
        <3>1. CASE n = 0
            <4>1. 0 \in 0 .. k
                BY <2>2
            <4>2. QED BY <2>3, <2>6, <3>1, <4>1
        <3>2. CASE n \in 1 .. k
            <4>1. n - 1 \in 0 .. k /\ n \in 0 .. k /\ n # 0
                BY <2>2, <3>2
            <4>2. QED BY <2>3, <2>6, <3>2, <4>1 DEF AfterRow
        <3>3. CASE n = k + 1
            <4>1. n - 1 = k /\ k \in 0 .. k /\ n # 0
                BY <2>2, <3>3
            <4>2. g[n - 1] = f[k] /\ g[n] = AfterRow(f[k], rows[n])
                BY <2>3, <2>4, <3>3, <4>1
            <4>3. QED BY <4>1, <4>2 DEF AfterRow
        <3>4. QED BY <2>2, <3>1, <3>2, <3>3
    <2>8. Steps(g, k + 1)
        BY <2>5, <2>7 DEF Steps
    <2>9. QED BY <2>2, <2>8 DEF T
<1> DEFINE after[n \in 0 .. Len(rows)] ==
               IF n = 0 THEN start
               ELSE IF after[n - 1].status # "Ok" THEN after[n - 1]
               ELSE RowGroupAppendRow(after[n - 1].group, rows[n])
<1>3. RowGroupAppendRows(grp, rows) = after[Len(rows)]
    BY DEF RowGroupAppendRows
<1>4. \E f : Steps(f, Len(rows))
    <2>1. T \in SUBSET Nat
        OBVIOUS
    <2> HIDE DEF T
    <2>2. T = Nat
        BY <1>1, <1>2, <2>1, NatSetInduction
    <2>3. Len(rows) \in T
        BY <2>2
    <2>4. QED BY <2>3 DEF T
<1>5. Steps(after, Len(rows))
    BY ONLY <1>4, Zenon
<1>6. \A n \in 0 .. Len(rows) :
         after[n] = IF n = 0 THEN start
                    ELSE IF after[n - 1].status # "Ok" THEN after[n - 1]
                    ELSE RowGroupAppendRow(after[n - 1].group, rows[n])
    <2> HIDE DEF after
    <2>1. QED BY <1>5
<1> HIDE DEF after, start, T, Steps
<1>7. after[0] = start /\ \A n \in 1 .. Len(rows) : after[n] = AfterRow(after[n - 1], rows[n])
    <2>1. 0 \in 0 .. Len(rows) /\ \A n \in 1 .. Len(rows) : n \in 0 .. Len(rows) /\ n # 0
        OBVIOUS
    <2>2. QED BY <1>6, <2>1 DEF AfterRow
<1>8. AppendsStepwise(after, grp, rows)
    BY <1>3, <1>7 DEF start, AppendsStepwise
<1>9. QED BY <1>8

(* A sequence followed by the first n + 1 elements of another one.         *)
LEMMA AppendNext ==
    ASSUME NEW S, NEW s \in Seq(S), NEW t \in Seq(S), NEW n \in Nat, n < Len(t)
    PROVE  Append(s \o SubSeq(t, 1, n), t[n + 1]) = s \o SubSeq(t, 1, n + 1)
<1>1. /\ Len(t) \in Nat /\ n + 1 \in 1 .. Len(t) /\ 1 \in 1 .. Len(t)
      /\ n + 1 \in 1 .. Len(t) /\ (n + 1) - 1 = n
    BY LenProperties
<1>2. t[n + 1] \in S /\ \A i \in 1 .. n : t[i] \in S
    BY <1>1, ElementOfSeq
<1> DEFINE first == SubSeq(t, 1, n)
           next  == t[n + 1]
<1>3. first \in Seq(S) /\ <<next>> \in Seq(S)
    BY <1>2, SubSeqProperties
<1>4. SubSeq(t, 1, n + 1) = first \o <<next>>
    BY <1>1, SubSeqRecursiveSecond
<1> HIDE DEF first, next
<1>5. Append(s \o first, next) = (s \o first) \o <<next>>
    BY <1>2, <1>3, ConcatProperties, AppendIsConcat DEF next
<1>6. (s \o first) \o <<next>> = s \o (first \o <<next>>)
    BY <1>3, ConcatAssociative
<1>7. QED BY <1>4, <1>5, <1>6 DEF first, next

(* How many rows of a span are accepted by a group that promises lg: the   *)
(* definition of AcceptedRows determines the number.                       *)
Accepts(lg, rows, n) ==
    /\ n \in 0 .. Len(rows)
    /\ n <= Capacity - Len(lg) /\ \A i \in 1 .. n : ValidateValues(rows[i])
    /\ n = Len(rows) \/ n = Capacity - Len(lg) \/ ~ValidateValues(rows[n + 1])

LEMMA AcceptedRowsUnique ==
    ASSUME NEW rows, NEW m, Accepts(log, rows, m), Len(rows) \in Nat, Len(log) \in Nat
    PROVE  AcceptedRows(rows) = m
<1> DEFINE n == AcceptedRows(rows)
<1>1. n = CHOOSE k \in 0 .. Len(rows) : Accepts(log, rows, k)
    BY DEF AcceptedRows, Accepts, FreeRows
<1>2. Accepts(log, rows, n)
    BY <1>1 DEF Accepts
<1> HIDE DEF n
<1>3. n \in Nat /\ m \in Nat /\ Capacity \in Nat
    BY <1>2, CapacityAssumption DEF Accepts
<1>4. ~(n < m)
    <2>1. SUFFICES ASSUME n < m PROVE FALSE
        OBVIOUS
    <2>2. n + 1 \in 1 .. m /\ n # Len(rows) /\ n # Capacity - Len(log)
        BY <1>2, <1>3, <2>1 DEF Accepts
    <2>3. ValidateValues(rows[n + 1])
        BY <2>2 DEF Accepts
    <2>4. QED BY <1>2, <2>2, <2>3 DEF Accepts
<1>5. ~(m < n)
    <2>1. SUFFICES ASSUME m < n PROVE FALSE
        OBVIOUS
    <2>2. m + 1 \in 1 .. n /\ m # Len(rows) /\ m # Capacity - Len(log)
        BY <1>2, <1>3, <2>1 DEF Accepts
    <2>3. ValidateValues(rows[m + 1])
        BY <1>2, <2>2 DEF Accepts
    <2>4. QED BY <2>2, <2>3 DEF Accepts
<1>6. QED BY <1>3, <1>4, <1>5 DEF n

RowStatuses == {"Ok", "RowGroupFull", "RowRejected"}

(* A span leaves its accepted rows, and no other trace.                    *)
LEMMA SpanPromised ==
    ASSUME NEW grp, NEW lg, Promised(grp, lg), NEW rows \in Seq(Seq(Values))
    PROVE  LET write == RowGroupAppendRows(grp, rows)
           IN  /\ write.status \in RowStatuses
               /\ KeepsRows(grp, write.group, RowCount(grp))
               /\ \E m : /\ Accepts(lg, rows, m)
                         /\ Promised(write.group, lg \o SubSeq(rows, 1, m))
<1> DEFINE size == Len(rows)
           free == Capacity - Len(lg)
<1>1. /\ grp \in RowGroups /\ RowCount(grp) = Len(lg) /\ RowCount(grp) \in Nat
      /\ lg \in Seq(GoodRows) /\ free \in Nat /\ size \in Nat /\ Capacity \in Nat
    BY CapacityAssumption, LenProperties DEF Promised
<1>2. PICK f : /\ RowGroupAppendRows(grp, rows) = f[size]
               /\ f[0] = [status |-> "Ok", group |-> grp]
               /\ \A n \in 1 .. size : f[n] = AfterRow(f[n - 1], rows[n])
    <2>1. Len(rows) \in Nat
        BY <1>1
    <2>2. \E f : AppendsStepwise(f, grp, rows)
        BY <2>1, AppendRowsStepwise
    <2>3. QED BY <2>2 DEF AppendsStepwise
<1> DEFINE After(n) ==
               /\ f[n].status \in RowStatuses
               /\ KeepsRows(grp, f[n].group, RowCount(grp))
               /\ \E m \in 0 .. n :
                     /\ m <= free /\ \A i \in 1 .. m : ValidateValues(rows[i])
                     /\ Promised(f[n].group, lg \o SubSeq(rows, 1, m))
                     /\ IF f[n].status = "Ok" THEN m = n
                        ELSE m < n /\ (m = free \/ ~ValidateValues(rows[m + 1]))
           T == {n \in Nat : n <= size => After(n)}
<1>3. 0 \in T
    <2>1. f[0].status = "Ok" /\ f[0].group = grp
        BY <1>2
    <2>2. lg \o SubSeq(rows, 1, 0) = lg
        BY <1>1, SubSeqEmpty, ConcatEmptySeq
    <2>3. KeepsRows(grp, grp, RowCount(grp))
        BY DEF KeepsRows
    <2>4. 0 \in 0 .. 0 /\ 0 <= free /\ \A i \in 1 .. 0 : ValidateValues(rows[i])
        BY <1>1
    <2> HIDE DEF size, free
    <2>5. Promised(f[0].group, lg \o SubSeq(rows, 1, 0)) /\ KeepsRows(grp, f[0].group, RowCount(grp))
        BY <2>1, <2>2, <2>3
    <2>6. After(0)
        BY <2>1, <2>4, <2>5 DEF RowStatuses
    <2> HIDE DEF After
    <2>7. QED BY <2>6
<1> HIDE DEF size, free
<1>4. ASSUME NEW n \in Nat, n + 1 <= size, After(n)
      PROVE  After(n + 1)
    <2>1. PICK m \in 0 .. n :
             /\ m <= free /\ \A i \in 1 .. m : ValidateValues(rows[i])
             /\ Promised(f[n].group, lg \o SubSeq(rows, 1, m))
             /\ IF f[n].status = "Ok" THEN m = n
                ELSE m < n /\ (m = free \/ ~ValidateValues(rows[m + 1]))
        BY <1>4
    <2>2. f[n + 1] = AfterRow(f[n], rows[n + 1])
        <3>1. n + 1 \in 1 .. size /\ (n + 1) - 1 = n
            BY <1>1, <1>4
        <3>2. QED BY <1>2, <3>1
    <2>3. f[n].status \in RowStatuses /\ KeepsRows(grp, f[n].group, RowCount(grp))
        BY <1>4
    <2>4. CASE f[n].status # "Ok"
        <3>1. f[n + 1] = f[n]
            BY <2>2, <2>4 DEF AfterRow
        <3>2. m \in 0 .. n + 1 /\ m < n + 1
            BY <2>1
        <3>3. m = free \/ ~ValidateValues(rows[m + 1])
            BY <2>1, <2>4
        <3>4. QED BY <2>1, <2>3, <2>4, <3>1, <3>2, <3>3
    <2>5. CASE f[n].status = "Ok"
        <3> DEFINE old  == f[n].group
                   lg_n == lg \o SubSeq(rows, 1, n)
                   row  == rows[n + 1]
                   new  == AppendValidatedRow(old, row)
        <3>1. /\ m = n /\ Promised(old, lg_n) /\ n <= free
              /\ \A i \in 1 .. n : ValidateValues(rows[i])
            BY <2>1, <2>5
        <3>2. f[n + 1] = RowGroupAppendRow(old, row)
            BY <2>2, <2>5 DEF AfterRow
        <3>3. row \in Seq(Values)
            BY <1>1, <1>4, ElementOfSeq DEF size
        <3>4. Len(lg_n) = Len(lg) + n
            <4>1. \A i \in 1 .. n : rows[i] \in Seq(Values)
                BY <1>1, <1>4, ElementOfSeq DEF size
            <4>2. SubSeq(rows, 1, n) \in Seq(Seq(Values)) /\ Len(SubSeq(rows, 1, n)) = n
                BY <4>1, SubSeqProperties
            <4>3. lg \in Seq(Seq(Values))
                BY <1>1, SeqMonotonic DEF GoodRows
            <4>4. QED BY <4>2, <4>3, ConcatProperties
        <3>5. RowCount(old) = Len(lg) + n /\ Len(lg) \in Nat /\ Capacity - Len(lg) = free
            BY <1>1, <3>1, <3>4, LenProperties DEF Promised, free
        <3>6. n \in 0 .. n + 1 /\ n < n + 1
            OBVIOUS
        <3> HIDE DEF old, lg_n, row
        <3>7. CASE IsFull(old)
            <4>1. f[n + 1] = [status |-> "RowGroupFull", group |-> old]
                BY <3>2, <3>7 DEF RowGroupAppendRow
            <4>2. n = free
                BY <1>1, <3>1, <3>5, <3>7 DEF IsFull
            <4>3. /\ f[n + 1].status = "RowGroupFull" /\ f[n + 1].group = old
                BY <4>1
            <4>4. QED BY <2>3, <3>1, <3>6, <4>2, <4>3 DEF old, lg_n, RowStatuses
        <3>8. CASE ~IsFull(old) /\ ~ValidateValues(row)
            <4>1. f[n + 1].status = "RowRejected" /\ f[n + 1].group = old
                BY <3>2, <3>8 DEF RowGroupAppendRow
            <4>2. QED BY <2>3, <3>1, <3>6, <3>8, <4>1 DEF old, lg_n, row, RowStatuses
        <3>9. CASE ~IsFull(old) /\ ValidateValues(row)
            <4>1. f[n + 1].status = "Ok" /\ f[n + 1].group = new
                BY <3>2, <3>9 DEF RowGroupAppendRow
            <4>2. Len(lg_n) < Capacity /\ n + 1 <= free
                BY <1>1, <3>4, <3>5, <3>9 DEF IsFull
            <4>3. /\ Promised(new, Append(lg_n, row))
                  /\ KeepsRows(old, new, RowCount(old))
                BY <3>1, <3>3, <3>9, <4>2, RowPromised
            <4> HIDE DEF new
            <4>4. Append(lg_n, row) = lg \o SubSeq(rows, 1, n + 1)
                <5>1. lg \in Seq(Seq(Values)) /\ n < Len(rows)
                    BY <1>1, <1>4, SeqMonotonic DEF GoodRows, size
                <5>2. QED BY <5>1, AppendNext DEF lg_n, row
            <4>5. KeepsRows(grp, new, RowCount(grp))
                <5>1. KeepsRows(grp, old, RowCount(grp))
                    BY <2>3 DEF old
                <5>2. \A i \in 1 .. RowCount(grp) : i \in 1 .. RowCount(old)
                    BY <1>1, <3>5
                <5>3. QED BY <4>3, <5>1, <5>2 DEF KeepsRows
            <4>6. \A i \in 1 .. n + 1 : ValidateValues(rows[i])
                <5>1. \A i \in 1 .. n + 1 : i \in 1 .. n \/ i = n + 1
                    OBVIOUS
                <5>2. QED BY <3>1, <3>9, <5>1 DEF row
            <4>7. n + 1 \in 0 .. n + 1
                OBVIOUS
            <4>8. QED BY <4>1, <4>2, <4>3, <4>4, <4>5, <4>6, <4>7 DEF RowStatuses
        <3>10. QED BY <3>7, <3>8, <3>9
    <2>6. QED BY <2>4, <2>5
<1>5. After(size)
    <2> HIDE DEF After
    <2>1. T \in SUBSET Nat
        OBVIOUS
    <2>2. \A n \in T : n + 1 \in T
        <3>1. ASSUME NEW n \in Nat, n <= size => After(n)
              PROVE  n + 1 <= size => After(n + 1)
            BY <1>1, <1>4, <3>1
        <3>2. QED BY <3>1
    <2> HIDE DEF T
    <2>3. T = Nat
        BY <1>3, <2>1, <2>2, NatSetInduction
    <2>4. size \in T
        BY <1>1, <2>3
    <2>5. QED BY <1>1, <2>4 DEF T
<1>6. PICK m \in 0 .. size :
         /\ m <= free /\ \A i \in 1 .. m : ValidateValues(rows[i])
         /\ Promised(f[size].group, lg \o SubSeq(rows, 1, m))
         /\ IF f[size].status = "Ok" THEN m = size
            ELSE m < size /\ (m = free \/ ~ValidateValues(rows[m + 1]))
    BY <1>5
<1>7. Accepts(lg, rows, m)
    BY <1>6 DEF Accepts, size, free
<1>8. QED BY <1>2, <1>5, <1>6, <1>7 DEF size

-----------------------------------------------------------------------------
(* The inductive invariant: the group promises the log.                    *)
Statuses == {"Ok", "RowGroupFull", "RowRejected", "BatchRejected", "BatchTooLarge", "Aborted"}

GroupInv == Promised(group, log) /\ status \in Statuses

(* What every call has to do.                                              *)
KeepsPromise ==
    /\ Promised(group', log') /\ status' \in Statuses
    /\ KeepsRows(group, group', RowCount(group) - 1)

LEMMA UnchangedKeepsPromise ==
    ASSUME GroupInv, group' = group, log' = log, status' \in Statuses
    PROVE  KeepsPromise
BY DEF GroupInv, KeepsPromise, KeepsRows

(* Keeping all rows is keeping all but the last one.                       *)
LEMMA KeepsInnerRows ==
    ASSUME NEW old, NEW new, old \in RowGroups, KeepsRows(old, new, RowCount(old))
    PROVE  KeepsRows(old, new, RowCount(old) - 1)
<1>1. RowCount(old) \in Nat
    BY RowCountType
<1>2. \A i \in 1 .. RowCount(old) - 1 : i \in 1 .. RowCount(old)
    BY <1>1
<1>3. QED BY <1>2 DEF KeepsRows

LEMMA PromisedFacts ==
    ASSUME GroupInv
    PROVE  /\ group \in RowGroups /\ RowCount(group) = Len(log)
           /\ log \in Seq(GoodRows) /\ Len(log) \in Nat
           /\ Capacity \in Nat /\ FreeRows = Capacity - Len(log) /\ FreeRows \in Nat
           /\ IsFull(group) <=> ~(FreeRows > 0)
<1>1. /\ group \in RowGroups /\ RowCount(group) = Len(log)
      /\ log \in Seq(GoodRows) /\ Len(log) \in Nat /\ Len(log) <= Capacity
    BY LenProperties DEF GroupInv, Promised
<1>2. QED BY <1>1, CapacityAssumption DEF FreeRows, IsFull

(* RowGroup::append_row                                                    *)
LEMMA AppendRowKeepsPromise ==
    ASSUME GroupInv, NEW values \in CandidateRows, AppendRow(values)
    PROVE  KeepsPromise
<1> DEFINE write == RowGroupAppendRow(group, values)
<1>1. /\ group' = write.group /\ status' = write.status
      /\ log' = IF FreeRows > 0 /\ ValidateValues(values) THEN Append(log, values) ELSE log
      /\ values \in Seq(Values)
    BY CallsAssumption DEF AppendRow
<1>2. CASE IsFull(group)
    <2>1. write.status = "RowGroupFull" /\ write.group = group
        BY <1>2 DEF RowGroupAppendRow
    <2>2. log' = log
        BY <1>1, <1>2, PromisedFacts
    <2>3. QED BY <1>1, <2>1, <2>2, UnchangedKeepsPromise DEF Statuses
<1>3. CASE ~IsFull(group) /\ ~ValidateValues(values)
    <2>1. write.status = "RowRejected" /\ write.group = group
        BY <1>3 DEF RowGroupAppendRow
    <2>2. log' = log
        BY <1>1, <1>3
    <2>3. QED BY <1>1, <2>1, <2>2, UnchangedKeepsPromise DEF Statuses
<1>4. CASE ~IsFull(group) /\ ValidateValues(values)
    <2>1. write.status = "Ok" /\ write.group = AppendValidatedRow(group, values)
        BY <1>4 DEF RowGroupAppendRow
    <2>2. log' = Append(log, values)
        BY <1>1, <1>4, PromisedFacts
    <2>3. Len(log) < Capacity
        BY <1>4, PromisedFacts
    <2>4. /\ Promised(group', log') /\ KeepsRows(group, group', RowCount(group))
        BY <1>1, <1>4, <2>1, <2>2, <2>3, RowPromised DEF GroupInv
    <2>5. KeepsRows(group, group', RowCount(group) - 1)
        BY <2>4, PromisedFacts, KeepsInnerRows
    <2>6. QED BY <1>1, <2>1, <2>4, <2>5 DEF KeepsPromise, Statuses
<1>5. QED BY <1>2, <1>3, <1>4

(* RowGroup::append_rows                                                   *)
LEMMA AppendRowsKeepsPromise ==
    ASSUME GroupInv, NEW rows \in RowSpans, AppendRows(rows)
    PROVE  KeepsPromise
<1> DEFINE write == RowGroupAppendRows(group, rows)
<1>1. /\ group' = write.group /\ status' = write.status
      /\ log' = log \o SubSeq(rows, 1, AcceptedRows(rows))
    BY DEF AppendRows
<1>2. rows \in Seq(Seq(Values)) /\ Len(rows) \in Nat
    BY CallsAssumption, SeqMonotonic, LenProperties
<1>3. /\ write.status \in RowStatuses
      /\ KeepsRows(group, write.group, RowCount(group))
      /\ \E m : /\ Accepts(log, rows, m)
                /\ Promised(write.group, log \o SubSeq(rows, 1, m))
    BY <1>2, SpanPromised DEF GroupInv
<1> HIDE DEF write
<1>4. PICK m : /\ Accepts(log, rows, m)
               /\ Promised(write.group, log \o SubSeq(rows, 1, m))
    BY <1>3
<1>5. AcceptedRows(rows) = m
    BY <1>2, <1>4, PromisedFacts, AcceptedRowsUnique
<1>6. Promised(group', log')
    BY <1>1, <1>4, <1>5
<1>7. KeepsRows(group, group', RowCount(group) - 1)
    BY <1>1, <1>3, PromisedFacts, KeepsInnerRows
<1>8. status' \in Statuses
    BY <1>1, <1>3 DEF RowStatuses, Statuses
<1>9. QED BY <1>6, <1>7, <1>8 DEF KeepsPromise

(* RowGroup::append_column_batch                                           *)
LEMMA AppendColumnBatchKeepsPromise ==
    ASSUME GroupInv, NEW batch \in CandidateBatches, AppendColumnBatch(batch)
    PROVE  KeepsPromise
<1> DEFINE write == RowGroupAppendColumnBatch(group, batch)
<1>1. CASE write.status = "Ok" /\ Asserts(batch)
    <2>1. status' = "Aborted" /\ group' = group /\ log' = log
        BY <1>1 DEF AppendColumnBatch
    <2>2. QED BY <2>1, UnchangedKeepsPromise DEF Statuses
<1>2. CASE ~(write.status = "Ok" /\ Asserts(batch))
    <2>1. /\ group' = write.group /\ status' = write.status
          /\ log' = IF AcceptsBatch(batch) THEN log \o BatchRows(batch) ELSE log
        BY <1>2 DEF AppendColumnBatch
    <2>2. batch \in ColumnBatches /\ batch.row_count \in Nat
        BY CallsAssumption DEF ColumnBatches
    <2>3. CASE AcceptsBatch(batch)
        <3>1. /\ ~IsFull(group) /\ ValidateColumnBatch(batch)
              /\ batch.row_count <= Capacity - Len(log)
            BY <2>3, PromisedFacts DEF AcceptsBatch
        <3>2. write.status = "Ok" /\ write.group = AppendValidatedBatch(group, batch)
            BY <2>2, <3>1, PromisedFacts DEF RowGroupAppendColumnBatch
        <3>3. /\ Promised(group', log') /\ KeepsRows(group, group', RowCount(group) - 1)
            BY <2>1, <2>2, <2>3, <3>1, <3>2, BatchPromised DEF GroupInv
        <3>4. QED BY <2>1, <3>2, <3>3 DEF KeepsPromise, Statuses
    <2>4. CASE ~AcceptsBatch(batch)
        <3>1. \/ IsFull(group) \/ ~ValidateColumnBatch(batch)
              \/ batch.row_count > Capacity - RowCount(group)
            BY <2>2, <2>4, PromisedFacts DEF AcceptsBatch
        <3>2. write.group = group /\ write.status \in Statuses
            BY <3>1 DEF RowGroupAppendColumnBatch, Statuses
        <3>3. QED BY <2>1, <2>4, <3>2, UnchangedKeepsPromise
    <2>5. QED BY <2>3, <2>4
<1>3. QED BY <1>1, <1>2

LEMMA StepKeepsPromise ==
    ASSUME GroupInv, [Next]_vars
    PROVE  KeepsPromise
<1>1. CASE UNCHANGED vars
    BY <1>1, UnchangedKeepsPromise DEF vars, GroupInv
<1>2. CASE Next
    <2>1. CASE \E values \in CandidateRows : AppendRow(values)
        BY <2>1, AppendRowKeepsPromise
    <2>2. CASE \E rows \in RowSpans : AppendRows(rows)
        BY <2>2, AppendRowsKeepsPromise
    <2>3. CASE \E batch \in CandidateBatches : AppendColumnBatch(batch)
        BY <2>3, AppendColumnBatchKeepsPromise
    <2>4. QED BY <1>2, <2>1, <2>2, <2>3 DEF Next
<1>3. QED BY <1>1, <1>2

LEMMA GroupKeepsInv == Spec => []GroupInv
<1>1. Init => GroupInv
    BY NewRowGroupPromised DEF Init, GroupInv, Statuses
<1>2. GroupInv /\ [Next]_vars => GroupInv'
    BY StepKeepsPromise DEF KeepsPromise, GroupInv
<1>3. QED BY <1>1, <1>2, PTL DEF Spec

-----------------------------------------------------------------------------
(* Type correctness, and the alignment of all columns with the rows that   *)
(* the callers were promised, for every schema, capacity, offset width and *)
(* every set of rows, spans and batches that is passed (row_group.cpp:48-139). *)
THEOREM CallsTypeCorrect == Spec => []TypeOK
<1>1. GroupInv => TypeOK
    BY DEF GroupInv, Promised, Aligned, TypeOK, Statuses
<1>2. QED BY <1>1, GroupKeepsInv, PTL

(* Whatever calls follow each other, a cell that is read is the value that *)
(* was promised, or a text that begins with it: bytes behind the last text *)
(* of a batch do no other damage (column_buffer.cpp:51, 58-64).            *)
THEOREM CallsOnlyExtendTexts == Spec => []CellsExtendLog
<1>1. GroupInv => CellsExtendLog
    BY DEF GroupInv, Promised, RowExtends, CellExtends, CellsExtendLog
<1>2. QED BY <1>1, GroupKeepsInv, PTL

(* No call changes a row before the last one (column_buffer.cpp:58-64):    *)
(* only the text that is still open at the end of the blob can grow.       *)
THEOREM CallsKeepInnerRows == Spec => InnerRowsStable
<1>1. GroupInv /\ [Next]_vars =>
          [Addressable(group)' =>
              \A i \in 1 .. RowCount(group) - 1 :
                  MaterializeRow(group, i)' = MaterializeRow(group, i)]_vars
    <2>1. SUFFICES ASSUME GroupInv, [Next]_vars, Addressable(group)',
                          NEW i \in 1 .. RowCount(group) - 1
                   PROVE  MaterializeRow(group, i)' = MaterializeRow(group, i)
        OBVIOUS
    <2>2. KeepsRows(group, group', RowCount(group) - 1)
        BY <2>1, StepKeepsPromise DEF KeepsPromise
    <2>3. Addressable(group')
        BY <2>1 DEF Addressable
    <2>4. MaterializeRow(group', i) = MaterializeRow(group, i)
        BY <2>2, <2>3 DEF KeepsRows
    <2>5. QED BY <2>4 DEF MaterializeRow, ValueAt, TextAt, TextEnd
<1>2. QED BY <1>1, GroupKeepsInv, PTL DEF Spec, InnerRowsStable

=============================================================================
