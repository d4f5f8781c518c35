--------------------------- MODULE RowGroupProofs ---------------------------
(***************************************************************************)
(* Lemmas about the operators of ColumnBuffer and RowGroup, for every      *)
(* schema, capacity and width of an offset.                                *)
(*                                                                         *)
(* Induction: a lemma over the positions of a sequence is proved by        *)
(* NatSetInduction on the SET of the positions for which it holds.         *)
(***************************************************************************)
EXTENDS RowGroup, SequencesExt, TLAPS, SequenceTheorems, WellFoundedInduction

(* A set of naturals with 0 and all successors is Nat.                     *)
LEMMA NatSetInduction ==
    ASSUME NEW T \in SUBSET Nat, 0 \in T, \A n \in T : n + 1 \in T
    PROVE  T = Nat
<1> DEFINE Less == {pair \in Nat \X Nat : pair[1] < pair[2]}
<1>1. SUFFICES ASSUME Nat \ T # {} PROVE FALSE
    OBVIOUS
<1>2. IsWellFoundedOn(Less, Nat)
    BY NatLessThanWellFounded DEF OpToRel
<1>3. PICK x \in Nat \ T : \A y \in Nat \ T : <<y, x>> \notin Less
    <2> HIDE DEF Less
    <2>1. QED BY <1>1, <1>2, WFMin
<1>4. \A y \in Nat \ T : ~(y < x)
    BY <1>3
<1>5. x - 1 \in T
    BY <1>3, <1>4
<1>6. QED BY <1>3, <1>5

-----------------------------------------------------------------------------
(* Parts of sequences, also empty ones.                                    *)

(* What lies in the first of two concatenated sequences stays the same.    *)
LEMMA SubSeqOfFirst ==
    ASSUME NEW S, NEW s \in Seq(S), NEW t \in Seq(S),
           NEW a \in Nat, NEW b \in Nat, a <= b, b <= Len(s)
    PROVE  SubSeq(s \o t, a + 1, b) = SubSeq(s, a + 1, b)
<1>1. /\ s \o t \in Seq(S)
      /\ Len(s \o t) = Len(s) + Len(t)
      /\ \A i \in 1 .. Len(s) : (s \o t)[i] = s[i]
    BY ConcatProperties, LenProperties
<1>2. \A i \in a + 1 .. b : s[i] \in S /\ (s \o t)[i] = s[i]
    BY <1>1, ElementOfSeq, LenProperties
<1>3. /\ SubSeq(s \o t, a + 1, b) \in Seq(S)
      /\ Len(SubSeq(s \o t, a + 1, b)) = b - a
      /\ \A i \in 1 .. b - a : SubSeq(s \o t, a + 1, b)[i] = (s \o t)[a + i]
    BY <1>2, SubSeqProperties
<1>4. /\ SubSeq(s, a + 1, b) \in Seq(S)
      /\ Len(SubSeq(s, a + 1, b)) = b - a
      /\ \A i \in 1 .. b - a : SubSeq(s, a + 1, b)[i] = s[a + i]
    BY <1>2, SubSeqProperties
<1>5. QED BY <1>2, <1>3, <1>4, SeqEqual

(* What lies in the second one is found behind the first.                  *)
LEMMA SubSeqOfSecond ==
    ASSUME NEW S, NEW s \in Seq(S), NEW t \in Seq(S),
           NEW a \in Nat, NEW b \in Nat, a <= b, b <= Len(t)
    PROVE  SubSeq(s \o t, Len(s) + a + 1, Len(s) + b) = SubSeq(t, a + 1, b)
<1> DEFINE n == Len(s)
<1>1. /\ n \in Nat
      /\ s \o t \in Seq(S)
      /\ Len(s \o t) = n + Len(t)
      /\ \A i \in 1 .. Len(t) : (s \o t)[n + i] = t[i]
    BY ConcatProperties, LenProperties
<1> HIDE DEF n
<1>2. \A i \in a + 1 .. b : t[i] \in S /\ (s \o t)[n + i] = t[i]
    BY <1>1, ElementOfSeq, LenProperties
<1>3. \A i \in n + a + 1 .. n + b : (s \o t)[i] \in S
    <2> TAKE i \in n + a + 1 .. n + b
    <2>1. i - n \in a + 1 .. b /\ n + (i - n) = i
        BY <1>1
    <2> QED BY <1>2, <2>1
<1>4. /\ SubSeq(s \o t, n + a + 1, n + b) \in Seq(S)
      /\ Len(SubSeq(s \o t, n + a + 1, n + b)) = b - a
      /\ \A i \in 1 .. b - a :
            SubSeq(s \o t, n + a + 1, n + b)[i] = (s \o t)[n + (a + i)]
    BY <1>1, <1>3, SubSeqProperties
<1>5. /\ SubSeq(t, a + 1, b) \in Seq(S)
      /\ Len(SubSeq(t, a + 1, b)) = b - a
      /\ \A i \in 1 .. b - a : SubSeq(t, a + 1, b)[i] = t[a + i]
    BY <1>2, SubSeqProperties
<1>6. \A i \in 1 .. b - a : (s \o t)[n + (a + i)] = t[a + i]
    <2> TAKE i \in 1 .. b - a
    <2>1. a + i \in a + 1 .. b
        OBVIOUS
    <2> QED BY <1>2, <2>1
<1>7. SubSeq(s \o t, n + a + 1, n + b) = SubSeq(t, a + 1, b)
    BY <1>4, <1>5, <1>6, SeqEqual
<1>8. QED BY <1>7 DEF n

(* A part of a part is a part.                                             *)
LEMMA SubSeqOfPart ==
    ASSUME NEW S, NEW s \in Seq(S),
           NEW d \in Nat, NEW a \in Nat, NEW b \in Nat, NEW e \in Nat,
           d <= a, a <= b, b <= e, e <= Len(s)
    PROVE  SubSeq(SubSeq(s, d + 1, e), a - d + 1, b - d) = SubSeq(s, a + 1, b)
<1> DEFINE part == SubSeq(s, d + 1, e)
<1>1. \A i \in 1 .. e : s[i] \in S
    BY ElementOfSeq, LenProperties
<1>2. /\ part \in Seq(S)
      /\ Len(part) = e - d
      /\ \A i \in 1 .. e - d : part[i] = s[d + i]
    BY <1>1, SubSeqProperties
<1> HIDE DEF part
<1>3. \A i \in a - d + 1 .. b - d : part[i] \in S
    BY <1>2, ElementOfSeq, LenProperties
<1>4. /\ SubSeq(part, a - d + 1, b - d) \in Seq(S)
      /\ Len(SubSeq(part, a - d + 1, b - d)) = b - a
      /\ \A i \in 1 .. b - a : SubSeq(part, a - d + 1, b - d)[i] = part[a - d + i]
    <2> DEFINE from == a - d + 1
               end  == b - d
    <2>1. from \in Int /\ end \in Int /\ \A i \in from .. end : part[i] \in S
        BY <1>3
    <2>2. /\ IF from <= end THEN end - from + 1 = b - a ELSE 0 = b - a
          /\ end - from + 1 = b - a
          /\ \A i \in 1 .. b - a : from + i - 1 = a - d + i
        OBVIOUS
    <2> HIDE DEF from, end
    <2>3. /\ SubSeq(part, from, end) \in Seq(S)
          /\ Len(SubSeq(part, from, end)) = IF from <= end THEN end - from + 1 ELSE 0
          /\ \A i \in 1 .. end - from + 1 : SubSeq(part, from, end)[i] = part[from + i - 1]
        BY <2>1, SubSeqProperties
    <2>4. QED BY <2>2, <2>3 DEF from, end
<1>5. /\ SubSeq(s, a + 1, b) \in Seq(S)
      /\ Len(SubSeq(s, a + 1, b)) = b - a
      /\ \A i \in 1 .. b - a : SubSeq(s, a + 1, b)[i] = s[a + i]
    BY <1>1, SubSeqProperties
<1>6. \A i \in 1 .. b - a : part[a - d + i] = s[a + i]
    BY <1>2
<1>7. SubSeq(part, a - d + 1, b - d) = SubSeq(s, a + 1, b)
    BY <1>4, <1>5, <1>6, SeqEqual
<1>8. QED BY <1>7 DEF part

-----------------------------------------------------------------------------
(* Text columns.                                                           *)

(* Inside its range, an offset is stored as it is.                         *)
LEMMA ToUint32Identity ==
    ASSUME NEW n \in Offsets
    PROVE  ToUint32(n) = n
BY OffsetRangeAssumption DEF ToUint32, Offsets

LEMMA ToUint32Type ==
    ASSUME NEW n \in Int
    PROVE  ToUint32(n) \in Offsets
BY OffsetRangeAssumption DEF ToUint32, Offsets

(* Offsets and ends of texts are numbers of the type of an offset.         *)
LEMMA TextEndType ==
    ASSUME NEW column \in TextColumnBuffers, NEW i \in 1 .. Len(column.offsets)
    PROVE  /\ column.offsets[i] \in Offsets /\ column.offsets[i] \in Nat
           /\ TextEnd(column, i) \in Offsets /\ TextEnd(column, i) \in Nat
<1>1. \A j \in 1 .. Len(column.offsets) : column.offsets[j] \in Offsets
    BY ElementOfSeq, LenProperties DEF TextColumnBuffers
<1>2. Len(column.bytes) \in Nat /\ Len(column.offsets) \in Nat
    BY LenProperties DEF TextColumnBuffers
<1>3. ToUint32(Len(column.bytes)) \in Offsets
    BY <1>2, ToUint32Type
<1>4. TextEnd(column, i) \in Offsets
    BY <1>1, <1>2, <1>3 DEF TextEnd
<1>5. QED BY <1>1, <1>4, OffsetRangeAssumption DEF Offsets

(* In an ordered column a text is read without any wrap-around.            *)
LEMMA TextAtOrdered ==
    ASSUME NEW column \in TextColumnBuffers, TextOrdered(column),
           Len(column.bytes) < OffsetRange,
           NEW i \in 1 .. Len(column.offsets)
    PROVE  TextAt(column, i) = SubSeq(column.bytes, column.offsets[i] + 1, TextEnd(column, i))
<1> DEFINE start == column.offsets[i]
           end   == TextEnd(column, i)
<1>1. TextAt(column, i) = SubSeq(column.bytes, start + 1, start + ToUint32(end - start))
    BY DEF TextAt
<1>2. start <= end
    BY DEF TextOrdered
<1>3. /\ start \in Offsets /\ start \in Nat
      /\ end \in Offsets /\ end \in Nat
    BY TextEndType
<1> HIDE DEF start, end
<1>4. end - start \in Offsets /\ start + (end - start) = end
    BY <1>2, <1>3, OffsetRangeAssumption DEF Offsets
<1>5. ToUint32(end - start) = end - start
    BY <1>4, ToUint32Identity
<1>6. start + ToUint32(end - start) = end
    BY <1>4, <1>5
<1>7. QED BY <1>1, <1>6 DEF start, end

(* Appending one text adds its row, keeps the order, and changes no other  *)
(* text.                                                                   *)
LEMMA TextAppendExact ==
    ASSUME NEW column \in TextColumnBuffers, NEW value \in Seq(Bytes),
           TextOrdered(column),
           Len(TextAppend(column, value).bytes) < OffsetRange
    PROVE  LET after == TextAppend(column, value)
               n     == Len(column.offsets)
           IN  /\ TextOrdered(after)
               /\ \A i \in 1 .. n : TextAt(after, i) = TextAt(column, i)
               /\ TextAt(after, n + 1) = value
<1> DEFINE after == TextAppend(column, value)
           n == Len(column.offsets)
           size == Len(column.bytes)
<1>1. /\ n \in Nat /\ size \in Nat /\ Len(value) \in Nat
      /\ column.bytes \in Seq(Bytes) /\ column.offsets \in Seq(Offsets)
    BY LenProperties DEF TextColumnBuffers
<1>2. /\ after.bytes = column.bytes \o value
      /\ after.bytes \in Seq(Bytes)
      /\ Len(after.bytes) = size + Len(value)
    BY <1>1, ConcatProperties DEF TextAppend
<1>3. size \in Offsets /\ ToUint32(size) = size /\ ToUint32(Len(after.bytes)) = Len(after.bytes)
    BY <1>1, <1>2, ToUint32Identity, OffsetRangeAssumption DEF Offsets
<1>4. /\ after.offsets \in Seq(Offsets)
      /\ Len(after.offsets) = n + 1
      /\ \A i \in 1 .. n : after.offsets[i] = column.offsets[i]
      /\ after.offsets[n + 1] = size
    BY <1>1, <1>3, AppendProperties DEF TextAppend
<1>5. after \in TextColumnBuffers
    BY <1>2, <1>4 DEF TextColumnBuffers, TextAppend
<1>6. /\ \A i \in 1 .. n : TextEnd(after, i) = TextEnd(column, i)
      /\ TextEnd(after, n + 1) = Len(after.bytes)
    BY <1>1, <1>3, <1>4 DEF TextEnd
<1>7. size < OffsetRange
    BY <1>1, <1>2, OffsetRangeAssumption
<1>8. \A i \in 1 .. n :
          /\ column.offsets[i] \in Nat /\ TextEnd(column, i) \in Nat
          /\ column.offsets[i] <= TextEnd(column, i) /\ TextEnd(column, i) <= size
    BY TextEndType DEF TextOrdered
<1>9. TextOrdered(after)
    <2> SUFFICES ASSUME NEW i \in 1 .. n + 1
                 PROVE  after.offsets[i] <= TextEnd(after, i) /\ TextEnd(after, i) <= Len(after.bytes)
        BY <1>4 DEF TextOrdered
    <2> HIDE DEF after, n, size
    <2>1. CASE i = n + 1
        BY <1>1, <1>2, <1>4, <1>6, <2>1
    <2>2. CASE i \in 1 .. n
        <3>1. after.offsets[i] = column.offsets[i] /\ TextEnd(after, i) = TextEnd(column, i)
            BY <1>4, <1>6, <2>2
        <3>2. /\ column.offsets[i] \in Nat /\ TextEnd(column, i) \in Nat
              /\ column.offsets[i] <= TextEnd(column, i) /\ TextEnd(column, i) <= size
            BY <1>8, <2>2
        <3>3. QED BY <1>1, <1>2, <3>1, <3>2
    <2>3. QED BY <1>1, <2>1, <2>2
<1>10. ASSUME NEW i \in 1 .. n PROVE TextAt(after, i) = TextAt(column, i)
    <2>1. TextAt(column, i)
            = SubSeq(column.bytes, column.offsets[i] + 1, TextEnd(column, i))
        BY <1>7, TextAtOrdered
    <2>2. i \in 1 .. Len(after.offsets)
        BY <1>1, <1>4
    <2>3. TextAt(after, i)
            = SubSeq(after.bytes, after.offsets[i] + 1, TextEnd(after, i))
        BY <1>5, <1>9, <2>2, TextAtOrdered
    <2>4. /\ column.offsets[i] \in Nat /\ TextEnd(column, i) \in Nat
          /\ column.offsets[i] <= TextEnd(column, i)
          /\ TextEnd(column, i) <= Len(column.bytes)
        BY <1>1, <1>8
    <2>5. SubSeq(column.bytes \o value, column.offsets[i] + 1, TextEnd(column, i))
            = SubSeq(column.bytes, column.offsets[i] + 1, TextEnd(column, i))
        <3> DEFINE old  == column.bytes
                   from == column.offsets[i]
                   end  == TextEnd(column, i)
        <3>1. /\ old \in Seq(Bytes) /\ from \in Nat /\ end \in Nat
              /\ from <= end /\ end <= Len(old)
            BY <1>1, <2>4
        <3> HIDE DEF old, from, end
        <3>2. SubSeq(old \o value, from + 1, end) = SubSeq(old, from + 1, end)
            BY <3>1, SubSeqOfFirst
        <3>3. QED BY <3>2 DEF old, from, end
    <2> HIDE DEF after, n, size
    <2>6. QED BY <1>2, <1>4, <1>6, <2>1, <2>3, <2>5
<1>11. TextAt(after, n + 1) = value
    <2>1. n + 1 \in 1 .. Len(after.offsets)
        BY <1>1, <1>4
    <2>2. TextAt(after, n + 1)
            = SubSeq(after.bytes, after.offsets[n + 1] + 1, TextEnd(after, n + 1))
        BY <1>5, <1>9, <2>1, TextAtOrdered
    <2>3. SubSeq(column.bytes \o value, size + 0 + 1, size + Len(value))
            = SubSeq(value, 0 + 1, Len(value))
        BY <1>1, SubSeqOfSecond
    <2>4. SubSeq(value, 1, Len(value)) = value
        BY SubSeqFull
    <2> HIDE DEF after, n, size
    <2>5. size + 0 + 1 = size + 1 /\ 0 + 1 = 1
        BY <1>1
    <2>6. QED BY <1>2, <1>4, <1>6, <2>2, <2>3, <2>4, <2>5
<1>12. QED BY <1>9, <1>10, <1>11

(* validate_column_batch compares each offset with the one before it;      *)
(* hence an offset is not smaller than ANY earlier one.                    *)
LEMMA MonotonicOffsets ==
    ASSUME NEW offsets \in Seq(Offsets), TextOffsetsAreMonotonic(offsets),
           NEW i \in 1 .. Len(offsets), NEW j \in i .. Len(offsets)
    PROVE  offsets[i] <= offsets[j]
<1> DEFINE T == {d \in Nat : i + d <= Len(offsets) => offsets[i] <= offsets[i + d]}
<1>1. Len(offsets) \in Nat /\ \A k \in 1 .. Len(offsets) : offsets[k] \in Nat
    BY ElementOfSeq, LenProperties, OffsetRangeAssumption DEF Offsets
<1>2. 0 \in T
    BY <1>1
<1>3. ASSUME NEW d \in T PROVE d + 1 \in T
    <2> SUFFICES ASSUME i + (d + 1) <= Len(offsets) PROVE offsets[i] <= offsets[i + (d + 1)]
        OBVIOUS
    <2>1. i + d \in 1 .. Len(offsets) /\ i + (d + 1) \in 2 .. Len(offsets)
        BY <1>1
    <2>2. offsets[i] <= offsets[i + d]
        BY <1>1, <2>1
    <2>3. offsets[i + (d + 1)] >= offsets[(i + (d + 1)) - 1]
        BY <2>1 DEF TextOffsetsAreMonotonic
    <2>4. (i + (d + 1)) - 1 = i + d
        OBVIOUS
    <2>5. QED BY <1>1, <2>1, <2>2, <2>3, <2>4
<1> HIDE DEF T
<1>4. T \in SUBSET Nat
    BY DEF T
<1>5. T = Nat
    BY <1>2, <1>3, <1>4, NatSetInduction
<1>6. j - i \in T /\ i + (j - i) = j /\ j <= Len(offsets)
    BY <1>1, <1>5
<1>7. QED BY <1>6 DEF T

ExactTexts(offsets, bytes, row_count) ==
    /\ row_count > 0
    /\ Len(offsets) = row_count + 1
    /\ offsets[1] = 0
    /\ offsets[row_count + 1] = Len(bytes)
    /\ TextOffsetsAreMonotonic(offsets)

(* Appending a batch whose offsets start at zero, do not decrease and end  *)
(* at the end of its bytes adds exactly its texts, keeps the order, and    *)
(* changes no other text.                                                  *)
LEMMA TextAppendBatchExact ==
    ASSUME NEW column \in TextColumnBuffers,
           NEW offsets \in Seq(Offsets), NEW bytes \in Seq(Bytes), NEW row_count \in Nat,
           ExactTexts(offsets, bytes, row_count), TextOrdered(column),
           Len(TextAppendBatch(column, offsets, bytes, row_count).bytes) < OffsetRange
    PROVE  LET after == TextAppendBatch(column, offsets, bytes, row_count)
               n     == Len(column.offsets)
           IN  /\ TextOrdered(after)
               /\ \A i \in 1 .. n : TextAt(after, i) = TextAt(column, i)
               /\ \A j \in 1 .. row_count :
                     TextAt(after, n + j) = SubSeq(bytes, offsets[j] + 1, offsets[j + 1])
<1> DEFINE after == TextAppendBatch(column, offsets, bytes, row_count)
           n == Len(column.offsets)
           size == Len(column.bytes)
           moved == [i \in 1 .. row_count |-> ToUint32(size + offsets[i])]
<1>1. /\ n \in Nat /\ size \in Nat /\ Len(bytes) \in Nat
      /\ column.bytes \in Seq(Bytes) /\ column.offsets \in Seq(Offsets)
    BY LenProperties DEF TextColumnBuffers
<1>2. /\ after.bytes = column.bytes \o bytes
      /\ after.bytes \in Seq(Bytes)
      /\ Len(after.bytes) = size + Len(bytes)
    BY <1>1, ConcatProperties DEF TextAppendBatch
<1>3. \A j \in 1 .. row_count + 1 :
          offsets[j] \in Nat /\ offsets[j] <= Len(bytes) /\ size + offsets[j] \in Offsets
    <2> TAKE j \in 1 .. row_count + 1
    <2>1. offsets[j] \in Nat
        BY ElementOfSeq, OffsetRangeAssumption DEF Offsets, ExactTexts
    <2>2. offsets[j] <= offsets[row_count + 1]
        BY MonotonicOffsets DEF ExactTexts
    <2>3. offsets[row_count + 1] = Len(bytes) /\ size + Len(bytes) < OffsetRange
        BY <1>2 DEF ExactTexts
    <2> HIDE DEF size, after, moved
    <2>4. offsets[j] <= Len(bytes)
        BY <2>2, <2>3
    <2>5. size + offsets[j] \in 0 .. OffsetRange - 1
        <3> DEFINE offset == offsets[j]
                   length == Len(bytes)
        <3>1. /\ size \in Nat /\ offset \in Nat /\ length \in Nat /\ OffsetRange \in Nat
              /\ offset <= length /\ size + length < OffsetRange
            BY <1>1, <2>1, <2>3, <2>4, OffsetRangeAssumption
        <3> HIDE DEF offset, length
        <3>2. size + offset \in 0 .. OffsetRange - 1
            BY <3>1
        <3>3. QED BY <3>2 DEF offset
    <2>6. QED BY <2>1, <2>4, <2>5 DEF Offsets
<1>4. \A j \in 1 .. row_count : offsets[j] <= offsets[j + 1]
    <2> TAKE j \in 1 .. row_count
    <2>1. j + 1 \in j .. Len(offsets) /\ j \in 1 .. Len(offsets)
        BY DEF ExactTexts
    <2>2. QED BY <2>1, MonotonicOffsets DEF ExactTexts
<1>5. /\ size \in Offsets /\ ToUint32(size) = size
      /\ ToUint32(Len(after.bytes)) = Len(after.bytes)
    BY <1>1, <1>2, ToUint32Identity, OffsetRangeAssumption DEF Offsets
<1>6. \A j \in 1 .. row_count : ToUint32(size + offsets[j]) = size + offsets[j]
    BY <1>3, ToUint32Identity
<1>7. /\ moved \in Seq(Offsets) /\ Len(moved) = row_count
      /\ \A j \in 1 .. row_count : moved[j] = size + offsets[j]
    BY <1>3, <1>6
<1>8. after.offsets = column.offsets \o moved
    BY DEF TextAppendBatch
<1> HIDE DEF after, moved
<1>9. /\ after.offsets \in Seq(Offsets)
      /\ Len(after.offsets) = n + row_count
      /\ \A i \in 1 .. n : after.offsets[i] = column.offsets[i]
      /\ \A j \in 1 .. row_count : after.offsets[n + j] = size + offsets[j]
    <2>1. /\ after.offsets \in Seq(Offsets)
          /\ Len(after.offsets) = n + row_count
          /\ \A i \in 1 .. n + row_count :
                after.offsets[i] = IF i <= n THEN column.offsets[i] ELSE moved[i - n]
        <3>1. /\ column.offsets \o moved \in Seq(Offsets)
              /\ Len(column.offsets \o moved) = n + Len(moved)
              /\ \A i \in 1 .. n + Len(moved) :
                    (column.offsets \o moved)[i]
                      = IF i <= n THEN column.offsets[i] ELSE moved[i - n]
            BY <1>1, <1>7, ConcatProperties
        <3> HIDE DEF n, size
        <3>2. QED BY <1>7, <1>8, <3>1
    <2> HIDE DEF n, size
    <2>2. ASSUME NEW j \in 1 .. row_count PROVE after.offsets[n + j] = size + offsets[j]
        <3>1. n + j \in 1 .. n + row_count /\ ~(n + j <= n) /\ (n + j) - n = j
            BY <1>1
        <3>2. QED BY <1>7, <2>1, <3>1
    <2>3. QED BY <1>1, <2>1, <2>2
<1>10. after \in TextColumnBuffers
    BY <1>2, <1>9 DEF TextColumnBuffers, TextAppendBatch, after
<1>11. /\ n + row_count \in Nat /\ n + 1 <= n + row_count /\ 1 \in 1 .. row_count
       /\ size + offsets[1] = size
       /\ size < OffsetRange
    BY <1>1, <1>5, OffsetRangeAssumption DEF Offsets, ExactTexts
<1>12. \A i \in 1 .. n : TextEnd(after, i) = TextEnd(column, i)
    <2> TAKE i \in 1 .. n
    <2> HIDE DEF n, size
    <2>1. CASE i < n
        <3>1. i < n + row_count /\ i + 1 \in 1 .. n
            BY <1>1, <1>11, <2>1
        <3>2. TextEnd(after, i) = column.offsets[i + 1]
            BY <1>9, <3>1 DEF TextEnd
        <3>3. QED BY <2>1, <3>2 DEF TextEnd, n
    <2>2. CASE i = n
        <3>1. TextEnd(after, n) = after.offsets[n + 1]
            BY <1>1, <1>9, <1>11 DEF TextEnd
        <3>2. TextEnd(after, n) = size
            BY <1>9, <1>11, <3>1
        <3>3. TextEnd(column, n) = ToUint32(size)
            BY <1>1 DEF TextEnd, n, size
        <3>4. QED BY <1>5, <2>2, <3>2, <3>3
    <2>3. QED BY <1>1, <2>1, <2>2
<1>13. \A j \in 1 .. row_count : TextEnd(after, n + j) = size + offsets[j + 1]
    <2> TAKE j \in 1 .. row_count
    <2> HIDE DEF n, size
    <2>1. CASE j < row_count
        <3>1. n + j < n + row_count /\ j + 1 \in 1 .. row_count /\ (n + j) + 1 = n + (j + 1)
            BY <1>1, <2>1
        <3>2. TextEnd(after, n + j) = after.offsets[n + (j + 1)]
            BY <1>9, <3>1 DEF TextEnd
        <3>3. QED BY <1>9, <3>1, <3>2
    <2>2. CASE j = row_count
        <3>1. TextEnd(after, n + row_count) = ToUint32(Len(after.bytes))
            BY <1>9, <1>11 DEF TextEnd
        <3>2. QED BY <1>2, <1>5, <2>2, <3>1 DEF ExactTexts
    <2>3. QED BY <2>1, <2>2
<1>14. \A i \in 1 .. n :
           /\ column.offsets[i] \in Nat /\ TextEnd(column, i) \in Nat
           /\ column.offsets[i] <= TextEnd(column, i) /\ TextEnd(column, i) <= size
    BY TextEndType DEF TextOrdered
<1>15. TextOrdered(after)
    <2> SUFFICES ASSUME NEW i \in 1 .. n + row_count
                 PROVE  after.offsets[i] <= TextEnd(after, i) /\ TextEnd(after, i) <= Len(after.bytes)
        BY <1>9 DEF TextOrdered
    <2> HIDE DEF n, size
    <2>1. CASE i \in 1 .. n
        <3>1. after.offsets[i] = column.offsets[i] /\ TextEnd(after, i) = TextEnd(column, i)
            BY <1>9, <1>12, <2>1
        <3>2. /\ column.offsets[i] \in Nat /\ TextEnd(column, i) \in Nat
              /\ column.offsets[i] <= TextEnd(column, i) /\ TextEnd(column, i) <= size
            BY <1>14, <2>1
        <3>3. Len(after.bytes) = size + Len(bytes) /\ size \in Nat /\ Len(bytes) \in Nat
            BY <1>1, <1>2
        <3>4. TextEnd(column, i) <= Len(after.bytes)
            BY <3>2, <3>3
        <3>5. QED BY <3>1, <3>2, <3>4
    <2>2. ASSUME NEW j \in 1 .. row_count, i = n + j
          PROVE  after.offsets[i] <= TextEnd(after, i) /\ TextEnd(after, i) <= Len(after.bytes)
        <3>1. after.offsets[i] = size + offsets[j] /\ TextEnd(after, i) = size + offsets[j + 1]
            BY <1>9, <1>13, <2>2
        <3>2. j + 1 \in 1 .. row_count + 1
            OBVIOUS
        <3>3. /\ offsets[j] \in Nat /\ offsets[j + 1] \in Nat
              /\ offsets[j] <= offsets[j + 1] /\ offsets[j + 1] <= Len(bytes)
            BY <1>3, <1>4, <3>2
        <3>4. Len(after.bytes) = size + Len(bytes) /\ size \in Nat /\ Len(bytes) \in Nat
            BY <1>1, <1>2
        <3> DEFINE from   == offsets[j]
                   end    == offsets[j + 1]
                   length == Len(bytes)
        <3>5. /\ from \in Nat /\ end \in Nat /\ length \in Nat /\ size \in Nat
              /\ from <= end /\ end <= length
            BY <3>3, <3>4
        <3> HIDE DEF from, end, length
        <3>6. size + from <= size + end /\ size + end <= size + length
            BY <3>5
        <3>7. QED BY <3>1, <3>4, <3>6 DEF from, end, length
    <2>3. i \in 1 .. n \/ (i - n \in 1 .. row_count /\ i = n + (i - n))
        BY <1>1
    <2>4. QED BY <2>1, <2>2, <2>3
<1>16. ASSUME NEW i \in 1 .. n PROVE TextAt(after, i) = TextAt(column, i)
    <2>1. TextAt(column, i)
            = SubSeq(column.bytes, column.offsets[i] + 1, TextEnd(column, i))
        BY <1>11, TextAtOrdered
    <2>2. i \in 1 .. Len(after.offsets)
        BY <1>1, <1>9
    <2>3. TextAt(after, i)
            = SubSeq(after.bytes, after.offsets[i] + 1, TextEnd(after, i))
        BY <1>10, <1>15, <2>2, TextAtOrdered DEF after
    <2>4. SubSeq(column.bytes \o bytes, column.offsets[i] + 1, TextEnd(column, i))
            = SubSeq(column.bytes, column.offsets[i] + 1, TextEnd(column, i))
        <3>1. /\ column.offsets[i] \in Nat /\ TextEnd(column, i) \in Nat
              /\ column.offsets[i] <= TextEnd(column, i)
              /\ TextEnd(column, i) <= Len(column.bytes)
            BY <1>14
        <3>2. column.bytes \in Seq(Bytes)
            BY <1>1
        <3> DEFINE old  == column.bytes
                   from == column.offsets[i]
                   end  == TextEnd(column, i)
        <3>3. old \in Seq(Bytes) /\ from \in Nat /\ end \in Nat /\ from <= end /\ end <= Len(old)
            BY <3>1, <3>2
        <3> HIDE DEF old, from, end
        <3>4. SubSeq(old \o bytes, from + 1, end) = SubSeq(old, from + 1, end)
            BY <3>3, SubSeqOfFirst
        <3>5. QED BY <3>4 DEF old, from, end
    <2> HIDE DEF n, size
    <2>5. QED BY <1>2, <1>9, <1>12, <2>1, <2>3, <2>4
<1>17. ASSUME NEW j \in 1 .. row_count
       PROVE  TextAt(after, n + j) = SubSeq(bytes, offsets[j] + 1, offsets[j + 1])
    <2>1. n + j \in 1 .. Len(after.offsets)
        BY <1>1, <1>9
    <2>2. TextAt(after, n + j)
            = SubSeq(after.bytes, after.offsets[n + j] + 1, TextEnd(after, n + j))
        BY <1>10, <1>15, <2>1, TextAtOrdered DEF after
    <2>3. j + 1 \in 1 .. row_count + 1
        OBVIOUS
    <2>4. /\ offsets[j] \in Nat /\ offsets[j + 1] \in Nat
          /\ offsets[j] <= offsets[j + 1] /\ offsets[j + 1] <= Len(bytes)
        BY <1>3, <1>4, <2>3
    <2>5. SubSeq(column.bytes \o bytes, size + offsets[j] + 1, size + offsets[j + 1])
            = SubSeq(bytes, offsets[j] + 1, offsets[j + 1])
        <3>1. column.bytes \in Seq(Bytes)
            BY <1>1
        <3> DEFINE old  == column.bytes
                   from == offsets[j]
                   end  == offsets[j + 1]
        <3>2. old \in Seq(Bytes) /\ from \in Nat /\ end \in Nat /\ from <= end /\ end <= Len(bytes)
            BY <2>4, <3>1
        <3> HIDE DEF old, from, end
        <3>3. SubSeq(old \o bytes, Len(old) + from + 1, Len(old) + end)
                = SubSeq(bytes, from + 1, end)
            BY <3>2, SubSeqOfSecond
        <3>4. QED BY <3>3 DEF old, from, end
    <2> HIDE DEF n, size
    <2>6. QED BY <1>2, <1>9, <1>13, <2>2, <2>5
<1>18. QED BY <1>15, <1>16, <1>17 DEF after

-----------------------------------------------------------------------------
(* Row groups.                                                             *)

(* A column holds the alternative that the schema names.                   *)
LEMMA GroupColumn ==
    ASSUME NEW group \in RowGroups, NEW c \in Columns
    PROVE  /\ Schema[c] \in {"Int", "Text"}
           /\ Schema[c] = "Int" => group[c] \in IntColumnBuffers
           /\ Schema[c] = "Text" => group[c] \in TextColumnBuffers
           /\ group[c].type = Schema[c]
<1>1. Schema[c] \in LogicalTypes
    BY SchemaAssumption, ElementOfSeq DEF Columns
<1>2. group[c] \in ColumnBuffers /\ group[c].type = Schema[c]
    BY DEF RowGroups
<1>3. \A b \in IntColumnBuffers : b.type = "Int"
    BY DEF IntColumnBuffers
<1>4. \A b \in TextColumnBuffers : b.type = "Text"
    BY DEF TextColumnBuffers
<1>5. QED BY <1>1, <1>2, <1>3, <1>4 DEF ColumnBuffers, LogicalTypes

(* Every table has a first column.                                         *)
LEMMA FirstColumn == Len(Schema) \in Nat /\ 1 \in Columns
<1>1. Schema \in Seq(LogicalTypes) /\ Schema # << >>
    BY SchemaAssumption
<1>2. Len(Schema) \in Nat \ {0}
    BY <1>1, EmptySeq, LenProperties
<1>3. QED BY <1>2 DEF Columns

LEMMA ColumnSizeType ==
    ASSUME NEW group \in RowGroups, NEW c \in Columns
    PROVE  /\ ColumnSize(group[c]) \in Nat
           /\ Schema[c] = "Int" => ColumnSize(group[c]) = Len(group[c].values)
           /\ Schema[c] = "Text" => ColumnSize(group[c]) = Len(group[c].offsets)
<1>1. /\ Schema[c] \in {"Int", "Text"} /\ group[c].type = Schema[c]
      /\ Schema[c] = "Int" => group[c] \in IntColumnBuffers
      /\ Schema[c] = "Text" => group[c] \in TextColumnBuffers
    BY GroupColumn
<1>2. /\ Schema[c] = "Int" => Len(group[c].values) \in Nat
      /\ Schema[c] = "Text" => Len(group[c].offsets) \in Nat
    BY <1>1, LenProperties DEF IntColumnBuffers, TextColumnBuffers
<1>3. QED BY <1>1, <1>2 DEF ColumnSize

LEMMA RowCountType ==
    ASSUME NEW group \in RowGroups
    PROVE  RowCount(group) \in Nat
BY FirstColumn, ColumnSizeType DEF RowCount

(* A new group is well-formed and has no rows.                             *)
LEMMA NewRowGroupFacts ==
    /\ NewRowGroup \in RowGroups
    /\ Aligned(NewRowGroup)
    /\ RowCount(NewRowGroup) = 0
    /\ GroupOrdered(NewRowGroup)
<1>1. ASSUME NEW c \in Columns
      PROVE  /\ NewRowGroup[c] \in ColumnBuffers
             /\ NewRowGroup[c].type = Schema[c]
             /\ ColumnSize(NewRowGroup[c]) = 0
             /\ Schema[c] = "Text" => TextOrdered(NewRowGroup[c])
    <2>1. Schema[c] \in LogicalTypes
        BY SchemaAssumption, ElementOfSeq DEF Columns
    <2>2. << >> \in Seq(IntValues) /\ << >> \in Seq(Offsets) /\ << >> \in Seq(Bytes) /\ Len(<< >>) = 0
        BY EmptySeq
    <2>3. CASE Schema[c] = "Int"
        <3>1. NewRowGroup[c] = [type |-> "Int", values |-> << >>]
            BY <2>3 DEF NewRowGroup, MakeColumnBuffer
        <3>2. QED BY <2>2, <2>3, <3>1 DEF ColumnBuffers, IntColumnBuffers, ColumnSize
    <2>4. CASE Schema[c] = "Text"
        <3>1. NewRowGroup[c] = [type |-> "Text", offsets |-> << >>, bytes |-> << >>]
            BY <2>4 DEF NewRowGroup, MakeColumnBuffer
        <3>2. QED BY <2>2, <2>4, <3>1 DEF ColumnBuffers, TextColumnBuffers, ColumnSize, TextOrdered
    <2>5. QED BY <2>1, <2>3, <2>4 DEF LogicalTypes
<1>2. NewRowGroup \in [Columns -> ColumnBuffers]
    BY <1>1 DEF NewRowGroup
<1>3. QED BY <1>1, <1>2, FirstColumn DEF RowGroups, Aligned, RowCount, GroupOrdered

(* A cell of a valid row is a value of the type of its column.             *)
LEMMA ValidCell ==
    ASSUME NEW values \in Seq(Values), ValidateValues(values), NEW c \in Columns
    PROVE  /\ values[c].type = Schema[c]
           /\ Schema[c] = "Int" =>
                 values[c].data \in IntValues /\ values[c] = IntValue(values[c].data)
           /\ Schema[c] = "Text" =>
                 values[c].data \in Seq(Bytes) /\ values[c] = TextValue(values[c].data)
<1>1. values[c].type = Schema[c] /\ values[c].held = Schema[c]
    BY DEF ValidateValues
<1>2. values[c] \in Values
    BY ElementOfSeq DEF ValidateValues, Columns
<1>3. CASE values[c] \in [type : LogicalTypes, held : {"Int"}, data : IntValues]
    <2>1. values[c].held = "Int" /\ values[c].data \in IntValues
        BY <1>3
    <2>2. values[c] = [type |-> values[c].type, held |-> values[c].held, data |-> values[c].data]
        BY <1>3
    <2>3. QED BY <1>1, <2>1, <2>2 DEF IntValue
<1>4. CASE values[c] \in [type : LogicalTypes, held : {"Text"}, data : Seq(Bytes)]
    <2>1. values[c].held = "Text" /\ values[c].data \in Seq(Bytes)
        BY <1>4
    <2>2. values[c] = [type |-> values[c].type, held |-> values[c].held, data |-> values[c].data]
        BY <1>4
    <2>3. QED BY <1>1, <2>1, <2>2 DEF TextValue
<1>5. QED BY <1>2, <1>3, <1>4 DEF Values

(* Appending a valid row to an aligned group adds one row to every column. *)
LEMMA AppendValidatedRowStructure ==
    ASSUME NEW group \in RowGroups, Aligned(group),
           NEW values \in Seq(Values), ValidateValues(values)
    PROVE  LET after == AppendValidatedRow(group, values)
           IN  /\ after \in RowGroups
               /\ Aligned(after)
               /\ RowCount(after) = RowCount(group) + 1
<1> DEFINE after == AppendValidatedRow(group, values)
<1>1. ASSUME NEW c \in Columns
      PROVE  /\ after[c] \in ColumnBuffers
             /\ after[c].type = Schema[c]
             /\ ColumnSize(after[c]) = RowCount(group) + 1
    <2>1. ColumnSize(group[c]) = RowCount(group)
        BY DEF Aligned
    <2>2. CASE Schema[c] = "Int"
        <3>1. /\ group[c].values \in Seq(IntValues) /\ values[c].data \in IntValues
              /\ ColumnSize(group[c]) = Len(group[c].values)
            BY <2>2, GroupColumn, ValidCell, ColumnSizeType DEF IntColumnBuffers
        <3>2. after[c] = [type |-> "Int", values |-> Append(group[c].values, values[c].data)]
            BY <2>2, ValidCell DEF AppendValidatedRow, IntAppend
        <3>3. /\ Append(group[c].values, values[c].data) \in Seq(IntValues)
              /\ Len(Append(group[c].values, values[c].data)) = Len(group[c].values) + 1
            BY <3>1, AppendProperties
        <3> HIDE DEF after
        <3>4. after[c] \in IntColumnBuffers /\ after[c].type = "Int"
            BY <3>2, <3>3 DEF IntColumnBuffers
        <3>5. QED BY <2>1, <2>2, <3>1, <3>2, <3>3, <3>4 DEF ColumnBuffers, ColumnSize
    <2>3. CASE Schema[c] = "Text"
        <3>1. /\ group[c].offsets \in Seq(Offsets) /\ group[c].bytes \in Seq(Bytes)
              /\ values[c].data \in Seq(Bytes)
              /\ ColumnSize(group[c]) = Len(group[c].offsets)
            BY <2>3, GroupColumn, ValidCell, ColumnSizeType DEF TextColumnBuffers
        <3>2. after[c] = TextAppend(group[c], values[c].data)
            BY <2>3, ValidCell DEF AppendValidatedRow
        <3>3. ToUint32(Len(group[c].bytes)) \in Offsets
            BY <3>1, LenProperties, ToUint32Type
        <3>4. /\ Append(group[c].offsets, ToUint32(Len(group[c].bytes))) \in Seq(Offsets)
              /\ Len(Append(group[c].offsets, ToUint32(Len(group[c].bytes))))
                   = Len(group[c].offsets) + 1
            BY <3>1, <3>3, AppendProperties
        <3>5. group[c].bytes \o values[c].data \in Seq(Bytes)
            BY <3>1, ConcatProperties
        <3> HIDE DEF after
        <3>6. /\ after[c] \in TextColumnBuffers /\ after[c].type = "Text"
              /\ Len(after[c].offsets) = Len(group[c].offsets) + 1
            BY <3>2, <3>4, <3>5 DEF TextColumnBuffers, TextAppend
        <3>7. QED BY <2>1, <2>3, <3>1, <3>6 DEF ColumnBuffers, ColumnSize
    <2>4. QED BY <2>2, <2>3, GroupColumn
<1>2. after \in [Columns -> ColumnBuffers]
    BY <1>1 DEF AppendValidatedRow
<1>3. QED BY <1>1, <1>2, FirstColumn DEF RowGroups, Aligned, RowCount

(* While the offsets can address the blobs, the new last row is the row    *)
(* that was passed, and no other row changes.                              *)
LEMMA AppendValidatedRowExact ==
    ASSUME NEW group \in RowGroups, Aligned(group), GroupOrdered(group),
           NEW values \in Seq(Values), ValidateValues(values),
           Addressable(AppendValidatedRow(group, values))
    PROVE  LET after == AppendValidatedRow(group, values)
           IN  /\ GroupOrdered(after)
               /\ \A i \in 1 .. RowCount(group) :
                     MaterializeRow(after, i) = MaterializeRow(group, i)
               /\ MaterializeRow(after, RowCount(group) + 1) = values
<1> DEFINE after == AppendValidatedRow(group, values)
           n == RowCount(group)
<1>0. n \in Nat
    BY RowCountType
<1>1. ASSUME NEW c \in Columns
      PROVE  /\ Schema[c] = "Text" => TextOrdered(after[c])
             /\ \A i \in 1 .. n : ValueAt(after, i, c) = ValueAt(group, i, c)
             /\ ValueAt(after, n + 1, c) = values[c]
    <2>1. ColumnSize(group[c]) = n
        BY DEF Aligned
    <2>2. CASE Schema[c] = "Int"
        <3>1. /\ group[c].values \in Seq(IntValues) /\ values[c].data \in IntValues
              /\ Len(group[c].values) = n
              /\ values[c] = IntValue(values[c].data)
            BY <2>1, <2>2, GroupColumn, ValidCell, ColumnSizeType DEF IntColumnBuffers
        <3>2. after[c].values = Append(group[c].values, values[c].data)
            BY <2>2, ValidCell DEF AppendValidatedRow, IntAppend
        <3> HIDE DEF after, n
        <3>3. /\ \A i \in 1 .. n : after[c].values[i] = group[c].values[i]
              /\ after[c].values[n + 1] = values[c].data
            BY <3>1, <3>2, AppendProperties
        <3>4. QED BY <2>2, <3>1, <3>3 DEF ValueAt
    <2>3. CASE Schema[c] = "Text"
        <3>1. /\ group[c] \in TextColumnBuffers /\ values[c].data \in Seq(Bytes)
              /\ Len(group[c].offsets) = n
              /\ values[c] = TextValue(values[c].data)
            BY <2>1, <2>3, GroupColumn, ValidCell, ColumnSizeType
        <3>2. after[c] = TextAppend(group[c], values[c].data)
            BY <2>3, ValidCell DEF AppendValidatedRow
        <3>3. TextOrdered(group[c]) /\ Len(after[c].bytes) < OffsetRange
            BY <2>3 DEF GroupOrdered, Addressable
        <3> HIDE DEF after, n
        <3>4. /\ TextOrdered(after[c])
              /\ \A i \in 1 .. n : TextAt(after[c], i) = TextAt(group[c], i)
              /\ TextAt(after[c], n + 1) = values[c].data
            <4> DEFINE column == group[c]
                       text   == values[c].data
            <4>1. /\ column \in TextColumnBuffers /\ text \in Seq(Bytes) /\ TextOrdered(column)
                  /\ Len(TextAppend(column, text).bytes) < OffsetRange
                BY <3>1, <3>2, <3>3
            <4> HIDE DEF column, text
            <4>2. /\ TextOrdered(TextAppend(column, text))
                  /\ \A i \in 1 .. Len(column.offsets) :
                        TextAt(TextAppend(column, text), i) = TextAt(column, i)
                  /\ TextAt(TextAppend(column, text), Len(column.offsets) + 1) = text
                BY <4>1, TextAppendExact
            <4>3. QED BY <3>1, <3>2, <4>2 DEF column, text
        <3>5. QED BY <2>3, <3>1, <3>4 DEF ValueAt
    <2>4. QED BY <2>2, <2>3, GroupColumn
<1> HIDE DEF after, n
<1>2. GroupOrdered(after)
    BY <1>1 DEF GroupOrdered
<1>3. \A i \in 1 .. n : MaterializeRow(after, i) = MaterializeRow(group, i)
    BY <1>1 DEF MaterializeRow
<1>4. MaterializeRow(after, n + 1) = values
    <2>1. values = [c \in Columns |-> values[c]]
        BY LenProperties DEF ValidateValues, Columns
    <2>2. QED BY <1>1, <2>1 DEF MaterializeRow
<1>5. QED BY <1>2, <1>3, <1>4 DEF after, n

-----------------------------------------------------------------------------
(* What the validation of a batch establishes about one of its columns.    *)
LEMMA ValidView ==
    ASSUME NEW batch \in ColumnBatches, ValidateColumnBatch(batch), NEW c \in Columns
    PROVE  /\ batch.row_count \in Nat
           /\ batch.columns[c].type = Schema[c]
           /\ Schema[c] = "Int" =>
                 /\ batch.columns[c].values \in Seq(IntValues)
                 /\ Len(batch.columns[c].values) \in Nat
                 /\ batch.row_count <= Len(batch.columns[c].values)
           /\ Schema[c] = "Text" =>
                 /\ batch.columns[c].offsets \in Seq(Offsets)
                 /\ batch.columns[c].bytes \in Seq(Bytes)
                 /\ Len(batch.columns[c].offsets) = batch.row_count + 1
                 /\ batch.columns[c].offsets[1] = 0
                 /\ batch.columns[c].offsets[batch.row_count + 1] <= Len(batch.columns[c].bytes)
                 /\ TextOffsetsAreMonotonic(batch.columns[c].offsets)
<1>1. batch.row_count \in Nat /\ batch.columns \in Seq(ColumnBuffers)
    BY DEF ColumnBatches, ColumnViews
<1>2. batch.columns[c] \in ColumnBuffers
    BY <1>1, ElementOfSeq DEF ValidateColumnBatch, Columns
<1>3. Schema[c] \in {"Int", "Text"}
    BY SchemaAssumption, ElementOfSeq DEF Columns, LogicalTypes
<1>4. CASE Schema[c] = "Int"
    <2>1. batch.columns[c].type = "Int" /\ Len(batch.columns[c].values) >= batch.row_count
        BY <1>4 DEF ValidateColumnBatch, ValidateIntView
    <2>2. batch.columns[c] \in IntColumnBuffers
        BY <1>2, <2>1 DEF ColumnBuffers, TextColumnBuffers
    <2>3. batch.columns[c].values \in Seq(IntValues) /\ Len(batch.columns[c].values) \in Nat
        BY <2>2, LenProperties DEF IntColumnBuffers
    <2>4. QED BY <1>1, <1>4, <2>1, <2>3
<1>5. CASE Schema[c] = "Text"
    <2>1. ValidateTextView(batch.columns[c], batch.row_count)
        BY <1>5 DEF ValidateColumnBatch
    <2>2. batch.columns[c] \in TextColumnBuffers
        BY <1>2, <2>1 DEF ColumnBuffers, IntColumnBuffers, ValidateTextView
    <2>3. QED BY <1>1, <1>5, <2>1, <2>2 DEF TextColumnBuffers, ValidateTextView
<1>6. QED BY <1>3, <1>4, <1>5

(* Appending a valid batch to an aligned group adds its rows to every      *)
(* column.                                                                 *)
LEMMA AppendValidatedBatchStructure ==
    ASSUME NEW group \in RowGroups, Aligned(group),
           NEW batch \in ColumnBatches, ValidateColumnBatch(batch)
    PROVE  LET after == AppendValidatedBatch(group, batch)
           IN  /\ after \in RowGroups
               /\ Aligned(after)
               /\ RowCount(after) = RowCount(group) + batch.row_count
<1> DEFINE after == AppendValidatedBatch(group, batch)
           count == batch.row_count
<1>1. ASSUME NEW c \in Columns
      PROVE  /\ after[c] \in ColumnBuffers
             /\ after[c].type = Schema[c]
             /\ ColumnSize(after[c]) = RowCount(group) + count
    <2> DEFINE view == batch.columns[c]
    <2>1. ColumnSize(group[c]) = RowCount(group) /\ count \in Nat
        BY ValidView DEF Aligned
    <2>2. CASE Schema[c] = "Int"
        <3>1. /\ group[c].values \in Seq(IntValues) /\ view.values \in Seq(IntValues)
              /\ view.type = "Int"
              /\ count <= Len(view.values) /\ Len(view.values) \in Nat
              /\ ColumnSize(group[c]) = Len(group[c].values)
            BY <2>2, GroupColumn, ValidView, ColumnSizeType DEF IntColumnBuffers
        <3> DEFINE part == SubSeq(view.values, 1, count)
                   all  == group[c].values \o part
        <3>2. after[c] = [type |-> "Int", values |-> all]
            BY <3>1 DEF AppendValidatedBatch, IntAppendSpan
        <3> HIDE DEF after, count, view
        <3>3. \A i \in 1 .. count : view.values[i] \in IntValues
            BY <2>1, <3>1, ElementOfSeq
        <3>4. part \in Seq(IntValues) /\ Len(part) = count
            BY <2>1, <3>3, SubSeqProperties
        <3> HIDE DEF part
        <3> DEFINE old == group[c].values
        <3>5. old \in Seq(IntValues) /\ part \in Seq(IntValues)
            BY <3>1, <3>4
        <3>6. all = old \o part
            OBVIOUS
        <3> HIDE DEF all, old
        <3>7. all \in Seq(IntValues) /\ Len(all) = Len(old) + Len(part)
            BY <3>5, <3>6, ConcatProperties
        <3>8. after[c] \in IntColumnBuffers /\ after[c].type = "Int" /\ after[c].values = all
            BY <3>2, <3>7 DEF IntColumnBuffers
        <3>9. ColumnSize(after[c]) = Len(all)
            BY <3>8 DEF ColumnSize
        <3>10. ColumnSize(after[c]) = RowCount(group) + count
            BY <2>1, <3>1, <3>4, <3>7, <3>9 DEF old
        <3>11. QED BY <2>2, <3>8, <3>10 DEF ColumnBuffers
    <2>3. CASE Schema[c] = "Text"
        <3>1. /\ group[c].offsets \in Seq(Offsets) /\ group[c].bytes \in Seq(Bytes)
              /\ view.offsets \in Seq(Offsets) /\ view.bytes \in Seq(Bytes)
              /\ view.type = "Text"
              /\ Len(view.offsets) = count + 1
              /\ ColumnSize(group[c]) = Len(group[c].offsets)
              /\ Len(group[c].bytes) \in Nat
            BY <2>3, GroupColumn, ValidView, ColumnSizeType, LenProperties DEF TextColumnBuffers
        <3> DEFINE size  == Len(group[c].bytes)
                   moved == [i \in 1 .. count |-> ToUint32(size + view.offsets[i])]
        <3>2. after[c] = [type    |-> "Text",
                          offsets |-> group[c].offsets \o moved,
                          bytes   |-> group[c].bytes \o view.bytes]
            BY <3>1 DEF AppendValidatedBatch, TextAppendBatch
        <3> HIDE DEF after, count, view, size
        <3>3. \A i \in 1 .. count : ToUint32(size + view.offsets[i]) \in Offsets
            <4> TAKE i \in 1 .. count
            <4>1. view.offsets[i] \in Offsets
                BY <2>1, <3>1, ElementOfSeq
            <4>2. size + view.offsets[i] \in Int
                BY <3>1, <4>1, OffsetRangeAssumption DEF Offsets, size
            <4>3. QED BY <4>2, ToUint32Type
        <3>4. moved \in Seq(Offsets) /\ Len(moved) = count
            BY <2>1, <3>3
        <3> HIDE DEF moved
        <3> DEFINE starts == group[c].offsets \o moved
                   blob   == group[c].bytes \o view.bytes
        <3>5. /\ starts \in Seq(Offsets) /\ Len(starts) = Len(group[c].offsets) + count
              /\ blob \in Seq(Bytes)
            BY <3>1, <3>4, ConcatProperties
        <3>6. after[c] = [type |-> "Text", offsets |-> starts, bytes |-> blob]
            BY <3>2
        <3> HIDE DEF starts, blob
        <3>7. after[c] \in TextColumnBuffers /\ after[c].type = "Text" /\ after[c].offsets = starts
            BY <3>5, <3>6 DEF TextColumnBuffers
        <3>8. ColumnSize(after[c]) = Len(starts)
            BY <3>7 DEF ColumnSize
        <3>9. ColumnSize(after[c]) = RowCount(group) + count
            BY <2>1, <3>1, <3>5, <3>8
        <3>10. QED BY <2>3, <3>7, <3>9 DEF ColumnBuffers
    <2>4. QED BY <2>2, <2>3, GroupColumn
<1>2. after \in [Columns -> ColumnBuffers]
    BY <1>1 DEF AppendValidatedBatch
<1>3. QED BY <1>1, <1>2, FirstColumn DEF RowGroups, Aligned, RowCount

(* A batch without bytes behind its last text, as make_batch_slice makes   *)
(* them.                                                                   *)
ExactBatch(batch) ==
    /\ ValidateColumnBatch(batch)
    /\ batch.row_count > 0
    /\ \A c \in Columns : Schema[c] = "Text" =>
          batch.columns[c].offsets[batch.row_count + 1] = Len(batch.columns[c].bytes)

(* Its rows become the last rows of the group, and no other row changes.   *)
LEMMA AppendValidatedBatchExact ==
    ASSUME NEW group \in RowGroups, Aligned(group), GroupOrdered(group),
           NEW batch \in ColumnBatches, ExactBatch(batch),
           Addressable(AppendValidatedBatch(group, batch))
    PROVE  LET after == AppendValidatedBatch(group, batch)
           IN  /\ GroupOrdered(after)
               /\ \A i \in 1 .. RowCount(group) :
                     MaterializeRow(after, i) = MaterializeRow(group, i)
               /\ \A j \in 1 .. batch.row_count :
                     MaterializeRow(after, RowCount(group) + j) = BatchRow(batch, j)
<1> DEFINE after == AppendValidatedBatch(group, batch)
           n     == RowCount(group)
           count == batch.row_count
<1>1. n \in Nat /\ count \in Nat /\ count > 0 /\ ValidateColumnBatch(batch)
    BY RowCountType DEF ExactBatch, ColumnBatches
<1>2. ASSUME NEW c \in Columns
      PROVE  /\ Schema[c] = "Text" => TextOrdered(after[c])
             /\ \A i \in 1 .. n : ValueAt(after, i, c) = ValueAt(group, i, c)
             /\ \A j \in 1 .. count : ValueAt(after, n + j, c) = BatchCell(batch, j, c)
    <2> DEFINE view == batch.columns[c]
    <2>1. ColumnSize(group[c]) = n
        BY DEF Aligned
    <2>2. CASE Schema[c] = "Int"
        <3>1. /\ group[c].values \in Seq(IntValues) /\ view.values \in Seq(IntValues)
              /\ view.type = "Int"
              /\ count <= Len(view.values) /\ Len(view.values) \in Nat
              /\ Len(group[c].values) = n
            BY <1>1, <2>1, <2>2, GroupColumn, ValidView, ColumnSizeType DEF IntColumnBuffers
        <3>2. after[c].values = group[c].values \o SubSeq(view.values, 1, count)
            BY <3>1 DEF AppendValidatedBatch, IntAppendSpan
        <3>3. \A j \in 1 .. count : BatchCell(batch, j, c) = IntValue(view.values[j])
            BY <2>2 DEF BatchCell
        <3> HIDE DEF after, count, view, n
        <3>4. \A i \in 1 .. count : view.values[i] \in IntValues
            BY <1>1, <3>1, ElementOfSeq
        <3>5. /\ SubSeq(view.values, 1, count) \in Seq(IntValues)
              /\ Len(SubSeq(view.values, 1, count)) = count
              /\ \A j \in 1 .. count : SubSeq(view.values, 1, count)[j] = view.values[j]
            BY <1>1, <3>4, SubSeqProperties
        <3>6. \A i \in 1 .. n + count :
                 after[c].values[i]
                   = IF i <= n THEN group[c].values[i] ELSE SubSeq(view.values, 1, count)[i - n]
            <4> DEFINE s1 == group[c].values
                       s2 == SubSeq(view.values, 1, count)
            <4>1. /\ s1 \in Seq(IntValues) /\ s2 \in Seq(IntValues)
                  /\ Len(s1) = n /\ Len(s2) = count /\ after[c].values = s1 \o s2
                BY <3>1, <3>2, <3>5
            <4> HIDE DEF s1, s2
            <4>2. \A i \in 1 .. Len(s1) + Len(s2) :
                     (s1 \o s2)[i] = IF i <= Len(s1) THEN s1[i] ELSE s2[i - Len(s1)]
                BY <4>1, ConcatProperties
            <4>3. QED BY <4>1, <4>2 DEF s1, s2
        <3>7. \A i \in 1 .. n : after[c].values[i] = group[c].values[i]
            BY <1>1, <3>6
        <3>8. \A j \in 1 .. count : after[c].values[n + j] = view.values[j]
            <4> TAKE j \in 1 .. count
            <4>1. n + j \in 1 .. n + count /\ ~(n + j <= n) /\ (n + j) - n = j
                BY <1>1
            <4>2. QED BY <3>5, <3>6, <4>1
        <3>9. QED BY <2>2, <3>3, <3>7, <3>8 DEF ValueAt
    <2>3. CASE Schema[c] = "Text"
        <3>1. /\ group[c] \in TextColumnBuffers
              /\ view.offsets \in Seq(Offsets) /\ view.bytes \in Seq(Bytes)
              /\ view.type = "Text"
              /\ Len(group[c].offsets) = n
            BY <1>1, <2>1, <2>3, GroupColumn, ValidView, ColumnSizeType
        <3>2. ExactTexts(view.offsets, view.bytes, count)
            BY <1>1, <2>3, ValidView DEF ExactBatch, ExactTexts
        <3>3. after[c] = TextAppendBatch(group[c], view.offsets, view.bytes, count)
            BY <3>1 DEF AppendValidatedBatch
        <3>4. TextOrdered(group[c]) /\ Len(after[c].bytes) < OffsetRange
            BY <2>3 DEF GroupOrdered, Addressable
        <3>5. \A j \in 1 .. count :
                 BatchCell(batch, j, c)
                   = TextValue(SubSeq(view.bytes, view.offsets[j] + 1, view.offsets[j + 1]))
            BY <2>3 DEF BatchCell
        <3> HIDE DEF after, count, view, n
        <3>6. /\ TextOrdered(after[c])
              /\ \A i \in 1 .. n : TextAt(after[c], i) = TextAt(group[c], i)
              /\ \A j \in 1 .. count :
                    TextAt(after[c], n + j)
                      = SubSeq(view.bytes, view.offsets[j] + 1, view.offsets[j + 1])
            <4> DEFINE column  == group[c]
                       offsets == view.offsets
                       bytes   == view.bytes
            <4>1. /\ column \in TextColumnBuffers /\ offsets \in Seq(Offsets) /\ bytes \in Seq(Bytes)
                  /\ ExactTexts(offsets, bytes, count) /\ TextOrdered(column)
                  /\ Len(TextAppendBatch(column, offsets, bytes, count).bytes) < OffsetRange
                  /\ Len(column.offsets) = n
                  /\ after[c] = TextAppendBatch(column, offsets, bytes, count)
                BY <3>1, <3>2, <3>3, <3>4
            <4> HIDE DEF column, offsets, bytes
            <4> DEFINE new == TextAppendBatch(column, offsets, bytes, count)
            <4>2. /\ TextOrdered(new)
                  /\ \A i \in 1 .. Len(column.offsets) : TextAt(new, i) = TextAt(column, i)
                  /\ \A j \in 1 .. count :
                        TextAt(new, Len(column.offsets) + j)
                          = SubSeq(bytes, offsets[j] + 1, offsets[j + 1])
                BY <1>1, <4>1, TextAppendBatchExact, Zenon
            <4>3. QED BY <4>1, <4>2 DEF column, offsets, bytes
        <3>7. QED BY <2>3, <3>5, <3>6 DEF ValueAt
    <2>4. QED BY <2>2, <2>3, GroupColumn
<1> HIDE DEF after, n, count
<1>3. GroupOrdered(after)
    BY <1>2 DEF GroupOrdered
<1>4. \A i \in 1 .. n : MaterializeRow(after, i) = MaterializeRow(group, i)
    BY <1>2 DEF MaterializeRow
<1>5. \A j \in 1 .. count : MaterializeRow(after, n + j) = BatchRow(batch, j)
    BY <1>2 DEF MaterializeRow, BatchRow
<1>6. QED BY <1>3, <1>4, <1>5 DEF after, n, count

(* Blobs only grow: a group that can be addressed now could before.        *)
LEMMA AddressableBefore ==
    ASSUME NEW group \in RowGroups, Aligned(group)
    PROVE  /\ \A values \in Seq(Values) :
                 ValidateValues(values) /\ Addressable(AppendValidatedRow(group, values))
                    => Addressable(group)
           /\ \A batch \in ColumnBatches :
                 ValidateColumnBatch(batch) /\ Addressable(AppendValidatedBatch(group, batch))
                    => Addressable(group)
<1>1. ASSUME NEW s \in Seq(Bytes), NEW t \in Seq(Bytes), Len(s \o t) < OffsetRange
      PROVE  Len(s) < OffsetRange
    <2>1. Len(s) \in Nat /\ Len(t) \in Nat /\ Len(s \o t) = Len(s) + Len(t)
        BY LenProperties, ConcatProperties
    <2>2. QED BY <1>1, <2>1, OffsetRangeAssumption
<1>2. ASSUME NEW c \in Columns, Schema[c] = "Text"
      PROVE  group[c].bytes \in Seq(Bytes)
    BY <1>2, GroupColumn DEF TextColumnBuffers
<1>3. ASSUME NEW values \in Seq(Values), ValidateValues(values),
             Addressable(AppendValidatedRow(group, values)),
             NEW c \in Columns, Schema[c] = "Text"
      PROVE  Len(group[c].bytes) < OffsetRange
    <2>1. AppendValidatedRow(group, values)[c].bytes = group[c].bytes \o values[c].data
        BY <1>3, ValidCell DEF AppendValidatedRow, TextAppend
    <2>2. values[c].data \in Seq(Bytes)
        BY <1>3, ValidCell
    <2>3. Len(AppendValidatedRow(group, values)[c].bytes) < OffsetRange
        BY <1>3 DEF Addressable
    <2>4. QED BY <1>1, <1>2, <1>3, <2>1, <2>2, <2>3
<1>4. ASSUME NEW batch \in ColumnBatches, ValidateColumnBatch(batch),
             Addressable(AppendValidatedBatch(group, batch)),
             NEW c \in Columns, Schema[c] = "Text"
      PROVE  Len(group[c].bytes) < OffsetRange
    <2>1. batch.columns[c].type = "Text" /\ batch.columns[c].bytes \in Seq(Bytes)
        BY <1>4, ValidView
    <2>2. AppendValidatedBatch(group, batch)[c].bytes = group[c].bytes \o batch.columns[c].bytes
        BY <2>1 DEF AppendValidatedBatch, TextAppendBatch
    <2>3. Len(AppendValidatedBatch(group, batch)[c].bytes) < OffsetRange
        BY <1>4 DEF Addressable
    <2>4. QED BY <1>1, <1>2, <1>4, <2>1, <2>2, <2>3
<1>5. QED BY <1>3, <1>4 DEF Addressable

-----------------------------------------------------------------------------
(* The rows that validation lets pass.                                     *)
GoodRows == {row \in Seq(Values) : ValidateValues(row)}

(* The rows of a valid batch are valid rows.                               *)
LEMMA BatchRowValid ==
    ASSUME NEW batch \in ColumnBatches, ValidateColumnBatch(batch),
           NEW i \in 1 .. batch.row_count
    PROVE  BatchRow(batch, i) \in GoodRows
<1>1. ASSUME NEW c \in Columns
      PROVE  /\ BatchCell(batch, i, c) \in Values
             /\ BatchCell(batch, i, c).type = Schema[c]
             /\ BatchCell(batch, i, c).held = Schema[c]
    <2> DEFINE view == batch.columns[c]
    <2>1. batch.row_count \in Nat
        BY ValidView
    <2>2. CASE Schema[c] = "Int"
        <3>1. view.values \in Seq(IntValues) /\ i \in 1 .. Len(view.values)
            BY <2>1, <2>2, ValidView
        <3>2. view.values[i] \in IntValues
            BY <3>1, ElementOfSeq
        <3>3. BatchCell(batch, i, c) = [type |-> "Int", held |-> "Int", data |-> view.values[i]]
            BY <2>2 DEF BatchCell, IntValue
        <3> HIDE DEF view
        <3>4. QED BY <2>2, <3>2, <3>3 DEF Values, LogicalTypes
    <2>3. CASE Schema[c] = "Text"
        <3> DEFINE offsets == view.offsets
                   bytes   == view.bytes
                   count   == batch.row_count
        <3>1. /\ offsets \in Seq(Offsets) /\ bytes \in Seq(Bytes)
              /\ Len(offsets) = count + 1 /\ TextOffsetsAreMonotonic(offsets)
              /\ offsets[count + 1] <= Len(bytes)
            BY <2>3, ValidView
        <3>2. BatchCell(batch, i, c)
                = [type |-> "Text", held |-> "Text",
                   data |-> SubSeq(bytes, offsets[i] + 1, offsets[i + 1])]
            BY <2>3 DEF BatchCell, TextValue
        <3>3. count \in Nat /\ i \in 1 .. count
            BY <2>1
        <3> HIDE DEF offsets, bytes, count, view
        <3>4. /\ i \in 1 .. Len(offsets) /\ i + 1 \in 1 .. Len(offsets)
              /\ count + 1 \in i + 1 .. Len(offsets) /\ count + 1 \in 1 .. Len(offsets)
            BY <3>1, <3>3
        <3>5. offsets[i] \in Nat /\ offsets[i + 1] \in Nat /\ offsets[count + 1] \in Nat
            BY <3>1, <3>4, ElementOfSeq, OffsetRangeAssumption DEF Offsets
        <3>6. offsets[i + 1] <= offsets[count + 1]
            BY <3>1, <3>4, MonotonicOffsets
        <3>7. Len(bytes) \in Nat /\ \A k \in 1 .. Len(bytes) : bytes[k] \in Bytes
            BY <3>1, ElementOfSeq, LenProperties
        <3>8. \A k \in offsets[i] + 1 .. offsets[i + 1] : bytes[k] \in Bytes
            BY <3>1, <3>5, <3>6, <3>7
        <3>9. SubSeq(bytes, offsets[i] + 1, offsets[i + 1]) \in Seq(Bytes)
            BY <3>5, <3>8, SubSeqProperties
        <3>10. QED BY <2>3, <3>2, <3>9 DEF Values, LogicalTypes
    <2>4. Schema[c] \in LogicalTypes
        BY SchemaAssumption, ElementOfSeq DEF Columns
    <2>5. QED BY <2>2, <2>3, <2>4 DEF LogicalTypes
<1>2. /\ BatchRow(batch, i) \in Seq(Values)
      /\ Len(BatchRow(batch, i)) = Len(Schema)
      /\ \A c \in Columns : BatchRow(batch, i)[c] = BatchCell(batch, i, c)
    <2>1. Len(Schema) \in Nat
        BY FirstColumn
    <2>2. \A c \in 1 .. Len(Schema) : BatchCell(batch, i, c) \in Values
        BY <1>1 DEF Columns
    <2>3. BatchRow(batch, i) = [c \in 1 .. Len(Schema) |-> BatchCell(batch, i, c)]
        BY DEF BatchRow, Columns
    <2>4. QED BY <2>1, <2>2, <2>3 DEF Columns
<1>3. QED BY <1>1, <1>2 DEF GoodRows, ValidateValues

-----------------------------------------------------------------------------
(* Prefixes, element by element.                                           *)
LEMMA PrefixElements ==
    ASSUME NEW S, NEW s \in Seq(S), NEW t \in Seq(S)
    PROVE  IsPrefix(s, t) <=> Len(s) <= Len(t) /\ \A i \in 1 .. Len(s) : s[i] = t[i]
<1>1. Len(s) \in Nat /\ Len(t) \in Nat
    BY LenProperties
<1>2. CASE Len(s) <= Len(t)
    <2> DEFINE front == SubSeq(t, 1, Len(s))
               whole == SubSeq(s, 1, Len(s))
    <2>1. \A i \in 1 .. Len(s) : s[i] \in S /\ t[i] \in S
        BY <1>1, <1>2, ElementOfSeq
    <2>2. /\ front \in Seq(S) /\ whole \in Seq(S)
          /\ Len(front) = Len(s) /\ Len(whole) = Len(s)
          /\ \A i \in 1 .. Len(s) : front[i] = t[i] /\ whole[i] = s[i]
        BY <1>1, <2>1, SubSeqProperties
    <2> HIDE DEF front, whole
    <2>3. whole = front <=> \A i \in 1 .. Len(s) : whole[i] = front[i]
        BY <2>2, SeqEqual
    <2>4. QED BY <1>2, <2>2, <2>3 DEF IsPrefix, front, whole
<1>3. CASE ~(Len(s) <= Len(t))
    BY <1>3 DEF IsPrefix
<1>4. QED BY <1>2, <1>3

LEMMA PrefixTransitive ==
    ASSUME NEW S, NEW s \in Seq(S), NEW t \in Seq(S), NEW u \in Seq(S),
           IsPrefix(s, t), IsPrefix(t, u)
    PROVE  IsPrefix(s, u)
<1>1. /\ Len(s) \in Nat /\ Len(t) \in Nat /\ Len(u) \in Nat
      /\ Len(s) <= Len(t) /\ \A i \in 1 .. Len(s) : s[i] = t[i]
      /\ Len(t) <= Len(u) /\ \A i \in 1 .. Len(t) : t[i] = u[i]
    BY LenProperties, PrefixElements
<1>2. Len(s) <= Len(u) /\ \A i \in 1 .. Len(s) : s[i] = u[i]
    BY <1>1
<1>3. QED BY <1>2, PrefixElements

=============================================================================
