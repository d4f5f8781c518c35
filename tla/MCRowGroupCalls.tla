-------------------------- MODULE MCRowGroupCalls --------------------------
(* Small instances of RowGroupCalls for TLC.                               *)
EXTENDS RowGroupCalls

CONSTANTS i1, i2, x, y      \* two integers and two bytes

MCSchema    == <<"Text", "Int">>
MCIntValues == {i1, i2}
MCBytes     == {x, y}

Row(text, n) == <<TextValue(text), IntValue(n)>>
BadRow == <<TextValue(<<x>>), TextValue(<<x>>)>>

MCCandidateRows == {Row(<< >>, i1), Row(<<x>>, i2), Row(<<y, x>>, i1), BadRow}

(* Spans that fit, that end in a full group, that hold a bad row.          *)
MCRowSpans ==
    {<< >>, <<Row(<<x>>, i2), Row(<< >>, i1)>>,
     <<Row(<<x>>, i2), BadRow, Row(<<y, x>>, i1)>>,
     <<Row(<<y, x>>, i1), Row(<<x>>, i2), Row(<<x>>, i2), Row(<< >>, i1)>>}

Batch(n, offsets, bytes, ints) ==
    [row_count |-> n,
     columns   |-> <<[type |-> "Text", offsets |-> offsets, bytes |-> bytes],
                     [type |-> "Int", values |-> ints]>>]

(* Offsets that decrease or run past the bytes, a column too short, a view *)
(* of the wrong kind.                                                      *)
MCRefusedBatches ==
    {Batch(1, <<0, 2>>, <<x>>, <<i1>>),
     Batch(2, <<0, 2, 1>>, <<x, y>>, <<i1, i2>>),
     Batch(2, <<0, 1, 1>>, <<x>>, <<i1>>),
     [row_count |-> 1, columns |-> <<[type |-> "Int", values |-> <<i1>>],
                                     [type |-> "Int", values |-> <<i1>>]>>]}

(* Non-empty batches whose bytes end with the last text.                   *)
MCExactBatches ==
    MCRefusedBatches \cup
    {Batch(1, <<0, 0>>, << >>, <<i2>>),
     Batch(2, <<0, 1, 3>>, <<y, x, y>>, <<i2, i1, i1>>),
     Batch(3, <<0, 0, 1, 1>>, <<x>>, <<i1, i2, i1>>),
     Batch(4, <<0, 0, 1, 1, 1>>, <<x>>, <<i1, i2, i1, i2>>)}

(* A batch with a byte behind its last text.                               *)
MCSlackBatches == MCExactBatches \cup {Batch(1, <<0, 1>>, <<x, y>>, <<i1>>)}

(* Batches of no rows, without and with slack.                             *)
MCAllBatches ==
    MCSlackBatches \cup {Batch(0, <<0>>, << >>, << >>), Batch(0, <<0>>, <<y>>, << >>)}

=============================================================================
