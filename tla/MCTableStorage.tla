--------------------------- MODULE MCTableStorage ---------------------------
(* Small instances of TableStorage for TLC.                                *)
EXTENDS TableStorage

CONSTANTS i1, i2, x, y      \* two integers and two bytes

MCSchema    == <<"Int", "Text">>
MCIntValues == {i1, i2}
MCBytes     == {x, y}

(* Texts of 0, 1 and 2 bytes; then rows that are too short, of a wrong     *)
(* type, and with a payload that is not what their type says.              *)
MCCandidateRows ==
    {<<IntValue(i1), TextValue(<< >>)>>,
     <<IntValue(i2), TextValue(<<x>>)>>,
     <<IntValue(i1), TextValue(<<y, x>>)>>,
     <<IntValue(i1)>>,
     <<TextValue(<<x>>), IntValue(i1)>>,
     <<[type |-> "Int", held |-> "Text", data |-> <<x>>], TextValue(<<y>>)>>}

GoodRow == <<IntValue(i2), TextValue(<<x>>)>>
BadRow  == <<IntValue(i1)>>
MCRowSpans ==
    {<< >>, <<GoodRow, <<IntValue(i1), TextValue(<<y, x>>)>>, GoodRow>>,
     <<GoodRow, BadRow, GoodRow>>, <<BadRow, GoodRow>>}

Batch(n, ints, offsets, bytes) ==
    [row_count |-> n,
     columns   |-> <<[type |-> "Int", values |-> ints],
                     [type |-> "Text", offsets |-> offsets, bytes |-> bytes]>>]

(* Batches of 0, 1, 3 and 4 rows: with empty texts, with more integers     *)
(* than rows, with bytes behind the last text.                             *)
MCValidBatches ==
    {Batch(0, << >>, <<0>>, << >>),
     Batch(1, <<i2, i1>>, <<0, 1>>, <<y, x>>),
     Batch(3, <<i1, i2, i2>>, <<0, 1, 1, 3>>, <<x, y, x>>),
     Batch(4, <<i2, i1, i1, i2>>, <<0, 0, 2, 2, 3>>, <<y, x, x, y>>)}

(* Too few integers; an offset missing; offsets that do not start at zero, *)
(* run past the bytes, decrease; columns swapped; a column missing.        *)
MCInvalidBatches ==
    {Batch(2, <<i1>>, <<0, 1, 2>>, <<x, y>>),
     Batch(2, <<i1, i2>>, <<0, 1>>, <<x, y>>),
     Batch(1, <<i1>>, <<1, 2>>, <<x, y>>),
     Batch(1, <<i1>>, <<0, 2>>, <<x>>),
     Batch(3, <<i1, i2, i1>>, <<0, 2, 1, 2>>, <<x, y>>),
     [row_count |-> 1, columns |-> <<[type |-> "Text", offsets |-> <<0, 1>>, bytes |-> <<x>>],
                                     [type |-> "Int", values |-> <<i1>>]>>],
     [row_count |-> 1, columns |-> <<[type |-> "Int", values |-> <<i1>>]>>]}

MCCandidateBatches == MCValidBatches \cup MCInvalidBatches

MCProjections == {<< >>, <<2>>, <<2, 1, 2>>, <<1, 3>>}

=============================================================================
