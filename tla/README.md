# DuraDB in TLA+

This directory holds a formal model of DuraDB: TLA+ modules, the TLC
configurations that check them on small instances, and proofs that TLAPS
checks. Paths are relative to the repository's root; the C++ sources are under
`src/`.

## 1. The system

DuraDB is an embedded SQL database of about 2600 lines: an interactive shell, a
lexer and a recursive-descent parser, a binder, an executor, catalogs, and a
columnar, in-memory table storage. It is **single-threaded** and keeps
**nothing on disk**. `DESIGN.md` describes a write-ahead log, MVCC, zone maps,
indexes and concurrent readers; no code exists for them, and they are not
modelled. So there are no data races, crashes or lost messages here. What is
hard is elsewhere: cutting batches at row-group ends and rebasing offsets,
32-bit offsets over an unlimited blob, validation in one place that is relied
on in another one, and statements that are bound now and executed later.

| part | state | operations | talks to | what makes it correct |
|---|---|---|---|---|
| column buffers (`storage/column_buffer`) | integer vector; offsets and blob | append, append_span, append_batch, at | row group | a text is read as it was appended while 32 bits address the blob; no read outside the blob |
| validation (`storage/column_batch`, `storage/row`) | none | validate_values, validate_column_batch | row group, storage, catalog | what passes can be stored |
| row group (`storage/row_group`) | one buffer per column | append_row, append_rows, append_column_batch, reads | buffers, validation | all columns move together; at most the capacity; a refusal leaves no trace |
| table storage (`storage/table_storage`) | sealed groups, active group | append_row, append_rows, append_column_batch, for_each_row, scan_projected, row_count | row groups | scans deliver exactly the accepted rows, in order; sealed groups never change; calls return |
| catalogs, cluster (`catalog/*_catalog`, `engine/cluster`) | nested maps database, schema, table | create_*, find_*, insert, insert_batch, insert_columnar_batch | storage | nothing is forgotten or replaced; tables have distinct columns and rows that fit them |
| session (`engine/session`) | name of the current database | connect, current_database_catalog | cluster | the current database exists |
| binder (`catalog/binder`, `schema`, `value`) | none | bind, one function per kind of statement | session (reads), bound expressions | what it accepts can be executed |
| bound expressions (`catalog/bound_expr`) | none | bind, two validations, evaluate | schema, rows | accepted clauses have a truth value on every row, the right one |
| executor (`execution/executor`) | none | execute, one function per kind | session, catalogs, bound expressions | answers by names although it keeps ordinals; re-checks what may be stale |
| lexer, parser (`frontend/`) | cursor, current token | next_token, parse_* | binder (syntax trees) | every input ends in a statement or an error; precedence |
| shell (`repl/`) | line buffer, one session | run, process_line, process_sql | parser, binder, executor | a statement reaches the parser whole and once |

Hard behaviours, all listed with their lines under `hazards` in `PROJECT.json`:
batches that cross several row groups; lazy sealing before rows against eager
sealing after batches; partial failure of `append_rows`; offsets that wrap;
batches that are valid but that `TableStorage` would never produce; two
sessions that race for one name; statements executed in another database than
they were bound in; lines that are joined into one statement although comments
and strings do not respect the ends of lines; the place of an error in a text
of several lines.

## 2. Modules

```
ColumnBuffer <- RowGroup <- TableStorage        (implements AppendOnlyTable)
                RowGroup <- AppendOnlyTable, RowGroupCalls
Predicate <- Where <- BoundExpr
Predicate <- Ast <- Catalog
   Catalog, Where <- Sessions <- Shell
      Ast, Lexer <- Parser <- Grammar, Shell
           Lexer <- Scanning
         Grammar, Scanning <- Frontend
```

`A <- B, C`: B and C extend A.

* **ColumnBuffer** - the two kinds of buffers as records and operators.
  `OffsetRange` is 2^32 in the program; every stored offset and every computed
  length is taken modulo it (`ToUint32`). Indices are 1-based, offsets 0-based.
* **RowGroup** - validation of rows and batches, and the operations of a row
  group as functions that return a status and the group they leave. The order
  of the checks is the code's (full, then invalid, then too large). There is no
  row counter, as in the code: `RowCount` is the size of the first column.
* **TableStorage** - the state machine of one table. Variables
  `sealed_row_groups` and `active` are the members of the class; `pending` is
  the call in progress; `status` how the last call ended; `log` is a history
  variable: the rows accepted so far as callers passed them. `append_row` is
  one step. `append_rows` and `append_column_batch` take one step per
  iteration of their loops, each with everything the iteration does (seal,
  slice, append, seal again), so that partial failure and progress can be
  stated. Scans are operators, since they change nothing.
* **AppendOnlyTable** - the abstract specification: a sequence of rows; a batch
  appears in one step or not at all; "row group full" does not exist.
  `TableStorage!Abstract` is the refinement mapping: the rows of a batch in
  progress are not visible yet (nobody can look before the call returns).
* **RowGroupCalls** - one row group called directly, as the unit tests of the
  repository do, with batches that `TableStorage` would not pass: empty ones and ones
  with bytes behind the last text. `NDEBUG` chooses between builds.
* **Predicate** - literals, columns, name look-up, the type check of a
  comparison, and the evaluation of a comparison. "Trap" stands for the failed
  assertion of `Value::as_int`, or the exception of `std::get` without it.
* **Where** - the trees of AND and OR, with the recursive functions of
  `bound_expr.cpp`: binding, two validations, evaluation. `IsPredicate` and
  `Holds` are reference definitions taken from the syntax tree alone. All of these
  are recursive functions on the subtrees of a tree, which a proof can unfold. A
  node knows its `height`, since trees are finite; the program has no such field.
* **BoundExpr** - the life of one WHERE clause: bound, validated twice, evaluated
  on rows.
* **Ast** - the syntax trees of statements, which the parser makes and the binder
  reads.
* **Lexer** - `Lexer::next` as an operator: from a text and a place (position,
  line, column) to a token and the next place. Characters are model values; what
  is a letter, a digit or a keyword is a parameter, so that an instance may take
  a whole word for one letter. `SkipWhitespaceAndComments` and `ScanString` are
  recursive functions on positions, as the loops they model are; the signs and
  operators are tables (`Marks`, `CompoundMarks`). Also the
  decoding of string literals, which the binder does in the program and the
  parser does here (`LiteralExpr` holds the value).
* **Parser** - the recursive descent, one operator per function, on a sequence of
  tokens. `Then` is the early return on an error that every call in the code is
  followed by. An error carries the position of the current token. The loops
  (`ParseList`) and the recursion from a parenthesis to the expression in it
  (`Expressions`) are functions of the position, where each value is made of those at
  later positions: a proof can unfold them.
* **Grammar** - the language that the parser is meant for, written as rules: the trees of
  a piece of the tokens, by all ways to split it (`Trees`). It shares the tokens and
  the nodes with `Parser`, and nothing of its descent. The rules are one recursive
  function on symbols and pieces (`Derived`), so that it can be reasoned about. It also
  says what a beginning of a statement is (`CanBeCompleted`): one that a shortest end
  completes.
* **Scanning** - the state machine of a text that is scanned: a step is a call of
  `Lexer::next`. It holds the languages of the tokens, what a blank is, and the
  properties of the scanner. It knows nothing of the parser, so that it can be
  proved about.
* **Frontend** - the state machine of one statement: the steps of `Scanning`,
  and then the call of the parser.
* **Catalog** - cluster, database and schema catalogs as operators on nested
  maps. A table is its columns and its rows: that is what `TableStorage` is
  proved to implement.
* **Sessions** - the state machine of several sessions on one cluster. One step
  is one public call: `OpenSession`, `Connect`, `Bind`, `Execute`, and the two
  bulk insertions that SQL does not reach. WHERE clauses are whole trees, bound and
  evaluated by `Where`. Between binding and execution
  anything may happen; `bound[s]` remembers, besides the bound statement, the
  database and the syntax tree it came from (history, read by properties only).
* **Shell** - the shell on top of one session: `ReadLine` and `ReadMore` are the two
  places where `run` reads a line, `ProcessLine` is the call that tests make,
  and `Parse`, `BindParsed` and `ExecuteBound` are the three calls of `process_sql`.
  The actions of `Sessions` are conjuncts of these. `typed` remembers the lines
  of the statement (history).
* **RowGroupProofs**, **RowGroupCallsProofs**, **TableStorageProofs**,
  **WhereProofs**, **BoundExprProofs**, **SessionsProofs**, **ShellProofs** (also of
  `Scanning`), **FrontendProofs** - the theorems (section 5).
* **MC...** - instances for TLC.

Operators named `...Mutant` are plausible mistakes in the definition that
follows them; nothing uses them. Each property is known to fail for at least
one of them (`mutants` in `PROJECT.json`).

## 3. Runs

| configuration | properties | shows |
|---|---|---|
| `MCTableStorage.cfg` | `TypeOK`, `GroupsWellFormed`, `ScanYieldsLog`, `ProjectedScanYieldsLog`, `SliceAccepted`, `SealedGroupsImmutable`, `ImplementsAppendOnlyTable`, `CallsReturn` | the storage is a faithful append-only table under any mixture of calls |
| `MCTableStorageWrap.cfg` | `Inv`, `GroupsHoldLog`, `ReadsInBounds` | the inductive invariant, also when offsets wrap; wrapping never reads outside a blob |
| `MCRowGroupSlack.cfg` | `TypeOK`, `CellsExtendLog`, `InnerRowsStable` | one group under direct calls, with any batch: refusals leave no trace, a span keeps its good prefix, a text can only gain bytes at its end |
| `MCBoundExpr.cfg` | `AcceptsPredicates`, `EvaluatesToReference` | WHERE clauses are accepted exactly when well-typed, and mean what they say |
| `MCSessions.cfg` | `Inv`, `TablesWellFormed`, `SessionsConnected`, `BoundStaysExecutable`, `SelectAnswersByName`, `NothingForgotten` | two sessions, two databases |
| `MCFrontend.cfg` | `ScansEnd`, `GapsAreBlank`, `LexemesInLanguage`, `PlacesAreRight`, `DecodesText`, `ParsesToGrammar`, `ErrorsPointAtCulprit` | scanning ends, takes the longest token and skips blanks and comments only; the parser accepts exactly the grammar, with its tree, and blames the right token |
| `MCShell.cfg` | `ShellInv`, `NeverAborts`, `BoundStatementsRun`, `SelectAnswersByName`, `JoinKeepsTokens`, `ContinuesOnlyIncomplete`, `RunReturns` | from lines to answers: a statement is executed as it was typed, the stale cases below do not happen in the shell, joining lines keeps their tokens, `run` returns |

Five more runs end in a violation, by design. Each states what a test, an
assertion or the README says, and shows that the code does something else:

| configuration | property | what happens |
|---|---|---|
| `MCRowGroupSlackRead.cfg` | `RowsReadBack` | bytes behind the last text of an accepted batch are read as part of a row. Only direct callers of `RowGroup` are affected: `make_batch_slice` trims the bytes |
| `MCRowGroupWrap.cfg` | `TextReadsBack` | texts are garbled after 2^32 bytes in a column of a row group |
| `MCSessionsStaleInsert.cfg` | `InsertedRowsMatchSchema` | an INSERT that is bound, kept over a `connect`, and executed on another table of the same name aborts a build with assertions |
| `MCSessionsStaleSelect.cfg` | `IntegersAreIntegers` | the same with a SELECT that compares two columns: a text is taken for an integer |
| `MCShellSemicolon.cfg` | `SemicolonsOptional` | the help says that a statement on one line needs no semicolon, but `INSERT INTO t VALUES (1, '(')` waits for more, since the parenthesis in the string counts |

The shell executes a statement right after binding it, so it meets neither of
the two stale cases; a program that embeds `Binder` and `Executor` may.

### Bounds, and why they are enough

* Row groups hold 2 rows (3 in the wrapping run) instead of
  `kRowGroupCapacity`; tables at most 5 rows (`MaxRows`: no call starts that
  could pass it). With 2 rows per group a batch of 4 rows fills three groups
  when it starts in a half-full one, so first, middle and last slices all
  happen, as do groups that are full before a call and groups filled exactly.
* One integer and one text column; two integers and two bytes; texts of 0, 1
  and 2 bytes. Batches include empty texts, more integers than rows and slack
  bytes, and one invalid batch per check of the validation. Invalid rows are
  too short, of a wrong type, or with a payload that contradicts their type.
* `OffsetRange` is 8, which four bytes per group never reach, or 4, which
  three rows pass.
* `MaxSlack` stops the growth of a blob by batches of no rows in
  `MCRowGroupSlack.cfg`.
* Clauses: all comparisons of two out of five leaves (one of them an unknown
  column), pairs of eight parts under AND, OR, = and <, and AND/OR trees over
  those pairs. Three levels meet both operands of a connective being
  connectives, comparisons or, wrongly, leaves.
* Sessions: two sessions (interchangeable, `SYMMETRY`), two databases, two
  shapes of one table name, two rows per table (`MaxRows`). The sets of
  statements include each way a statement is refused. A second schema is in the
  run of the shell. Its tables may have up to `MaxRows` = 9, more than it has lines.
* Scanner: all texts of at most 4 out of 12 characters, one of each class and each
  that begins a token of two, and of at most 5 where quotes, dashes and newlines
  meet. Nothing in the scanner looks ahead further than one character, so a
  place between two tokens, a comment and a string with a doubled quote all fit.
* Parser: samples of all five statements with one word replaced by any of 24, or
  one inserted, at every place, which meets every error of the parser; and
  all WHERE clauses of at most 5 words. `MaxInt64` is 20, so that 19 is an integer
  and 91 is one that does not fit.
  `Completions`, from which `ErrorsPointAtCulprit` looks for an end of a statement, are
  the rests of the four shortest statements, and an operand with as many parentheses
  as are open; they have no bound.
* Shell: 4 lines (`MaxLines`) out of 21: whole statements with and without a
  semicolon, pieces of statements, commands, comments and strings. 4 lines are
  a table, a row and a SELECT over two lines.
* `CHECK_DEADLOCK FALSE` where the system really stops: a clause that has been
  evaluated or refused, a process that has aborted.

## 4. Fairness

`TableStorage` (`CallsReturn`): weak fairness of `AppendRowsStep` and
`AppendColumnBatchStep`. The code has one thread; while a call is in its loop
nothing else runs and the loop's next iteration does. No call is assumed to
begin.

`Shell` (`RunReturns`): the thread goes on with a statement it has begun to parse,
bind or execute, and the input ends: `getline` fails in the end, be it
only after the last line that is typed. The first is weak fairness of the steps
that leave such a mode, written on `mode` alone, since all steps of those modes
change it. No line is assumed to be typed, and no statement to be completed:
that `run` returns from inside an unfinished statement is the point.

That the scanner ends is an invariant (`ScansEnd`): a call that consumed nothing
would add tokens without end.

## 5. Proofs

### The storage

For every schema, capacity, offset width and set of arguments that the modules'
assumptions admit:

| theorem | states |
|---|---|
| `Invariance` | `Spec => []Inv` |
| `TypeCorrect` | `Spec => []TypeOK` |
| `WellFormed` | `Spec => []GroupsWellFormed` |
| `NothingLost` | `Spec => []GroupsHoldLog` |
| `SlicesNeverFail` | `Spec => []SliceAccepted` |
| `SealedStay` | `Spec => SealedGroupsImmutable` |
| `Implementation` | `Spec => ImplementsAppendOnlyTable` |
| `ScansAreFaithful` | `Spec => []ScanYieldsLog` |
| `ProjectionsAreFaithful` | `Spec => []ProjectedScanYieldsLog` |
| `ReadsStayInBounds` | `Spec => []ReadsInBounds` |

and for a row group that is called directly, with every set of rows, spans and batches:

| theorem | states |
|---|---|
| `CallsTypeCorrect` | `Spec => []TypeOK` |
| `CallsOnlyExtendTexts` | `Spec => []CellsExtendLog` |
| `CallsKeepInnerRows` | `Spec => InnerRowsStable` |

The assumptions are the named ones of the modules: a capacity and an offset
range of at least 1, a schema with at least one column, arguments of the right
shape.

The argument. `GroupsHoldLog`, that row i of a group is the row of the log at
its place, is not inductive. Whether a row that is there already stays as it is
depends on how the last text is delimited, so `Inv` adds `GroupsOrdered`: in a
group whose blobs the offsets can address, each text ends at or behind its
start and inside the blob. Both are conditional on `Addressable`, since the
code does not keep a blob below 2^32 bytes; as a blob only grows, a group that
is addressable after a step was so before it. For the refinement `Inv` also
adds `PendingBatchLogged`: the last rows of the log are the first rows of the
batch in progress, so removing them gives the table before the call and
completing them the table after it.

`RowGroupProofs` has the lemmas about one group: appending a row, or a valid
batch that fits, keeps the group well-typed, aligned and ordered, keeps every
row, and adds the rows passed. `TableStorageProofs` adds that a slice of a
valid batch is a valid batch with the rows of the original
(`SliceView` rebases offsets), that a slice is never empty and always fits, and
one lemma per action; the theorems follow.

`ReadsInBounds` also speaks of blobs that have outgrown the offsets, of which
`Inv` says nothing. The proof strengthens it by `GroupsStarted`: there exists,
though the code does not keep it, a list of the true places where the texts of a
column start, which never goes down, stays inside the blob and equals the
offsets modulo `OffsetRange`. Appending extends the list, whatever it is
(`StartsExtend`), and from the list follows, by arithmetic modulo
`OffsetRange` (`WrappedTextEnds`), that a read starts and ends no later than the
text's true end: wrapped reads may be garbled, but never outside.

A scan visits the groups in order, so the places it visits (`Visits`) are the
concatenation of one list per group, which is a fold. The proof unfolds the
fold into its steps, and `VisitsShowLog` goes through them: after k groups the
places visited hold the first rows of the log (`Shows`), since all sealed groups
are full and `GroupsHoldLog` says where in the log a group begins. A projected
row has the same visits and picks cells of the row by ordinal. Both hold as long
as the offsets address the blobs, as the properties say.

`RowGroupCallsProofs` is about batches with bytes behind their last text, for which
the exact lemmas do not hold. Its invariant, `Promised`, says that each
cell extends the one of the log (`CellExtends`), that texts are ordered, and that
there are as many rows as were promised. `TextAppendBatchExtends` shows what such a batch
does to a buffer: the text that was open at the end may grow, all others stay, and
the new ones begin with the view's texts. As extending is transitive, the invariant
survives any number of such batches. A span of `append_rows` is handled by induction:
`AppendRowsStepwise` first proves that the recursive function of the model exists and
satisfies its equation, and `SpanPromised` that what it leaves are exactly
the `AcceptedRows` that the log says.

### Sessions

For every set of sessions, names, statements and batches that the modules'
assumptions admit:

| theorem | states |
|---|---|
| `SessionsInvariance` | `Spec => []Inv` |
| `TablesStayWellFormed` | `Spec => []TablesWellFormed` |
| `SessionsStayConnected` | `Spec => []SessionsConnected` |
| `BoundStays` | `Spec => []BoundStaysExecutable` |
| `NothingIsForgotten` | `Spec => NothingForgotten` |
| `SelectsAnswerByName` | `Spec => []SelectAnswersByName` |

The assumptions: `StatementsAssumption` says what the parser guarantees of a
statement (lists of columns and values are sequences, names and lists not empty where
the grammar asks for one, a clause is a tree of finite height); that it does is part
of `BoundStatementsAlwaysRun` below. `BatchesAssumption` says that the views of
a batch have the shape that their types name.

The argument. That a bound statement can still be executed in its database
(`BoundStaysExecutable`) speaks of an execution that has not happened, in a
catalog that other sessions have changed since the binding. `Inv` therefore
adds `BoundFits`: the statement still fits that database - its table exists,
its ordinals are in range, its WHERE clause is a tree that evaluates to a truth value
on every row that fits the columns, its values match the columns. `BindStatementFits` proves that binding establishes it, whatever
the statement. It is kept because catalogs only grow and the columns of a table
never change (`Keeps`): every operation of a catalog is shown to keep tables
typed and well-formed and to forget nothing, for arguments that were not checked
before as well (one lemma per operation). `NothingForgotten`
follows from the same lemmas, and `FitsSucceeds` is the step from "fits" to
"succeeds, or fails since a name is taken". `TablesTyped` is there since a
provable statement about a table needs to know that it is one.

`SelectsAnswerByName` is about a SELECT that is executed now but was bound long
ago: the bound statement has ordinals, the property speaks of the names that
were typed. `Inv` therefore has `BoundAsWritten`: binding the text of a
remembered SELECT again, in the database where it was bound, would still give
the same. Since columns never change, this outlives whatever other sessions do
(`BindSelectKept`). From there the ordinals of the list and of the clause are
those of the names (`ProjectByName`, `BoundWhereMatches`), so that executor and
reference pick the same places of the table (`RowsAt`) and the same cells.

### WHERE clauses

For every sequence of columns with distinct names, every set of rows of the columns'
types and every set of trees:

| theorem | states |
|---|---|
| `ClauseInvariant` | `Spec => []ClauseInv` |
| `PredicatesAreAccepted` | `Spec => []AcceptsPredicates` |
| `PredicatesEvaluate` | `Spec => []EvaluatesToReference` |

The assumptions: names are distinct (`ColumnsAssumption`; `create_table` refuses
duplicates, `schema_catalog.cpp:62`); rows have a value of its type in each
column (`RowsAssumption`, what `validate_row` guarantees); a clause is a tree of the
nodes that the parser makes, of a finite height (`ClausesAssumption`). There is no
bound on the height.

The argument, in `WhereProofs`. Binding, both validations, evaluation and the two
reference definitions are recursive functions on the subtrees of a tree. A recursive
function in TLA+ is a CHOOSE; that it satisfies its equation has to be proved. Each is
of one form: a value at a leaf, and at a node something made of the values of the two
operands. `Subtrees` is a union of levels, and closed under operands; for a set of
trees that is, a function of that form exists up to each height, the functions of two
heights agree, and the function of a tree agrees with those of its operands. So each
operator has its stepwise equation, whatever tree it is asked about. What remains is
induction on the height: that binding and `ValidatePredicate` together accept
exactly the predicates - neither does alone; that ordinals are in range; and that a
predicate evaluates to `Holds`, where the type checks are what keeps `CompareValues`
from its "Trap". `ClauseInv` adds to the properties that the executor is given what
`BindExpression` made of the clause. `SessionsProofs` uses the same lemmas.

### The scanner and the parser

For every alphabet, table of keywords and text:

| theorem | states |
|---|---|
| `ScanInvariant` | `ScanSpec => []ScanInv` |
| `ScannerEnds` | `ScanSpec => []ScansEnd` |
| `OnlyBlanksSkipped` | `ScanSpec => GapsAreBlank` |
| `TokensInLanguage` | `ScanSpec => []LexemesInLanguage` |
| `TokensRightlyPlaced` | `ScanSpec => []PlacesAreRight` |
| `DecodingUndoesQuoting` | `ScanSpec => []DecodesText` |
| `FrontendScans` | `FrontendSpec => ScanSpec` |
| `FrontendInvariant` | `FrontendSpec => []FrontendInv` |
| `ParserMatchesGrammar` | `FrontendSpec => []ParsesToGrammar` |
| `ParserReadsGrammar` | of all tokens a scanner may deliver, the grammar has exactly the tree that the parser makes, or both have none |
| `ErrorsAtCulprit` | `FrontendSpec => []ErrorsPointAtCulprit` |
| `ParserStopsAtCulprit` | of all tokens a scanner may deliver: what stands before the token that is blamed can be completed, and no tokens that begin with those up to it are a statement |

The assumptions: texts are sequences of characters (`InputsAssumption`);
letters, digits and signs are different characters (`CharactersAssumption`); a
keyword is never called an end, an error, a literal or a sign (`KeywordsAssumption`).
`ScanSpec` is the specification of `Frontend` without its last step, the call of
the parser; `FrontendScans` carries the theorems on the scanner to `FrontendSpec`,
which the run checks.

The argument for the scanner, in `ShellProofs`, since the shell needs most of its
lemmas too. `ScanInv` adds to the properties the type of the state, that line and
column of the scanner itself count the newlines before it (`PlaceIsRight`), and that
there are fewer tokens than characters consumed (`TokensTakeCharacters`). The loops
of the scanner are recursive functions on positions. They are chased: a loop that
moves on from a position until it stops has a value (`ChaseExists`, `BuildExists`),
and what holds at the end of the text and is kept by each move backwards holds
everywhere (`BackwardInduction`). This gives, for each loop, where it stops: behind
the blanks, behind the longest word, number or string. That the string is the
longest needs pairs: a literal ends at the first quote that is not followed by
another one, and quotes inside come in pairs. The same pairs give
`DecodingUndoesQuoting`: decoding makes one quote of a pair, quoting makes a pair of
a quote, and `FlattenStepwise` unfolds the concatenation that quoting is.

The argument for the parser, in `FrontendProofs` but for what the shell also needs.
`FrontendInv` adds to `ScanInv` that EndOfFile is the last token and no other, that
names and numbers are not empty, and that an outcome is that of all tokens. What is
left is about one sequence of tokens. First, what a call returns: an error, or a
tree and a later position (`Makes`). The recursion is unfolded from the last
position backwards: the value at a position is made of values at later ones, so
`Expressions` satisfies its equation at all of them, and so do the loops (`IsLoop`).
On the other side `Derived` satisfies its rules (`DerivedIs`): a rule looks at
shorter pieces, or at the same piece for a symbol of a lower level.

Then the two are compared. `Reads` says of a call at p, for a symbol: if it succeeds,
its tree is one of those that the grammar derives from the tokens it took; and if
the grammar derives a tree from the tokens p .. j, and the token behind them is none that
the symbol could go on with, then the call returns that tree and stops there. The
second half makes the first one strong: the parser takes the longest piece, and no
other split has another tree. Each level of the grammar has its set of tokens that go on: a
comparison operator after a primary, AND after a conjunction, OR after a
disjunction, a comma after a list. The rules of the grammar are left-recursive and the loops of the parser run
to the right. They meet in `Spaced`, a sequence of items and the
positions of the separators: what the grammar derives is `Made` from such a sequence (`WholeIsMade`), a
loop collects such a sequence (`LoopIsSpaced`), and it is the longest
(`SpacedIsRead`). Statements are then read part by part, and `Agrees` compares
their bodies.

The argument for the errors compares two sequences of tokens, `ts` and `us`, that
agree up to some place m (`Alike`). Of each function of the parser, three things. A
call that fails does so at a token that it has seen, with no fewer parentheses open
than where it began (`Stays`, `Late`). What the first m tokens settle - a success
that ends before m, an error at one of them - is the same for `us` (`Settled`,
`Same`): so nothing that begins with the tokens up to the one that is blamed is
accepted. And if the call fails at m + 1, and `us` goes on there with what is
wanted, it succeeds on `us`. What is wanted depends on the place. Inside a clause it
is an operand, if one has to begin, and the parentheses that are open; every call
that is still open has to stop at the one of them that is its own, and `ExprStops`
says which: the depth at its beginning tells it (`Tracks`). Elsewhere it is the rest
of a shortest statement of the same kind (`Rests`): each part of a statement is
taken together with all that follows it (`WhereToEnd`, `ValuesToEnd`, ...), since
the completion that one part needs must also do for the parts behind it. `Completed`
then builds such a `us`, and by `ParserReadsGrammar` the parser's answers are those
of the grammar.

### The shell

For every set of lines, alphabet and table of keywords, and every number of lines that
are typed:

| theorem | states |
|---|---|
| `StatementInvariance` | `ShellSpec => []StatementInv` |
| `ShellInvariance` | `ShellSpec => []ShellInv` |
| `ShellNeverAborts` | `ShellSpec => []NeverAborts` |
| `BoundStatementsAlwaysRun` | `ShellSpec => []BoundStatementsRun` |
| `ShellAnswersByName` | `ShellSpec => []SelectAnswersByName` |
| `ContinuesIncomplete` | `ShellSpec => []ContinuesOnlyIncomplete` |
| `JoiningKeepsTokens` | `ShellSpec => []JoinKeepsTokens` |

The assumptions, besides those above: a line is a sequence of characters
(`LinesAssumption`), the empty name is the empty sequence (`EmptyNameAssumption`), and
the mark of a closed session is no name (`ClosedIsNoName`).

The argument of the first four goes from the text to the catalog. The parser: the tree
that a call makes is what its callers take it for - a name that is not
empty, a list, a node over two trees that are lower than it. It ends in: what
`ParseStatement` accepts is a statement in the sense of `IsParsed`, which is what
the theorems on sessions assume. The session: `Inv` holds
for the shell's statements, since each of its steps is a step of `Sessions` or leaves
the session alone. It does not say that a bound statement succeeds: that needs that
nothing ran between the binding and the execution. `OneStatement` says so: while the
mode is "executing", binding what the parser makes of the buffer, to the current
database as it is now, would give the bound statement. What was just bound runs
(`JustBoundRuns`), without the assertion that `Execute` may break otherwise.

`ContinuesOnlyIncomplete` needs two facts that are far apart. The shell counts
characters, in a text without quotes and comments; the parser sees tokens. The
parentheses among the characters are the parentheses among the tokens, and the last
character that is no blank ends the last token (`PlainTokens`, which follows the
scanner from the end of the text to its beginning). And a statement
the parser accepts has as many right as left parentheses and does not end in a comma or
a parenthesis that opens: each function of the parser consumes a balanced piece of the
tokens. `Waits` carries the shell's test, made when a line is
read, to the states in which it still waits.

`JoiningKeepsTokens` says that the blank with which the shell joins lines keeps their
tokens apart and whole. `JoinKeepsTokens` is not inductive: it says nothing while there is one
line, and nothing of a join whose last line has a comment. `LinesJoined` is: it speaks of any number
of lines, also of none, says that the buffer has no token of kind Invalid, and no comment that is not on a line.
Its step is a fact about the scanner: if a text stands inside a longer one, and behind it there is
nothing or a blank, then its tokens are found in the longer one, at their places there (`TokenEmbeds`, and
`PrefixLexemes` for all the tokens in a row). A token of the shorter text that is not Invalid ends
at a character that would end it in the longer one too, or with the text, where the
blank ends it. The two exceptions are those of the property: an open literal goes
on behind the blank, and a comment swallows the next line.

### Model-checked only

* `CallsReturn`, `RunReturns`: liveness.

## 6. Not modelled, and the plan

Left out of the models: error messages beyond their kind, reservation of
memory, formatting and printing (also `token_kind_name`), `std::bad_alloc`;
ordering of texts, which the language does not have. The `DatabaseEngine` facade
forwards to `Catalog`'s operations. A column's name and ordinal agree because
`table_schema_from_ast` numbers them; tables made by hand with other ordinals
are not considered.

The parser pulls tokens one at a time while `Parser` has them all: the scanner
never looks at the parser, so the sequence is the same. The depth of its
recursion, and with it of `bind_expression`, is the depth of parentheses in the input;
nothing in the code bounds it and the models have no stack.
