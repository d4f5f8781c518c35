------------------------------- MODULE Shell -------------------------------
(***************************************************************************)
(* The interactive shell, src/src/repl/repl.{hpp,cpp} and src/src/main.cpp:*)
(* one session, the loop that reads lines, and the way of a statement      *)
(* through the parser, the binder and the executor.                        *)
(*                                                                         *)
(* A line is any of Lines, or the input ends.  A step is one line, or one  *)
(* of the three calls of process_sql.  Output is left out; answer, of      *)
(* module Sessions, is how the last call or line ended.                    *)
(***************************************************************************)
EXTENDS Sessions, Parser

CONSTANTS
    repl,           \* the session of the shell
    Lines,
    MaxLines        \* bound: the lines that are ever typed

ASSUME ReplAssumption == Sessions = {repl}
ASSUME MaxLinesAssumption == MaxLines \in Nat
ASSUME LinesAssumption == Lines \subseteq Seq(STRING)
ASSUME ClosedIsNoName == Closed \notin Seq(STRING)

VARIABLES
    mode,           \* where the thread is
    interactive,    \* Repl::run has been called
    buffer,         \* the statement so far
    typed,          \* history: the lines it consists of
    unread          \* the lines that may still be typed

shellVars == <<vars, mode, interactive, buffer, typed, unread>>

Modes == {"closed", "idle", "reading", "continuing", "parsing", "binding", "executing", "ended"}

-----------------------------------------------------------------------------
(* Commands.                                                               *)
ExitCommands   == {<<".", "quit">>, <<".", "exit">>}
HelpCommand    == <<".", "help">>
ConnectCommand == <<".", "connect", " ">>

ConnectTarget(line) == SubSeq(line, Len(ConnectCommand) + 1, Len(line))

(* Whether a statement goes on in the next line.                           *)
WithoutTrailingSpace(sql) ==
    SubSeq(sql, 1, Max({i \in 1 .. Len(sql) : sql[i] \notin Whitespace} \cup {0}))
LastOf(sql) ==
    LET kept == WithoutTrailingSpace(sql) IN IF kept = << >> THEN NUL ELSE Last(kept)

EndsWithSemicolon(sql) == LastOf(sql) = ";"

ParenthesisBalance(sql) ==
    Cardinality({i \in 1 .. Len(sql) : sql[i] = "("})
        - Cardinality({i \in 1 .. Len(sql) : sql[i] = ")"})

NeedsContinuationMutant(sql) ==             \* nothing but a semicolon ends a statement
    ~EndsWithSemicolon(sql)
NeedsContinuation(sql) ==
    /\ ~EndsWithSemicolon(sql)
    /\ ParenthesisBalance(sql) > 0 \/ LastOf(sql) \in {"(", ","}

JoinMutant(sql, line) == sql \o line        \* no blank in between
Join(sql, line) == IF sql = << >> THEN line ELSE sql \o <<" ">> \o line

-----------------------------------------------------------------------------
ShellInit ==
    /\ Init
    /\ mode = "closed" /\ interactive = FALSE
    /\ buffer = << >> /\ typed = << >> /\ unread = MaxLines

Resting == IF interactive THEN "reading" ELSE "idle"

(* A statement or a command is over: the loop, or process_line, returns.   *)
Return == mode' = Resting /\ buffer' = << >> /\ typed' = << >>

Begin(line, next) == buffer' = line /\ typed' = <<line>> /\ mode' = next

TakeLine == unread > 0 /\ unread' = unread - 1

Start(name) ==
    /\ mode = "closed"
    /\ OpenSession(repl, name)
    /\ mode' = "idle"
    /\ UNCHANGED <<interactive, buffer, typed, unread>>

Run ==
    /\ mode = "idle"
    /\ mode' = "reading" /\ interactive' = TRUE
    /\ UNCHANGED <<vars, buffer, typed, unread>>

(* What is no SQL, in process_line and in run alike.                       *)
IsCommand(line) == line = HelpCommand \/ IsPrefix(ConnectCommand, line)
DoCommand(line) ==
    /\ IF line = HelpCommand THEN UNCHANGED vars
       ELSE IF ConnectTarget(line) = << >>
       THEN Say("database name required") /\ UNCHANGED <<cluster, current, bound, running>>
       ELSE Connect(repl, ConnectTarget(line))
    /\ Return

(* Repl::process_line, called by a program: a line is a whole statement.   *)
ProcessLine(line) ==
    /\ mode = "idle" /\ TakeLine
    /\ \/ line = << >> /\ Return /\ UNCHANGED vars
       \/ IsCommand(line) /\ DoCommand(line)
       \/ line # << >> /\ ~IsCommand(line) /\ Begin(line, "parsing") /\ UNCHANGED vars
    /\ UNCHANGED interactive

ReadLine(line) ==
    /\ mode = "reading" /\ TakeLine
    /\ \/ line \in ExitCommands /\ Begin(<< >>, "ended") /\ UNCHANGED vars
       \/ line = << >> /\ Return /\ UNCHANGED vars
       \/ IsCommand(line) /\ DoCommand(line)
       \/ /\ line \notin ExitCommands \cup {<< >>} /\ ~IsCommand(line)
          /\ Begin(line, IF NeedsContinuation(line) THEN "continuing" ELSE "parsing")
          /\ UNCHANGED vars
    /\ UNCHANGED interactive

(* A line is appended whatever it is, also a command or an empty one.      *)
ReadMore(line) ==
    /\ mode = "continuing" /\ TakeLine
    /\ LET sql == Join(buffer, line)
       IN  \/ /\ NeedsContinuation(sql) \/ EndsWithSemicolon(sql)
              /\ mode' = IF NeedsContinuation(sql) THEN "continuing" ELSE "parsing"
              /\ buffer' = sql /\ typed' = Append(typed, line)
              /\ UNCHANGED vars
           \/ /\ ~NeedsContinuation(sql) /\ ~EndsWithSemicolon(sql)
              /\ Say("expected ';' to complete multi-line statement") /\ Return
              /\ UNCHANGED <<cluster, current, bound, running>>
    /\ UNCHANGED interactive

(* What has been typed of a statement is dropped.                          *)
EndOfInputMutant ==                         \* read_sql_buffer keeps on reading
    /\ mode = "reading"
    /\ Begin(<< >>, "ended") /\ UNCHANGED <<vars, interactive, unread>>
EndOfInput ==
    /\ mode \in {"reading", "continuing"}
    /\ Begin(<< >>, "ended") /\ UNCHANGED <<vars, interactive, unread>>

-----------------------------------------------------------------------------
(* process_sql.                                                            *)
Parse ==
    /\ mode = "parsing"
    /\ IF ParseStatement(Tokens(buffer)).ok
       THEN mode' = "binding" /\ UNCHANGED <<vars, buffer, typed>>
       ELSE Say("parse error") /\ Return /\ UNCHANGED <<cluster, current, bound, running>>
    /\ UNCHANGED <<interactive, unread>>

BindParsed ==
    /\ mode = "binding"
    /\ Bind(repl, ParseStatement(Tokens(buffer)).tree)
    /\ IF bound'[repl] = NoStatement THEN Return
       ELSE mode' = "executing" /\ UNCHANGED <<buffer, typed>>
    /\ UNCHANGED <<interactive, unread>>

ExecuteBound ==
    /\ mode = "executing"
    /\ Execute(repl)
    /\ IF running' THEN Return ELSE Begin(<< >>, "ended")
    /\ UNCHANGED <<interactive, unread>>

ShellNext ==
    \/ \E name \in DatabaseNames : Start(name)
    \/ Run
    \/ \E line \in Lines : ProcessLine(line) \/ ReadLine(line) \/ ReadMore(line)
    \/ EndOfInput
    \/ Parse \/ BindParsed \/ ExecuteBound

(* The thread goes on with a statement it has begun, which is all that can *)
(* happen then and changes the mode; and the input ends, be it only after  *)
(* MaxLines lines.                                                         *)
IsBusy   == mode \in {"parsing", "binding", "executing"}
Fairness == WF_mode(IsBusy /\ mode' \in Modes) /\ WF_shellVars(EndOfInput)

ShellSpec == ShellInit /\ [][ShellNext]_shellVars /\ Fairness

-----------------------------------------------------------------------------
(* The shell executes a statement right after it has bound it, so no       *)
(* statement finds a catalog other than the one it was bound against: a    *)
(* build with assertions never aborts (repl.cpp:132-155).                  *)
NeverAborts == running

(* A statement that is executed is the one that was typed, and its answer  *)
(* is never an error: what the binder lets through, the executor carries   *)
(* out, but for a table of two columns with one name (binder.cpp:35-53).   *)
(* The parser delivers what Sessions assumes of a statement.               *)
BoundStatementsRun ==
    mode = "executing" =>
        /\ ExecuteStatement(current[repl], bound[repl].statement).status
              \in {"Ok", "duplicate column name"}
        /\ bound[repl].parsed = ParseStatement(Tokens(buffer)).tree
        /\ IsParsed(bound[repl].parsed)

(* A statement is bound when it has been parsed, and only while it is      *)
(* executed the session keeps a bound one: what binding the text of the    *)
(* buffer to the current database gives now.  With the invariant of        *)
(* Sessions every step preserves this (repl.cpp:132-155).                  *)
Sent == ParseStatement(Tokens(buffer))
ShellTyped ==
    /\ mode \in Modes /\ IsSequence(buffer) /\ IsSequence(typed)
    /\ \A n \in 1 .. Len(typed) : IsSequence(typed[n])
OneStatement ==
    /\ mode \in {"binding", "executing"} => Sent.ok
    /\ bound[repl] # NoStatement <=> mode = "executing"
    /\ mode = "executing" =>
          /\ bound[repl].database = current[repl] /\ bound[repl].parsed = Sent.tree
          /\ BindStatement(current[repl], bound[repl].parsed) = Accepted(bound[repl].statement)
StatementInv == Inv /\ running /\ ShellTyped /\ OneStatement

(* Joining the lines keeps their tokens, if no line but the last has a     *)
(* comment and no string goes over the end of a line: the parser sees      *)
(* what it would see of the lines as they were typed (repl.cpp:178-181).   *)
HasComment(line) == \E i \in 1 .. Len(line) - 1 : line[i] = "-" /\ line[i + 1] = "-"
Lexemes(line) ==
    LET ts == Front(Tokens(line))
    IN  [i \in 1 .. Len(ts) |-> [kind |-> ts[i].kind, lexeme |-> ts[i].lexeme]]
IsClosed(line) == \A token \in ToSet(Tokens(line)) : token.kind # "Invalid"
TypedLexemes(lines) == FlattenSeq([n \in 1 .. Len(lines) |-> Lexemes(lines[n])])
JoinKeepsTokens ==
    (/\ Len(typed) > 1
     /\ \A n \in 1 .. Len(typed) : IsClosed(typed[n])
     /\ \A n \in 1 .. Len(typed) - 1 : ~HasComment(typed[n])) =>
        Lexemes(buffer) = TypedLexemes(typed)

(* The shell asks for another line only if the statement is not complete   *)
(* yet, as long as there are no strings and comments to mislead it         *)
(* (repl.cpp:40-68).                                                       *)
IsPlain(sql) == ~HasComment(sql) /\ \A i \in 1 .. Len(sql) : sql[i] # Quote
ContinuesOnlyIncomplete ==
    mode = "continuing" /\ IsPlain(buffer) => ~ParseStatement(Tokens(buffer)).ok

(* The buffer goes on only where the test said so; it holds the lexemes of *)
(* the lines if they can be joined, and no comment that none of them has:  *)
(* this holds from line to line (repl.cpp:162-187).                        *)
Waits == mode = "continuing" => NeedsContinuation(buffer)
LinesJoined ==
    /\ (/\ \A n \in 1 .. Len(typed) : IsClosed(typed[n])
        /\ \A n \in 1 .. Len(typed) - 1 : ~HasComment(typed[n])) =>
           IsClosed(buffer) /\ Lexemes(buffer) = TypedLexemes(typed)
    /\ HasComment(buffer) => \E n \in 1 .. Len(typed) : HasComment(typed[n])

(* What every step of the shell preserves.                                 *)
ShellInv == StatementInv /\ Waits /\ LinesJoined

(* What the help says: "Semicolons are optional on single line             *)
(* statements." (repl.cpp:81), so that a line which is a statement is      *)
(* taken as one.                                                           *)
SemicolonsOptional ==
    mode = "continuing" /\ Len(typed) = 1 => ~ParseStatement(Tokens(buffer)).ok

(* Repl::run returns, at the latest when the input ends, also inside a     *)
(* statement (repl.cpp:172-176, 226-230, 247-249).                         *)
RunReturns == interactive ~> mode = "ended"

=============================================================================
