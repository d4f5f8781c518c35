------------------------------ MODULE Frontend ------------------------------
(***************************************************************************)
(* One text on its way through the scanner and the parser:                 *)
(* src/src/frontend/{lexer,parser}.cpp.  A step is one call of Lexer::next *)
(* or the call of Parser::parse_statement.  In the program the latter      *)
(* makes the former, one token ahead, and stops at the first error; the    *)
(* scanner does not depend on the parser, so the tokens are the same.      *)
(***************************************************************************)
EXTENDS Scanning, Grammar

VARIABLE outcome        \* of the parser

frontendVars == <<scanVars, outcome>>

Pending == [status |-> "Pending"]

(* The tree, or the place of the current token.                            *)
Outcome(ts) ==
    LET result == ParseStatement(ts)
    IN  IF result.ok THEN [status |-> "Ok", tree |-> result.tree]
        ELSE [status |-> "Error", line |-> ts[result.at].line, column |-> ts[result.at].column]

FrontendInit == ScanInit /\ outcome = Pending

ParseTokens ==
    /\ IsScanned /\ outcome = Pending
    /\ outcome' = Outcome(tokens)
    /\ UNCHANGED scanVars

FrontendNext == (Scan /\ UNCHANGED outcome) \/ ParseTokens

FrontendSpec == FrontendInit /\ [][FrontendNext]_frontendVars

-----------------------------------------------------------------------------
(* The parser accepts exactly the sentences of the grammar, and its tree   *)
(* is the only one the grammar gives: AND binds closer than OR, both to    *)
(* the left, comparisons do not chain, an integer of more than 64 bits is  *)
(* none, and a statement ends with its ';' or with the text                *)
(* (parser.cpp:65-519).                                                    *)
ParsesToGrammar ==
    outcome # Pending =>
        Trees(tokens) = IF outcome.status = "Ok" THEN {outcome.tree} ELSE {}

(* An error is reported at the first token that makes the text no          *)
(* beginning of a statement: what stands before it can be completed, and   *)
(* with it nothing can (parser.cpp:43-49, and every call of make_error).   *)
ErrorsPointAtCulprit ==
    outcome.status \notin {"Pending", "Ok"} =>
        \E at \in 1 .. Len(tokens) :
            /\ tokens[at].line = outcome.line /\ tokens[at].column = outcome.column
            /\ CanBeCompleted(SubSeq(tokens, 1, at - 1))
            /\ at < Len(tokens) => ~CanBeCompleted(SubSeq(tokens, 1, at))

=============================================================================
