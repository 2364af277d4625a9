------------------------------- MODULE Parser -------------------------------
(***************************************************************************)
(* The parser at work on a file (lex_file in lexer.c): it reads one        *)
(* statement after the other, with all the blocks it has, until the end of *)
(* the file or the first error, at which the compiler exits.  The file is  *)
(* any of a set of programs, plain or spread out over more lines.          *)
(***************************************************************************)
EXTENDS ParseStatements

CONSTANT Programs

Text == INSTANCE SourceText

VARIABLES
  program,     \* the program in the file
  spread,      \* how it is laid out
  parser,      \* the parser with its scanner, queue and stacks
  statements,  \* lexer.statements
  status       \* "parsing", "accepted", "refused"

vars == <<program, spread, parser, statements, status>>

Init ==
  /\ program \in Programs
  /\ spread \in BOOLEAN
  /\ parser = NewParser(Text!Written(program, spread), NewScope("top", NoName))
  /\ statements = <<>>
  /\ status = "parsing"

AtEnd(stmt) == "eof" \in DOMAIN stmt

ReadStatement ==
  /\ status = "parsing"
  /\ parser' = parse_statement(parser)
  /\ ~parser'.refused /\ ~AtEnd(parser'.out)
  /\ statements' = Append(statements, parser'.out)
  /\ UNCHANGED <<program, spread, status>>

ReachEnd ==
  /\ status = "parsing"
  /\ parser' = parse_statement(parser)
  /\ ~parser'.refused /\ AtEnd(parser'.out)
  /\ statements' = Append(statements, parser'.out)
  /\ status' = "accepted"
  /\ UNCHANGED <<program, spread>>

StopAtError ==
  /\ status = "parsing"
  /\ parser' = parse_statement(parser)
  /\ parser'.refused
  /\ status' = "refused"
  /\ UNCHANGED <<program, spread, statements>>

Next == ReadStatement \/ ReachEnd \/ StopAtError

Spec == Init /\ [][Next]_vars

-----------------------------------------------------------------------------
(* Properties.                                                             *)

(* The stacks of the parser stay within their arrays and the columns of    *)
(* open blocks increase (indent_check, scope_stack_push).                  *)
TypeOK ==
  /\ status \in {"parsing", "accepted", "refused"}
  /\ Len(parser.indents) <= IndentationMax
  /\ Len(parser.scopes) \in 1..ScopeStackMax
  /\ \A i, j \in DOMAIN parser.indents :
       i < j => parser.indents[i] < parser.indents[j]

(* What an accepted file is parsed to is the program that was written, for *)
(* every statement and expression and for either layout: no token is lost, *)
(* taken twice or read as part of another statement, defaults go to the    *)
(* last parameters, and every function and class holds the names it binds  *)
(* (parse_statement, parse_expression, scan_token, symbol_hm_put).         *)
ParsesBack ==
  status = "accepted" /\ ~Text!Delicate(program) =>
    statements = Append(Text!FileParsed(program, spread), [col |-> 1, eof |-> NoBlock])

(* A file is accepted exactly if the language allows its program: blocks   *)
(* are aligned and not too deep, break and continue are in loops, classes  *)
(* are at the top level, what has no default comes first, classes are      *)
(* known where types name them, methods fit the operators they serve.      *)
AcceptsLegal ==
  status # "parsing" /\ ~Text!Delicate(program) =>
    (status = "accepted") = Text!Legal(program, IndentationMax)

InOrder(scope) == scope.table.elements

(* The top level of an accepted file holds the names the program binds,    *)
(* first occurrence first, whatever functions and classes stand between.   *)
NamesBound ==
  status = "accepted" /\ ~Text!Delicate(program) =>
    InOrder(parser.scopes[1]) = Text!FileBindings(program)

(* However names collide and however often a table has grown, looking up a *)
(* name in a scope finds the symbol it was first bound to, and a name that *)
(* is not bound there is not found; no name is entered twice, and a probe  *)
(* always ends, at an unused slot (hm_lookup_insert, symbol_hm_get).       *)
NamesFound ==
  \A scope \in Range(parser.scopes) :
    FindsItsSymbols(scope.table) /\ symbol_hm_get(scope.table, NoName) = NoSymbol

(* The parser never looks further ahead than two tokens: with a third one  *)
(* waiting peek_forward_n_tokens would scan without end.                   *)
LooksTwoAhead == parser.longest <= 2

(* Between two statements of the file nothing is left open: no bracket,    *)
(* scope, loop, class, rule or assert source.                              *)
NothingLeftOpen ==
  status = "parsing" =>
    /\ \A b \in Brackets : parser.open[b] = 0
    /\ Len(parser.scopes) = 1 /\ parser.scopes[1].kind = "top"
    /\ ~parser.in_loop /\ parser.rule = NoRule
    /\ parser.members = <<>>
    /\ ~parser.asserting /\ parser.asserted = <<>>
=============================================================================
