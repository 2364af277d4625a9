----------------------------- MODULE SourceText -----------------------------
(***************************************************************************)
(* What a program is before it is text: blocks of statements, as the       *)
(* grammar of the language has them.  Written says how a program is put    *)
(* down as lexemes, Parsed what a parser should make of it, Bindings which *)
(* names it binds, Legal whether the language allows it, and Delicate      *)
(* names the programs this parser is known to treat in a way of its own.   *)
(* Nothing here is taken from the parser: this is what it is held against. *)
(*                                                                         *)
(* A program is a block of statements as ParseStatements has them, except  *)
(* that parameters carry their defaults, that global is a statement, and   *)
(* that what the parser finds out by itself is not there.                  *)
(***************************************************************************)
EXTENDS Naturals, Sequences, FiniteSets
LOCAL INSTANCE SequencesExt

Kind(stmt) == CHOOSE k \in DOMAIN stmt : k # "col"
Does(stmt, kind) == kind \in DOMAIN stmt

\* f of every element, one after the other
Mapped(f(_), seq) == FlattenSeq([i \in DOMAIN seq |-> f(seq[i])])

(* The blocks of a statement, in the order in which they are written.      *)
Blocks(s) ==
  CASE Does(s, "for_loop") -> <<s.for_loop.body>>
    [] Does(s, "while_loop") -> <<s.while_loop.body>>
    [] Does(s, "with") -> <<s.with.body>>
    [] Does(s, "func") -> <<s.func.body>>
    [] Does(s, "cls") -> <<s.cls.body>>
    [] Does(s, "conditional") ->
         <<s.conditional.body>>
           \o [i \in DOMAIN s.conditional.elifs |-> s.conditional.elifs[i].body]
           \o <<s.conditional.else_body>>
    [] Does(s, "try_stmt") ->
         <<s.try_stmt.try_body>>
           \o [i \in DOMAIN s.try_stmt.excepts |-> s.try_stmt.excepts[i].body]
           \o <<s.try_stmt.else_body, s.try_stmt.finally_body>>
    [] OTHER -> <<>>

(* All statements of a block and of the blocks in it.                      *)
RECURSIVE Within(_)
Within(block) ==
  LET of(s) == <<s>> \o Mapped(Within, Blocks(s)) IN Mapped(of, block)

All(block, Test(_)) ==
  LET all == Within(block) IN \A i \in DOMAIN all : Test(all[i])
Some(block, Test(_)) ==
  LET all == Within(block) IN \E i \in DOMAIN all : Test(all[i])

IsLoop(s) == Does(s, "for_loop") \/ Does(s, "while_loop")
IsBreak(s) == Does(s, "break") \/ Does(s, "continue")

-----------------------------------------------------------------------------
(* Expressions as tokens, pairs of a type and a value.                     *)

Word(w) == <<"keyword", w>>
Name(n) == <<"identifier", n>>
Mark(type) == <<type, "">>
Op(o) == <<"operator", o>>

OpWritten(op) ==
  CASE op = "negative" -> <<Op("-")>>
    [] op = "getattr" -> <<Mark("dot")>>
    [] op \in {"call", "getitem"} -> <<>>
    [] op \in {"and", "or", "not", "in", "is", "if", "else"} -> <<Word(op)>>
    [] OTHER -> <<Op(op)>>

RECURSIVE ItWritten(_)
ItWritten(its) ==
  LET one(i) == (IF i = 1 THEN <<>> ELSE <<Mark("comma")>>)
        \o (IF "name" \in DOMAIN its[i] THEN <<Name(its[i].name)>>
            ELSE <<Mark("(")>> \o ItWritten(its[i].group) \o <<Mark(")")>>)
  IN FlattenSeq([i \in DOMAIN its |-> one(i)])

RECURSIVE ExprWritten(_)

Listed(exprs) ==
  FlattenSeq([i \in DOMAIN exprs |->
    (IF i = 1 THEN <<>> ELSE <<Mark("comma")>>) \o ExprWritten(exprs[i])])

PairsWritten(exprs) ==
  FlattenSeq([i \in DOMAIN exprs |->
    (IF i = 1 THEN <<>>
     ELSE IF i % 2 = 1 THEN <<Mark("comma")>> ELSE <<Mark("colon")>>)
      \o ExprWritten(exprs[i])])

ComprehensionWritten(c) ==
  LET loop(l) == <<Word("for")>> \o ItWritten(l.it) \o <<Word("in")>>
                   \o ExprWritten(l.iterable)
      brackets == CASE c.kind = "dict" -> <<"{", "}">> [] c.kind = "list" -> <<"[", "]">>
                    [] OTHER -> <<"(", ")">>
  IN <<Mark(brackets[1])>> \o PairsWritten(c.of) \o Mapped(loop, c.loops)
       \o (IF c.if_expr = <<>> THEN <<>> ELSE <<Word("if")>> \o ExprWritten(c.if_expr))
       \o <<Mark(brackets[2])>>

ArgsWritten(a) ==
  FlattenSeq([i \in DOMAIN a.values |->
    (IF i = 1 THEN <<>> ELSE <<Mark("comma")>>)
      \o (IF i <= a.n_positional THEN <<>>
          ELSE <<Name(a.kwds[i - a.n_positional]), Op("=")>>)
      \o ExprWritten(a.values[i])])

SliceWritten(s) ==
  ExprWritten(s[1]) \o <<Mark("colon")>> \o ExprWritten(s[2])
    \o (IF s[3] = <<>> THEN <<>> ELSE <<Mark("colon")>> \o ExprWritten(s[3]))

OperandWritten(x) ==
  CASE "name" \in DOMAIN x -> <<Name(x.name)>>
    [] "literal" \in DOMAIN x -> <<<<"number", x.literal>>>>
    [] "constant" \in DOMAIN x -> <<Word(x.constant)>>
    [] "expr" \in DOMAIN x -> <<Mark("(")>> \o ExprWritten(x.expr) \o <<Mark(")")>>
    [] "list" \in DOMAIN x -> <<Mark("[")>> \o Listed(x.list) \o <<Mark("]")>>
    [] "tuple" \in DOMAIN x -> <<Mark("(")>> \o Listed(x.tuple)
         \o (IF Len(x.tuple) = 1 THEN <<Mark("comma")>> ELSE <<>>) \o <<Mark(")")>>
    [] "dict" \in DOMAIN x -> <<Mark("{")>> \o PairsWritten(x.dict) \o <<Mark("}")>>
    [] "comprehension" \in DOMAIN x -> ComprehensionWritten(x.comprehension)

(* The operand behind an operator that has its own brackets, or none.      *)
OperandAfter(op, x) ==
  CASE op = "call" -> <<Mark("(")>> \o ArgsWritten(x.args) \o <<Mark(")")>>
    [] op = "getitem" -> <<Mark("[")>>
         \o (IF "slice" \in DOMAIN x THEN SliceWritten(x.slice)
             ELSE ExprWritten(x.expr)) \o <<Mark("]")>>
    [] op \in {"if", "else"} -> ExprWritten(x.expr)
    [] OTHER -> OperandWritten(x)

ItemOp(e, i) == IF i > 0 /\ "op" \in DOMAIN e[i] THEN e[i].op ELSE "none"

ExprWritten(e) ==
  FlattenSeq([i \in DOMAIN e |->
    IF ItemOp(e, i) # "none" THEN OpWritten(e[i].op)
    ELSE OperandAfter(ItemOp(e, i - 1), e[i])])

RECURSIVE TypeWritten(_)
TypeWritten(t) ==
  LET listed(ts) == FlattenSeq([i \in DOMAIN ts |->
        (IF i = 1 THEN <<>> ELSE <<Mark("comma")>>) \o TypeWritten(ts[i])])
  IN CASE t.type = "object" -> <<Name(t.cls)>>
       [] t.type = "Function" ->
            <<Name("Function"), Mark("["), Mark("[")>> \o listed(Front(t.inner))
              \o <<Mark("]"), Mark("comma")>> \o TypeWritten(Last(t.inner))
              \o <<Mark("]")>>
       [] t.inner # <<>> ->
            <<Name(t.type), Mark("[")>> \o listed(t.inner) \o <<Mark("]")>>
       [] OTHER -> <<Name(t.type)>>

-----------------------------------------------------------------------------
(* Statements as lines, each a column and its tokens.                      *)

Line(col, tokens) == <<[col |-> col, tokens |-> tokens]>>
Head_(col, tokens) == Line(col, tokens \o <<Mark("colon")>>)

DottedWritten(path) ==
  FlattenSeq([i \in DOMAIN path |->
    (IF i = 1 THEN <<>> ELSE <<Mark("dot")>>) \o <<Name(path[i])>>])
AsWritten(name) == IF name = "" THEN <<>> ELSE <<Word("as"), Name(name)>>

NamesWritten(names) ==
  IF Len(names) = 1 THEN <<Name(names[1])>>
  ELSE <<Mark("(")>> \o FlattenSeq([i \in DOMAIN names |->
         (IF i = 1 THEN <<>> ELSE <<Mark("comma")>>) \o <<Name(names[i])>>])
         \o <<Mark(")")>>

ImportsWritten(names) ==
  LET listed == FlattenSeq([i \in DOMAIN names |->
        (IF i = 1 THEN <<>> ELSE <<Mark("comma")>>)
          \o <<Name(names[i].what)>> \o AsWritten(names[i].as)])
  IN IF Len(names) = 1 THEN listed ELSE <<Mark("(")>> \o listed \o <<Mark(")")>>

SignatureWritten(f) ==
  LET self == IF f.is_method THEN <<Name("self")>> ELSE <<>>
      param(i) == (IF i = 1 /\ ~f.is_method THEN <<>> ELSE <<Mark("comma")>>)
        \o <<Name(f.params[i].name), Mark("colon")>> \o TypeWritten(f.params[i].type)
        \o (IF f.params[i].default = <<>> THEN <<>>
            ELSE <<Op("=")>> \o ExprWritten(f.params[i].default))
  IN <<Word("def"), Name(f.name), Mark("(")>> \o self
       \o FlattenSeq([i \in DOMAIN f.params |-> param(i)]) \o <<Mark(")")>>
       \o (IF f.returns.type = "None" THEN <<>>
           ELSE <<Mark("arrow")>> \o TypeWritten(f.returns))

RECURSIVE BlockWritten(_)

IfWritten(col, c) ==
  LET elif(e) == Head_(col, <<Word("elif")>> \o ExprWritten(e.condition))
                   \o BlockWritten(e.body)
  IN Head_(col, <<Word("if")>> \o ExprWritten(c.condition)) \o BlockWritten(c.body)
       \o Mapped(elif, c.elifs)
       \o (IF c.else_body = <<>> THEN <<>>
           ELSE Head_(col, <<Word("else")>>) \o BlockWritten(c.else_body))

TryWritten(col, t) ==
  LET except(e) == Head_(col, <<Word("except")>> \o NamesWritten(e.exceptions)
                                \o AsWritten(e.as)) \o BlockWritten(e.body)
      part(word, body) ==
        IF body = <<>> THEN <<>> ELSE Head_(col, <<Word(word)>>) \o BlockWritten(body)
  IN part("try", t.try_body) \o Mapped(except, t.excepts)
       \o part("else", t.else_body) \o part("finally", t.finally_body)

StmtWritten(s) ==
  CASE Does(s, "expr") -> Line(s.col, ExprWritten(s.expr))
    [] Does(s, "assignment") -> Line(s.col, ExprWritten(s.assignment.storage)
         \o <<Op(s.assignment.op_type)>> \o ExprWritten(s.assignment.value))
    [] Does(s, "annotation") -> Line(s.col, <<Name(s.annotation.name), Mark("colon")>>
         \o TypeWritten(s.annotation.type)
         \o (IF s.annotation.initial = <<>> THEN <<>>
             ELSE <<Op("=")>> \o ExprWritten(s.annotation.initial)))
    [] Does(s, "no_op") -> Line(s.col, <<Word("pass")>>)
    [] IsBreak(s) -> Line(s.col, <<Word(Kind(s))>>)
    [] Does(s, "return_expr") ->
         Line(s.col, <<Word("return")>> \o ExprWritten(s.return_expr))
    [] Does(s, "assert") -> Line(s.col, <<Word("assert")>> \o ExprWritten(s.assert))
    [] Does(s, "global") -> Line(s.col, <<Word("global"), Name(s.global)>>)
    [] Does(s, "import") -> Line(s.col, <<Word("import")>>
         \o DottedWritten(s.import.path) \o AsWritten(s.import.as))
    [] Does(s, "import_from") -> Line(s.col, <<Word("from")>>
         \o DottedWritten(s.import_from.path) \o <<Word("import")>>
         \o ImportsWritten(s.import_from.names))
    [] Does(s, "for_loop") -> Head_(s.col, <<Word("for")>> \o ItWritten(s.for_loop.it)
         \o <<Word("in")>> \o ExprWritten(s.for_loop.iterable))
         \o BlockWritten(s.for_loop.body)
    [] Does(s, "while_loop") -> Head_(s.col, <<Word("while")>>
         \o ExprWritten(s.while_loop.condition)) \o BlockWritten(s.while_loop.body)
    [] Does(s, "with") -> Head_(s.col, <<Word("with")>>
         \o ExprWritten(s.with.ctx_manager) \o AsWritten(s.with.as))
         \o BlockWritten(s.with.body)
    [] Does(s, "conditional") -> IfWritten(s.col, s.conditional)
    [] Does(s, "try_stmt") -> TryWritten(s.col, s.try_stmt)
    [] Does(s, "func") ->
         (IF s.func.decorator = <<>> THEN <<>>
          ELSE Line(s.col, <<Mark("decorator")>> \o ExprWritten(s.func.decorator)))
           \o Head_(s.col, SignatureWritten(s.func)) \o BlockWritten(s.func.body)
    [] Does(s, "cls") ->
         Head_(s.col, <<Word("class"), Name(s.cls.name)>>
           \o (IF s.cls.base = "" THEN <<>>
               ELSE <<Mark("("), Name(s.cls.base), Mark(")")>>))
           \o BlockWritten(s.cls.body)

BlockWritten(block) == Mapped(StmtWritten, block)

(* The lexemes of a line.  Spread out, a comment and a newline follow      *)
(* every bracket that opens, and an empty line and a comment every line.   *)
Beyond == 99   \* the column of everything but the first token of a line

Lexeme(type, value, col) == [type |-> type, value |-> value, col |-> col]

LexemesOf(col, tokens, spread) ==
  FlattenSeq([i \in DOMAIN tokens |->
    <<Lexeme(tokens[i][1], tokens[i][2], IF i = 1 THEN col ELSE Beyond)>>
      \o (IF spread /\ tokens[i][1] \in {"(", "[", "{"}
            THEN <<Lexeme("comment", "", Beyond), Lexeme("newline", "", Beyond)>>
            ELSE <<>>)])

Written(program, spread) ==
  LET line(l) == LexemesOf(l.col, l.tokens, spread)
        \o <<Lexeme("newline", "", Beyond)>>
        \o (IF spread THEN <<Lexeme("newline", "", 1), Lexeme("comment", "", 2),
                             Lexeme("newline", "", 2)>> ELSE <<>>)
  IN Mapped(line, BlockWritten(program))

-----------------------------------------------------------------------------
(* The names a program binds, in the order in which it binds them, and     *)
(* what it binds them to.                                                  *)

Binding(name, kind) == <<[name |-> name, kind |-> kind]>>

RECURSIVE ItBindings(_)
ItBindings(its) ==
  FlattenSeq([i \in DOMAIN its |->
    IF "name" \in DOMAIN its[i] THEN Binding(its[i].name, "semi scoped")
    ELSE ItBindings(its[i].group)])

(* Comprehensions bind the names between their for and in.                 *)
ExprBindings(e) ==
  LET tokens == ExprWritten(e)
      bound(i) == /\ tokens[i][1] = "identifier"
                  /\ \E j \in 1..(i - 1) :
                       /\ tokens[j] = Word("for")
                       /\ \A k \in j..i : tokens[k] # Word("in")
  IN FlattenSeq([i \in DOMAIN tokens |->
       IF bound(i) THEN Binding(tokens[i][2], "semi scoped") ELSE <<>>])

RECURSIVE Bindings(_)
StmtBindings(s) ==
  CASE Does(s, "expr") -> ExprBindings(s.expr)
    [] Does(s, "assignment") -> ExprBindings(s.assignment.value)
         \o (IF s.assignment.op_type = "=" /\ Len(s.assignment.storage) = 1
               THEN Binding(s.assignment.storage[1].name, "regular") ELSE <<>>)
    [] Does(s, "annotation") -> ExprBindings(s.annotation.initial)
         \o Binding(s.annotation.name, "regular")
    [] Does(s, "global") -> Binding(s.global, "global")
    [] Does(s, "for_loop") -> ItBindings(s.for_loop.it) \o Bindings(s.for_loop.body)
    [] Does(s, "func") -> Binding(s.func.name, "function")
    [] Does(s, "cls") -> Binding(s.cls.name, "class")
    [] Does(s, "try_stmt") ->
         LET except(e) == (IF e.as = "" THEN <<>> ELSE Binding(e.as, "semi scoped"))
                            \o Bindings(e.body)
         IN Bindings(s.try_stmt.try_body) \o Mapped(except, s.try_stmt.excepts)
              \o Bindings(s.try_stmt.else_body) \o Bindings(s.try_stmt.finally_body)
    [] OTHER -> Mapped(Bindings, Blocks(s))

Bindings(block) == Mapped(StmtBindings, block)

(* The methods of the language, as far as the programs have any, each with *)
(* the operands it is given beside self and what it must answer.           *)
SpecialMethods ==
  [__init__ |-> [operands |-> {0, 1, 2}, answers |-> {"None"}],
   __add__ |-> [operands |-> {1}, answers |-> {"None", "int", "bool", "str"}],
   __iadd__ |-> [operands |-> {1}, answers |-> {"None", "int", "bool", "str"}],
   __radd__ |-> [operands |-> {1}, answers |-> {"None", "int", "bool", "str"}],
   __lt__ |-> [operands |-> {1}, answers |-> {"bool"}],
   __neg__ |-> [operands |-> {0}, answers |-> {"None", "int", "bool", "str"}],
   __int__ |-> [operands |-> {0}, answers |-> {"int"}],
   __len__ |-> [operands |-> {0}, answers |-> {"int"}],
   __str__ |-> [operands |-> {0}, answers |-> {"str"}],
   __setitem__ |-> [operands |-> {2}, answers |-> {"None", "int", "bool", "str"}]]
SpecialNames == DOMAIN SpecialMethods

MethodRight(f) ==
  f.name \in SpecialNames =>
    /\ Len(f.params) \in SpecialMethods[f.name].operands
    /\ f.returns.type \in SpecialMethods[f.name].answers

(* A name keeps what it was bound to first.                                *)
FirstOnly(bindings) ==
  LET first(i) == \A j \in 1..(i - 1) : bindings[j].name # bindings[i].name
  IN FlattenSeq([i \in DOMAIN bindings |->
       IF first(i) THEN <<bindings[i]>> ELSE <<>>])

FunctionBindings(f) ==
  FirstOnly((IF f.is_method THEN Binding("self", "self") ELSE <<>>)
    \o FlattenSeq([i \in DOMAIN f.params |-> Binding(f.params[i].name, "argument")])
    \o Bindings(f.body))

(* The annotations of a class, through the blocks it has.                  *)
RECURSIVE Members(_)
Members(block) ==
  LET of(s) == IF Does(s, "annotation") THEN <<s.annotation>>
               ELSE IF Does(s, "func") THEN <<>> ELSE Mapped(Members, Blocks(s))
  IN Mapped(of, block)

WithoutMembers(bindings, members) ==
  LET other(b) == \A i \in DOMAIN members : members[i].name # b.name
  IN SelectSeq(bindings, other)

ClassBindings(c) ==
  FirstOnly(WithoutMembers(Bindings(c.body), Members(c.body))
    \o FlattenSeq([i \in DOMAIN Members(c.body) |->
         Binding(Members(c.body)[i].name, "member")]))

-----------------------------------------------------------------------------
(* What a parser should make of a program.                                 *)

Given(params, field(_)) ==
  LET those == SelectSeq(params, LAMBDA p : field(p) # <<>>)
  IN [i \in DOMAIN those |-> field(those[i])]

Typed(params) ==
  [i \in DOMAIN params |-> [name |-> params[i].name, type |-> params[i].type]]

RECURSIVE Parsed(_, _)
FuncParsed(f, spread) ==
  [name |-> f.name, params |-> Typed(f.params),
   defaults |-> Given(f.params, LAMBDA p : p.default),
   returns |-> f.returns, is_method |-> f.is_method,
   body |-> Parsed(f.body, spread), symbols |-> FunctionBindings(f),
   decorator |-> f.decorator]

ClassParsed(c, spread) ==
  [name |-> c.name, base |-> c.base, body |-> Parsed(c.body, spread),
   params |-> Typed(Members(c.body)),
   defaults |-> Given(Members(c.body), LAMBDA m : m.initial),
   methods |-> {c.body[i].func.name :
                  i \in {j \in DOMAIN c.body : Does(c.body[j], "func")}} \cap SpecialNames,
   symbols |-> ClassBindings(c)]

StmtParsed(s, spread) ==
  LET body(block) == Parsed(block, spread)
      bodies(parts) == [i \in DOMAIN parts |-> [parts[i] EXCEPT !.body = body(@)]]
  IN CASE Does(s, "func") -> [s EXCEPT !.func = FuncParsed(@, spread)]
       [] Does(s, "cls") -> [s EXCEPT !.cls = ClassParsed(@, spread)]
       [] Does(s, "assert") -> [s EXCEPT !.assert =
            [expr |-> @, source |->
               LexemesOf(s.col, <<Word("assert")>> \o ExprWritten(@), spread)]]
       [] Does(s, "for_loop") -> [s EXCEPT !.for_loop.body = body(@)]
       [] Does(s, "while_loop") -> [s EXCEPT !.while_loop.body = body(@)]
       [] Does(s, "with") -> [s EXCEPT !.with.body = body(@)]
       [] Does(s, "conditional") -> [s EXCEPT
            !.conditional.body = body(@), !.conditional.elifs = bodies(@),
            !.conditional.else_body = body(@)]
       [] Does(s, "try_stmt") -> [s EXCEPT
            !.try_stmt.try_body = body(@), !.try_stmt.excepts = bodies(@),
            !.try_stmt.else_body = body(@), !.try_stmt.finally_body = body(@)]
       [] OTHER -> s

(* Nothing is left of a global statement but the binding.                  *)
Parsed(block, spread) ==
  LET one(s) == IF Does(s, "global") THEN <<>> ELSE <<StmtParsed(s, spread)>>
  IN Mapped(one, block)

FileParsed(program, spread) == Parsed(program, spread)
FileBindings(program) == FirstOnly(Bindings(program))

-----------------------------------------------------------------------------
(* Which programs the language allows.                                     *)

RECURSIVE Aligned(_, _)
Aligned(block, parent) ==
  \A i \in DOMAIN block :
    /\ block[i].col = block[1].col
    /\ block[i].col > parent
    /\ \A b \in DOMAIN Blocks(block[i]) : Aligned(Blocks(block[i])[b], block[i].col)

RECURSIVE Depth(_)
Depth(block) ==
  LET inner == UNION {{Depth(Blocks(block[i])[b]) : b \in DOMAIN Blocks(block[i])} :
                        i \in DOMAIN block}
  IN IF block = <<>> THEN 0
     ELSE 1 + CHOOSE n \in inner \cup {0} : \A m \in inner : m <= n

(* break and continue belong to a loop of the same function.               *)
RECURSIVE LoopsRight(_, _)
LoopsRight(block, in_loop) ==
  \A i \in DOMAIN block :
    /\ IsBreak(block[i]) => in_loop
    /\ \A b \in DOMAIN Blocks(block[i]) :
         LoopsRight(Blocks(block[i])[b],
           IsLoop(block[i]) \/ (in_loop /\ ~Does(block[i], "func")))

(* What is given no default stands before what is.                         *)
DefaultsLast(params, field(_)) ==
  \A i, j \in DOMAIN params :
    i < j /\ field(params[i]) # <<>> => field(params[j]) # <<>>

RECURSIVE TypeNames(_)
TypeNames(t) ==
  IF t.type = "object" THEN {t.cls}
  ELSE UNION {TypeNames(t.inner[i]) : i \in DOMAIN t.inner}

(* The types a statement and its blocks mention.                           *)
RECURSIVE HintsIn(_)
HintsIn(s) ==
  (IF Does(s, "annotation") THEN TypeNames(s.annotation.type) ELSE {})
  \cup (IF ~Does(s, "func") THEN {}
        ELSE TypeNames(s.func.returns)
               \cup UNION {TypeNames(s.func.params[i].type) :
                             i \in DOMAIN s.func.params})
  \cup UNION {UNION {HintsIn(Blocks(s)[b][i]) : i \in DOMAIN Blocks(s)[b]} :
                b \in DOMAIN Blocks(s)}

ClassesBegun(program, i) ==
  {program[j].cls.name : j \in {k \in 1..i : Does(program[k], "cls")}}

ClassesKnown(program) ==
  \A i \in DOMAIN program : HintsIn(program[i]) \subseteq ClassesBegun(program, i)

(* Classes belong to the top level of the file.                            *)
DefinitionRight(s) ==
  /\ Does(s, "cls") => DefaultsLast(Members(s.cls.body), LAMBDA m : m.initial)
  /\ Does(s, "func") =>
       /\ DefaultsLast(s.func.params, LAMBDA p : p.default)
       /\ s.func.is_method => MethodRight(s.func)
  /\ Does(s, "cls") \/ Does(s, "func") =>
       ~Some(Blocks(s)[1], LAMBDA t : Does(t, "cls"))

NamesOf(bindings) == {bindings[i].name : i \in DOMAIN bindings}

(* A name is made global by a function that has not bound it, once the     *)
(* file has.                                                               *)
GlobalsRight(program) ==
  \A i \in DOMAIN program :
    IF Does(program[i], "func")
      THEN \A j \in DOMAIN program[i].func.body :
             LET s == program[i].func.body[j]
                 before == [program[i].func EXCEPT !.body = SubSeq(@, 1, j - 1)]
             IN Does(s, "global") =>
                  /\ s.global \notin NamesOf(FunctionBindings(before))
                  /\ s.global \in NamesOf(Bindings(SubSeq(program, 1, i - 1)))
      ELSE ~Does(program[i], "global")

Legal(program, depth) ==
  /\ Aligned(program, 0) /\ program[1].col = 1
  /\ Depth(program) <= depth
  /\ LoopsRight(program, FALSE)
  /\ All(program, DefinitionRight)
  /\ ClassesKnown(program)
  /\ GlobalsRight(program)

-----------------------------------------------------------------------------
(* What this parser does in a way of its own.                              *)

RECURSIVE LoopEvents(_)
LoopEvents(block) ==
  LET of(s) == IF IsLoop(s) THEN <<"loop">> ELSE IF IsBreak(s) THEN <<"break">>
               ELSE Mapped(LoopEvents, Blocks(s))
  IN Mapped(of, block)

(* The expressions an operand is made of.                                  *)
Inside(x) ==
  CASE "expr" \in DOMAIN x -> {x.expr}
    [] "tuple" \in DOMAIN x -> ToSet(x.tuple)
    [] "list" \in DOMAIN x -> ToSet(x.list)
    [] "dict" \in DOMAIN x -> ToSet(x.dict)
    [] "args" \in DOMAIN x -> ToSet(x.args.values)
    [] "slice" \in DOMAIN x -> ToSet(x.slice)
    [] "comprehension" \in DOMAIN x ->
         ToSet(x.comprehension.of) \cup {x.comprehension.if_expr}
           \cup {l.iterable : l \in ToSet(x.comprehension.loops)}
    [] OTHER -> {}

(* A bracket behind and, or, not, in or is, with an operand further in     *)
(* front, is taken for a call or a subscript.                              *)
RECURSIVE BracketBehindWord(_)
BracketBehindWord(e) ==
  \/ \E i \in 2..(Len(e) - 1) :
       /\ ItemOp(e, i) \in {"and", "or", "not", "in", "is"}
       /\ \E j \in 1..(i - 1) : ItemOp(e, j) = "none"
       /\ ItemOp(e, i + 1) = "none"
       /\ Head(OperandWritten(e[i + 1])) \in {Mark("("), Mark("[")}
  \/ \E i \in DOMAIN e : \E inner \in Inside(e[i]) : BracketBehindWord(inner)

(* A loop that ends inside another one takes its break and continue away.  *)
BreaksBehindLoop(s) ==
  IsLoop(s) /\ LET events == LoopEvents(Blocks(s)[1])
               IN \E i, j \in DOMAIN events :
                    i < j /\ events[i] = "loop" /\ events[j] = "break"

(* A function defined in a loop may break what is no loop.                 *)
BreaksFunction(s) ==
  LET breaks(x) == Does(x, "func") /\ ~LoopsRight(x.func.body, FALSE)
  IN IsLoop(s) /\ Some(Blocks(s)[1], breaks)

(* The column of the outermost blocks is never taken off the stack, and    *)
(* that of a block only by a statement: blocks of the file's statements    *)
(* that differ, or blocks of one statement, are refused or let through.    *)
Columns(blocks) == {b[1].col : b \in blocks \ {<<>>}}
OuterColumns(program) ==
  Columns(UNION {ToSet(Blocks(program[i])) : i \in DOMAIN program})
BlocksDiffer(s) == Cardinality(Columns(ToSet(Blocks(s)))) > 1

(* An inner try with an else takes the finally of the outer one.           *)
TakesFinally(s) ==
  LET open(x) == Does(x, "try_stmt") /\ x.try_stmt.else_body # <<>>
                   /\ x.try_stmt.finally_body = <<>>
  IN Does(s, "try_stmt") /\ s.try_stmt.finally_body # <<>>
       /\ \E b \in DOMAIN Blocks(s) : Some(Blocks(s)[b], open)

(* Behind global the next statement is read, to whatever block it belongs. *)
EndsInGlobal(s) ==
  \E b \in DOMAIN Blocks(s) :
    Blocks(s)[b] # <<>> /\ Does(Last(Blocks(s)[b]), "global")

Delicate(program) ==
  \/ Some(program, LAMBDA s : Does(s, "expr") /\ BracketBehindWord(s.expr))
  \/ Some(program, BreaksBehindLoop)
  \/ Some(program, BreaksFunction)
  \/ Cardinality(OuterColumns(program)) > 1
  \/ Some(program, BlocksDiffer)
  \/ \E i \in DOMAIN program : program[i].col # 1 /\ i > 1
  \/ Some(program, TakesFinally)
  \/ Some(program, EndsInGlobal)
=============================================================================
