-------------------------- MODULE ParseStatements --------------------------
(***************************************************************************)
(* How the parser reads statements (lexer.c, parse_statement and what it   *)
(* calls): blocks and the indentation stack, the scopes of functions and   *)
(* classes with the names they declare, type hints, and the rules for      *)
(* loops, classes, defaults and global.  A statement is a record with the  *)
(* column it starts in and one field that names its kind; "" stands for a  *)
(* name that is absent and <<>> for a block that is.                       *)
(*                                                                         *)
(* LimitOneLate, LoopsKept, DefaultsAnywhere and ScopeKept are deviations. *)
(***************************************************************************)
EXTENDS ParseExpressions, ObjectModel

CONSTANTS
  IndentationMax,  \* INDENTATION_MAX
  ScopeStackMax    \* SCOPE_STACK_MAX

BlockBegin == "block begin"  \* BLOCK_BEGIN

NoBlock == <<>>
NoName == ""

-----------------------------------------------------------------------------
(* The indentation stack.  Going back to a column searches all but the     *)
(* bottom of the stack: at the outermost column nothing is popped.         *)
Popped(stack, col) ==
  LET below == {i \in 2..(Len(stack) - 1) : stack[i] <= col}
      last == CHOOSE i \in below : \A j \in below : j <= i
  IN IF below = {} THEN stack ELSE SubSeq(stack, 1, last)

LimitOneLate(stack, col, begin_block) ==
  stack # <<>> /\ col > stack[Len(stack)]
    /\ (Len(stack) > IndentationMax \/ ~begin_block)

IndentError(stack, col, begin_block) ==
  LET top == stack[Len(stack)]
  IN IF stack = <<>> THEN col # 1
     ELSE IF col < top
       THEN \E i \in 2..(Len(stack) - 1) :
              /\ stack[i] < col
              /\ \A j \in (i + 1)..(Len(stack) - 1) : stack[j] > col
     ELSE IF col > top
       THEN Len(stack) = IndentationMax \/ ~begin_block
     ELSE FALSE

indent_check(p, col, begin_block) ==
  IF IndentError(p.indents, col, begin_block) THEN Refuse(p)
  ELSE [p EXCEPT !.indents =
          IF @ # <<>> /\ col < @[Len(@)] THEN Popped(@, col)
          ELSE IF @ # <<>> /\ col = @[Len(@)] THEN @ ELSE Append(@, col)]

-----------------------------------------------------------------------------
(* Scopes.                                                                 *)

NewScope(kind, cls) ==
  [kind |-> kind, cls |-> cls, table |-> symbol_hm_init, methods |-> {}]

scope_stack_push(p, scope) ==
  IF p.refused THEN p
  ELSE IF Len(p.scopes) = ScopeStackMax THEN Refuse(p)
  ELSE [p EXCEPT !.scopes = Append(@, scope)]

scope_stack_pop(p) ==
  IF p.refused THEN p
  ELSE [p EXCEPT !.scopes = SubSeq(@, 1, Len(@) - 1)]

SymbolOf(scope, name) == symbol_hm_get(scope.table, name).kind

-----------------------------------------------------------------------------
(* Type hints.  A name that is no built-in type must be a class the file   *)
(* has begun before.                                                       *)

BuiltinTypes == {"None", "int", "float", "str", "bool"}

TypeInfo(type, cls, inner) == [type |-> type, cls |-> cls, inner |-> inner]

cstr_to_python_type(name) ==
  IF name \in BuiltinTypes \cup {"List", "Dict", "Tuple", "Function"} THEN name
  ELSE IF name = "Callable" THEN "Function" ELSE "object"

RECURSIVE parse_type_hint(_)

(* Hints separated by commas up to the closing bracket, which is consumed. *)
RECURSIVE HintsFrom(_, _)

HintRead(p, hints) == HintsFrom(p, Append(hints, p.out))

BehindHint(p, hints) ==
  IF p.refused THEN p
  ELSE IF At(p, "]") THEN Returning(discard_next_token(p), hints)
  ELSE HintRead(parse_type_hint(IF hints = <<>> THEN p
                                ELSE expect_token_type(p, "comma")), hints)

HintsFrom(p, hints) == BehindHint(peek_next_token(p), hints)

Hint(p, type, inner) == Returning(p, TypeInfo(type, NoName, inner))

ReturnsRead(returns, params) ==
  Hint(expect_token_type(returns, "]"), "Function", params \o <<returns.out>>)

ParamsRead(params) ==
  ReturnsRead(parse_type_hint(expect_token_type(params, "comma")), params.out)

FunctionHint(p) ==
  ParamsRead(HintsFrom(expect_token_type(expect_token_type(p, "["), "["), <<>>))

AllOf(all) == Hint(all, "Tuple", all.out)

TupleHint(p) ==
  AllOf(HintRead(parse_type_hint(expect_token_type(p, "[")), <<>>))

ListOf(of) == Hint(expect_token_type(of, "]"), "List", <<of.out>>)

ListHint(p) == ListOf(parse_type_hint(expect_token_type(p, "[")))

DictOf(val, key) == Hint(expect_token_type(val, "]"), "Dict", <<key, val.out>>)

KeyHint(key) == DictOf(parse_type_hint(expect_token_type(key, "comma")), key.out)

DictHint(p) == KeyHint(parse_type_hint(expect_token_type(p, "[")))

ClassHint(p, name) ==
  IF SymbolOf(p.scopes[1], name) = "class"
    THEN Returning(p, TypeInfo("object", name, <<>>)) ELSE Refuse(p)

HintNamed(p, name, type) ==
  CASE p.refused -> p
    [] type = "Function" -> FunctionHint(p)
    [] type = "Tuple" -> TupleHint(p)
    [] type = "List" -> ListHint(p)
    [] type = "Dict" -> DictHint(p)
    [] type = "object" /\ ~p.refused -> ClassHint(p, name)
    [] OTHER -> Hint(p, type, <<>>)

HintFrom(p) == HintNamed(p, p.token.value, cstr_to_python_type(p.token.value))

parse_type_hint(p) == HintFrom(expect_token_type(p, "identifier"))

-----------------------------------------------------------------------------
RECURSIVE parse_statement(_)

(* A block ends at a column that is not beyond the statement it belongs    *)
(* to; until there all of its statements start in the same column.         *)
RECURSIVE BlockFrom(_, _, _, _)

NextInBlock(stmt, parent_indent, col, stmts) ==
  IF stmt.refused THEN stmt
  ELSE BlockFrom(stmt, parent_indent, col, Append(stmts, stmt.out))

BehindStatement(p, parent_indent, col, stmts) ==
  IF p.refused THEN p
  ELSE IF Head(p.tq).col < col
    THEN IF Head(p.tq).col > parent_indent THEN Refuse(p) ELSE Returning(p, stmts)
  ELSE IF Head(p.tq).col > col THEN Refuse(p)
  ELSE NextInBlock(parse_statement(p), parent_indent, col, stmts)

BlockFrom(p, parent_indent, col, stmts) ==
  BehindStatement(consume_newline_tokens(p), parent_indent, col, stmts)

FirstInBlock(first, parent_indent) ==
  IF first.refused THEN first
  ELSE IF first.out.col <= parent_indent THEN Refuse(first)
  ELSE BlockFrom(first, parent_indent, first.out.col, <<first.out>>)

parse_block(p, parent_indent) ==
  IF p.refused THEN p
  ELSE FirstInBlock(parse_statement([p EXCEPT !.rule = BlockBegin]), parent_indent)

(* A colon, then the block of the statement in that column.                *)
ColonBlock(p, indent) == parse_block(expect_token_type(p, "colon"), indent)

-----------------------------------------------------------------------------
(* Imports.                                                                *)

RECURSIVE PathFrom(_, _)

BehindPart(p, path) ==
  IF At(p, "dot") THEN PathFrom(discard_next_token(p), path)
  ELSE Returning(p, path)

PartRead(p, path) ==
  IF p.refused THEN p
  ELSE BehindPart(peek_next_token(p), Append(path, p.token.value))

PathFrom(p, path) == PartRead(expect_token_type(p, "identifier"), path)

parse_import_path(p) == PathFrom(p, <<>>)

(* A name behind as, or none.                                              *)
NameRead(p) == Returning(p, p.token.value)

NameBehindAs(p) ==
  IF IsKeyword(Head(p.tq), "as")
    THEN NameRead(expect_token_type(discard_next_token(p), "identifier"))
    ELSE Returning(p, NoName)

AsName(p) == NameBehindAs(peek_next_token(p))

RECURSIVE ImportsFrom(_, _, _)

BehindImport(p, ending, names) ==
  CASE p.refused -> p
    [] At(p, "comma") -> ImportsFrom(discard_next_token(p), ending, names)
    [] At(p, ending) /\ ~p.refused -> Returning(discard_next_token(p), names)
    [] OTHER -> Refuse(p)

ImportAs(as, ending, names, what) ==
  BehindImport(peek_next_token(as), ending,
               Append(names, [what |-> what, as |-> as.out]))

ImportRead(p, ending, names) == ImportAs(AsName(p), ending, names, p.token.value)

ImportsFrom(p, ending, names) ==
  ImportRead(expect_token_type(p, "identifier"), ending, names)

NotEmpty(p) == IF At(p, ")") THEN Refuse(p) ELSE p

ImportGroup(p) ==
  IF At(p, "(")
    THEN ImportsFrom(NotEmpty(peek_next_token(discard_next_token(p))), ")", <<>>)
    ELSE ImportsFrom(p, "newline", <<>>)

parse_import_group(p) == ImportGroup(peek_next_token(p))

Imported(as, path) == Returning(as, [import |-> [path |-> path, as |-> as.out]])
PathRead(path) == Imported(AsName(path), path.out)

parse_import_statement(p) == PathRead(parse_import_path(discard_next_token(p)))

ImportedFrom(group, path) ==
  Returning(group, [import_from |-> [path |-> path, names |-> group.out]])
FromPath(path) ==
  ImportedFrom(parse_import_group(expect_keyword(path, "import")), path.out)

ParseFrom(p) == FromPath(parse_import_path(discard_next_token(p)))

-----------------------------------------------------------------------------
(* Loops and conditions.  A loop that ends clears in_loop, whatever loop   *)
(* it stood in.                                                            *)

InLoop(p) == [p EXCEPT !.in_loop = TRUE]
LoopsKept(p) == p
LoopEnded(p) == [p EXCEPT !.in_loop = FALSE]

LoopBody(p, indent) ==
  LoopEnded(parse_block(InLoop(expect_token_type(p, "colon")), indent))

ForLoop(body, it, iterable) ==
  Returning(body, [for_loop |-> [it |-> it, iterable |-> iterable, body |-> body.out]])

LoopOn(iterable, it, indent) == ForLoop(LoopBody(iterable, indent), it, iterable.out)

LoopFor(it, indent) ==
  LoopOn(parse_expression(expect_keyword(it, "in")), it.out, indent)

parse_for_loop(p, indent) ==
  LoopFor(parse_iterable_identifiers(discard_next_token(p), <<>>), indent)

WhileLoop(body, condition) ==
  Returning(body, [while_loop |-> [condition |-> condition, body |-> body.out]])

LoopWhile(condition, indent) == WhileLoop(LoopBody(condition, indent), condition.out)

parse_while_loop(p, indent) == LoopWhile(parse_expression(discard_next_token(p)), indent)

(* A condition and its block.                                              *)
Guarded(body, condition) ==
  Returning(body, [condition |-> condition, body |-> body.out])

ConditionThen(condition, indent) == Guarded(ColonBlock(condition, indent), condition.out)

ParseGuarded(p, indent) == ConditionThen(parse_expression(p), indent)

RECURSIVE ElifsFrom(_, _, _)

ElifRead(p, indent, elifs) == ElifsFrom(p, indent, Append(elifs, p.out))

BehindElifs(p, indent, elifs) ==
  IF IsKeyword(Head(p.tq), "elif") /\ Head(p.tq).col = indent
    THEN ElifRead(ParseGuarded(discard_next_token(p), indent), indent, elifs)
    ELSE Returning(p, elifs)

ElifsFrom(p, indent, elifs) == BehindElifs(consume_newline_tokens(p), indent, elifs)

ElseOf(p, indent) ==
  IF IsKeyword(Head(p.tq), "else") /\ Head(p.tq).col = indent
    THEN ColonBlock(discard_next_token(p), indent) ELSE Returning(p, NoBlock)

ConditionalWith(else, first, elifs) ==
  Returning(else, [conditional |->
    [condition |-> first.condition, body |-> first.body,
     elifs |-> elifs, else_body |-> else.out]])

BehindElif(elifs, indent, first) ==
  ConditionalWith(ElseOf(elifs, indent), first, elifs.out)

FirstGuarded(first, indent) ==
  IF first.refused THEN first
  ELSE BehindElif(ElifsFrom(first, indent, <<>>), indent, first.out)

parse_if_statement(p, indent) ==
  FirstGuarded(ParseGuarded(discard_next_token(p), indent), indent)

-----------------------------------------------------------------------------
(* Try and with.                                                           *)

RECURSIVE ExceptionsFrom(_, _)

BehindException(p, names) ==
  IF At(p, ")") THEN Returning(discard_next_token(p), names)
  ELSE ExceptionsFrom(expect_token_type(p, "comma"), names)

ExceptionRead(p, names) ==
  IF p.refused THEN p
  ELSE BehindException(peek_next_token(p), Append(names, p.token.value))

ExceptionsFrom(p, names) == ExceptionRead(expect_token_type(p, "identifier"), names)

ExceptionsAt(p) ==
  CASE At(p, "identifier") -> Returning(discard_next_token(p), <<Head(p.tq).value>>)
    [] At(p, "(") -> ExceptionsFrom(discard_next_token(p), <<>>)
    [] OTHER -> Refuse(p)

ExceptionNames(p) == ExceptionsAt(peek_next_token(p))

ExceptClause(body, exceptions, as) ==
  Returning(body, [exceptions |-> exceptions, as |-> as, body |-> body.out])

Bound(p) == IF p.out = NoName THEN p ELSE Declare(p, p.out, "semi scoped")

ExceptAs(as, exceptions, indent) ==
  ExceptClause(ColonBlock(Bound(as), indent), exceptions, as.out)

Excepting(names, indent) == ExceptAs(AsName(names), names.out, indent)

ExceptAt(p, indent) ==
  IF p.token.col # indent THEN Refuse(p) ELSE Excepting(ExceptionNames(p), indent)

ParseExcept(p, indent) == ExceptAt(expect_keyword(p, "except"), indent)

RECURSIVE ExceptsFrom(_, _, _)

BehindExcept(p, indent, excepts) ==
  IF p.refused \/ Head(p.tq).col < indent \/ ~IsKeyword(Head(p.tq), "except")
    THEN Returning(p, excepts) ELSE ExceptsFrom(p, indent, excepts)

ExceptRead(except, indent, excepts) ==
  BehindExcept(consume_newline_tokens(except), indent, Append(excepts, except.out))

ExceptsFrom(p, indent, excepts) ==
  ExceptRead(ParseExcept(consume_newline_tokens(p), indent), indent, excepts)

(* The optional block behind a keyword; its column is not looked at.       *)
OptionalBlock(p, word, indent) ==
  IF IsKeyword(Head(p.tq), word) THEN ColonBlock(discard_next_token(p), indent)
  ELSE Returning(p, NoBlock)

TryStatement(finally, body, excepts, else) ==
  Returning(finally, [try_stmt |->
    [try_body |-> body, excepts |-> excepts,
     else_body |-> else, finally_body |-> finally.out]])

ElseRead(else, indent, body, excepts) ==
  TryStatement(OptionalBlock(consume_newline_tokens(else), "finally", indent),
               body, excepts, else.out)

TryExcepts(excepts, indent, body) ==
  IF Head(excepts.tq).col < indent
    THEN TryStatement(Returning(excepts, NoBlock), body, excepts.out, NoBlock)
    ELSE ElseRead(OptionalBlock(excepts, "else", indent), indent, body, excepts.out)

TryBody(body, indent) ==
  IF body.refused THEN body
  ELSE TryExcepts(ExceptsFrom(body, indent, <<>>), indent, body.out)

parse_try_statement(p, indent) ==
  TryBody(ColonBlock(discard_next_token(p), indent), indent)

(* Anything but a colon behind the manager must be as and a name.          *)
ManagerName(p) ==
  IF At(p, "colon") THEN Returning(p, NoName)
  ELSE NameRead(expect_token_type(expect_keyword(p, "as"), "identifier"))

WithStatement(body, manager, as) ==
  Returning(body, [with |-> [ctx_manager |-> manager, as |-> as, body |-> body.out]])

WithNamed(as, manager, indent) == WithStatement(ColonBlock(as, indent), manager, as.out)

WithManager(manager, indent) ==
  WithNamed(ManagerName(peek_next_token(manager)), manager.out, indent)

parse_with_statement(p, indent) ==
  WithManager(parse_expression(discard_next_token(p)), indent)

-----------------------------------------------------------------------------
(* Functions.                                                              *)

(* A function in a function makes the outer one the parent of a closure.   *)
ParentKind(kind) == IF kind = "function" THEN "closure parent" ELSE kind
ScopeKindIn(parent) ==
  IF parent \in {"top", "class"} THEN "function" ELSE "closure child"

DefaultsAnywhere(defaults, default) == FALSE
DefaultMissing(defaults, default) == default = NoExpression /\ defaults # <<>>

RECURSIVE ParamsFrom(_, _, _)

DefaultRead(default, is_method, sig, param) ==
  CASE default.refused -> default
    [] DefaultMissing(sig.defaults, default.out) /\ ~default.refused -> Refuse(default)
    [] OTHER -> ParamsFrom(default, is_method,
         [params |-> Append(sig.params, param),
          defaults |-> IF default.out = NoExpression THEN sig.defaults
                       ELSE Append(sig.defaults, default.out)])

DefaultOf(p) ==
  IF IsAssignment(Head(p.tq)) THEN parse_expression(discard_next_token(p))
  ELSE Returning(p, NoExpression)

ParamTyped(type, is_method, sig, name) ==
  DefaultRead(DefaultOf(peek_next_token(type)), is_method, sig,
              [name |-> name, type |-> type.out])

ParamNamed(p, is_method, sig) ==
  ParamTyped(parse_type_hint(expect_token_type(p, "colon")), is_method, sig,
             p.token.value)

Separated(p, is_method, sig) ==
  IF is_method \/ sig.params # <<>> THEN expect_token_type(p, "comma") ELSE p

BehindParams(p, is_method, sig) ==
  CASE p.refused -> p
    [] At(p, ")") -> Returning(discard_next_token(p), sig)
    [] OTHER -> ParamNamed(expect_token_type(Separated(p, is_method, sig),
                                             "identifier"), is_method, sig)

ParamsFrom(p, is_method, sig) == BehindParams(peek_next_token(p), is_method, sig)

ReturnTypeAt(p) ==
  IF At(p, "arrow") THEN parse_type_hint(discard_next_token(p))
  ELSE Returning(p, TypeInfo("None", NoName, <<>>))

ReturnType(p) == ReturnTypeAt(peek_next_token(p))

(* What the scope of a function holds before its body is read.             *)
RECURSIVE WithArguments(_, _)
WithArguments(scope, params) ==
  IF params = <<>> THEN scope
  ELSE WithArguments(SymbolPut(scope, Head(params).name, "argument"), Tail(params))

MethodAccepted(scope, name, params, returns) ==
  \/ scope.kind # "class"
  \/ source_string_to_object_model(name) = NotInObjectModel
  \/ validate_object_model_signature(name, Len(params), returns.type)

(* The function is declared in the scope around it; a method of the object *)
(* model is also noted in its class.                                       *)
FunctionDeclared(p, name) ==
  LET q == Declare(p, name, "function")
      top == Len(q.scopes)
  IN IF q.scopes[top].kind = "class" /\ name \in ObjectMethods
       THEN [q EXCEPT !.scopes[top].methods = @ \cup {name}] ELSE q

(* A function whose names are put into the scope around it.                *)
BodyKept(body, scope) ==
  IF body.refused THEN body
  ELSE Returning(body, [body |-> body.out, symbols |-> scope.table.elements])
ScopeKept(p, scope, col) == BodyKept(parse_block(p, col), scope)

(* The body with the scope it is read in, which is popped at its end.      *)
BodyRead(body) ==
  IF body.refused THEN body
  ELSE Returning(scope_stack_pop(body),
         [body |-> body.out, symbols |-> ScopeTop(body).table.elements])

BodyParsed(p, scope, col) == BodyRead(parse_block(scope_stack_push(p, scope), col))

(* The head of a function: its name, the scope it is defined in and the    *)
(* name a method has for its object; then its signature and what it        *)
(* returns.                                                                *)
ScopeOfFunction(head, params) ==
  WithArguments(
    IF head.parent.kind = "class"
      THEN SymbolPut(NewScope("function", NoName), head.self, "self")
      ELSE NewScope(ScopeKindIn(head.parent.kind), NoName), params)

Noted(p) == [p EXCEPT !.scopes[Len(p.scopes)].kind = ParentKind(@)]

FunctionRead(body, head, sig, returns) ==
  CASE body.refused -> body
    [] /\ ~MethodAccepted(head.parent, head.name, sig.params, returns)
       /\ ~body.refused -> Refuse(body)
    [] OTHER -> Returning(FunctionDeclared(body, head.name), [func |->
         [name |-> head.name, params |-> sig.params, defaults |-> sig.defaults,
          returns |-> returns, is_method |-> head.parent.kind = "class",
          body |-> body.out.body, symbols |-> body.out.symbols,
          decorator |-> NoExpression]])

FunctionBody(p, head, sig, returns, col) ==
  IF p.refused THEN p
  ELSE FunctionRead(BodyParsed(Noted(p), ScopeOfFunction(head, sig.params), col),
                    head, sig, returns)

Returns(returns, head, sig, col) ==
  FunctionBody(expect_token_type(returns, "colon"), head, sig, returns.out, col)

SignatureRead(sig, head, col) == Returns(ReturnType(sig), head, sig.out, col)

FunctionHead(p, name, col) ==
  SignatureRead(
    ParamsFrom(p, ScopeTop(p).kind = "class", [params |-> <<>>, defaults |-> <<>>]),
    [name |-> name, self |-> p.token.value, parent |-> ScopeTop(p)], col)

FunctionOpened(p, name, col) ==
  FunctionHead(IF ScopeTop(p).kind = "class"
                 THEN expect_token_type(p, "identifier") ELSE p, name, col)

FunctionNamed(p, col) ==
  FunctionOpened(expect_token_type(consume_newline_tokens(p), "("), p.token.value, col)

parse_function_statement(p, col) ==
  FunctionNamed(expect_token_type(discard_next_token(p), "identifier"), col)

-----------------------------------------------------------------------------
(* Classes.  Their annotations are members, collected while the body is    *)
(* read and made the signature of the class at its end.                    *)

init_class_statement(p, name) ==
  scope_stack_push(Declare([p EXCEPT !.members = <<>>], name, "class"),
                   NewScope("class", name))

add_class_member(p, member) ==
  IF member.initial = NoExpression
       /\ \E i \in DOMAIN p.members : p.members[i].initial # NoExpression
    THEN Refuse(p) ELSE [p EXCEPT !.members = Append(@, member)]

RECURSIVE MembersPut(_, _)
MembersPut(scope, members) ==
  IF members = <<>> THEN scope
  ELSE MembersPut(SymbolPut(scope, Head(members).name, "member"), Tail(members))

Initials(members) ==
  LET given(m) == m.initial # NoExpression
      those == SelectSeq(members, given)
  IN [i \in DOMAIN those |-> those[i].initial]

finalize_class_statement(p, name, base, body) ==
  LET scope == MembersPut(ScopeTop(p), p.members)
  IN Returning([scope_stack_pop(p) EXCEPT !.members = <<>>], [cls |->
       [name |-> name, base |-> base, body |-> body,
        params |-> [i \in DOMAIN p.members |->
          [name |-> p.members[i].name, type |-> p.members[i].type]],
        defaults |-> Initials(p.members),
        methods |-> scope.methods, symbols |-> scope.table.elements]])

Closed(p) == Returning(expect_token_type(p, ")"), p.token.value)

BaseAt(p) ==
  IF At(p, "(")
    THEN Closed(expect_token_type(discard_next_token(p), "identifier"))
    ELSE Returning(p, NoName)

ClassBase(p) == BaseAt(peek_next_token(p))

ClassRead(body, name, base) ==
  IF body.refused THEN body ELSE finalize_class_statement(body, name, base, body.out)

ClassBody(base, name, indent) == ClassRead(ColonBlock(base, indent), name, base.out)

ClassNamed(p, indent) ==
  ClassBody(ClassBase(init_class_statement(p, p.token.value)), p.token.value, indent)

parse_class_statement(p, indent) ==
  IF ScopeTop(p).kind # "top" THEN Refuse(p)
  ELSE ClassNamed(expect_token_type(discard_next_token(p), "identifier"), indent)

-----------------------------------------------------------------------------
(* Assignments, annotations, global and assert.                            *)

HasOperations(expr) == \E i \in DOMAIN expr : IsOperator(expr[i])

(* The value of the first operand's token, be it a name, a number or a     *)
(* string.  A keyword has none, and an operand that is no token reads as   *)
(* one without.                                                            *)
FirstValue(expr) ==
  CASE "name" \in DOMAIN expr[1] -> expr[1].name
    [] "literal" \in DOMAIN expr[1] -> expr[1].literal
    [] OTHER -> NoName

(* Whatever is assigned to is declared, unless an operation computes it.   *)
Assigned(p, op, storage) ==
  IF op = "=" /\ ~HasOperations(storage) THEN Declare(p, FirstValue(storage), "regular") ELSE p

Assignment(value, op, storage) ==
  Returning(Assigned(value, op, storage),
    [assignment |-> [storage |-> storage, op_type |-> op, value |-> value.out]])

AssignmentBy(p, storage) == Assignment(parse_expression(p), p.token.value, storage)

parse_assignment_statement(p, storage) ==
  AssignmentBy(expect_token_type(p, "operator"), storage)

Annotated(p, annotation) ==
  IF p.refused THEN p
  ELSE Returning(IF ScopeTop(p).kind = "class" THEN add_class_member(p, annotation)
                 ELSE Declare(p, annotation.name, "regular"),
                 [annotation |-> annotation])

AnnotationTo(initial, name, type) ==
  Annotated(initial, [name |-> name, type |-> type, initial |-> initial.out])

(* The value of an annotation, which ends in a newline.                    *)
EndingLine(value) == Answering(expect_token_type(value, "newline"), value.out)

(* Any operator is taken for the = of an annotation.  What is no operator  *)
(* has a keyword or a value where an operator has its number, and neither  *)
(* is the number of =.                                                     *)
InitialOf(p) ==
  CASE At(p, "newline") -> Returning(p, NoExpression)
    [] At(p, "operator") -> EndingLine(parse_expression(discard_next_token(p)))
    [] OTHER -> Refuse(p)

AnnotationTyped(type, name) ==
  AnnotationTo(InitialOf(peek_next_token(type)), name, type.out)

parse_annotation_statement(p, name) ==
  AnnotationTyped(parse_type_hint(discard_next_token(p)), name)

CannotBeGlobal(p, name) ==
  \/ SymbolOf(ScopeTop(p), name) # NoName
  \/ SymbolOf(p.scopes[1], name) = NoName

GlobalEnded(p, name) ==
  CASE ScopeTop(p).kind # "function" \/ p.refused -> Refuse(p)
    [] OTHER -> IF CannotBeGlobal(p, name) THEN Refuse(p) ELSE Declare(p, name, "global")

GlobalNamed(p) == GlobalEnded(expect_token_type(p, "newline"), p.token.value)

parse_global(p) == GlobalNamed(expect_token_type(p, "identifier"))

Asserted(source, expr) ==
  Returning(source, [assert |-> [expr |-> expr, source |-> source.out]])

AssertRead(expr) == Asserted(get_assert_source_code(expr), expr.out)

parse_assert(p) == AssertRead(parse_expression(discard_next_token(p)))

-----------------------------------------------------------------------------
(* One statement.                                                          *)

Breaks(p, kind) ==
  IF p.in_loop THEN Returning(discard_next_token(p), kind) ELSE Refuse(p)

ReturnRead(value) == Returning(value, [return_expr |-> value.out])

ReturnFrom(p) ==
  IF Head(p.tq).type \in {"newline", "eof"}
    THEN Returning(p, [return_expr |-> NoExpression])
    ELSE ReturnRead(parse_expression(p))

ParseReturn(p) == ReturnFrom(peek_next_token(discard_next_token(p)))

(* Whatever is declared global, the statement is the one behind it.        *)
ParseGlobal(p) == parse_statement(parse_global(discard_next_token(p)))

(* The decorator of the function the next statement defines.               *)
Decorated(stmt, decorator) ==
  IF stmt.refused THEN stmt
  ELSE IF "func" \notin DOMAIN stmt.out THEN Refuse(stmt)
  ELSE [stmt EXCEPT !.out.func.decorator = decorator]

DecoratorRead(decorator) == Decorated(parse_statement(decorator), decorator.out)

ParseDecorated(p) == DecoratorRead(parse_expression(discard_next_token(p)))

(* A statement that starts with an expression.                             *)
BehindExpression(p) ==
  CASE p.refused -> p
    [] At(p, "operator") -> parse_assignment_statement(p, p.out)
    [] At(p, "colon") -> IF HasOperations(p.out) THEN Refuse(p)
                         ELSE parse_annotation_statement(p, FirstValue(p.out))
    [] OTHER -> Returning(p, [expr |-> p.out])

ParseSimple(p) == BehindExpression(peek_next_token(parse_expression(p)))

OwnKeywords == {"break", "continue", "return", "assert", "pass", "for", "while", "import",
                "from", "if", "try", "with", "def", "class"}

(* What the statement that starts with that keyword is read as.            *)
ParseByKeyword(p, word, col) ==
  CASE word = "break" -> Breaks(p, [break |-> NoBlock])
    [] word = "continue" -> Breaks(p, [continue |-> NoBlock])
    [] word = "return" -> ParseReturn(p)
    [] word = "assert" -> parse_assert(p)
    [] word = "pass" ->
         Returning(expect_token_type(discard_next_token(p), "newline"),
                   [no_op |-> NoBlock])
    [] word = "for" -> parse_for_loop(p, col)
    [] word = "while" -> parse_while_loop(p, col)
    [] word = "import" -> parse_import_statement(p)
    [] word = "from" -> ParseFrom(p)
    [] word = "if" -> parse_if_statement(p, col)
    [] word = "try" -> parse_try_statement(p, col)
    [] word = "with" -> parse_with_statement(p, col)
    [] word = "def" -> parse_function_statement(p, col)
    [] word = "class" -> parse_class_statement(p, col)

(* global and a decorator answer the statement behind them.                *)
ParseKind(p, token) ==
  CASE token.type = "keyword" /\ token.value \in OwnKeywords ->
         ParseByKeyword(p, token.value, token.col)
    [] token.type = "eof" -> Returning(discard_next_token(p), [eof |-> NoBlock])
    [] OTHER -> ParseSimple(p)

(* The statement with the column it starts in.                             *)
AtColumn(out, col) ==
  [k \in {"col"} \cup DOMAIN out |-> IF k = "col" THEN col ELSE out[k]]

StatementRead(stmt, col) ==
  IF stmt.refused THEN stmt ELSE Returning(stmt, AtColumn(stmt.out, col))

StatementAt(p, token) ==
  CASE p.refused -> p
    [] IsKeyword(token, "global") /\ ~p.refused -> ParseGlobal(p)
    [] Is(token, "decorator") /\ ~p.refused -> ParseDecorated(p)
    [] OTHER -> StatementRead(ParseKind(p, token), token.col)

BehindNewlines(p, rule) ==
  IF p.refused THEN p
  ELSE StatementAt(indent_check(p, Head(p.tq).col, rule = BlockBegin), Head(p.tq))

parse_statement(p) == BehindNewlines(consume_newline_tokens(consume_rule(p)), p.rule)
=============================================================================
