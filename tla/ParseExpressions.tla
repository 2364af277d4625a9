-------------------------- MODULE ParseExpressions --------------------------
(***************************************************************************)
(* How the parser reads expressions (lexer.c, parse_expression and what it *)
(* calls).  An expression is the sequence of what was pushed on its table, *)
(* operators [op |-> ...] and operands, in order: module ExpressionTable   *)
(* says what becomes of them.  An operand is a record with one field that  *)
(* names its kind, and <<>> stands for an expression that is absent.       *)
(*                                                                         *)
(* NegativeAtStart is a deviation.                                         *)
(***************************************************************************)
EXTENDS Scanner, SymbolTable

NoConditional == "no conditional expression" \* DISALLOW_CONDITIONAL_EXPRESSION

NoExpression == <<>>

ScopeTop(p) == p.scopes[Len(p.scopes)]

SymbolPut(scope, name, kind) ==
  [scope EXCEPT !.table = symbol_hm_put(@, [name |-> name, kind |-> kind])]

Declare(p, name, kind) ==
  IF p.refused THEN p
  ELSE [p EXCEPT !.scopes[Len(p.scopes)] = SymbolPut(@, name, kind)]

ContinuingKeywords == {"and", "or", "not", "in", "is", "True", "False"}
EndingTypes ==
  {"colon", "newline", ")", "]", "}", "comma", "eof"}

AssignmentOps == {"=", "+=", "-=", "*=", "/=", "%=", "//=", "**=", "&=", "|=", "^=",
                  ">>=", "<<="}

is_end_of_expression(token, rule) ==
  \/ token.type = "operator" /\ token.value \in AssignmentOps
  \/ token.type \in EndingTypes
  \/ /\ token.type = "keyword"
     /\ token.value \notin ContinuingKeywords
     /\ token.value = "if" => rule = NoConditional

-----------------------------------------------------------------------------
(* The names a for loop or a comprehension binds; commas only separate.    *)

RECURSIVE parse_iterable_identifiers(_, _)

GroupRead(inner, ids) ==
  parse_iterable_identifiers(inner, Append(ids, [group |-> inner.out]))

IterableToken(q, ids) ==
  CASE q.token.type = "comma" -> parse_iterable_identifiers(q, ids)
    [] q.token.type = "(" -> GroupRead(parse_iterable_identifiers(q, <<>>), ids)
    [] q.token.type = "identifier" ->
         parse_iterable_identifiers(Declare(q, q.token.value, "semi scoped"),
                                    Append(ids, [name |-> q.token.value]))
    [] OTHER -> Refuse(q)

(* Up to a keyword, or a closing bracket, which is consumed.               *)
IterableFrom(p, ids) ==
  CASE Is(Head(p.tq), "keyword") -> IF ids = <<>> THEN Refuse(p) ELSE Returning(p, ids)
    [] Is(Head(p.tq), ")") ->
         IF ids = <<>> THEN Refuse(p) ELSE Returning(get_next_token(p), ids)
    [] OTHER -> IterableToken(get_next_token(p), ids)

parse_iterable_identifiers(p, ids) == IterableFrom(peek_next_token(p), ids)

RECURSIVE parse_expression(_)

-----------------------------------------------------------------------------
(* Comprehensions: loops, each with the names it binds and its iterable,   *)
(* and perhaps a condition.  A conditional expression would take the if    *)
(* of the condition for its own, so the iterable must not be one.          *)

IterableRule(p) == [p EXCEPT !.rule = NoConditional]

RECURSIVE ComprehensionLoops(_, _)

LoopsUpTo(over, loops) ==
  IF IsKeyword(Peeked(over), "for")
    THEN ComprehensionLoops(peek_next_token(over), loops)
    ELSE Returning(over, loops)

LoopRead(over, it, loops) ==
  LoopsUpTo(over, Append(loops, [it |-> it, iterable |-> over.out]))

LoopOver(its, loops) ==
  LoopRead(parse_expression(IterableRule(expect_keyword(its, "in"))), its.out, loops)

ComprehensionLoops(p, loops) ==
  LoopOver(parse_iterable_identifiers(expect_keyword(p, "for"), <<>>), loops)

Comprehension(p, kind, of, loops, condition) ==
  Returning(p, [comprehension |->
    [kind |-> kind, of |-> of, loops |-> loops, if_expr |-> condition]])

Filtered(condition, kind, of, loops) ==
  Comprehension(condition, kind, of, loops, condition.out)

BehindLoops(p, kind, of, loops) ==
  IF IsKeyword(Head(p.tq), "if")
    THEN Filtered(parse_expression(discard_next_token(p)), kind, of, loops)
    ELSE Comprehension(p, kind, of, loops, NoExpression)

LoopsBefore(loops, kind, of) ==
  BehindLoops(peek_next_token(loops), kind, of, loops.out)

parse_comprehension_body(p, kind, of) ==
  LoopsBefore(ComprehensionLoops(p, <<>>), kind, of)

(* The comprehension without the bracket that closes it, then that.        *)
Answering(p, value) == Returning(p, value)
ThenClosed(p, closing) == Answering(expect_token_type(p, closing), p.out)

parse_dict_comprehension(p, key, val) ==
  ThenClosed(parse_comprehension_body(p, "dict", <<key, val>>), "}")

parse_sequence_comprehension(p, expr, closing) ==
  ThenClosed(
    parse_comprehension_body(p, IF closing = ")" THEN "tuple" ELSE "list", <<expr>>),
    closing)

-----------------------------------------------------------------------------
(* Enclosures.                                                             *)

(* The rest of an enclosure: every further element after a comma, which    *)
(* may also stand before the closing bracket.                              *)
RECURSIVE RestOfSequence(_, _, _)

At(p, type) == Is(Head(p.tq), type)
ElementRead(p, closing, exprs) == RestOfSequence(p, closing, Append(exprs, p.out))

BehindComma(p, closing, exprs) ==
  IF At(p, closing) THEN Returning(discard_next_token(p), exprs)
  ELSE ElementRead(parse_expression(p), closing, exprs)

BehindElement(p, closing, exprs) ==
  IF At(p, closing) THEN Returning(discard_next_token(p), exprs)
  ELSE BehindComma(peek_next_token(expect_token_type(p, "comma")), closing, exprs)

RestOfSequence(p, closing, exprs) ==
  IF p.refused THEN p ELSE BehindElement(peek_next_token(p), closing, exprs)

Sequence(p, closing) ==
  Returning(p, IF closing = ")" THEN [tuple |-> p.out] ELSE [list |-> p.out])

(* A single element ends at either bracket, and which one decides whether  *)
(* it is only in parentheses: (x] is a tuple, and [x) is x.                *)
FirstElement(p, closing) ==
  CASE Is(Head(p.tq), ")") -> Returning(discard_next_token(p), [expr |-> p.out])
    [] IsKeyword(Head(p.tq), "for") -> parse_sequence_comprehension(p, p.out, closing)
    [] Is(Head(p.tq), "]") -> Sequence(Returning(discard_next_token(p), <<p.out>>), closing)
    [] OTHER -> Sequence(RestOfSequence(p, closing, <<p.out>>), closing)

Enclosed(p, closing) ==
  IF At(p, closing)
    THEN Sequence(Returning(discard_next_token(p), <<>>), closing)
    ELSE FirstElement(peek_next_token(parse_expression(p)), closing)

parse_sequence_enclosure(p) ==
  Enclosed(peek_next_token(p), IF Is(p.token, "(") THEN ")" ELSE "]")

RECURSIVE RestOfMapping(_, _)

ValueRead(val, key, exprs) == RestOfMapping(val, exprs \o <<key, val.out>>)
KeyRead(key, exprs) ==
  ValueRead(parse_expression(expect_token_type(key, "colon")), key.out, exprs)

BehindPairsComma(p, exprs) ==
  IF At(p, "}") THEN Returning(discard_next_token(p), exprs)
  ELSE KeyRead(parse_expression(p), exprs)

BehindPair(p, exprs) ==
  IF At(p, "}") THEN Returning(discard_next_token(p), exprs)
  ELSE BehindPairsComma(peek_next_token(expect_token_type(p, "comma")), exprs)

RestOfMapping(p, exprs) ==
  IF p.refused THEN p ELSE BehindPair(peek_next_token(p), exprs)

Mapping(p) == Returning(p, [dict |-> p.out])

FirstPair(val, key) ==
  IF Is(Head(val.tq), "keyword") THEN parse_dict_comprehension(val, key, val.out)
  ELSE Mapping(RestOfMapping(val, <<key, val.out>>))

FirstKey(key) ==
  FirstPair(peek_next_token(parse_expression(expect_token_type(key, "colon"))), key.out)

MappingFrom(p) ==
  IF At(p, "}") THEN Returning(discard_next_token(p), [dict |-> <<>>])
  ELSE FirstKey(parse_expression(p))

parse_mapped_enclosure(p) == MappingFrom(peek_next_token(p))

-----------------------------------------------------------------------------
(* Arguments and subscripts.                                               *)

RECURSIVE ArgumentsFrom(_, _)

KeywordArgument(p, args, name) ==
  ArgumentsFrom(p, [args EXCEPT !.values = Append(@, p.out), !.kwds = Append(@, name)])

PositionalArgument(p, args) ==
  ArgumentsFrom(p, [args EXCEPT !.values = Append(@, p.out), !.n_positional = @ + 1])

ArgumentNamed(name, args) ==
  KeywordArgument(parse_expression(discard_next_token(name)), args, name.token.value)

OneArgument(p, args) ==
  IF ~p.refused /\ IsAssignment(p.tq[2])
    THEN ArgumentNamed(expect_token_type(p, "identifier"), args)
    ELSE PositionalArgument(parse_expression(p), args)

BehindArguments(p, args) ==
  CASE p.refused -> p
    [] ~p.refused /\ At(p, ")") -> Returning(discard_next_token(p), args)
    [] OTHER -> OneArgument(peek_forward_n_tokens(
                  IF args.values = <<>> THEN p ELSE expect_token_type(p, "comma"), 1),
                  args)

ArgumentsFrom(p, args) == BehindArguments(peek_next_token(p), args)

Arguments(p) == Returning(p, [args |-> p.out])

parse_arguments(p) ==
  Arguments(ArgumentsFrom(p, [values |-> <<>>, kwds |-> <<>>, n_positional |-> 0]))

SliceOf(start, stop, step) == [slice |-> <<start, stop, step>>]

SliceEnd(step, start, stop) ==
  Answering(expect_token_type(step, "]"), SliceOf(start, stop, step.out))

SliceStep(p, start, stop) ==
  IF At(p, "]")
    THEN Returning(discard_next_token(p), SliceOf(start, stop, NoExpression))
    ELSE SliceEnd(parse_expression(p), start, stop)

BehindStop(p, start, stop) ==
  CASE Is(p.token, "]") -> Returning(p, SliceOf(start, stop, NoExpression))
    [] Is(p.token, "colon") -> SliceStep(peek_next_token(p), start, stop)
    [] OTHER -> Refuse(p)

StopRead(stop, start) == BehindStop(get_next_token(stop), start, stop.out)

SliceStop(p, start) ==
  CASE At(p, "]") ->
         Returning(discard_next_token(p), SliceOf(start, NoExpression, NoExpression))
    [] At(p, "colon") ->
         SliceStep(peek_next_token(discard_next_token(p)), start, NoExpression)
    [] OTHER -> StopRead(parse_expression(p), start)

BehindStart(p, start) ==
  CASE Is(p.token, "]") -> Returning(p, [expr |-> start])
    [] Is(p.token, "colon") -> SliceStop(peek_next_token(p), start)
    [] OTHER -> Refuse(p)

StartRead(start) == BehindStart(get_next_token(start), start.out)

GetitemFrom(p) ==
  CASE Is(Head(p.tq), "]") -> Refuse(p)
    [] Is(Head(p.tq), "colon") ->
         SliceStop(peek_next_token(discard_next_token(p)), NoExpression)
    [] OTHER -> StartRead(parse_expression(p))

parse_getitem_arguments(p) == GetitemFrom(peek_next_token(p))

-----------------------------------------------------------------------------
(* Expressions: pushes until the next token cannot continue one.           *)

IsOperator(item) == "op" \in DOMAIN item
Operator(name) == [op |-> name]

HasOperand(items) == \E i \in DOMAIN items : ~IsOperator(items[i])
EndsInOperator(items) == items = <<>> \/ IsOperator(items[Len(items)])

(* A conditional expression parses both of its further operands itself.    *)
ConditionalRead(other, condition) ==
  Returning(other, <<Operator("if"), [expr |-> condition],
                     Operator("else"), [expr |-> other.out]>>)

ConditionRead(condition) ==
  ConditionalRead(parse_expression(expect_keyword(condition, "else")), condition.out)

ParseConditional(p) == ConditionRead(parse_expression(p))

ParseKeyword(p, rule) ==
  LET word == p.token.value
  IN CASE word = "if" ->
            IF rule = NoConditional THEN Refuse(p) ELSE ParseConditional(p)
       [] word \in {"True", "False"} -> Returning(p, <<[constant |-> word]>>)
       [] word \in {"and", "or", "not", "in", "is"} -> Returning(p, <<Operator(word)>>)
       [] OTHER -> Refuse(p)

NegativeAtStart(p, items) ==
  IF p.token.value = "-" /\ items = <<>>
    THEN Operator("negative") ELSE Operator(p.token.value)

(* A minus with no operand in front of it is the unary one.                *)
OperatorRead(p, items) ==
  IF p.token.value = "-" /\ EndsInOperator(items)
    THEN Operator("negative") ELSE Operator(p.token.value)

(* A bracket is an operand behind an operator, or at the start; else it    *)
(* holds arguments or a subscript.  A keyword is no operator token: behind *)
(* one, a bracket is taken for a call.                                     *)
OpensOperand(p, items) == p.previous.type = "operator" \/ ~HasOperand(items)

Prefixed(name, p) == Returning(p, <<Operator(name), p.out>>)

ParseItem(p, rule, items) ==
  LET token == p.token
      attr == expect_token_type(p, "identifier")
      operand(q) == Returning(q, <<q.out>>)
  IN CASE token.type = "keyword" -> ParseKeyword(p, rule)
       [] token.type = "operator" -> Returning(p, <<OperatorRead(p, items)>>)
       [] token.type \in {"number", "string"} ->
            Returning(p, <<[literal |-> token.value]>>)
       [] token.type = "identifier" -> Returning(p, <<[name |-> token.value]>>)
       [] token.type \in {"(", "["} /\ OpensOperand(p, items) ->
            operand(parse_sequence_enclosure(p))
       [] token.type = "(" /\ ~OpensOperand(p, items) ->
            Prefixed("call", parse_arguments(p))
       [] token.type = "[" /\ ~OpensOperand(p, items) ->
            Prefixed("getitem", parse_getitem_arguments(p))
       [] token.type = "{" -> operand(parse_mapped_enclosure(p))
       [] token.type = "dot" ->
            Returning(attr, <<Operator("getattr"), [name |-> attr.token.value]>>)
       [] OTHER -> Refuse(p)

RECURSIVE ParseItems(_, _, _)

(* What stands behind an operator that ends the expression is refused by   *)
(* the assertion of et_to_expr.                                            *)
BehindItem(p, rule, items) ==
  CASE ~is_end_of_expression(Head(p.tq), rule) -> ParseItems(p, rule, items)
    [] OTHER -> IF EndsInOperator(items) THEN Refuse(p) ELSE Returning(p, items)

ItemRead(p, rule, items) ==
  IF p.refused THEN p
  ELSE BehindItem(peek_next_token(p), rule, items \o p.out)

ParseItems(p, rule, items) ==
  ItemRead(ParseItem(get_next_token(p), rule, items), rule, items)

parse_expression(p) ==
  IF p.refused THEN p ELSE ParseItems(consume_rule(p), p.rule, <<>>)
=============================================================================
