-------------------------------- MODULE Trees --------------------------------
(***************************************************************************)
(* Programs as trees, and the Expression the parser makes of a tree: the   *)
(* operands in the order of the source and the operations sorted by        *)
(* precedence (et_to_expr).  An operand is a token, an enclosure, the      *)
(* arguments of a call or an expression of its own.  That parsing yields   *)
(* this from the text is the subject of ExpressionTable and Parser.        *)
(***************************************************************************)
EXTENDS Integers, Sequences, SequencesExt

-----------------------------------------------------------------------------
(* Trees *)

Name(x) == [name |-> x]
Lit(value) == [lit |-> value]
Lst(items) == [list |-> items]
Dct(pairs) == [dict |-> pairs]          \* key, value, key, value, ...
Apply(op, args) == [op |-> op, args |-> args]
Attr(of, name) == [attr |-> name, of |-> of]
CallWith(of, values, kwds) == [call |-> of, values |-> values, kwds |-> kwds]
Call(of, values) == CallWith(of, values, <<>>)
Item(of, key) == Apply("getitem", <<of, key>>)

Assign(target, op, value) == [target |-> target, op |-> op, value |-> value]
Annotate(name, initial) == [annotated |-> name, initial |-> initial]
Do(expr) == [expr |-> expr]

IntOf(n) == Lit([int |-> n])
True == Lit([bool |-> TRUE])

-----------------------------------------------------------------------------
(* PRECEDENCE_TABLE *)
Precedence(op) ==
  CASE op \in {"getattr", "call", "getitem"} -> 16
    [] op = "**" -> 14
    [] op \in {"neg", "~"} -> 13
    [] op \in {"*", "/", "%", "//"} -> 12
    [] op \in {"+", "-"} -> 11
    [] op \in {"<<", ">>"} -> 10
    [] op = "&" -> 9
    [] op = "^" -> 8
    [] op = "|" -> 7
    [] op \in {"==", "!=", "<", ">", "<=", ">=", "in", "is"} -> 6
    [] op = "not" -> 5
    [] op = "and" -> 4
    [] op = "or" -> 3

IsUnary(op) == op \in {"neg", "~", "not"}

RootOf(tree) ==
  CASE "op" \in DOMAIN tree -> tree.op
    [] "attr" \in DOMAIN tree -> "getattr"
    [] "call" \in DOMAIN tree -> "call"
    [] OTHER -> ""

Operation(op, left) == [op |-> op, left |-> left, right |-> left + 1]
Behind(operations, n) ==
  [i \in DOMAIN operations |-> Operation(operations[i].op, operations[i].left + n)]

Joined(l, op, r) ==
  [operands |-> l.operands \o r.operands,
   operations |-> l.operations \o <<Operation(op, Len(l.operands))>>
                  \o Behind(r.operations, Len(l.operands))]

Nothing == [operands |-> <<>>, operations |-> <<>>]
Single(operand) == [operands |-> <<operand>>, operations |-> <<>>]

(* Highest precedence first, and in the order of the source but for pow.   *)
Sorted(expr) ==
  LET Of(k) == SelectSeq(expr.operations, LAMBDA o : Precedence(o.op) = 17 - k)
  IN  [expr EXCEPT !.operations =
         FlattenSeq([k \in 1 .. 16 |-> IF 17 - k = Precedence("**") THEN Reverse(Of(k)) ELSE Of(k)])]

RECURSIVE Flat(_), Spread(_), Beside(_, _)

(* The expression of a tree.                                               *)
Flat(tree) == Sorted(Spread(tree))

(* A child of an operation that binds tighter is in parentheses, and so is *)
(* one that binds as tight on the side precedence does not lean to.        *)
Beside(child, binds) ==
  IF RootOf(child) # "" /\ Precedence(RootOf(child)) < binds
  THEN Single([expr |-> Flat(child)]) ELSE Spread(child)

Spread(tree) ==
  LET root == RootOf(tree)
      binds == Precedence(root)
      Left(t) == Beside(t, IF root = "**" THEN binds + 1 ELSE binds)
      Right(t) == Beside(t, IF root = "**" \/ IsUnary(root) THEN binds ELSE binds + 1)
      All(trees) == [i \in DOMAIN trees |-> Flat(trees[i])]
  IN CASE root = "getattr" -> Joined(Left(tree.of), root, Single([name |-> tree.attr]))
       [] root = "call" ->
            Joined(Left(tree.call), root,
                   Single([values |-> All(tree.values), kwds |-> tree.kwds]))
       [] root = "getitem" ->
            Joined(Left(tree.args[1]), root, Single([expr |-> Flat(tree.args[2])]))
       [] root # "" /\ IsUnary(root) -> Joined(Nothing, root, Right(tree.args[1]))
       [] root \notin {"", "getattr", "call", "getitem"} /\ ~IsUnary(root) ->
            Joined(Left(tree.args[1]), root, Right(tree.args[2]))
       [] root = "" /\ "list" \in DOMAIN tree -> Single([list |-> All(tree.list)])
       [] root = "" /\ "dict" \in DOMAIN tree -> Single([dict |-> All(tree.dict)])
       [] OTHER -> Single(tree)
=============================================================================
