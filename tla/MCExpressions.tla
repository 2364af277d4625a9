---------------------------- MODULE MCExpressions ----------------------------
(***************************************************************************)
(* Small expressions for Expressions: every way to join up to five         *)
(* operands a, b, c ... by operators of different precedence, with unary   *)
(* operators and method calls among up to three.                           *)
(***************************************************************************)
EXTENDS Expressions

Names == <<"a", "b", "c", "d", "e">>
Operand(n) == [type |-> "operand", name |-> n]
Operator(o) == [type |-> "operator", name |-> o]

(* A unit is an operand with the unary operators in front of it, or a      *)
(* method call on a list.                                                  *)
Plain(k) == <<Operand(Names[k])>>
Prefixed(u, k) == <<Operator(u)>> \o Plain(k)
Method == <<Operand("xs"), Operator("getattr"), Operand("pop"), Operator("call"), Operand("args")>>

Joined(units, ops) ==
  units[1] \o FlattenSeq([k \in DOMAIN ops |-> <<Operator(ops[k])>> \o units[k + 1]])

Binary == {"or", "equal", "minus", "mult", "pow", "call"}
ComparesOnce(ops) == Cardinality({k \in DOMAIN ops : ops[k] = "equal"}) <= 1
Operators(n) == {ops \in [1 .. n -> Binary] : ComparesOnce(ops)}

PlainOnes(n) == {Joined([k \in 1 .. n + 1 |-> Plain(k)], ops) : ops \in Operators(n)}

(* One operand carries a unary operator, which no call can have on its     *)
(* left and only a logical operator can have on its left if it is "not".   *)
UnaryOnes(n) ==
  UNION {{Joined([k \in 1 .. n + 1 |-> IF k = at THEN Prefixed(u, k) ELSE Plain(k)], ops) :
            ops \in {ops \in Operators(n) :
                       at > 1 => IF u = "not" THEN ops[at - 1] = "or"
                                 ELSE ops[at - 1] # "call"}} :
         at \in 1 .. n + 1, u \in {"minus", "bitnot", "not"}}

MethodOnes(n) ==
  UNION {{Joined([k \in 1 .. n + 1 |-> IF k = at THEN Method ELSE Plain(k)], ops) :
            ops \in {ops \in Operators(n) : \A k \in DOMAIN ops : ops[k] # "call"}} :
         at \in 1 .. n + 1}

Odd ==
  {Prefixed("minus", 1) \o <<Operator("mult")>>,
   <<Operator("bitnot")>> \o Prefixed("minus", 1),
   <<Operator("not")>> \o Prefixed("not", 1),
   <<Operand("xs"), Operator("getattr"), Operand("pop")>>,
   <<Operand("xs"), Operator("getattr"), Operand("pop"), Operator("getitem"), Operand("args")>>}

MCSources ==
  UNION {PlainOnes(n) : n \in 0 .. 4} \cup UNION {UnaryOnes(n) : n \in 0 .. 2}
    \cup UNION {MethodOnes(n) : n \in 0 .. 2} \cup Odd

(* Those that do not end on an operator are expressions of Python's.       *)
ASSUME SourcesGrammatical ==
  \A ts \in MCSources : IsOperand(ts, Len(ts)) => Grammatical(ts)

(* Three operators and no unary one, for the run that loses an operand. *)
FourOperands == PlainOnes(3)

MCContainers == {"xs"}
=============================================================================
