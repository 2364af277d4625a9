----------------------------- MODULE Expressions -----------------------------
(***************************************************************************)
(* What Python means by an expression, as the tree its grammar gives it,   *)
(* and what module ExpressionTable makes of it.                            *)
(***************************************************************************)
EXTENDS ExpressionTable

-----------------------------------------------------------------------------
(* The tokens of an expression.                                            *)

IsOperand(ts, k) == ts[k].type = "operand"
IsOperator(ts, k) == ts[k].type = "operator"

(* An operator with no operand right before it is a prefix operator.       *)
PrefixAt(ts, k) == IsOperator(ts, k) /\ (k = 1 \/ IsOperator(ts, k - 1))
InfixAt(ts, k) == IsOperator(ts, k) /\ ~PrefixAt(ts, k)

PrefixOf(name) == IF name = "minus" THEN "negative" ELSE name
OperatorAt(ts, k) == IF PrefixAt(ts, k) THEN PrefixOf(ts[k].name) ELSE ts[k].name
Binding(ts, k) == Precedence[OperatorAt(ts, k)]

Arithmetic == {"negative", "bitnot"}

(* A prefix operator follows an operator that binds looser, another prefix *)
(* operator, or pow, which takes a factor on its right.                    *)
MayFollow(ts, k) ==
  \/ Binding(ts, k - 1) < Binding(ts, k)
  \/ PrefixAt(ts, k - 1) /\ Binding(ts, k - 1) = Binding(ts, k)
  \/ OperatorAt(ts, k - 1) = "pow" /\ OperatorAt(ts, k) \in Arithmetic

(* Python chains comparisons: a < b < c is no tree of binary operators.    *)
Chained(ts) ==
  \E k, l \in DOMAIN ts :
    /\ k < l
    /\ \A m \in {k, l} : InfixAt(ts, m) /\ Binding(ts, m) = Precedence["equal"]
    /\ \A m \in k .. l : IsOperator(ts, m) => Binding(ts, m) >= Precedence["equal"]

(* The expressions of Python's grammar that are trees of operators.        *)
Grammatical(ts) ==
  /\ ts # <<>>
  /\ IsOperand(ts, Len(ts))
  /\ \A k \in 1 .. Len(ts) - 1 : IsOperand(ts, k) => IsOperator(ts, k + 1)
  /\ \A k \in DOMAIN ts :
       /\ PrefixAt(ts, k) => OperatorAt(ts, k) \in Unary /\ (k > 1 => MayFollow(ts, k))
       /\ InfixAt(ts, k) => OperatorAt(ts, k) \notin Unary
  /\ ~Chained(ts)

-----------------------------------------------------------------------------
(* The tree of an expression: the operator that is applied last is its     *)
(* root, with the trees of the parts to its left and to its right.         *)

(* The parts of the tokens that can be expressions, by their ends.         *)
Parts(ts) ==
  {part \in (1 .. Len(ts)) \X (1 .. Len(ts)) :
     /\ part[1] <= part[2]
     /\ IsOperand(ts, part[1]) \/ PrefixAt(ts, part[1])
     /\ IsOperand(ts, part[2])}

(* A prefix operator applies to what stands after it, so it can be applied *)
(* last only in front of everything.                                       *)
Candidates(ts, i, j) == {k \in i .. j : InfixAt(ts, k) \/ (k = i /\ PrefixAt(ts, k))}

(* The operator that binds looser is applied after the other; of two that  *)
(* bind alike the one on the right is, and for pow the one on the left.    *)
AppliedAfter(ts, k, l) ==
  \/ Binding(ts, k) < Binding(ts, l)
  \/ Binding(ts, k) = Binding(ts, l) /\ (IF OperatorAt(ts, k) = "pow" THEN k < l ELSE k > l)

Root(ts, i, j) ==
  CHOOSE k \in Candidates(ts, i, j) :
    \A l \in Candidates(ts, i, j) \ {k} : AppliedAfter(ts, k, l)

TreeFrom(tree, ts, i, j) ==
  LET root == Root(ts, i, j)
  IN IF i = j THEN Leaf(ts[i].name)
     ELSE Node(OperatorAt(ts, root),
               IF root = i THEN <<tree[<<i + 1, j>>]>>
               ELSE <<tree[<<i, root - 1>>], tree[<<root + 1, j>>]>>)

Trees(ts) ==
  LET tree[part \in Parts(ts)] == TreeFrom(tree, ts, part[1], part[2]) IN tree

PythonTree(ts) == Trees(ts)[<<1, Len(ts)>>]

-----------------------------------------------------------------------------
(* The expressions whose values the record keeps: every operation finds    *)
(* its operands right beside it, each an operand of the source or an       *)
(* operation applied to the operand beside.                                *)

(* The operand a tree begins or ends with is its root's own. *)
BeginsAtRoot(tree) ==
  tree.args = <<>> \/ tree.op \in Unary \/ tree.args[1].args = <<>>
EndsAtRoot(tree) ==
  tree.args = <<>> \/ tree.args[Len(tree.args)].args = <<>>

AdjoinsArguments(tree) ==
  /\ Len(tree.args) = 2 =>
       /\ EndsAtRoot(tree.args[1])
       /\ BeginsAtRoot(tree.args[2])
       /\ tree.op = "pow" => tree.args[2].op \notin Arithmetic
  /\ Len(tree.args) = 1 =>
       /\ BeginsAtRoot(tree.args[1])
       /\ tree.op \in Arithmetic => tree.args[1].op \notin Arithmetic

AdjoinsFrom(adjoins, ts, i, j) ==
  LET root == Root(ts, i, j)
  IN i # j =>
       /\ AdjoinsArguments(Trees(ts)[<<i, j>>])
       /\ root # i => adjoins[<<i, root - 1>>]
       /\ adjoins[<<root + 1, j>>]

AdjoiningParts(ts) ==
  LET adjoins[part \in Parts(ts)] == AdjoinsFrom(adjoins, ts, part[1], part[2]) IN adjoins

Adjoining(ts) == AdjoiningParts(ts)[<<1, Len(ts)>>]

(* A method of a list or dict is called where it is named. *)
MethodsCalled(ts) ==
  \A k \in 2 .. Len(ts) :
    (InfixAt(ts, k) /\ ts[k].name = "getattr" /\ ts[k - 1].name \in Containers) =>
      k + 2 <= Len(ts) /\ IsOperator(ts, k + 2) /\ ts[k + 2].name = "call"

-----------------------------------------------------------------------------

(* Sorting by precedence and looking operands up by index computes what    *)
(* Python computes, for every expression in which operations stand beside  *)
(* their operands: precedence, associativity and unary operators included. *)
AdjoiningIsRight ==
  (phase = "done" /\ Grammatical(source) /\ Adjoining(source) /\ MethodsCalled(source)) =>
    result = PythonTree(source)

(* The compiler accepts the syntax of Python: an expression computes what  *)
(* Python says it does.                                                    *)
AlwaysRight == phase = "done" => result = PythonTree(source)
=============================================================================
