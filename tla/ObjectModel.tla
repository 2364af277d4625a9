---------------------------- MODULE ObjectModel ----------------------------
(***************************************************************************)
(* The methods through which a class takes part in the language            *)
(* (object_model.c), and what the parser asks of their signatures          *)
(* (validate_object_model_signature in lexer.c).  Spelling a name letter   *)
(* by letter is left out: a name is one of the methods or it is not.       *)
(***************************************************************************)
EXTENDS Naturals

Comparisons == {"__lt__", "__le__", "__eq__", "__ne__", "__gt__", "__ge__"}

Binary == {"__add__", "__sub__", "__mul__", "__truediv__", "__floordiv__",
  "__divmod__", "__mod__", "__pow__", "__lshift__", "__rshift__", "__and__",
  "__or__", "__xor__"}

Reflected == {"__radd__", "__rsub__", "__rmul__", "__rtruediv__",
  "__rfloordiv__", "__rmod__", "__rpow__", "__rlshift__", "__rrshift__",
  "__rand__", "__ror__", "__rxor__"}

InPlace == {"__iadd__", "__isub__", "__imul__", "__itruediv__",
  "__ifloordiv__", "__imod__", "__ipow__", "__ilshift__", "__irshift__",
  "__iand__", "__ior__", "__ixor__"}

Unary == {"__neg__", "__abs__", "__invert__", "__int__", "__float__"}

Unimplemented == {"__next__", "__round__", "__trunc__", "__floor__",
  "__ceil__", "__enter__", "__exit__"}

ObjectMethods ==
  {"__bool__", "__init__", "__str__", "__repr__", "__getitem__", "__setitem__",
   "__delitem__", "__iter__", "__len__", "__contains__", "__hash__", "__call__"}
  \cup Comparisons \cup Binary \cup Reflected \cup InPlace \cup Unary
  \cup Unimplemented

NotInObjectModel == "not in the object model"

source_string_to_object_model(name) ==
  IF name \in ObjectMethods THEN name ELSE NotInObjectModel

(* The method of an assignment with an operator.                           *)
AssignmentMethods ==
  {<<"+=", "__iadd__">>, <<"-=", "__isub__">>, <<"*=", "__imul__">>,
   <<"/=", "__itruediv__">>, <<"%=", "__imod__">>, <<"//=", "__ifloordiv__">>,
   <<"**=", "__ipow__">>, <<"&=", "__iand__">>, <<"|=", "__ior__">>,
   <<"^=", "__ixor__">>, <<">>=", "__irshift__">>, <<"<<=", "__ilshift__">>}

op_assignment_to_object_model(op) ==
  IF \E m \in AssignmentMethods : m[1] = op
    THEN (CHOOSE m \in AssignmentMethods : m[1] = op)[2] ELSE NotInObjectModel

-----------------------------------------------------------------------------
(* Signatures: how many parameters a method takes beside self, and what it *)
(* returns.                                                                *)

Conversion(om, params, returns) ==
  CASE om = "__bool__" -> returns = "bool"
    [] om = "__init__" -> returns = "None"
    [] om \in {"__str__", "__repr__"} -> returns = "str" /\ params = 0
    [] om \in {"__len__", "__hash__"} -> returns = "int" /\ params = 0
    [] om = "__iter__" -> returns = "iter" /\ params = 0
    [] om \in {"__getitem__", "__delitem__", "__contains__"} -> params = 1
    [] om = "__setitem__" -> params = 2
    [] om = "__call__" -> TRUE

Comparison(params, returns) == returns = "bool" /\ params = 1

BinaryOperation(params) == params = 1
ReflectedOperation(params) == params = 1
InPlaceOperation(params) == params = 1

UnaryOperation(om, params, returns) ==
  /\ params = 0
  /\ om = "__int__" => returns = "int"
  /\ om = "__float__" => returns = "float"

(* Whether a method with that signature is accepted.                       *)
validate_object_model_signature(om, params, returns) ==
  CASE om \in Comparisons -> Comparison(params, returns)
    [] om \in Binary -> BinaryOperation(params)
    [] om \in Reflected -> ReflectedOperation(params)
    [] om \in InPlace -> InPlaceOperation(params)
    [] om \in Unary -> UnaryOperation(om, params, returns)
    [] om \in Unimplemented -> FALSE
    [] OTHER -> Conversion(om, params, returns)
=============================================================================
