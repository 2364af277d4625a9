-------------------------------- MODULE Types --------------------------------
(***************************************************************************)
(* The types of the language (TypeInfo) and the type checker               *)
(* (type_checker.c): which operations there are on which types and what    *)
(* they result in.  An operation there is not, and one the checker does    *)
(* not implement, results in UNTYPED: the compiler reports it and exits.   *)
(*                                                                         *)
(* InnerIgnored is a deviation.                                            *)
(***************************************************************************)
EXTENDS ObjectModel, Sequences

CONSTANTS
  Functions,  \* name -> [params, types, defaults, returns], methods among them
  Classes     \* name -> [params, types, defaults, methods]

-----------------------------------------------------------------------------
(* Types: inner holds the types of the contents of a container, or what a  *)
(* function returns and then takes; name is the class of an object, and    *)
(* the definition a function type comes from.                              *)

Type(t) == [type |-> t, inner |-> <<>>, name |-> ""]

UNTYPED == Type("untyped")
NONE_TYPE == Type("none")
INT_TYPE == Type("int")
FLOAT_TYPE == Type("float")
BOOL_TYPE == Type("bool")
STRING_TYPE == Type("str")
POINTER_TYPE == Type("pointer")
CSTR_TYPE == Type("cstr")

ListType(t) == [Type("list") EXCEPT !.inner = <<t>>]
DictType(k, v) == [Type("dict") EXCEPT !.inner = <<k, v>>]
ObjectType(cls) == [Type("object") EXCEPT !.name = cls]
IterType(t) == [Type("iter") EXCEPT !.inner = <<t>>]
DictItemsType(dict) == [Type("dict items") EXCEPT !.inner = dict.inner]
FunctionType(f) ==
  [type |-> "function", inner |-> <<Functions[f].returns>> \o Functions[f].types, name |-> f]

Content(container) == container.inner[1]
Value(dict) == dict.inner[2]

InnerIgnored(a, b) == a.type = b.type

(* Two objects are of one type if their classes have one name; what an     *)
(* iterator yields is not compared.                                        *)
RECURSIVE compare_types(_, _)
compare_types(a, b) ==
  /\ a.type = b.type
  /\ a.type \in {"list", "tuple", "dict", "function"} =>
       /\ Len(a.inner) = Len(b.inner)
       /\ \A i \in DOMAIN a.inner : compare_types(a.inner[i], b.inner[i])
  /\ a.type = "object" => a.name = b.name

(* A value of the source or of a running program has one field, which      *)
(* names its kind.                                                         *)
resolve_literal_type(value) ==
  CASE "str" \in DOMAIN value -> STRING_TYPE
    [] "int" \in DOMAIN value -> INT_TYPE
    [] "float" \in DOMAIN value -> FLOAT_TYPE
    [] "bool" \in DOMAIN value -> BOOL_TYPE
    [] "none" \in DOMAIN value -> NONE_TYPE
    [] OTHER -> UNTYPED

-----------------------------------------------------------------------------
(* OPERATION_TYPE_RESOLUTION_TABLE                                         *)

Numbers == {"int", "float"}

Ordering == {"<", ">", "<=", ">="}
Equality == {"==", "!="}

Mixed(l, r) == IF l = "int" /\ r = "int" THEN INT_TYPE ELSE FLOAT_TYPE

ArithmeticType(op, l, r) ==
  CASE l \in Numbers /\ r \in Numbers -> IF op = "/" THEN FLOAT_TYPE ELSE Mixed(l, r)
    [] op = "+" /\ l = "str" /\ r = "str" -> STRING_TYPE
    [] op = "*" /\ {l, r} = {"int", "str"} -> STRING_TYPE
    [] OTHER -> UNTYPED

ComparisonType(op, l, r) ==
  CASE l \in Numbers /\ r \in Numbers -> BOOL_TYPE
    [] l = "str" /\ r = "str" -> BOOL_TYPE
    [] op \in Equality /\ l \in Numbers \cup {"bool"} /\ r \in Numbers \cup {"bool"} -> BOOL_TYPE
    [] OTHER -> UNTYPED

BitwiseType(l, r) == IF l = "int" /\ r = "int" THEN INT_TYPE ELSE UNTYPED

TableType(op, l, r) ==
  CASE op \in {"+", "-", "*", "/", "%", "**", "//"} -> ArithmeticType(op, l, r)
    [] op \in Ordering \cup Equality -> ComparisonType(op, l, r)
    [] op \in {"&", "|", "^", "<<", ">>"} -> BitwiseType(l, r)

-----------------------------------------------------------------------------
(* Operations with rules of their own.                                     *)

resolve_membership(left, right) ==
  CASE right.type = "str" -> IF left.type = "str" THEN BOOL_TYPE ELSE UNTYPED
    [] right.type \in {"list", "dict"} ->
         IF compare_types(left, Content(right)) THEN BOOL_TYPE ELSE UNTYPED
    [] OTHER -> UNTYPED

resolve_identity(left, right) == IF compare_types(left, right) THEN BOOL_TYPE ELSE UNTYPED

resolve_negative(right) == IF right.type \in Numbers THEN right ELSE UNTYPED

resolve_bitwise_not(right) == IF right.type = "int" THEN right ELSE UNTYPED

resolve_get_item(left, right) ==
  CASE left.type = "list" -> IF right.type = "int" THEN Content(left) ELSE UNTYPED
    [] left.type = "dict" ->
         IF compare_types(Content(left), right) THEN Value(left) ELSE UNTYPED
    [] OTHER -> UNTYPED

resolve_list_ops(list, other, op) ==
  CASE op = "+" -> IF compare_types(list, other) THEN list ELSE UNTYPED
    [] op = "*" -> IF other.type = "int" THEN list ELSE UNTYPED
    [] op \in Equality -> IF compare_types(list, other) THEN BOOL_TYPE ELSE UNTYPED
    [] OTHER -> UNTYPED

Special(left, right, op) ==
  CASE op = "in" -> resolve_membership(left, right)
    [] op = "is" -> resolve_identity(left, right)
    [] op = "neg" -> resolve_negative(right)
    [] op = "~" -> resolve_bitwise_not(right)
    [] op \in {"and", "or", "not"} -> BOOL_TYPE
    [] op = "getitem" -> resolve_get_item(left, right)

SpecialOperators == {"in", "is", "neg", "~", "and", "or", "not", "getitem"}
UnaryOperators == {"neg", "~", "not"}

(* Objects never come here: their operations are calls of methods.         *)
resolve_operation_type(left, right, op) ==
  CASE op \in SpecialOperators -> Special(left, right, op)
    [] op \notin SpecialOperators /\ UNTYPED \in {left, right} -> UNTYPED
    [] op \notin SpecialOperators /\ left.type = "list" -> resolve_list_ops(left, right, op)
    [] op \notin SpecialOperators /\ left.type # "list" /\ right.type = "list" ->
         IF left.type = "dict" THEN UNTYPED ELSE resolve_list_ops(right, left, op)
    [] OTHER ->
         IF "dict" \in {left.type, right.type} THEN UNTYPED
         ELSE TableType(op, left.type, right.type)

-----------------------------------------------------------------------------
(* The methods of operators                                                *)

OP_TO_OM ==
  [op \in {"+", "-", "*", "/", "%", "**", "//", "==", "!=", ">", "<", ">=", "<=", "&", "|",
           "^", "<<", ">>", "getitem", "neg", "~"} |->
     CASE op = "+" -> "__add__" [] op = "-" -> "__sub__" [] op = "*" -> "__mul__"
       [] op = "/" -> "__truediv__" [] op = "%" -> "__mod__" [] op = "**" -> "__pow__"
       [] op = "//" -> "__floordiv__" [] op = "==" -> "__eq__" [] op = "!=" -> "__ne__"
       [] op = ">" -> "__gt__" [] op = "<" -> "__lt__" [] op = ">=" -> "__ge__"
       [] op = "<=" -> "__le__" [] op = "&" -> "__and__" [] op = "|" -> "__or__"
       [] op = "^" -> "__xor__" [] op = "<<" -> "__lshift__" [] op = ">>" -> "__rshift__"
       [] op = "getitem" -> "__getitem__" [] op = "neg" -> "__neg__" [] op = "~" -> "__invert__"]

OP_TO_ROM ==
  [op \in {"+", "-", "*", "/", "%", "**", "//", "&", "|", "^", "<<", ">>"} |->
     CASE op = "+" -> "__radd__" [] op = "-" -> "__rsub__" [] op = "*" -> "__rmul__"
       [] op = "/" -> "__rtruediv__" [] op = "%" -> "__rmod__" [] op = "**" -> "__rpow__"
       [] op = "//" -> "__rfloordiv__" [] op = "&" -> "__rand__" [] op = "|" -> "__ror__"
       [] op = "^" -> "__rxor__" [] op = "<<" -> "__rlshift__" [] op = ">>" -> "__rrshift__"]

OP_ASSIGNMENT_TO_OP_TABLE ==
  [op \in {"+=", "-=", "*=", "/=", "%=", "//=", "**=", "&=", "|=", "^=", ">>=", "<<="} |->
     CASE op = "+=" -> "+" [] op = "-=" -> "-" [] op = "*=" -> "*" [] op = "/=" -> "/"
       [] op = "%=" -> "%" [] op = "//=" -> "//" [] op = "**=" -> "**" [] op = "&=" -> "&"
       [] op = "|=" -> "|" [] op = "^=" -> "^" [] op = ">>=" -> ">>" [] op = "<<=" -> "<<"]

(* Whether type t is a class with the method table gives op, for one       *)
(* argument of type other.                                                 *)
Takes(t, table, op, other) ==
  /\ t.type = "object" /\ op \in DOMAIN table
  /\ table[op] \in DOMAIN Classes[t.name].methods
  /\ LET f == Classes[t.name].methods[table[op]]
     IN  compare_types(Functions[f].types[1], other)

(* The method that performs op, and whether it is the right operand's.     *)
(* With a unary operator the operand is on the right, and not looked at.   *)
find_object_op_function(left, right, op) ==
  CASE op \notin UnaryOperators /\ Takes(left, OP_TO_OM, op, right) ->
         [found |-> Classes[left.name].methods[OP_TO_OM[op]], is_rop |-> FALSE]
    [] op \notin UnaryOperators /\ ~Takes(left, OP_TO_OM, op, right)
         /\ Takes(right, OP_TO_ROM, op, left) ->
         [found |-> Classes[right.name].methods[OP_TO_ROM[op]], is_rop |-> TRUE]
    [] OTHER -> [found |-> "", is_rop |-> TRUE]
=============================================================================
