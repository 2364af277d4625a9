------------------------------- MODULE Machine -------------------------------
(***************************************************************************)
(* What the instructions of the compiler do once they are written as C     *)
(* (write_instruction and what it calls in c_writer.c) and run with the    *)
(* runtime (not_python.c): conversions between the types of C, operators   *)
(* of C, and the functions of the library.  A machine state m has the      *)
(* variables, the temporaries, the heap, what was printed, the exception   *)
(* that ended the program and value, the result of the last operation.     *)
(*                                                                         *)
(* The containers are those PythonList and OrderedMap describe; how they   *)
(* are kept in memory is the subject of List and Dict.                     *)
(***************************************************************************)
EXTENDS Rendering, Values

CONSTANT
  Body(_, _, _, _)   \* function, self, arguments, state -> state: what it does

Machine(variables, heap) ==
  [vars |-> variables, temps |-> <<>>, heap |-> heap, printed |-> <<>>, raised |-> "", value |-> NoneValue]

Result(m, v) == [m EXCEPT !.value = v]
Raise(m, exception) == [m EXCEPT !.raised = exception]

Allocate(m, cell, kind) ==
  [m EXCEPT !.heap = Append(@, cell), !.value = [[x \in {kind} |-> 0] EXCEPT ![kind] = Len(m.heap) + 1]]

-----------------------------------------------------------------------------
(* Storing: C converts between numbers, and to bool.                       *)

Converted(info, v) ==
  CASE IsBeyond(v) -> v
    [] info = INT_TYPE /\ IsNumber(v) -> Number(Quarters(v), FALSE)
    [] info = FLOAT_TYPE /\ IsNumber(v) -> Number(Quarters(v), TRUE)
    [] info = BOOL_TYPE /\ IsNumber(v) -> Boolean(Quarters(v) # 0)
    [] info = BOOL_TYPE /\ ~IsNumber(v) -> Boolean("none" \notin DOMAIN v)
    [] OTHER -> v

StoreIn(m, ident, v) ==
  IF ident.kind = "var" THEN [m EXCEPT !.vars = Put(@, ident.name, Converted(ident.info, v))]
  ELSE [m EXCEPT !.temps = Put(@, ident.name, Converted(ident.info, v))]

(* What a call that raises returns, and what a variable starts with.       *)
ZeroOf(info) ==
  CASE info = INT_TYPE -> [int |-> 0] [] info = FLOAT_TYPE -> [float |-> 0]
    [] info = BOOL_TYPE -> Boolean(FALSE) [] info = STRING_TYPE -> [str |-> <<>>]
    [] OTHER -> NoneValue

Read(m, ident) ==
  CASE ident.kind = "var" ->
         IF ident.name \in DOMAIN m.vars THEN m.vars[ident.name] ELSE ZeroOf(ident.info)
    [] ident.kind = "temp" -> m.temps[ident.name]
    [] ident.kind = "literal" -> ident.value
    [] ident.kind = "function" -> [func |-> ident.name, self |-> NoneValue]

-----------------------------------------------------------------------------
(* Operators (write_intrinsic)                                             *)

Truthy(v) == IF IsNumber(v) THEN Quarters(v) # 0 ELSE "none" \notin DOMAIN v

intrinsic(op, l, r) ==
  LET a == Quarters(l)
      b == Quarters(r)
      float == IsFloat(l) \/ IsFloat(r)
  IN CASE IsBeyond(l) \/ IsBeyond(r) -> Beyond
       [] op = "+" -> Number(a + b, float)
       [] op = "-" -> Number(a - b, float)
       [] op = "*" -> Number(TowardZero(a * b, 4), float)
       [] op = "/" -> IF b = 0 THEN Beyond ELSE Number(TowardZero(4 * a, b), TRUE)
       [] op = "//" -> IF b = 0 THEN Beyond ELSE [int |-> TowardZero(a, b)]
       [] op = "%" -> IF b = 0 THEN Beyond ELSE Number(a - b * TowardZero(a, b), FALSE)
       [] op \in {"&", "|", "^", "<<", ">>"} -> Bits(op, l.int, r.int)
       [] op = "and" -> Boolean(Truthy(l) /\ Truthy(r))
       [] op = "or" -> Boolean(Truthy(l) \/ Truthy(r))
       [] op = "not" -> Boolean(~Truthy(r))
       [] op = "neg" -> Number(-b, IsFloat(r))
       [] op = "~" -> [int |-> -r.int - 1]
       [] op = "== of addresses" -> Boolean(FALSE)
       [] OTHER -> IF IsNumber(l) THEN Boolean(Compared(op, a, b))
                   ELSE Boolean((l = r) = (op = "=="))

(* What C compiles: operators on numbers, on integers, on addresses.       *)
Address(info) == info.type \in {"none", "list", "dict", "object", "pointer"}
CNumber(info) == info.type \in {"int", "float", "bool"}
CInteger(info) == info.type \in {"int", "bool"}
Scalar(info) == CNumber(info) \/ Address(info)

OperatorCompiles(op, l, r) ==
  CASE op \in {"+", "-", "*", "/", "//", "<", ">", "<=", ">="} -> CNumber(l) /\ CNumber(r)
    [] op \in {"%", "&", "|", "^", "<<", ">>"} -> CInteger(l) /\ CInteger(r)
    [] op \in {"==", "!="} -> (CNumber(l) /\ CNumber(r)) \/ (Address(l) /\ Address(r))
    [] op = "== of addresses" -> l.type = r.type
    [] op \in {"and", "or"} -> Scalar(l) /\ Scalar(r)
    [] op = "not" -> Scalar(r)
    [] op = "neg" -> CNumber(r)
    [] op = "~" -> CInteger(r)
    [] OTHER -> FALSE

Assignable(to, from) == (CNumber(to) /\ CNumber(from)) \/ compare_types(to, from)

MemberType(info, attr) ==
  CASE info.type = "object" -> ClassMember(info.name, attr)
    [] attr \in {"length", "count"} -> INT_TYPE
    [] attr = "__addr__" -> POINTER_TYPE
    [] attr = "__name__" -> STRING_TYPE
    [] attr = "data" -> CSTR_TYPE

(* The functions for items that not_python.c defines: all of those the     *)
(* compiler names but np_float_sort_fn_rev, which has another name there.  *)
LibraryFunctions ==
  {"np_void_int_eq", "np_void_float_eq", "np_void_bool_eq", "np_void_str_eq",
   "np_int_sort_fn", "np_float_sort_fn", "np_bool_sort_fn", "np_str_sort_fn",
   "np_int_sort_fn_rev", "pyfloat_sort_fn_rev", "np_bool_sort_fn_rev", "np_str_sort_fn_rev"}

NamesOf(ident) ==
  IF ident.kind = "literal" /\ "functions" \in DOMAIN ident.value THEN ident.value.functions ELSE {}

(* What a C compiler and linker take of an operation.                      *)
CCompilesOperation(left, op) ==
  CASE op.kind = "intrinsic" -> OperatorCompiles(op.name, op.args[1].info, op.args[2].info)
    [] op.kind = "copy" -> Assignable(left.info, op.args[1].info)
    [] op.kind = "getattr" -> Assignable(left.info, MemberType(op.args[1].info, op.name))
    [] op.kind = "setattr" -> Assignable(MemberType(op.args[1].info, op.name), op.args[2].info)
    [] op.kind = "call" ->
         LET fn == op.args[1].info
         IN  /\ left # NullHint => Assignable(left.info, Head(fn.inner))
             /\ Len(op.args) = Len(fn.inner)
             /\ \A i \in 2 .. Len(op.args) : Assignable(fn.inner[i], op.args[i].info)
    [] op.kind = "c call" -> \A i \in DOMAIN op.args : NamesOf(op.args[i]) \subseteq LibraryFunctions
    [] OTHER -> TRUE

-----------------------------------------------------------------------------
(* The functions of the library                                            *)

Numeric(op, l, r) ==
  LET a == Quarters(l)
      b == Quarters(r)
  IN CASE op = "fmod" -> IF b = 0 THEN Beyond ELSE Number(a - b * TowardZero(a, b), TRUE)
       [] op = "pow" -> IF b < 0 \/ b % 4 # 0 THEN Beyond ELSE Number(PowerOf(a, b \div 4), TRUE)

(* np_str_eq, np_str_gt, np_str_gte, np_str_lt, np_str_lte: by the first   *)
(* characters that differ, or else by length.                              *)
CompareStrings(op, s, t) ==
  LET common == IF Len(s) < Len(t) THEN Len(s) ELSE Len(t)
      Differ(i) == s[i] # t[i]
      first == CHOOSE i \in 1 .. common : Differ(i) /\ \A j \in 1 .. i - 1 : ~Differ(j)
  IN  IF op = "==" THEN Len(s) = Len(t) /\ \A i \in DOMAIN s : ~Differ(i)
      ELSE IF \E i \in 1 .. common : Differ(i) THEN Compared(op, s[first], t[first])
      ELSE Compared(op, Len(s), Len(t))

StringOperator == [np_str_eq |-> "==", np_str_gt |-> ">", np_str_gte |-> ">=", np_str_lt |-> "<", np_str_lte |-> "<="]

StringFunction(m, fn, args) ==
  CASE fn \in DOMAIN StringOperator ->
         Result(m, Boolean(CompareStrings(StringOperator[fn], args[1].str, args[2].str)))
    [] fn = "np_str_add" -> Result(m, [str |-> args[1].str \o args[2].str])
    [] fn = "np_str_mul" ->
         Result(m, IF args[2].int < 0 THEN Beyond ELSE [str |-> Repeated(args[1].str, args[2].int)])
    [] fn \in {"np_int_to_str", "np_float_to_str", "np_bool_to_str"} ->
         Result(m, [str |-> TextOf(args[1])])
    [] fn = "np_str_to_cstr" -> Result(m, args[1])
    [] fn = "np_str_fmt" -> Result(m, [str |-> FlattenSeq([i \in 1 .. Len(args) - 1 |-> args[i + 1].str])])
    [] fn = "builtin_print" ->
         Result([m EXCEPT !.printed = Append(@, [i \in DOMAIN args |-> args[i].str])], NoneValue)

Items(m, v) == m.heap[v.list].list
Become(m, v, items) == Result([m EXCEPT !.heap[v.list].list = items], NoneValue)
NewList(m, items, functions) == Allocate(m, [list |-> items, functions |-> functions], "list")

(* np_int_sort_fn and the like.                                            *)
Before(v, w) ==
  IF IsNumber(v) THEN Compared("<", Quarters(v), Quarters(w)) ELSE CompareStrings("<", v.str, w.str)

Ordered(items, reverse) ==
  SortSeq(items, LAMBDA v, w : IF reverse THEN Before(w, v) ELSE Before(v, w))

(* An item is searched and items are sorted with functions the list was    *)
(* made with.  A copy or a sum has none; without them sort raises, and a   *)
(* search calls NULL.                                                      *)
SearchList(m, fn, v, item) ==
  LET places == Occurrences(Items(m, v), item)
  IN CASE ~m.heap[v.list].functions /\ Items(m, v) # <<>> -> Result(m, Beyond)
       [] fn = "np_list_count" -> Result(m, [int |-> Len(places)])
       [] places = <<>> -> Raise(m, "ValueError")
       [] fn = "np_list_index" -> Result(m, [int |-> Last(places) - 1])
       [] fn = "np_list_remove" -> Become(m, v, RemoveAt(Items(m, v), Last(places)))

WholeList(m, fn, args) ==
  LET cell == m.heap[args[1].list]
  IN CASE fn = "np_list_append" -> Become(m, args[1], Append(cell.list, args[2]))
       [] fn = "np_list_clear" -> Become(m, args[1], <<>>)
       [] fn = "np_list_extend" -> Become(m, args[1], cell.list \o Items(m, args[2]))
       [] fn = "np_list_reverse" -> Become(m, args[1], Reverse(cell.list))
       [] fn = "np_list_sort" ->
            IF cell.functions THEN Become(m, args[1], Ordered(cell.list, Truthy(args[2])))
            ELSE Raise(m, "ValueError")
       [] fn = "np_list_copy" -> NewList(m, cell.list, FALSE)
       [] fn = "np_list_add" -> NewList(m, cell.list \o Items(m, args[2]), FALSE)
       [] fn = "np_list_mult" ->
            IF args[2].int < 0 THEN Result(m, Beyond)
            ELSE NewList(m, Repeated(cell.list, args[2].int), cell.functions)

(* At an index, which is checked first.  What is read goes where the last  *)
(* argument says.                                                          *)
ListAt(m, fn, args, out) ==
  LET items == Items(m, args[1])
      i == At(items, args[2].int)
  IN CASE i \notin DOMAIN items -> Raise(m, "IndexError")
       [] i \in DOMAIN items /\ fn = "np_list_get_item" -> StoreIn(m, out, items[i])
       [] i \in DOMAIN items /\ fn = "np_list_set_item" ->
            Become(m, args[1], [items EXCEPT ![i] = args[3]])
       [] i \in DOMAIN items /\ fn = "np_list_insert" -> Become(m, args[1], InsertAt(items, i, args[3]))
       [] i \in DOMAIN items /\ fn = "np_list_pop" ->
            StoreIn(Become(m, args[1], RemoveAt(items, i)), out, items[i])

IteratorOf == [np_dict_iter_keys |-> "keys", np_dict_iter_vals |-> "values", np_dict_iter_items |-> "items"]

DictFunction(m, fn, args, out) ==
  LET pairs == m.heap[args[1].dict].dict
      Change(new) == Result([m EXCEPT !.heap[args[1].dict].dict = new], NoneValue)
      i == PlaceOf(pairs, args[2])
  IN CASE fn = "np_dict_clear" -> Change(<<>>)
       [] fn = "np_dict_copy" -> Allocate(m, [dict |-> pairs], "dict")
       [] fn = "np_dict_update" -> Change(Updated(pairs, m.heap[args[2].dict].dict))
       [] fn = "np_dict_set_item" -> Change(Entered(pairs, args[2], args[3]))
       [] fn \in DOMAIN IteratorOf ->
            Result(m, [iter |-> [dict |-> args[1].dict, yields |-> IteratorOf[fn]]])
       [] fn \in {"np_dict_get_val", "np_dict_pop_val"} /\ ~HasKey(pairs, args[2]) -> Raise(m, "KeyError")
       [] fn = "np_dict_get_val" /\ HasKey(pairs, args[2]) -> StoreIn(m, out, pairs[i][2])
       [] fn = "np_dict_pop_val" /\ HasKey(pairs, args[2]) ->
            StoreIn(Change(RemoveAt(pairs, i)), out, pairs[i][2])

AtIndex == {"np_list_get_item", "np_list_set_item", "np_list_insert", "np_list_pop"}
Writing == {"np_list_get_item", "np_list_pop", "np_dict_get_val", "np_dict_pop_val"}
Searching == {"np_list_count", "np_list_index", "np_list_remove"}

SomeBeyond(args) == \E i \in DOMAIN args : IsBeyond(args[i])

CallLibrary(m, fn, idents) ==
  LET last == idents[Len(idents)]
      args == [i \in 1 .. IF fn \in Writing THEN Len(idents) - 1 ELSE Len(idents) |-> Read(m, idents[i])]
  IN CASE SomeBeyond(args) -> Result(m, Beyond)
       [] fn \in {"pow", "fmod"} -> Result(m, Numeric(fn, args[1], args[2]))
       [] fn = "np_alloc" ->
            LET cls == args[1].class
            IN  Allocate(m, [class |-> cls, fields |-> [a \in Range(Classes[cls].params) |-> Beyond]], "obj")
       [] fn = "np_list_init" -> NewList(m, <<>>, args[1].functions # {})
       [] fn = "np_dict_init" -> Allocate(m, [dict |-> <<>>], "dict")
       [] fn \in AtIndex -> ListAt(m, fn, args, last)
       [] fn \in Searching -> SearchList(m, fn, args[1], args[2])
       [] "list" \in DOMAIN args[1] /\ fn \notin AtIndex \cup Searching -> WholeList(m, fn, args)
       [] "dict" \in DOMAIN args[1] -> DictFunction(m, fn, args, last)
       [] OTHER -> StringFunction(m, fn, args)

-----------------------------------------------------------------------------
(* Instructions                                                            *)

GetMember(m, v, attr) ==
  CASE "obj" \in DOMAIN v -> m.heap[v.obj].fields[attr]
    [] attr = "length" -> [int |-> Len(v.str)]
    [] attr = "count" -> [int |-> IF "list" \in DOMAIN v THEN Len(m.heap[v.list].list)
                                  ELSE Len(m.heap[v.dict].dict)]
    [] attr = "__addr__" -> [address |-> v.func]
    [] attr = "__name__" -> [name |-> v.func]
    [] attr = "data" -> v

CallFunction(m, fn, args) ==
  IF SomeBeyond(args) THEN Result(m, Beyond) ELSE Body(fn.func, fn.self, args, m)

Run(m, op) ==
  LET V(i) == Read(m, op.args[i])
  IN CASE op.kind = "intrinsic" ->
            Result(m, intrinsic(op.name, IF op.args[1] = NullHint THEN NoneValue ELSE V(1), V(2)))
       [] op.kind = "copy" -> Result(m, V(1))
       [] op.kind = "getattr" -> Result(m, GetMember(m, V(1), op.name))
       [] op.kind = "setattr" ->
            [m EXCEPT !.heap[V(1).obj].fields[op.name] =
               Converted(MemberType(op.args[1].info, op.name), V(2))]
       [] op.kind = "bind" -> StoreIn(m, op.args[1], [V(1) EXCEPT !.self = V(2)])
       [] op.kind = "call" ->
            CallFunction(m, V(1), [i \in 1 .. Len(op.args) - 1 |->
                                     Converted(op.args[1].info.inner[i + 1], V(i + 1))])
       [] op.kind = "c call" -> CallLibrary(m, op.name, op.args)

(* The result of a call is stored before the exception is looked at.       *)
Stored(r, ident) == StoreIn(r, ident, IF r.raised # "" THEN ZeroOf(ident.info) ELSE r.value)

write_instruction(m, inst) ==
  CASE inst.inst = "declare" -> m
    [] inst.inst = "operation" -> Run(m, inst.right)
    [] inst.inst = "assign" -> Stored(Run(m, inst.right), inst.left)
=============================================================================
