------------------------------ MODULE Rendering ------------------------------
(***************************************************************************)
(* From statements to instructions (compiler.c): what the compiler writes  *)
(* for every kind of operand, operation, builtin, call and assignment.     *)
(*                                                                         *)
(* A compiler state c has the types of the variables, the instructions,    *)
(* the number of temporaries taken, whether an error ended compilation,    *)
(* and out, the identifier or the sequence of them the last call returns.  *)
(* Errors, assertions and what is not implemented end compilation alike.   *)
(* The location of an error and the flags of library functions are left    *)
(* out, and so is that arguments are passed by reference: each function    *)
(* of the library takes them in one way.                                   *)
(*                                                                         *)
(* LeftUnchecked and UpdatedAhead are deviations.                          *)
(***************************************************************************)
EXTENDS Types, Trees

-----------------------------------------------------------------------------
(* Identifiers.  A hint that names nothing asks for a new temporary.       *)

Ident(kind, name, info) == [kind |-> kind, name |-> name, value |-> <<>>, info |-> info]
Literal(value, info) == [Ident("literal", "", info) EXCEPT !.value = value]
Hint(info) == Ident("null", "", info)
NullHint == Hint(UNTYPED)
FunctionIdent(f) == Ident("function", f, FunctionType(f))
Variable(c, x) == Ident("var", x, c.types[x])
IntLiteral(n) == Literal([int |-> n], INT_TYPE)
none_ident == Literal([none |-> 0], NONE_TYPE)
empty_str_ident == Literal([str |-> <<>>], STRING_TYPE)

IsNull(hint) == hint.kind \notin {"temp", "var"}

Compiler(types) ==
  [types |-> types, code |-> <<>>, unique |-> 0, refused |-> FALSE, out |-> NullHint]

Refuse(c) == [c EXCEPT !.refused = TRUE]
Returning(c, out) == [c EXCEPT !.out = out]
Collected(c, done) == Returning(c, Append(done, c.out))
Require(c, condition) == IF condition THEN c ELSE Refuse(c)

(* What is done next, unless an error ended compilation.                   *)
Then(c, Step(_)) == IF c.refused THEN c ELSE Step(c)

(* A literal for a hint lends its type, None being the integer 0.          *)
storage_ident_from_hint(c, hint) ==
  LET info == IF hint.kind # "literal" THEN hint.info
              ELSE IF "none" \in DOMAIN hint.value THEN INT_TYPE
              ELSE resolve_literal_type(hint.value)
  IN  IF IsNull(hint)
      THEN [c EXCEPT !.unique = @ + 1, !.out = Ident("temp", "_np_" \o ToString(c.unique), info)]
      ELSE Returning(c, hint)

LeftUnchecked(c, info) ==
  LET typed == [c EXCEPT !.out.info = IF @ = UNTYPED THEN info ELSE @]
  IN  IF c.out.kind = "var" /\ c.types[c.out.name] = UNTYPED
      THEN [typed EXCEPT !.types[c.out.name] = info] ELSE typed

(* What c.out is to hold has type info: an identifier without a type takes *)
(* it, and so does its variable.                                           *)
check_storage_type_info(c, info) ==
  LET untyped == c.out.info = UNTYPED
      typed == [c EXCEPT !.out.info = IF untyped THEN info ELSE @]
      unset == c.out.kind = "var" /\ c.types[c.out.name] = UNTYPED
  IN CASE unset -> [typed EXCEPT !.types[c.out.name] = info]
       [] ~unset /\ untyped ->
            Require(typed, c.out.kind = "var" => compare_types(c.types[c.out.name], info))
       [] OTHER -> Require(c, compare_types(c.out.info, info))

Store(c, hint, info) == check_storage_type_info(storage_ident_from_hint(c, hint), info)

-----------------------------------------------------------------------------
(* Instructions: an assignment, which may declare what it assigns to, an   *)
(* operation by itself, or a declaration.                                  *)

Operate(kind, name, args) == [kind |-> kind, name |-> name, args |-> args]
Intrinsic(op, l, r) == Operate("intrinsic", op, <<l, r>>)
CCall(name, args) == Operate("c call", name, args)
CallOf(fn, args) == Operate("call", "", <<fn>> \o args)
Copy(ident) == Operate("copy", "", <<ident>>)
GetAttr(object, attr) == Operate("getattr", attr, <<object>>)
SetAttr(object, attr, value) == Operate("setattr", attr, <<object, value>>)

Write(c, inst, decl, left, right) ==
  [c EXCEPT !.code = Append(@, [inst |-> inst, decl |-> decl, left |-> left, right |-> right])]

(* c.out, which was asked for by hint, is assigned the result of op.       *)
Emit(c, hint, op) == Write(c, "assign", IsNull(hint), c.out, op)
Perform(c, op) == Write(c, "operation", FALSE, NullHint, op)
Declare(c, ident) == Write(c, "declare", TRUE, ident, Copy(none_ident))

-----------------------------------------------------------------------------
(* Functions and methods                                                   *)

render_function_object_copy(c, f) ==
  Emit(Store(c, Hint(FunctionType(f)), FunctionType(f)), NullHint, Copy(FunctionIdent(f)))

(* The context is read into a temporary, changed and written back.         *)
bind_self_to_function_object(c, self, fn) ==
  [Perform(c, Operate("bind", "", <<fn, self>>)) EXCEPT !.unique = @ + 1]

Bound(c, self, f) ==
  Then(render_function_object_copy(c, f), LAMBDA fn : bind_self_to_function_object(fn, self, fn.out))

Signature(info) ==
  IF info.name # "" THEN Functions[info.name]
  ELSE [params |-> <<>>, types |-> Tail(info.inner), defaults |-> <<>>, returns |-> Head(info.inner)]

ClassSignature(cls) ==
  [params |-> Classes[cls].params, types |-> Classes[cls].types,
   defaults |-> Classes[cls].defaults, returns |-> ObjectType(cls)]

HasMethod(cls, om) == om \in DOMAIN Classes[cls].methods
Method(cls, om) == Classes[cls].methods[om]

RECURSIVE render_expression(_, _, _), RenderAll(_, _, _, _), convert_to_string(_, _)

(* The expressions from the first to the last, each for a new temporary.   *)
RenderAll(c, types, exprs, done) ==
  IF exprs = <<>> THEN Returning(c, done)
  ELSE Then(render_expression(c, Hint(Head(types)), Head(exprs)),
            LAMBDA r : RenderAll(r, Tail(types), Tail(exprs), Append(done, r.out)))

index_of_kwarg(sig, kwd) ==
  IF \E i \in DOMAIN sig.params : sig.params[i] = kwd
  THEN CHOOSE i \in DOMAIN sig.params : sig.params[i] = kwd ELSE 0

render_type_hinted_signature_args(c, args, sig) ==
  IF Len(args.values) # Len(sig.types) \/ args.kwds # <<>> THEN Refuse(c)
  ELSE RenderAll(c, sig.types, args.values, <<>>)

(* Parameter p takes the last of the values given for it.                  *)
ByParameter(given, rendered, n) ==
  [p \in 1 .. n |->
     rendered[CHOOSE i \in DOMAIN given :
                /\ given[i] = p
                /\ \A j \in DOMAIN given : given[j] = p => j <= i]]

DefaultOf(sig, p) == sig.defaults[p - (Len(sig.types) - Len(sig.defaults))]

(* The parameters args are for: positional ones, then keyword arguments.   *)
Given(args, sig) ==
  LET positional == Len(args.values) - Len(args.kwds)
  IN  [i \in DOMAIN args.values |->
         IF i <= positional THEN i ELSE index_of_kwarg(sig, args.kwds[i - positional])]

(* The arguments, then the defaults of the parameters left.                *)
RenderArguments(c, args, sig, given, left) ==
  IF 0 \in Range(given) \/ \E p \in Range(left) : p <= Len(sig.types) - Len(sig.defaults)
  THEN Refuse(c)
  ELSE Then(RenderAll(c, [i \in 1 .. Len(given) + Len(left) |-> sig.types[(given \o left)[i]]],
                      args.values \o [i \in DOMAIN left |-> Flat(DefaultOf(sig, left[i]))], <<>>),
            LAMBDA r : Returning(r, ByParameter(given \o left, r.out, Len(sig.types))))

ArgumentsFor(c, args, sig, given) ==
  RenderArguments(c, args, sig, given,
                  SelectSeq([p \in DOMAIN sig.types |-> p], LAMBDA p : p \notin Range(given)))

render_callable_args_to_variables(c, args, sig) ==
  CASE Len(args.values) > Len(sig.types) -> Refuse(c)
    [] sig.types = <<>> /\ args.values = <<>> -> Returning(c, <<>>)
    [] sig.types # <<>> /\ Len(args.values) <= Len(sig.types) /\ sig.params = <<>> ->
         render_type_hinted_signature_args(c, args, sig)
    [] OTHER -> ArgumentsFor(c, args, sig, Given(args, sig))

(* The call of fn with args, for what is stored where target says.         *)
CallWithArguments(c, hint, target, fn, args, sig) ==
  Then(render_callable_args_to_variables(c, args, sig),
       LAMBDA a : Emit(Returning(a, target), hint, CallOf(fn, a.out)))

NoArguments == [values |-> <<>>, kwds |-> <<>>]

render_object_method_call(c, hint, self, f, args) ==
  Then(Bound(c, self, f), LAMBDA b :
    Then(Store(b, hint, Functions[f].returns), LAMBDA r :
      CallWithArguments(r, hint, r.out, b.out, args, Functions[f])))

SetAttributes(c, object, names, values) ==
  FoldLeft(LAMBDA a, i : Perform(a, SetAttr(object, names[i], values[i])), c,
           [i \in DOMAIN names |-> i])

SetDefaults(c, object, sig) ==
  FoldRight(LAMBDA i, k :
              Then(render_expression(k, Hint(sig.types[i]), Flat(sig.defaults[i])),
                   LAMBDA v : Perform(v, SetAttr(object, sig.params[i], v.out))),
            [i \in DOMAIN sig.defaults |-> i], c)

(* Where the class has an __init__, defaults are looked up by parameter,   *)
(* which is right if all parameters have one.                              *)
Initialized(c, object, cls, args, sig) ==
  IF HasMethod(cls, "__init__")
  THEN Returning(render_object_method_call(SetDefaults(c, object, sig), Hint(NONE_TYPE), object,
                                           Method(cls, "__init__"), args), object)
  ELSE Then(render_callable_args_to_variables(c, args, sig),
            LAMBDA a : Returning(SetAttributes(a, object, sig.params, a.out), object))

(* The object is in its place before its arguments are computed.           *)
render_object_creation(c, hint, cls, args) ==
  Then(Store(c, hint, ObjectType(cls)), LAMBDA r :
    Initialized(Emit(r, hint, CCall("np_alloc", <<Literal([class |-> cls], INT_TYPE)>>)),
                r.out, cls, args, ClassSignature(cls)))

render_call_operation(c, hint, fn, args) ==
  IF fn.info.type # "function" THEN Refuse(c)
  ELSE Then(Store(c, hint, Head(fn.info.inner)), LAMBDA r :
         CallWithArguments(r, hint, r.out, fn, args, Signature(fn.info)))

-----------------------------------------------------------------------------
(* Conversions                                                             *)

(* A call of a function of the library, or a member, for a new temporary.  *)
Temporary(c, info, op) == Emit(storage_ident_from_hint(c, Hint(info)), NullHint, op)

AsCString(c, object, attr, info, done) ==
  Then(Temporary(c, info, GetAttr(object, attr)), LAMBDA member :
    Then(convert_to_string(member, member.out), LAMBDA str :
      Collected(Temporary(str, CSTR_TYPE, CCall("np_str_to_cstr", <<str.out>>)), done)))

(* Every member is read, converted to a string and that to a C string.     *)
MembersAsCStrings(c, object, sig) ==
  FoldLeft(LAMBDA k, i : Then(k, LAMBDA now : AsCString(now, object, sig.params[i], sig.types[i], now.out)),
           c, [i \in DOMAIN sig.params |-> i])

FormatOf(c, cls) ==
  Temporary(c, CSTR_TYPE, GetAttr(Literal([format |-> cls], STRING_TYPE), "data"))

render_default_object_string_representation(c, object) ==
  Then(MembersAsCStrings(Collected(FormatOf(c, object.info.name), <<>>), object,
                         ClassSignature(object.info.name)),
       LAMBDA all : Emit(Store(all, NullHint, STRING_TYPE), NullHint, CCall("np_str_fmt", all.out)))

convert_to_string(c, id) ==
  LET Result(fn) == Temporary(c, STRING_TYPE, CCall(fn, <<id>>))
  IN CASE id.info = INT_TYPE -> Result("np_int_to_str")
       [] id.info = FLOAT_TYPE -> Result("np_float_to_str")
       [] id.info = BOOL_TYPE -> Result("np_bool_to_str")
       [] id.info.type = "object" ->
            IF HasMethod(id.info.name, "__str__")
            THEN render_object_method_call(c, NullHint, id, Method(id.info.name, "__str__"), NoArguments)
            ELSE render_default_object_string_representation(c, id)
       [] OTHER -> Refuse(c)

TruthOfObject(c, id) ==
  IF HasMethod(id.info.name, "__bool__")
  THEN Then(storage_ident_from_hint(c, Hint(BOOL_TYPE)), LAMBDA r :
         Then(Bound(r, id, Method(id.info.name, "__bool__")), LAMBDA b :
           Emit(Returning(b, r.out), NullHint, CallOf(b.out, <<>>))))
  ELSE Returning(c, id)

(* What C takes for true as Python does stays as it is.                    *)
convert_to_truthy(c, id) ==
  CASE id.info.type \in Numbers \cup {"bool", "pointer", "cstr"} -> Returning(c, id)
    [] id.info.type = "function" -> Temporary(c, POINTER_TYPE, GetAttr(id, "__addr__"))
    [] id.info.type = "str" -> Temporary(c, INT_TYPE, GetAttr(id, "length"))
    [] id.info.type \in {"list", "dict"} -> Temporary(c, INT_TYPE, GetAttr(id, "count"))
    [] id.info.type = "none" -> Returning(c, IntLiteral(0))
    [] id.info.type = "object" -> TruthOfObject(c, id)
    [] OTHER -> Refuse(c)

-----------------------------------------------------------------------------
(* Builtins                                                                *)

PrintedArgument(c, expr, done) ==
  Then(render_expression(c, NullHint, expr), LAMBDA v :
    IF v.out.info = STRING_TYPE THEN Collected(v, done)
    ELSE Collected(convert_to_string(v, v.out), done))

(* Every argument is rendered and converted before the next one is.        *)
PrintedArguments(c, exprs) ==
  FoldLeft(LAMBDA k, e : Then(k, LAMBDA now : PrintedArgument(now, e, now.out)),
           Returning(c, <<>>), exprs)

render_builtin_print(c, hint, args) ==
  IF args.kwds # <<>> THEN Refuse(c)
  ELSE Then(Store(c, hint, NONE_TYPE), LAMBDA r :
         IF args.values = <<>> THEN Emit(r, hint, CCall("builtin_print", <<empty_str_ident>>))
         ELSE Then(PrintedArguments(r, args.values), LAMBDA all :
                Emit(Returning(all, r.out), hint, CCall("builtin_print", all.out))))

(* A call of function fn of the library with an object and arguments of    *)
(* the given types, for a result of type info.                             *)
LibraryCall(c, hint, fn, object, types, info, args) ==
  IF Len(args.values) # Len(types) THEN Refuse(c)
  ELSE Then(Store(c, hint, info), LAMBDA r :
         Then(RenderAll(r, types, args.values, <<>>), LAMBDA a :
           Emit(Returning(a, r.out), hint, CCall(fn, <<object>> \o a.out))))

DeclareIf(c, condition, ident) == IF condition THEN Declare(c, ident) ELSE c

(* The same, for a function that writes its result where its last argument *)
(* points; declared says whether that is declared first.                   *)
LibraryCallOut(c, hint, fn, object, types, info, args, declared) ==
  IF Len(args.values) # Len(types) THEN Refuse(c)
  ELSE Then(Store(c, hint, info), LAMBDA r :
         Then(RenderAll(r, types, args.values, <<>>), LAMBDA a :
           Returning(Perform(DeclareIf(a, declared, r.out), CCall(fn, <<object>> \o a.out \o <<r.out>>)),
                     r.out)))

(* The parameters of the builtins of a list, and what they return.         *)
ListBuiltin(list) ==
  [append |-> <<<<Content(list)>>, NONE_TYPE>>, clear |-> <<<<>>, NONE_TYPE>>,
   copy |-> <<<<>>, list>>, count |-> <<<<Content(list)>>, INT_TYPE>>,
   extend |-> <<<<list>>, NONE_TYPE>>, index |-> <<<<Content(list)>>, INT_TYPE>>,
   insert |-> <<<<INT_TYPE, Content(list)>>, NONE_TYPE>>,
   remove |-> <<<<Content(list)>>, NONE_TYPE>>, reverse |-> <<<<>>, NONE_TYPE>>]

(* pop declares what it pops into even if that is a variable.              *)
render_list_pop(c, hint, list, args) ==
  IF args.values # <<>>
  THEN LibraryCallOut(c, hint, "np_list_pop", list, <<INT_TYPE>>, Content(list.info), args, TRUE)
  ELSE Then(Store(c, hint, Content(list.info)), LAMBDA r :
         Perform(Declare(r, r.out), CCall("np_list_pop", <<list, IntLiteral(-1), r.out>>)))

SortBy(c, hint, target, list, reverse) ==
  Emit(Returning(c, target), hint, CCall("np_list_sort", <<list, reverse>>))

render_list_sort(c, hint, list, args) ==
  Then(Store(c, hint, NONE_TYPE), LAMBDA r :
    CASE args.values = <<>> -> SortBy(r, hint, r.out, list, IntLiteral(0))
      [] Len(args.values) = 1 /\ args.kwds = <<"reverse">> ->
           Then(render_expression(r, NullHint, args.values[1]), LAMBDA v :
             Then(convert_to_truthy(v, v.out), LAMBDA t : SortBy(t, hint, r.out, list, t.out)))
      [] OTHER -> Refuse(r))

ListBuiltinCall(c, hint, list, fn, builtin, args) ==
  LibraryCall(c, hint, "np_list_" \o fn, list, builtin[1], builtin[2], args)

(* insert returns a literal and not what it assigned None to.              *)
render_list_builtin(c, hint, list, fn, args) ==
  CASE fn = "pop" -> render_list_pop(c, hint, list, args)
    [] fn = "sort" -> render_list_sort(c, hint, list, args)
    [] fn \in DOMAIN ListBuiltin(list.info) ->
         Then(ListBuiltinCall(c, hint, list, fn, ListBuiltin(list.info)[fn], args),
              LAMBDA r : IF fn = "insert" THEN Returning(r, none_ident) ELSE r)
    [] OTHER -> Refuse(c)

DictBuiltin(dict) ==
  [clear |-> <<<<>>, NONE_TYPE>>, copy |-> <<<<>>, dict>>, update |-> <<<<dict>>, NONE_TYPE>>,
   items |-> <<<<>>, IterType(DictItemsType(dict))>>,
   keys |-> <<<<>>, IterType(Content(dict))>>, values |-> <<<<>>, IterType(Value(dict))>>]

DictFunctionName(fn) ==
  CASE fn = "keys" -> "np_dict_iter_keys" [] fn = "values" -> "np_dict_iter_vals"
    [] fn = "items" -> "np_dict_iter_items" [] OTHER -> "np_dict_" \o fn

DictBuiltinCall(c, hint, dict, fn, builtin, args) ==
  LibraryCall(c, hint, DictFunctionName(fn), dict, builtin[1], builtin[2], args)

render_dict_builtin(c, hint, dict, fn, args) ==
  CASE fn = "pop" ->
         LibraryCallOut(c, hint, "np_dict_pop_val", dict, <<Content(dict.info)>>,
                        Value(dict.info), args, IsNull(hint))
    [] fn \in DOMAIN DictBuiltin(dict.info) ->
         DictBuiltinCall(c, hint, dict, fn, DictBuiltin(dict.info)[fn], args)
    [] OTHER -> Refuse(c)

CallByName(c, hint, name, args) ==
  render_call_operation(c, hint, IF name \in DOMAIN c.types THEN Variable(c, name) ELSE FunctionIdent(name), args)

render_call_from_operands(c, hint, left, args) ==
  CASE left.name \in DOMAIN c.types \cup DOMAIN Functions -> CallByName(c, hint, left.name, args)
    [] left.name \notin DOMAIN c.types \cup DOMAIN Functions /\ left.name \in DOMAIN Classes ->
         render_object_creation(c, hint, left.name, args)
    [] left.name = "print" -> render_builtin_print(c, hint, args)
    [] OTHER -> Refuse(c)

-----------------------------------------------------------------------------
(* Operations                                                              *)

CallOfOperator(c, hint, m, self, other) ==
  Then(Store(c, hint, Functions[m].returns), LAMBDA r :
    Then(Bound(r, self, m), LAMBDA b : Emit(Returning(b, r.out), hint, CallOf(b.out, <<other>>))))

(* A method of one operand's class, with the other operand.                *)
OperatorMethod(c, hint, m, left, right) ==
  CASE m.found = "" -> Refuse(c)
    [] m.found # "" /\ m.is_rop -> CallOfOperator(c, hint, m.found, right, left)
    [] OTHER -> CallOfOperator(c, hint, m.found, left, right)

render_object_operation(c, hint, op, left, right) ==
  OperatorMethod(c, hint, find_object_op_function(left.info, right.info, op), left, right)

StringFunctions ==
  [op \in {"+", "==", ">", ">=", "<", "<="} |->
     CASE op = "+" -> "np_str_add" [] op = "==" -> "np_str_eq" [] op = ">" -> "np_str_gt"
       [] op = ">=" -> "np_str_gte" [] op = "<" -> "np_str_lt" [] op = "<=" -> "np_str_lte"]

(* What is multiplied comes before the number it is multiplied by.         *)
Multiplied(fn, type, left, right) ==
  IF left.info.type = type THEN CCall(fn, <<left, right>>) ELSE CCall(fn, <<right, left>>)

(* The function or the operator of C an operation becomes.                 *)
Rendered(op, left, right, resolved) ==
  CASE op = "*" /\ "list" \in {left.info.type, right.info.type} ->
         Multiplied("np_list_mult", "list", left, right)
    [] op = "*" /\ "str" \in {left.info.type, right.info.type} ->
         Multiplied("np_str_mul", "str", left, right)
    [] op = "is" -> IF left.info.type = "str" THEN Intrinsic("== of addresses", left, right)
                    ELSE Intrinsic("==", left, right)
    [] op \in DOMAIN StringFunctions /\ left.info.type = "str" ->
         CCall(StringFunctions[op], <<left, right>>)
    [] op = "+" /\ left.info.type = "list" -> CCall("np_list_add", <<left, right>>)
    [] op = "%" /\ resolved = FLOAT_TYPE -> CCall("fmod", <<left, right>>)
    [] op = "**" -> CCall("pow", <<left, right>>)
    [] OTHER -> Intrinsic(op, left, right)

render_get_item(c, hint, left, right) ==
  Perform(DeclareIf(c, IsNull(hint), c.out),
          CCall(IF left.info.type = "list" THEN "np_list_get_item" ELSE "np_dict_get_val",
                <<left, right, c.out>>))

OperationInto(c, hint, op, left, right, resolved) ==
  CASE op = "not" ->
         Then(convert_to_truthy(c, right),
              LAMBDA t : Emit(Returning(t, c.out), hint, Intrinsic(op, NullHint, t.out)))
    [] op = "getitem" -> render_get_item(c, hint, left, right)
    [] OTHER -> Emit(c, hint, Rendered(op, left, right, resolved))

OperationOfType(c, hint, op, left, right, resolved) ==
  IF resolved = UNTYPED THEN Refuse(c)
  ELSE Then(Store(c, hint, resolved), LAMBDA r : OperationInto(r, hint, op, left, right, resolved))

(* A unary operator has its operand on the right and no identifier on the  *)
(* left.                                                                   *)
render_operation(c, hint, op, left, right) ==
  IF "object" \in {left.info.type, right.info.type}
  THEN render_object_operation(c, hint, op, left, right)
  ELSE OperationOfType(c, hint, op, left, right, resolve_operation_type(left.info, right.info, op))

-----------------------------------------------------------------------------
(* Operands                                                                *)

HasSize(info) ==
  info.type \in {"int", "float", "str", "object", "list", "dict", "function", "bool"}

(* The names of the functions for items: numbers, booleans and strings     *)
(* have some, others have none.                                            *)
HasFunctions(info) == info.type \in {"int", "float", "bool", "str"}

voidptr_cmp_for_type_info(info) ==
  IF HasFunctions(info) THEN {"np_void_" \o info.type \o "_eq"} ELSE {}

sort_cmp_for_type_info(info, reversed) ==
  IF HasFunctions(info)
  THEN {"np_" \o info.type \o "_sort_fn" \o (IF reversed THEN "_rev" ELSE "")} ELSE {}

FunctionsFor(kind, info) ==
  voidptr_cmp_for_type_info(info)
    \cup (IF kind = "list" THEN UNION {sort_cmp_for_type_info(info, rev) : rev \in BOOLEAN} ELSE {})

(* An empty list or dict of type info, with the functions for its items.   *)
render_empty_enclosure(c, hint, info, kind) ==
  IF info.type # kind \/ \E i \in DOMAIN info.inner : ~HasSize(info.inner[i]) THEN Refuse(c)
  ELSE Then(Store(c, [hint EXCEPT !.info = info], info), LAMBDA r :
         Emit(r, hint, CCall("np_" \o kind \o "_init",
                             <<Literal([functions |-> FunctionsFor(kind, Content(info))], POINTER_TYPE)>>)))

compile_set_item(c, container, key, value) ==
  CASE container.info.type = "list" ->
         Perform(c, CCall("np_list_set_item", <<container, key, value>>))
    [] container.info.type = "dict" ->
         Perform(c, CCall("np_dict_set_item", <<container, key, value>>))
    [] OTHER -> Refuse(c)

(* The type of a list or a dict: the hint's, or else what its first item   *)
(* makes it.                                                               *)
Known(hint) == hint.info # UNTYPED
InnerHint(hint, i) == Hint(IF Known(hint) THEN hint.info.inner[i] ELSE UNTYPED)
TypeFor(hint, info) == IF Known(hint) THEN hint.info ELSE info

(* c.out, the item last computed, is appended.                             *)
AppendTo(c, list) == Perform(c, CCall("np_list_append", <<list, c.out>>))

(* Every further item is computed into the place of the first.             *)
AppendAll(c, list, exprs) ==
  FoldLeft(LAMBDA k, e : Then(render_expression(k, k.out, e), LAMBDA v : AppendTo(v, list)), c, exprs)

(* The first item is computed before the list is made.                     *)
render_list_literal(c, hint, items) ==
  IF Known(hint) /\ hint.info.type # "list" THEN Refuse(c)
  ELSE Then(render_expression(c, InnerHint(hint, 1), items[1]), LAMBDA first :
         Then(render_empty_enclosure(first, hint, TypeFor(hint, ListType(first.out.info)), "list"), LAMBDA made :
           Returning(AppendAll(AppendTo(Returning(made, first.out), made.out), made.out, Tail(items)),
                     made.out)))

(* c.out is the place of the key and that of the value.                    *)
SetPair(c, dict, pair) == Returning(compile_set_item(c, dict, pair[1], pair[2]), pair)

PairInto(c, dict, places, key, value) ==
  Then(render_expression(c, places[1], key), LAMBDA k :
    Then(render_expression(k, places[2], value), LAMBDA v : SetPair(v, dict, <<k.out, v.out>>)))

SetPairs(c, dict, pairs) ==
  FoldLeft(LAMBDA k, i : Then(k, LAMBDA now : PairInto(now, dict, now.out, pairs[2 * i + 1], pairs[2 * i + 2])),
           c, [i \in 1 .. (Len(pairs) \div 2) - 1 |-> i])

DictOf(c, hint, key, value, pairs) ==
  Then(render_empty_enclosure(c, hint, TypeFor(hint, DictType(key.info, value.info)), "dict"), LAMBDA made :
    Returning(SetPairs(SetPair(made, made.out, <<key, value>>), made.out, pairs), made.out))

render_dict_literal(c, hint, pairs) ==
  IF Known(hint) /\ hint.info.type # "dict" THEN Refuse(c)
  ELSE Then(render_expression(c, InnerHint(hint, 1), pairs[1]), LAMBDA k :
         Then(render_expression(k, InnerHint(hint, 2), pairs[2]), LAMBDA v :
           DictOf(v, hint, k.out, v.out, pairs)))

resolve_from_scopes(c, x) ==
  CASE x \in DOMAIN c.types -> c.types[x]
    [] x \in DOMAIN Functions -> FunctionType(x)
    [] OTHER -> UNTYPED

resolve_operand_type(c, operand) ==
  CASE "name" \in DOMAIN operand -> resolve_from_scopes(c, operand.name)
    [] "lit" \in DOMAIN operand -> resolve_literal_type(operand.lit)
    [] OTHER -> UNTYPED

TokenIdent(c, operand, info) ==
  CASE "lit" \in DOMAIN operand -> Literal(operand.lit, info)
    [] "name" \in DOMAIN operand /\ operand.name \in DOMAIN c.types -> Variable(c, operand.name)
    [] OTHER -> FunctionIdent(operand.name)

TokenOfType(c, hint, operand, info) ==
  IF info = UNTYPED THEN Refuse(c)
  ELSE Then(Store(c, hint, info), LAMBDA r : Emit(r, hint, Copy(TokenIdent(c, operand, info))))

(* A token is copied, even a variable: the copy is what operations use.    *)
render_token_operand(c, hint, operand) ==
  TokenOfType(c, hint, operand, resolve_operand_type(c, operand))

render_operand(c, hint, operand) ==
  CASE "list" \in DOMAIN operand ->
         IF operand.list = <<>> THEN render_empty_enclosure(c, hint, hint.info, "list")
         ELSE render_list_literal(c, hint, operand.list)
    [] "dict" \in DOMAIN operand ->
         IF operand.dict = <<>> THEN render_empty_enclosure(c, hint, hint.info, "dict")
         ELSE render_dict_literal(c, hint, operand.dict)
    [] "expr" \in DOMAIN operand -> render_expression(c, hint, operand.expr)
    [] OTHER -> render_token_operand(c, hint, operand)

-----------------------------------------------------------------------------
(* Expressions                                                             *)

ClassMember(cls, attr) ==
  CASE \E i \in DOMAIN Classes[cls].params : Classes[cls].params[i] = attr ->
         Classes[cls].types[index_of_kwarg(Classes[cls], attr)]
    [] attr \in DOMAIN Classes[cls].methods -> FunctionType(Classes[cls].methods[attr])
    [] OTHER -> UNTYPED

FunctionMember(attr) ==
  CASE attr = "__name__" -> STRING_TYPE [] attr = "__addr__" -> POINTER_TYPE [] OTHER -> UNTYPED

MemberInfo(object, attr) ==
  CASE object.info.type = "object" -> ClassMember(object.info.name, attr)
    [] object.info.type = "function" -> FunctionMember(attr)
    [] OTHER -> UNTYPED

(* Reading a method of an object copies the function and binds the object. *)
MemberOfType(c, hint, object, attr, info) ==
  IF info = UNTYPED THEN Refuse(c)
  ELSE Then(Store(c, hint, info), LAMBDA r :
         IF object.info.type = "object" /\ r.out.info.type = "function"
         THEN bind_self_to_function_object(Emit(r, hint, Copy(FunctionIdent(info.name))), object, r.out)
         ELSE Emit(r, hint, GetAttr(object, attr)))

render_get_attr_operation(c, hint, object, attr) ==
  MemberOfType(c, hint, object, attr, MemberInfo(object, attr))

(* The operand on the left of an operation; a unary one has none.          *)
LeftOperand(c, operation, operand) ==
  CASE IsUnary(operation.op) -> Returning(c, NullHint)
    [] operation.op = "getattr" -> render_operand(c, Hint(resolve_operand_type(c, operand)), operand)
    [] OTHER -> render_operand(c, NullHint, operand)

OneOperation(c, hint, operation, left, right) ==
  CASE operation.op = "call" ->
         IF "name" \in DOMAIN left THEN render_call_from_operands(c, hint, left, right) ELSE Refuse(c)
    [] OTHER ->
         Then(LeftOperand(c, operation, left), LAMBDA l :
           IF operation.op = "getattr" THEN render_get_attr_operation(l, hint, l.out, right.name)
           ELSE Then(render_operand(l, NullHint, right),
                     LAMBDA r : render_operation(r, hint, operation.op, l.out, r.out)))

SimpleOperation(c, hint, operands, operation) ==
  OneOperation(c, hint, operation, IF IsUnary(operation.op) THEN NullHint ELSE operands[operation.left],
               operands[operation.right])

render_simple_expression(c, hint, expr) ==
  IF expr.operations = <<>> THEN render_operand(c, hint, expr.operands[1])
  ELSE SimpleOperation(c, hint, expr.operands, expr.operations[1])

UpdatedAhead(record, operation, ident) == [record EXCEPT ![operation.right] = ident]

(* Both operands of an operation now stand for its result.  The array it   *)
(* is noted in has a cell less than there are operations (see RecordFits   *)
(* of ExpressionTable): the last note, which only the result is read from, *)
(* goes behind it and is taken to be read back.                            *)
update_expression_record(record, operation, ident) ==
  [k \in DOMAIN record |->
     IF k = operation.right \/ (~IsUnary(operation.op) /\ k = operation.left)
     THEN ident ELSE record[k]]

(* The value an operand stands for: its record, or what it is rendered to. *)
Previous(c, expr, record, k) ==
  IF record[k] # NullHint THEN Returning(c, record[k])
  ELSE render_operand(c, NullHint, expr.operands[k])

Left(c, expr, record, operation) ==
  IF IsUnary(operation.op) THEN Returning(c, NullHint) ELSE Previous(c, expr, record, operation.left)

(* The last operation is for the hint.                                     *)
HintAt(hint, expr, i) == IF i = Len(expr.operations) THEN hint ELSE NullHint

CallOperand(c, hint, expr, record, operation) ==
  CASE record[operation.left] # NullHint ->
         render_call_operation(c, hint, record[operation.left], expr.operands[operation.right])
    [] record[operation.left] = NullHint /\ "name" \in DOMAIN expr.operands[operation.left] ->
         render_call_from_operands(c, hint, expr.operands[operation.left], expr.operands[operation.right])
    [] OTHER -> Refuse(c)

MethodOf(c, hint, object, fn, args) ==
  IF object.info.type = "list" THEN render_list_builtin(c, hint, object, fn, args)
  ELSE render_dict_builtin(c, hint, object, fn, args)

(* Operation i of an expression of several, and those after it.  Calling a *)
(* method of a list or a dict is two operations compiled as one, the call  *)
(* being the next in the order of operations.                              *)
RECURSIVE RenderOperations(_, _, _, _, _)

OperationsAfter(c, hint, expr, i, record) ==
  Then(c, LAMBDA r :
    RenderOperations(r, hint, expr, i + 1, update_expression_record(record, expr.operations[i], r.out)))

MethodCall(c, hint, expr, i, record, object, operations) ==
  IF i = Len(operations) THEN Refuse(c)
  ELSE IF operations[i + 1].op # "call" THEN Refuse(c)
  ELSE Then(MethodOf(c, HintAt(hint, expr, i + 1), object, expr.operands[operations[i].right].name,
                     expr.operands[operations[i + 1].right]), LAMBDA r :
         OperationsAfter(r, hint, expr, i + 1, update_expression_record(record, operations[i], r.out)))

AttributeOf(c, hint, object, operand) ==
  IF object.info.type = "object" THEN render_get_attr_operation(c, hint, object, operand.name)
  ELSE Refuse(c)

GetAttribute(c, hint, expr, i, record, operation) ==
  Then(Previous(c, expr, record, operation.left), LAMBDA left :
    IF left.out.info.type \in {"list", "dict"}
    THEN MethodCall(left, hint, expr, i, record, left.out, expr.operations)
    ELSE OperationsAfter(AttributeOf(left, HintAt(hint, expr, i), left.out, expr.operands[operation.right]),
                         hint, expr, i, record))

OperationOn(c, hint, expr, record, operation) ==
  Then(Left(c, expr, record, operation), LAMBDA left :
    Then(Previous(left, expr, record, operation.right), LAMBDA right :
      render_operation(right, hint, operation.op, left.out, right.out)))

ThisOperation(c, hint, expr, i, record, operation) ==
  CASE operation.op = "getattr" -> GetAttribute(c, hint, expr, i, record, operation)
    [] operation.op = "call" ->
         OperationsAfter(CallOperand(c, HintAt(hint, expr, i), expr, record, operation), hint, expr, i, record)
    [] OTHER ->
         OperationsAfter(OperationOn(c, HintAt(hint, expr, i), expr, record, operation), hint, expr, i, record)

RenderOperations(c, hint, expr, i, record) ==
  IF i > Len(expr.operations) THEN c
  ELSE ThisOperation(c, hint, expr, i, record, expr.operations[i])

render_expression(c, hint, expr) ==
  CASE c.refused -> c
    [] ~c.refused /\ Len(expr.operations) <= 1 -> render_simple_expression(c, hint, expr)
    [] OTHER -> RenderOperations(c, hint, expr, 1, [k \in DOMAIN expr.operands |-> NullHint])
=============================================================================
