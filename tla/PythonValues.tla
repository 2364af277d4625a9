----------------------------- MODULE PythonValues -----------------------------
(***************************************************************************)
(* What a program does in Python, as far as this language goes: the        *)
(* reference for what the compiler writes.  Operands are evaluated from    *)
(* left to right, each when it is its turn.                                *)
(*                                                                         *)
(* A state s has the variables, the heap, what was printed, the exception  *)
(* that ended the program and value, what was evaluated last.  A class is  *)
(* what Python calls a data class.  A method does not take arguments of    *)
(* other types than it declares: an operator goes on to the reflected      *)
(* method, as if it had returned NotImplemented.                           *)
(***************************************************************************)
EXTENDS Types, Trees, Values

CONSTANT
  Body(_, _, _, _)   \* function, self, arguments, state -> state: what it does

Returned(s, v) == [s EXCEPT !.value = v]
Raising(s, exception) == [s EXCEPT !.raised = exception]
New(s, cell, kind) ==
  [s EXCEPT !.heap = Append(@, cell), !.value = [x \in {kind} |-> Len(s.heap) + 1]]

RECURSIVE HasType(_, _, _)
(* v is a value of a type.  An iterator is not looked into.                *)
HasType(heap, v, info) ==
  CASE info.type = "list" ->
         /\ "list" \in DOMAIN v
         /\ \A i \in DOMAIN heap[v.list].list : HasType(heap, heap[v.list].list[i], Content(info))
    [] info.type = "dict" ->
         /\ "dict" \in DOMAIN v
         /\ \A i \in DOMAIN heap[v.dict].dict :
              /\ HasType(heap, heap[v.dict].dict[i][1], Content(info))
              /\ HasType(heap, heap[v.dict].dict[i][2], Value(info))
    [] info.type = "object" -> "obj" \in DOMAIN v /\ heap[v.obj].class = info.name
    [] info.type = "function" -> "func" \in DOMAIN v
    [] OTHER -> info.type \in DOMAIN v

-----------------------------------------------------------------------------
(* Operators                                                               *)

Smaller(t, u) ==
  \E n \in 0 .. Len(t) :
    /\ n < Len(u) /\ \A i \in 1 .. n : t[i] = u[i]
    /\ n = Len(t) \/ (n < Len(t) /\ t[n + 1] < u[n + 1])

StringComparison(op, t, u) ==
  CASE op = "==" -> t = u [] op = "!=" -> t # u [] op = "<" -> Smaller(t, u)
    [] op = ">" -> Smaller(u, t) [] op = "<=" -> ~Smaller(u, t) [] op = ">=" -> ~Smaller(t, u)

Arithmetic(s, op, v, w) ==
  LET a == Quarters(v)
      b == Quarters(w)
      float == IsFloat(v) \/ IsFloat(w)
  IN CASE op \in {"/", "//", "%"} /\ b = 0 -> Raising(s, "ZeroDivisionError")
       [] op = "+" -> Returned(s, Number(a + b, float))
       [] op = "-" -> Returned(s, Number(a - b, float))
       [] op = "*" -> Returned(s, Number(TowardZero(a * b, 4), float))
       [] op = "/" /\ b # 0 -> Returned(s, Number(TowardZero(4 * a, b), TRUE))
       [] op = "//" /\ b # 0 -> Returned(s, Number(4 * Floor(a, b), float))
       [] op = "%" /\ b # 0 -> Returned(s, Number(a - b * Floor(a, b), float))
       [] op = "**" -> Returned(s, IF b < 0 \/ b % 4 # 0 THEN Beyond
                                   ELSE Number(PowerOf(a, b \div 4), float))
       [] op \in Equality \cup Ordering -> Returned(s, Boolean(Compared(op, a, b)))
       [] OTHER -> IF float THEN Raising(s, "TypeError") ELSE Returned(s, Bits(op, a \div 4, b \div 4))

Kind(v) == CHOOSE k \in DOMAIN v : TRUE
Meaning(s, v) == Unfold(s.heap, v)

Invoke(s, f, self, args) == Body(f, self, args, s)

(* The method of an object for an operator, for an argument it takes.      *)
MethodFor(s, v, name, w) ==
  /\ Kind(v) = "obj"
  /\ name \in DOMAIN Classes[s.heap[v.obj].class].methods
  /\ HasType(s.heap, w, Functions[Classes[s.heap[v.obj].class].methods[name]].types[1])

ByMethod(s, v, name, w) == Invoke(s, Classes[s.heap[v.obj].class].methods[name], v, <<w>>)

(* None, booleans, lists, dicts and objects are there once.  Whether equal numbers   *)
(* or strings are one object is up to Python.                              *)
Identity(s, v, w) ==
  IF Kind(v) \in {"none", "bool", "list", "dict", "obj"} \/ v # w THEN Boolean(v = w) ELSE Beyond

BinaryResult(s, op, v, w) ==
  LET kinds == {Kind(v), Kind(w)}
      om == IF op \in DOMAIN OP_TO_OM THEN OP_TO_OM[op] ELSE ""
      rom == IF op \in DOMAIN OP_TO_ROM THEN OP_TO_ROM[op] ELSE ""
      Items(x) == s.heap[x.list].list
  IN CASE IsBeyond(v) \/ IsBeyond(w) -> Returned(s, Beyond)
       [] op = "is" -> Returned(s, Identity(s, v, w))
       [] op # "is" /\ MethodFor(s, v, om, w) -> ByMethod(s, v, om, w)
       [] op # "is" /\ ~MethodFor(s, v, om, w) /\ MethodFor(s, w, rom, v) -> ByMethod(s, w, rom, v)
       [] OTHER ->
            CASE kinds \subseteq {"int", "float", "bool"} -> Arithmetic(s, op, v, w)
              [] op = "+" /\ kinds = {"str"} -> Returned(s, [str |-> v.str \o w.str])
              [] op = "*" /\ (kinds = {"str", "int"} \/ kinds = {"str", "bool"}) ->
                   LET n == Quarters(IF Kind(v) = "str" THEN w ELSE v) \div 4
                       t == IF Kind(v) = "str" THEN v.str ELSE w.str
                   IN  Returned(s, [str |-> IF n < 0 THEN <<>> ELSE Repeated(t, n)])
              [] op \in Equality \cup Ordering /\ kinds = {"str"} ->
                   Returned(s, Boolean(StringComparison(op, v.str, w.str)))
              [] op = "+" /\ kinds = {"list"} -> New(s, [list |-> Items(v) \o Items(w)], "list")
              [] op = "*" /\ (kinds = {"list", "int"} \/ kinds = {"list", "bool"}) ->
                   LET n == Quarters(IF Kind(v) = "list" THEN w ELSE v) \div 4
                       items == Items(IF Kind(v) = "list" THEN v ELSE w)
                   IN  New(s, [list |-> IF n < 0 THEN <<>> ELSE Repeated(items, n)], "list")
              [] op \in Equality /\ ~(kinds \subseteq {"int", "float", "bool"}) /\ kinds # {"str"} ->
                   Returned(s, Boolean((Meaning(s, v) = Meaning(s, w)) = (op = "==")))
              [] (op \in Ordering /\ kinds = {"list"}) \/ (op = "|" /\ kinds = {"dict"}) ->
                   Returned(s, Beyond)
              [] OTHER -> Raising(s, "TypeError")

(* s.value is whether v is true.                                           *)
Truth(s, v) ==
  CASE IsNumber(v) -> Returned(s, Boolean(Quarters(v) # 0))
    [] "str" \in DOMAIN v -> Returned(s, Boolean(v.str # <<>>))
    [] "list" \in DOMAIN v -> Returned(s, Boolean(s.heap[v.list].list # <<>>))
    [] "dict" \in DOMAIN v -> Returned(s, Boolean(s.heap[v.dict].dict # <<>>))
    [] "obj" \in DOMAIN v ->
         LET methods == Classes[s.heap[v.obj].class].methods
         IN  IF "__bool__" \in DOMAIN methods THEN Invoke(s, methods["__bool__"], v, <<>>)
             ELSE Returned(s, Boolean(TRUE))
    [] OTHER -> Returned(s, Boolean("none" \notin DOMAIN v))

UnaryResult(s, op, v) ==
  CASE op = "not" -> LET t == Truth(s, v)
                     IN  IF t.raised # "" THEN t ELSE Returned(t, Boolean(~t.value.bool))
    [] op = "neg" -> IF IsNumber(v) THEN Returned(s, Number(-Quarters(v), IsFloat(v)))
                     ELSE Raising(s, "TypeError")
    [] op = "~" -> IF Kind(v) \in {"int", "bool"} THEN Returned(s, [int |-> -(Quarters(v) \div 4) - 1])
                   ELSE Raising(s, "TypeError")

-----------------------------------------------------------------------------
(* Items and methods of lists and dicts                                    *)

GetItem(s, v, key) ==
  CASE "list" \in DOMAIN v /\ "int" \in DOMAIN key ->
         IF Inside(s.heap[v.list].list, key.int)
         THEN Returned(s, s.heap[v.list].list[At(s.heap[v.list].list, key.int)])
         ELSE Raising(s, "IndexError")
    [] "dict" \in DOMAIN v ->
         LET pairs == s.heap[v.dict].dict
         IN  IF HasKey(pairs, key) THEN Returned(s, pairs[PlaceOf(pairs, key)][2])
             ELSE Raising(s, "KeyError")
    [] OTHER -> Raising(s, "TypeError")

SetItem(s, v, key, new) ==
  CASE "list" \in DOMAIN v /\ "int" \in DOMAIN key ->
         IF Inside(s.heap[v.list].list, key.int)
         THEN [s EXCEPT !.heap[v.list].list[At(s.heap[v.list].list, key.int)] = new]
         ELSE Raising(s, "IndexError")
    [] "dict" \in DOMAIN v -> [s EXCEPT !.heap[v.dict].dict = Entered(@, key, new)]
    [] OTHER -> Raising(s, "TypeError")

ListMethod(s, v, name, args) ==
  LET items == s.heap[v.list].list
      Now(new) == Returned([s EXCEPT !.heap[v.list].list = new], NoneValue)
      places == Occurrences(items, args[1])
      Clamped(i) == IF i >= Len(items) THEN Len(items) + 1
                    ELSE IF i < -Len(items) THEN 1 ELSE At(items, i)
      i == IF args = <<>> THEN -1 ELSE args[1].int
      Less(a, b) == IF IsNumber(a) THEN Quarters(a) < Quarters(b) ELSE Smaller(a.str, b.str)
      down == args # <<>> /\ Truth(s, args[1]).value.bool
  IN CASE name = "append" -> Now(Append(items, args[1]))
       [] name = "clear" -> Now(<<>>)
       [] name = "extend" -> Now(items \o s.heap[args[1].list].list)
       [] name = "reverse" -> Now(Reverse(items))
       [] name = "copy" -> New(s, [list |-> items], "list")
       [] name = "count" -> Returned(s, [int |-> Len(places)])
       [] name = "sort" -> Now(SortSeq(items, LAMBDA a, b : IF down THEN Less(b, a) ELSE Less(a, b)))
       [] name = "insert" -> Now(InsertAt(items, Clamped(args[1].int), args[2]))
       [] name \in {"index", "remove"} /\ places = <<>> -> Raising(s, "ValueError")
       [] name = "index" /\ places # <<>> -> Returned(s, [int |-> places[1] - 1])
       [] name = "remove" /\ places # <<>> -> Now(RemoveAt(items, places[1]))
       [] name = "pop" -> IF Inside(items, i) THEN Returned(Now(RemoveAt(items, At(items, i))), items[At(items, i)])
                          ELSE Raising(s, "IndexError")

DictMethod(s, v, name, args) ==
  LET pairs == s.heap[v.dict].dict
      Now(new) == Returned([s EXCEPT !.heap[v.dict].dict = new], NoneValue)
      i == PlaceOf(pairs, args[1])
  IN CASE name = "clear" -> Now(<<>>)
       [] name = "copy" -> New(s, [dict |-> pairs], "dict")
       [] name = "update" -> Now(Updated(pairs, s.heap[args[1].dict].dict))
       [] name \in {"keys", "values", "items"} ->
            Returned(s, [iter |-> [dict |-> v.dict, yields |-> name]])
       [] name = "pop" -> IF HasKey(pairs, args[1]) THEN Returned(Now(RemoveAt(pairs, i)), pairs[i][2])
                          ELSE Raising(s, "KeyError")

-----------------------------------------------------------------------------
(* Expressions                                                             *)

RECURSIVE Eval(_, _), EvalAll(_, _, _), Text(_, _)

(* s.value is the values of the trees.                                     *)
EvalAll(s, trees, done) ==
  IF s.raised # "" \/ trees = <<>> THEN Returned(s, done)
  ELSE LET v == Eval(s, Head(trees)) IN EvalAll(v, Tail(trees), Append(done, v.value))

(* s.value is the text of v.  An object without __str__ shows its fields.  *)
Text(s, v) ==
  LET cls == Classes[s.heap[v.obj].class]
      All == FoldLeft(LAMBDA k, x : LET t == Text(k, k.heap[v.obj].fields[x])
                                    IN  Returned(t, k.value \o t.value),
                      Returned(s, <<>>), cls.params)
      str == Invoke(s, cls.methods["__str__"], v, <<>>)
  IN CASE "str" \in DOMAIN v -> Returned(s, v.str)
       [] "obj" \notin DOMAIN v /\ "str" \notin DOMAIN v -> Returned(s, TextOf(v))
       [] OTHER -> IF "__str__" \in DOMAIN cls.methods THEN Returned(str, str.value.str) ELSE All

(* The arguments by parameter: positional, by keyword, or a default.       *)
Arguments(params, n, defaults, values, kwds) ==
  LET positional == Len(values) - Len(kwds)
      first == n - Len(defaults)
      Place(p) == CHOOSE k \in DOMAIN kwds : kwds[k] = params[p]
  IN  [p \in 1 .. n |->
         CASE p <= positional -> values[p]
           [] p > positional /\ \E k \in DOMAIN kwds : kwds[k] = params[p] -> values[positional + Place(p)]
           [] OTHER -> defaults[p - first].lit]

(* What comes next, unless an exception was raised.                        *)
AndThen(s, Step(_)) == IF s.raised # "" THEN s ELSE Step(s)

ArgumentsOf(f, values, kwds) ==
  Arguments(Functions[f].params, Len(Functions[f].types), Functions[f].defaults, values, kwds)

DefaultField(cls, p) ==
  LET first == Len(cls.params) - Len(cls.defaults)
  IN  IF p > first THEN cls.defaults[p - first].lit ELSE Beyond

FieldsOf(cls, values) ==
  [x \in Range(cls.params) |-> values[CHOOSE p \in DOMAIN cls.params : cls.params[p] = x]]

(* __init__ finds the defaults in place; without it the arguments are the  *)
(* fields.                                                                 *)
Created(s, name, cls, values, kwds) ==
  IF "__init__" \in DOMAIN cls.methods
  THEN AndThen(New(s, [class |-> name,
                       fields |-> FieldsOf(cls, [p \in DOMAIN cls.params |-> DefaultField(cls, p)])], "obj"),
               LAMBDA made :
                 AndThen(Invoke(made, cls.methods["__init__"], made.value,
                                ArgumentsOf(cls.methods["__init__"], values, kwds)),
                         LAMBDA r : Returned(r, made.value)))
  ELSE New(s, [class |-> name,
               fields |-> FieldsOf(cls, Arguments(cls.params, Len(cls.params), cls.defaults, values, kwds))],
           "obj")

Creation(s, name, tree) ==
  AndThen(EvalAll(s, tree.values, <<>>),
          LAMBDA a : Created(a, name, Classes[name], a.value, tree.kwds))

Shown(s, v, done) == AndThen(Text(s, v), LAMBDA t : Returned(t, Append(done, t.value)))

PrintAll(s, trees) ==
  AndThen(EvalAll(s, trees, <<>>), LAMBDA a :
    AndThen(FoldLeft(LAMBDA k, v : AndThen(k, LAMBDA now : Shown(now, v, now.value)),
                     Returned(a, <<>>), a.value), LAMBDA shown :
      Returned([shown EXCEPT !.printed = Append(@, IF trees = <<>> THEN <<<<>>>> ELSE shown.value)],
               NoneValue)))

CallOn(s, object, tree) ==
  AndThen(EvalAll(s, tree.values, <<>>), LAMBDA a :
    CASE "list" \in DOMAIN object -> ListMethod(a, object, tree.call.attr, a.value)
      [] "dict" \in DOMAIN object -> DictMethod(a, object, tree.call.attr, a.value)
      [] OTHER -> Invoke(a, object.func, object.self, ArgumentsOf(object.func, a.value, tree.kwds)))

AttributeOf(s, v, attr) ==
  LET cell == s.heap[v.obj]
  IN  IF attr \in DOMAIN cell.fields THEN Returned(s, cell.fields[attr])
      ELSE Returned(s, [func |-> Classes[cell.class].methods[attr], self |-> v])

(* The function, or the list or the dict whose method is called.           *)
Callee(s, tree) ==
  IF "attr" \notin DOMAIN tree THEN Eval(s, tree)
  ELSE AndThen(Eval(s, tree.of), LAMBDA object :
         IF "obj" \in DOMAIN object.value THEN AttributeOf(object, object.value, tree.attr) ELSE object)

CallValue(s, tree) == AndThen(Callee(s, tree.call), LAMBDA fn : CallOn(fn, fn.value, tree))

EvalName(s, x) ==
  CASE x \in DOMAIN s.vars -> Returned(s, s.vars[x])
    [] x \notin DOMAIN s.vars /\ x \in DOMAIN Functions ->
         Returned(s, [func |-> x, self |-> NoneValue])
    [] OTHER -> Raising(s, "NameError")

EvalCall(s, tree) ==
  CASE "name" \in DOMAIN tree.call /\ tree.call.name = "print" -> PrintAll(s, tree.values)
    [] "name" \in DOMAIN tree.call /\ tree.call.name \in DOMAIN Classes -> Creation(s, tree.call.name, tree)
    [] OTHER -> CallValue(s, tree)

EvalDict(s, tree) ==
  AndThen(EvalAll(s, tree.dict, <<>>), LAMBDA pairs :
    New(pairs, [dict |-> Updated(<<>>, [i \in 1 .. Len(pairs.value) \div 2 |->
                                          <<pairs.value[2 * i - 1], pairs.value[2 * i]>>])], "dict"))

(* and and or go on to the right operand if the left one does not decide.  *)
ShortCircuit(s, op, v, right) ==
  AndThen(Truth(s, v), LAMBDA t : IF t.value.bool = (op = "or") THEN Returned(t, v) ELSE Eval(t, right))

EvalBinary(s, op, v, right) ==
  AndThen(Eval(s, right), LAMBDA w :
    IF op = "getitem" THEN GetItem(w, v, w.value) ELSE BinaryResult(w, op, v, w.value))

EvalOperation(s, tree) ==
  AndThen(Eval(s, tree.args[1]), LAMBDA v :
    CASE tree.op \in UnaryOperators -> UnaryResult(v, tree.op, v.value)
      [] tree.op \in {"and", "or"} -> ShortCircuit(v, tree.op, v.value, tree.args[2])
      [] OTHER -> EvalBinary(v, tree.op, v.value, tree.args[2]))

Eval(s, tree) ==
  CASE s.raised # "" -> s
    [] s.raised = "" /\ "lit" \in DOMAIN tree -> Returned(s, tree.lit)
    [] s.raised = "" /\ "name" \in DOMAIN tree -> EvalName(s, tree.name)
    [] s.raised = "" /\ "list" \in DOMAIN tree ->
         AndThen(EvalAll(s, tree.list, <<>>), LAMBDA items : New(items, [list |-> items.value], "list"))
    [] s.raised = "" /\ "dict" \in DOMAIN tree -> EvalDict(s, tree)
    [] s.raised = "" /\ "attr" \in DOMAIN tree ->
         AndThen(Eval(s, tree.of), LAMBDA object : AttributeOf(object, object.value, tree.attr))
    [] s.raised = "" /\ "call" \in DOMAIN tree -> EvalCall(s, tree)
    [] s.raised = "" /\ "op" \in DOMAIN tree -> EvalOperation(s, tree)

-----------------------------------------------------------------------------
(* Statements                                                              *)

Bind(s, x, v) == [s EXCEPT !.vars = Put(@, x, v)]
SetField(s, v, x, new) == [s EXCEPT !.heap[v.obj].fields[x] = new]

(* What v becomes with op, the operator of an assignment: a list and an    *)
(* object with a method for it are changed in place.                       *)
Augmented(s, op, v, w) ==
  LET om == op_assignment_to_object_model(op)
  IN CASE "list" \in DOMAIN v /\ "list" \in DOMAIN w /\ op = "+=" ->
            Returned([s EXCEPT !.heap[v.list].list = @ \o s.heap[w.list].list], v)
       [] "list" \in DOMAIN v /\ "int" \in DOMAIN w /\ op = "*=" ->
            Returned([s EXCEPT !.heap[v.list].list = Repeated(@, w.int)], v)
       [] MethodFor(s, v, om, w) -> ByMethod(s, v, om, w)
       [] OTHER -> BinaryResult(s, OP_ASSIGNMENT_TO_OP_TABLE[op], v, w)

(* Where a value is stored: the object and the key, or nothing.            *)
Place(s, target) ==
  CASE "name" \in DOMAIN target -> Returned(s, <<>>)
    [] "attr" \in DOMAIN target -> AndThen(Eval(s, target.of), LAMBDA o : Returned(o, <<o.value>>))
    [] OTHER -> EvalAll(s, target.args, <<>>)

StoreAt(s, target, place, v) ==
  CASE "name" \in DOMAIN target -> Bind(s, target.name, v)
    [] "attr" \in DOMAIN target -> SetField(s, place[1], target.attr, v)
    [] OTHER -> SetItem(s, place[1], place[2], v)

Current(s, target, place) ==
  CASE "name" \in DOMAIN target -> Returned(s, s.vars[target.name])
    [] "attr" \in DOMAIN target -> Returned(s, s.heap[place[1].obj].fields[target.attr])
    [] OTHER -> GetItem(s, place[1], place[2])

(* The value comes before the place it is stored in.                       *)
ExecuteAssignment(s, stmt) ==
  AndThen(Eval(s, stmt.value), LAMBDA v :
    AndThen(Place(v, stmt.target), LAMBDA p : StoreAt(p, stmt.target, p.value, v.value)))

(* With an operator the place comes first, is read, and then comes the     *)
(* value.                                                                  *)
ExecuteOpAssignment(s, stmt) ==
  AndThen(Place(s, stmt.target), LAMBDA q :
    AndThen(Current(q, stmt.target, q.value), LAMBDA old :
      AndThen(Eval(old, stmt.value), LAMBDA w :
        AndThen(Augmented(w, stmt.op, old.value, w.value), LAMBDA r :
          StoreAt(r, stmt.target, q.value, r.value)))))

Execute(s, stmt) ==
  CASE s.raised # "" -> s
    [] s.raised = "" /\ "expr" \in DOMAIN stmt -> Eval(s, stmt.expr)
    [] s.raised = "" /\ "annotated" \in DOMAIN stmt ->
         AndThen(Eval(s, stmt.initial), LAMBDA v : Bind(v, stmt.annotated, v.value))
    [] s.raised = "" /\ "target" \in DOMAIN stmt ->
         IF stmt.op = "=" THEN ExecuteAssignment(s, stmt) ELSE ExecuteOpAssignment(s, stmt)

PythonState(variables, heap) ==
  [vars |-> variables, heap |-> heap, printed |-> <<>>, raised |-> "", value |-> NoneValue]

InPython(s, program) == FoldLeft(Execute, s, program)
=============================================================================
