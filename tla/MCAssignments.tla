---------------------------- MODULE MCAssignments ----------------------------
(***************************************************************************)
(* Programs for the compiler: every operator on operands of every type,    *)
(* every form of assignment, calls in calls, and the programs the compiler *)
(* refuses or changes the meaning of.                                      *)
(***************************************************************************)
EXTENDS Assignments

-----------------------------------------------------------------------------
(* The world a program runs in.                                            *)

P == ObjectType("P")
Q == ObjectType("Q")
R == ObjectType("R")
Takes1(param, type, returns) ==
  [params |-> <<param>>, types |-> <<type>>, defaults |-> <<>>, returns |-> returns]
TakesNone(returns) == [params |-> <<>>, types |-> <<>>, defaults |-> <<>>, returns |-> returns]
Methods(cls, names) == [name \in names |-> cls \o "." \o name]

MCFunctions ==
  [f |-> [params |-> <<"a", "b">>, types |-> <<INT_TYPE, INT_TYPE>>, defaults |-> <<IntOf(3)>>,
          returns |-> INT_TYPE],
   fails |-> Takes1("a", INT_TYPE, INT_TYPE)]
  @@ ("P.__add__" :> Takes1("other", P, P)) @@ ("P.__iadd__" :> Takes1("other", P, P))
  @@ ("P.__radd__" :> Takes1("other", INT_TYPE, INT_TYPE))
  @@ ("P.__bool__" :> TakesNone(BOOL_TYPE)) @@ ("P.get" :> Takes1("k", INT_TYPE, INT_TYPE))
  @@ ("Q.__init__" :> Takes1("b", INT_TYPE, NONE_TYPE)) @@ ("R.__str__" :> TakesNone(STRING_TYPE))
  @@ ("R.__add__" :> Takes1("other", R, INT_TYPE)) @@ ("R.__iadd__" :> Takes1("other", INT_TYPE, INT_TYPE))

MCClasses ==
  [P |-> [params |-> <<"n">>, types |-> <<INT_TYPE>>, defaults |-> <<>>,
          methods |-> Methods("P", {"__add__", "__iadd__", "__radd__", "__bool__", "get"})],
   Q |-> [params |-> <<"a", "b">>, types |-> <<INT_TYPE, INT_TYPE>>,
          defaults |-> <<IntOf(1), IntOf(2)>>, methods |-> Methods("Q", {"__init__"})],
   R |-> [params |-> <<"p", "size">>, types |-> <<P, FLOAT_TYPE>>,
          defaults |-> <<Lit([float |-> 2])>>, methods |-> Methods("R", {"__str__", "__add__", "__iadd__"})],
   S |-> [params |-> <<"p", "k">>, types |-> <<P, INT_TYPE>>, defaults |-> <<IntOf(4)>>,
          methods |-> <<>>]]

\* f and get count their calls in g
MCBody(f, self, args, s) ==
  LET Count(v) == [s EXCEPT !.vars = Put(@, "g", [int |-> @["g"].int + 1]), !.value = v]
      own == s.heap[self.obj].fields["n"].int
      With(k) == [class |-> "P", fields |-> [x \in {"n"} |-> [int |-> k]]]
  IN CASE f = "f" -> Count([int |-> 10 * args[1].int + args[2].int])
       [] f = "fails" -> [s EXCEPT !.raised = "ValueError"]
       [] f = "P.__add__" ->
            [s EXCEPT !.heap = Append(@, With(own + s.heap[args[1].obj].fields["n"].int)),
                      !.value = [obj |-> Len(s.heap) + 1]]
       [] f = "P.__iadd__" ->
            [s EXCEPT !.heap[self.obj] = With(own + s.heap[args[1].obj].fields["n"].int), !.value = self]
       [] f = "P.__radd__" -> [s EXCEPT !.value = [int |-> 100 * args[1].int + own]]
       [] f = "P.__bool__" -> [s EXCEPT !.value = Boolean(own # 0)]
       [] f = "P.get" -> Count([int |-> own + args[1].int])
       [] f = "Q.__init__" -> [s EXCEPT !.heap[self.obj].fields["b"] = args[1], !.value = NoneValue]
       [] f = "R.__str__" -> [s EXCEPT !.value = [str |-> <<8>>]]
       [] f \in {"R.__add__", "R.__iadd__"} -> [s EXCEPT !.value = [int |-> 7]]

MCDeclared ==
  [i |-> INT_TYPE, j |-> INT_TYPE, g |-> INT_TYPE, x |-> FLOAT_TYPE, h |-> FLOAT_TYPE, b |-> BOOL_TYPE,
   s |-> STRING_TYPE, t |-> STRING_TYPE, k |-> NONE_TYPE,
   xs |-> ListType(INT_TYPE), ys |-> ListType(INT_TYPE), ss |-> ListType(STRING_TYPE),
   xss |-> ListType(ListType(INT_TYPE)), ps |-> ListType(P),
   d |-> DictType(STRING_TYPE, INT_TYPE), e |-> DictType(STRING_TYPE, INT_TYPE),
   p |-> P, q |-> P, r |-> R, w |-> R, fn |-> FunctionType("f"), u |-> UNTYPED, v |-> UNTYPED]

MCValues ==
  [i |-> [int |-> 5], j |-> [int |-> -3], g |-> [int |-> 0], x |-> [float |-> 6], h |-> [float |-> -8],
   b |-> Boolean(TRUE),
   s |-> [str |-> <<1, 2>>], t |-> [str |-> <<2>>], k |-> NoneValue,
   xs |-> [list |-> 1], ys |-> [list |-> 2], ss |-> [list |-> 3], xss |-> [list |-> 4],
   ps |-> [list |-> 5], d |-> [dict |-> 6], p |-> [obj |-> 7], q |-> [obj |-> 8], r |-> [obj |-> 9],
   fn |-> [func |-> "f", self |-> NoneValue]]

ListCell(items) == [list |-> items, functions |-> TRUE]
ObjectP(number) == [class |-> "P", fields |-> [y \in {"n"} |-> [int |-> number]]]
Ints(numbers) == [i \in DOMAIN numbers |-> [int |-> numbers[i]]]

MCHeap ==
  <<ListCell(Ints(<<4, 2, 9>>)), ListCell(Ints(<<4, 2, 9>>)), ListCell(<<[str |-> <<1>>]>>),
    ListCell(<<[list |-> 1], [list |-> 2]>>), ListCell(<<[obj |-> 7], [obj |-> 8]>>),
    [dict |-> <<<<[str |-> <<1>>], [int |-> 6]>>, <<[str |-> <<1, 2>>], [int |-> 7]>>>>],
    ObjectP(3), ObjectP(0),
    [class |-> "R", fields |-> [y \in {"p", "size"} |-> IF y = "p" THEN [obj |-> 7] ELSE [float |-> 6]]]>>

-----------------------------------------------------------------------------
(* Every operator on operands of every type.                               *)

Operands ==
  {IntOf(0), IntOf(2), Lit([float |-> 6]), True,
   Lit([str |-> <<1, 2>>]), Lit([str |-> <<2>>])}
  \cup {Name(y) : y \in {"i", "j", "h", "k", "s", "xs", "ys", "ss", "d", "p", "q", "r"}}

Arithmetic == {"+", "-", "*", "/", "//", "%", "**"}
BitOperators == {"&", "|", "^", "<<", ">>"}
Logical == {"and", "or"}

ValueOf(tree) == IF "lit" \in DOMAIN tree THEN tree.lit ELSE MCValues[tree.name]
KindOf(tree) == CHOOSE kind \in DOMAIN ValueOf(tree) : TRUE

IsStrict(op, l, r) ==
  LET kinds == {KindOf(l), KindOf(r)}
  IN CASE op \in Arithmetic \cup BitOperators -> 
            \/ "bool" \in kinds \/ (op = "|" /\ kinds = {"dict"})
            \/ op = "+" /\ kinds = {"list"} /\ MCDeclared[l.name] # MCDeclared[r.name]
       [] op \in Ordering -> "bool" \in kinds \/ kinds = {"list"}
       [] op \in Equality -> ~(kinds \subseteq {"int", "float", "bool"} \/ kinds = {"str"})
                             /\ (kinds # {"list"} \/ MCDeclared[l.name] # MCDeclared[r.name])
       [] op = "is" ->
            IF Cardinality(kinds) > 1 \/ kinds = {"obj"} THEN TRUE
            ELSE kinds = {"list"} /\ MCDeclared[l.name] # MCDeclared[r.name]
       [] op \in Logical -> "obj" \in kinds

IsUnwritable(op, l, r) ==
  \/ op = "!=" /\ {KindOf(l), KindOf(r)} = {"str"}
  \/ op \in Logical /\ "str" \in {KindOf(l), KindOf(r)}

(* Where C or the compiler has other rules than Python.                    *)
IsDifferent(op, l, r) ==
  LET kinds == {KindOf(l), KindOf(r)}
      a == Quarters(ValueOf(l))
      b == Quarters(ValueOf(r))
      times == Quarters(ValueOf(IF KindOf(l) = "int" THEN l ELSE r))
      first == IF IsNumber(ValueOf(l)) THEN a # 0 ELSE KindOf(l) # "none"
  IN CASE op \in Logical -> KindOf(IF first = (op = "and") THEN r ELSE l) # "bool"
       [] op = "is" -> kinds \subseteq {"int", "float", "str"} /\ ValueOf(l) = ValueOf(r)
       [] op \in Equality -> kinds = {"list"} /\ l # r
       [] op = "*" /\ kinds \cap {"list", "str"} # {} -> "int" \in kinds /\ times < 0
       [] op \in {"//", "%", "/"} /\ kinds \subseteq {"int", "float"} ->
            b = 0 \/ (op # "/" /\ TowardZero(a, b) # Floor(a, b))
       [] op \in BitOperators /\ kinds = {"int"} -> a < 0 \/ b < 0
       [] op = "**" /\ kinds \subseteq {"int", "float"} -> b < 0 \/ b % 4 # 0
       [] OTHER -> FALSE

(* A program that ends as in Python, or not as it should.                  *)
Program(outcome, stmts) == [stmts |-> stmts, outcome |-> outcome, local |-> FALSE]
Local(prog) == [prog EXCEPT !.local = TRUE]
Runs(stmts) == Program("python", stmts)
To(target, value) == Assign(target, "=", value)
N(y) == Name(y)

Operations ==
  {Program(CASE IsStrict(op, l, r) -> "strict"
             [] ~IsStrict(op, l, r) /\ IsUnwritable(op, l, r) -> "unwritable"
             [] OTHER -> IF IsDifferent(op, l, r) THEN "differs" ELSE "python",
           <<To(N("u"), Apply(op, <<l, r>>))>>) :
     op \in Arithmetic \cup BitOperators \cup Logical \cup Ordering \cup Equality \cup {"is"},
     l, r \in Operands}

UnaryOperations ==
  {Program(CASE op = "not" -> IF KindOf(y) = "obj" THEN "strict" ELSE "python"
             [] op = "neg" -> IF KindOf(y) = "bool" THEN "strict" ELSE "python"
             [] op = "~" -> IF KindOf(y) = "bool" THEN "strict" ELSE "python",
           <<To(N("u"), Apply(op, <<y>>))>>) :
     op \in UnaryOperators, y \in Operands}

-----------------------------------------------------------------------------
(* Statements.                                                             *)

Strict(stmts) == Program("strict", stmts)
Differs(stmts) == Program("differs", stmts)
NotC(stmts) == Program("unwritable", stmts)

Plus(l, r) == Apply("+", <<l, r>>)
OfList(l, fn, args) == Call(Attr(l, fn), args)
F(values) == Call(N("f"), values)
Str(t) == Lit([str |-> t])
Show(values) == Do(Call(N("print"), values))
Half == Lit([float |-> 2])
X1 == Item(N("xs"), IntOf(1))

Assigning ==
  {Runs(<<To(N("u"), IntOf(1)), To(N("u"), Plus(N("u"), N("i"))), Assign(N("u"), "*=", IntOf(2))>>),
   Runs(<<To(N("u"), N("xs")), Do(OfList(N("u"), "append", <<IntOf(1)>>)), To(N("v"), N("u"))>>),
   Runs(<<Annotate("i", N("g")), Annotate("x", Half), Annotate("xs", Lst(<<>>)), Annotate("e", Dct(<<>>))>>),
   Runs(<<Annotate("xss", Lst(<<N("xs"), Lst(<<>>), Lst(<<N("i")>>)>>))>>),
   Runs(<<To(X1, N("i")), To(Item(N("xs"), Apply("neg", <<IntOf(1)>>)), X1), Assign(X1, "-=", IntOf(2))>>),
   Runs(<<To(Item(N("d"), Str(<<5>>)), IntOf(1)), Assign(Item(N("d"), Str(<<1>>)), "+=", IntOf(1)),
           To(N("u"), Item(N("d"), Str(<<5>>)))>>),
   Runs(<<To(Item(Item(N("xss"), IntOf(1)), IntOf(0)), X1), To(Item(N("xss"), IntOf(0)), N("ys")),
           Assign(Item(Item(N("xss"), IntOf(0)), IntOf(2)), "*=", IntOf(3))>>),
   Runs(<<To(Attr(N("p"), "n"), N("i")), Assign(Attr(N("p"), "n"), "-=", IntOf(2)),
           To(Attr(Attr(N("r"), "p"), "n"), IntOf(8)), To(Attr(N("r"), "p"), N("q"))>>),
   Runs(<<Assign(N("p"), "+=", N("q")), Assign(N("q"), "+=", N("p")), Assign(Attr(N("r"), "p"), "+=", N("q")),
           Assign(Item(N("ps"), IntOf(1)), "+=", N("p"))>>),
   Runs(<<Assign(N("s"), "+=", N("t")), Assign(N("s"), "*=", IntOf(2)), Assign(N("x"), "/=", IntOf(2)),
           Assign(N("i"), "//=", IntOf(2)), Assign(N("i"), "<<=", IntOf(2)), Assign(N("i"), "**=", IntOf(2)),
           Assign(N("i"), "%=", IntOf(7)), Assign(N("i"), "|=", IntOf(8)), Assign(N("x"), "%=", IntOf(1))>>),
   Runs(<<To(Item(N("xs"), IntOf(3)), IntOf(1))>>), Runs(<<Assign(Item(N("d"), Str(<<7>>)), "+=", IntOf(1))>>),
   Runs(<<To(N("i"), Item(N("xs"), IntOf(3)))>>), Runs(<<To(N("i"), Item(N("d"), N("t")))>>),
   Runs(<<To(N("u"), Item(N("xs"), Apply("neg", <<IntOf(4)>>)))>>),
   Runs(<<To(N("u"), N("fn")), To(N("i"), Call(N("u"), <<IntOf(1), IntOf(2)>>))>>),
   Runs(<<To(N("u"), Attr(N("p"), "get")), To(N("p"), N("q")), To(N("i"), Call(N("u"), <<IntOf(1)>>))>>)}

Refusals ==
  {Strict(<<To(N("i"), Half)>>), Strict(<<To(N("i"), Str(<<1>>))>>), Strict(<<To(N("x"), IntOf(1))>>),
   Strict(<<To(N("xs"), N("ss"))>>), Strict(<<To(N("u"), Lst(<<IntOf(1), Half>>))>>), Strict(<<To(N("u"), Lst(<<>>))>>),
   Strict(<<To(X1, Half)>>), Strict(<<To(Item(N("d"), IntOf(1)), IntOf(1))>>), Strict(<<To(Attr(N("p"), "n"), Half)>>),
   Strict(<<To(N("u"), IntOf(1)), To(N("u"), Half)>>), Strict(<<To(N("p"), N("r"))>>),
   Strict(<<Assign(N("i"), "+=", Half)>>), Strict(<<Assign(X1, "/=", IntOf(2))>>),
   Strict(<<Do(F(<<Half>>))>>), Strict(<<Do(CallWith(N("f"), <<IntOf(1), IntOf(2)>>, <<"b">>)), To(N("fn"), N("fails"))>>),
   Strict(<<Do(OfList(N("xs"), "append", <<Half>>))>>), Strict(<<Do(OfList(N("xs"), "extend", <<N("ss")>>))>>),
   Strict(<<Do(Apply("not", <<N("p")>>))>>), Strict(<<Show(<<N("xs")>>)>>), Strict(<<Do(Apply("==", <<N("p"), N("q")>>))>>),
   Strict(<<Assign(N("r"), "+=", IntOf(1))>>), Runs(<<Assign(N("p"), "+=", IntOf(1))>>),
   Runs(<<Assign(N("p"), "-=", N("q"))>>), Runs(<<To(Item(N("i"), IntOf(1)), IntOf(1))>>),
   Runs(<<To(N("u"), Plus(N("p"), IntOf(1)))>>),
   NotC(<<Do(Apply("in", <<IntOf(2), N("xs")>>))>>),
   NotC(<<To(N("xs"), Lst(<<IntOf(1), OfList(N("ys"), "pop", <<>>)>>))>>),
   NotC(<<To(N("u"), Lst(<<Half, Half>>))>>), Runs(<<To(N("u"), Dct(<<Half, Half>>))>>)}

(* In the body of a function, what is popped goes into an argument, into a *)
(* temporary, or into a local, which is declared again.                    *)
Popping ==
  {Local(Runs(<<To(N("i"), OfList(N("xs"), "pop", <<>>)), Do(OfList(N("ys"), "pop", <<N("i")>>))>>)),
   Local(Runs(<<To(N("i"), OfList(N("xs"), "pop", <<IntOf(0)>>)), To(N("u"), N("i"))>>)),
   Local(Runs(<<To(N("u"), Plus(OfList(N("xs"), "pop", <<>>), IntOf(0)))>>)),
   Local(Runs(<<To(N("i"), OfList(N("d"), "pop", <<Str(<<1>>)>>))>>)),
   Local(NotC(<<To(N("u"), OfList(N("xs"), "pop", <<>>))>>)),
   Local(NotC(<<To(N("u"), IntOf(1)), To(N("u"), OfList(N("ys"), "pop", <<IntOf(0)>>))>>)),
   Runs(<<To(N("u"), OfList(N("xs"), "pop", <<>>)), To(N("u"), OfList(N("xs"), "pop", <<>>))>>)}

(* Calls: where arguments and operands are computed, and in which order.   *)
Calling ==
  {Runs(<<To(N("u"), F(<<F(<<IntOf(1)>>), N("g")>>)), Show(<<N("u"), N("g"), Str(<<4>>)>>), Show(<<>>)>>),
   Runs(<<To(N("u"), CallWith(N("f"), <<N("i"), IntOf(2)>>, <<"b", "a">>)),
           To(N("v"), CallWith(N("f"), <<IntOf(1), F(<<IntOf(2)>>)>>, <<"b">>))>>),
   Runs(<<To(N("u"), Apply("-", <<Apply("*", <<F(<<IntOf(2)>>), IntOf(2)>>), F(<<IntOf(1), IntOf(1)>>)>>))>>),
   Runs(<<To(N("u"), Apply("**", <<IntOf(2), Apply("**", <<IntOf(2), IntOf(2)>>)>>)),
           To(N("v"), Apply("-", <<Apply("-", <<N("i"), IntOf(1)>>), Apply("-", <<IntOf(2), IntOf(3)>>)>>))>>),
   Runs(<<To(N("u"), Plus(Apply("*", <<IntOf(2), N("i")>>), Apply("neg", <<Item(N("xs"), Plus(IntOf(1), IntOf(1)))>>)))>>),
   Runs(<<To(N("u"), Apply("==", <<Plus(N("i"), N("i")), Apply("*", <<N("i"), IntOf(2)>>)>>)),
           To(N("b"), Apply("not", <<Apply("<", <<N("s"), N("t")>>)>>))>>),
   Runs(<<To(N("u"), Plus(N("p"), N("q"))), To(N("v"), Plus(IntOf(2), N("p")))>>),
   Runs(<<To(N("u"), Plus(Plus(N("p"), N("p")), N("u")))>>),
   Runs(<<To(N("i"), Call(Attr(N("p"), "get"), <<Attr(N("q"), "n")>>)),
           Show(<<Attr(Attr(N("r"), "p"), "n"), Apply("/", <<N("i"), IntOf(2)>>), N("b")>>)>>),
   Runs(<<To(N("u"), Call(N("P"), <<IntOf(4)>>)), Show(<<N("u"), N("r")>>),
           To(N("v"), Call(N("R"), <<N("u")>>)), To(N("w"), CallWith(N("R"), <<Half, N("p")>>, <<"size", "p">>))>>),
   Runs(<<To(N("u"), Call(N("Q"), <<N("i")>>)), Show(<<Attr(N("u"), "a"), Attr(N("u"), "b")>>)>>),
   Runs(<<To(N("u"), Call(N("S"), <<N("p")>>)), Show(<<N("u")>>), To(Attr(N("u"), "p"), N("q"))>>),
   Runs(<<To(N("u"), Lst(<<F(<<IntOf(1)>>), N("g"), F(<<N("g")>>)>>)),
           To(N("v"), Dct(<<Str(<<1>>), F(<<IntOf(1)>>), Str(<<2>>), N("g"), Str(<<1>>), N("i")>>))>>),
   Runs(<<To(N("u"), Plus(N("i"), Call(N("fails"), <<IntOf(1)>>)))>>), Runs(<<Do(Call(N("fails"), <<IntOf(1)>>))>>),
   Runs(<<Do(F(<<Call(N("fails"), <<IntOf(1)>>)>>))>>),
   Runs(<<Assign(N("i"), "+=", Call(N("fails"), <<N("i")>>))>>)}

Builtins ==
  {Runs(<<Do(OfList(N("xs"), "append", <<F(<<IntOf(1)>>)>>)), Do(OfList(N("xs"), "reverse", <<>>)),
           Do(OfList(N("xs"), "extend", <<N("ys")>>)), To(N("i"), OfList(N("xs"), "pop", <<>>)),
           To(N("u"), OfList(N("xs"), "pop", <<IntOf(0)>>)), Do(OfList(N("xs"), "sort", <<>>))>>),
   Runs(<<Do(OfList(N("xs"), "insert", <<IntOf(1), N("i")>>)), Do(OfList(N("xs"), "remove", <<IntOf(2)>>)),
           To(N("u"), OfList(N("xs"), "index", <<IntOf(9)>>)), To(N("v"), OfList(N("xs"), "count", <<IntOf(4)>>)),
           Do(CallWith(Attr(N("xs"), "sort"), <<True>>, <<"reverse">>))>>),
   Runs(<<To(N("u"), OfList(N("xs"), "copy", <<>>)), Do(OfList(N("u"), "clear", <<>>)),
           To(N("v"), Plus(N("xs"), N("ys"))), Do(OfList(N("v"), "append", <<IntOf(2)>>))>>),
   Runs(<<Do(OfList(N("d"), "update", <<Dct(<<Str(<<1>>), IntOf(5), Str(<<9>>), IntOf(4)>>)>>)),
           To(N("e"), OfList(N("d"), "copy", <<>>)), To(N("i"), OfList(N("d"), "pop", <<Str(<<1>>)>>)),
           Do(OfList(N("d"), "clear", <<>>))>>),
   Runs(<<To(N("u"), OfList(N("d"), "keys", <<>>)), To(N("v"), OfList(N("d"), "items", <<>>))>>),
   Runs(<<To(N("u"), OfList(N("d"), "values", <<>>)), Do(OfList(N("d"), "pop", <<Str(<<6>>)>>))>>),
   Runs(<<Do(OfList(N("xs"), "remove", <<IntOf(7)>>))>>), Runs(<<Do(OfList(N("xs"), "pop", <<IntOf(3)>>))>>),
   Runs(<<To(N("u"), Plus(OfList(N("xs"), "pop", <<>>), OfList(N("xs"), "pop", <<>>)))>>),
   Runs(<<To(N("u"), OfList(OfList(N("xs"), "copy", <<>>), "pop", <<IntOf(1)>>))>>)}

(* What the compiler is known to change the meaning of.                    *)
Changed ==
  {Differs(<<To(N("u"), Plus(N("g"), F(<<IntOf(5)>>)))>>),            \* the call comes first
   Differs(<<To(N("u"), Apply("-", <<IntOf(1), Apply("*", <<Apply("*", <<IntOf(2), N("i")>>), IntOf(4)>>)>>))>>),
   Differs(<<Assign(N("g"), "+=", F(<<IntOf(5)>>))>>),
   Differs(<<To(X1, F(<<IntOf(1)>>)), To(Item(N("xs"), N("g")), F(<<IntOf(1)>>))>>),
   Differs(<<Assign(Attr(N("p"), "n"), "+=", Call(Attr(N("p"), "get"), <<IntOf(1)>>)), Assign(N("g"), "+=", F(<<N("g")>>))>>),
   Differs(<<To(N("xs"), Lst(<<IntOf(5), X1>>))>>),                   \* the target is overwritten early
   Differs(<<To(N("p"), Call(N("P"), <<Plus(Attr(N("p"), "n"), IntOf(1))>>))>>),
   Differs(<<To(N("i"), Call(N("fails"), <<IntOf(1)>>))>>),           \* and by calls that raise
   Differs(<<To(N("i"), OfList(N("xs"), "index", <<IntOf(7)>>))>>),
   Differs(<<To(N("xs"), Lst(<<IntOf(1), Call(N("fails"), <<IntOf(1)>>)>>))>>),
   Differs(<<To(N("u"), N("xs")), Assign(N("xs"), "+=", N("ys"))>>),  \* a new list
   Differs(<<To(N("u"), N("xs")), Assign(N("u"), "*=", IntOf(2))>>),
   Differs(<<To(N("u"), OfList(N("xs"), "copy", <<>>)), Do(OfList(N("u"), "sort", <<>>))>>),
   Differs(<<To(N("u"), OfList(OfList(N("xs"), "copy", <<>>), "count", <<IntOf(1)>>))>>),
   Differs(<<Do(OfList(N("xs"), "append", <<IntOf(4)>>)), To(N("i"), OfList(N("xs"), "index", <<IntOf(4)>>))>>),
   Differs(<<Do(OfList(N("xs"), "insert", <<IntOf(3), IntOf(1)>>))>>),
   Differs(<<To(N("u"), N("e"))>>),                                   \* never assigned to
   Differs(<<To(N("b"), Apply("and", <<N("b"), Apply("<", <<F(<<IntOf(1)>>), IntOf(1)>>)>>)),
             To(N("b"), Apply("or", <<N("b"), Apply("<", <<F(<<IntOf(1)>>), IntOf(1)>>)>>)),
             To(N("b"), Apply("or", <<True, Apply("<", <<F(<<IntOf(1)>>), IntOf(1)>>)>>))>>)}

MCPrograms ==
  Operations \cup UnaryOperations \cup Assigning \cup Refusals \cup Calling \cup Builtins \cup Popping \cup Changed
=============================================================================
