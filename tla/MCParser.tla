------------------------------ MODULE MCParser ------------------------------
(***************************************************************************)
(* Programs for the parser: every kind of expression with every other one  *)
(* inside of it, every kind of statement, control flow in control flow,    *)
(* and files that are wrong in one way each.                               *)
(***************************************************************************)
EXTENDS Parser

-----------------------------------------------------------------------------
(* Expressions.                                                            *)

N(x) == <<[name |-> x]>>
One == <<[literal |-> "1"]>>
O(o) == <<[op |-> o]>>
Atoms == {N("a"), One}

It(x) == <<[name |-> x]>>
Comp(kind, of, loops, if) ==
  <<[comprehension |-> [kind |-> kind, of |-> of, loops |-> loops, if_expr |-> if]]>>
Call(f, values, kwds, n) ==
  f \o O("call") \o <<[args |-> [values |-> values, kwds |-> kwds, n_positional |-> n]]>>

\* every shape with x in it once
Around(x) ==
  {x, O("negative") \o x, O("not") \o x, N("b") \o O("+") \o x, x \o O("**") \o N("b"),
   x \o O("==") \o O("negative") \o N("b"), N("b") \o O("and") \o O("not") \o x,
   N("b") \o O("not") \o O("in") \o N("c"), <<[constant |-> "True"]>> \o O("or") \o N("b"),
   x \o O("is") \o N("None"), x \o O("getattr") \o N("b"),
   N("b") \o O("*") \o <<[expr |-> x]>>,
   <<[tuple |-> <<x>>]>>, <<[tuple |-> <<x, N("b"), x>>]>>, <<[tuple |-> <<>>]>>,
   <<[list |-> <<>>]>>, <<[list |-> <<x>>]>>, <<[list |-> <<N("b"), x>>]>>,
   <<[dict |-> <<>>]>>, <<[dict |-> <<x, One>>]>>, <<[dict |-> <<One, x, x, N("b")>>]>>,
   Call(N("f"), <<>>, <<>>, 0), Call(N("f"), <<x>>, <<>>, 1),
   Call(N("f"), <<N("b"), x, One>>, <<"k", "l">>, 1), Call(N("f"), <<x>>, <<"k">>, 0),
   N("b") \o O("if") \o <<[expr |-> x]>> \o O("else") \o <<[expr |-> N("c")]>>,
   N("b") \o O("if") \o <<[expr |-> N("c")]>> \o O("else") \o <<[expr |-> x]>>,
   N("b") \o O("getitem") \o <<[expr |-> x]>>,
   Comp("list", <<N("i")>>, <<[it |-> It("i"), iterable |-> N("b")]>>, x),
   Comp("tuple", <<x>>, <<[it |-> <<[group |-> <<[name |-> "i"], [name |-> "j"]>>],
                                    [name |-> "k"]>>, iterable |-> N("b")]>>, <<>>),
   Comp("dict", <<x, N("i")>>, <<[it |-> It("i") \o It("j"), iterable |-> N("b")],
                                 [it |-> It("k"), iterable |-> N("i")]>>, N("j"))}
  \cup {N("b") \o O("getitem") \o <<[slice |-> s]>> :
          s \in {<<p, q, r>> : p, q, r \in {<<>>, x}}}

\* x applied: what may follow an operand
Applied(x) ==
  {Call(x, <<One>>, <<>>, 1), x \o O("getitem") \o <<[expr |-> One]>>,
   Call(x \o O("getattr") \o N("m"), <<>>, <<>>, 0)}

Shapes == UNION {Around(x) : x \in Atoms}
Conditional(e) == \E i \in DOMAIN e : e[i] = [op |-> "if"]
Extendable(X) == {e \in X : ~Conditional(e)}
Expressions == UNION {Around(x) : x \in Extendable(Around(N("a")))}
                 \cup UNION {Applied(x) : x \in Extendable(Shapes)}

-----------------------------------------------------------------------------
(* Statements in column c.                                                 *)

St(c, kind, value) == [k \in {"col", kind} |-> IF k = "col" THEN c ELSE value]

Whole == TypeInfo("int", "", <<>>)
Of(type, inner) == TypeInfo(type, "", inner)
Obj(cls) == TypeInfo("object", cls, <<>>)
Types == {Whole, Of("List", <<Whole>>), Of("Dict", <<Of("str", <<>>), Of("List", <<Whole>>)>>),
          Of("Tuple", <<Whole, Of("float", <<>>)>>), Of("Function", <<Whole>>),
          Of("Function", <<Whole, Of("Tuple", <<Whole>>), Of("bool", <<>>)>>)}

Expr(c, e) == St(c, "expr", e)
Assign(c, x, op, e) == St(c, "assignment", [storage |-> x, op_type |-> op, value |-> e])
Annotate(c, x, t, e) == St(c, "annotation", [name |-> x, type |-> t, initial |-> e])
Pass(c) == St(c, "no_op", <<>>)
Break(c) == St(c, "break", <<>>)
Continue(c) == St(c, "continue", <<>>)
Return(c, e) == St(c, "return_expr", e)
Global(c, x) == St(c, "global", x)

For(c, body) == St(c, "for_loop", [it |-> It("i"), iterable |-> N("b"), body |-> body])
While(c, body) == St(c, "while_loop", [condition |-> N("a"), body |-> body])
If(c, body, elifs, else) ==
  St(c, "conditional", [condition |-> N("a"), body |-> body, else_body |-> else,
       elifs |-> [i \in DOMAIN elifs |-> [condition |-> N("b"), body |-> elifs[i]]]])
Except(names, as, body) == [exceptions |-> names, as |-> as, body |-> body]
Try(c, body, excepts, else, finally) ==
  St(c, "try_stmt", [try_body |-> body, excepts |-> excepts, else_body |-> else,
                     finally_body |-> finally])
With(c, as, body) == St(c, "with", [ctx_manager |-> N("a"), as |-> as, body |-> body])
Param(x, t, default) == [name |-> x, type |-> t, default |-> default]
Def(c, name, params, returns, body) ==
  St(c, "func", [name |-> name, params |-> params, returns |-> returns, body |-> body,
                 is_method |-> FALSE, decorator |-> <<>>])
Method(c, name, params, returns, body) ==
  [Def(c, name, params, returns, body) EXCEPT !.func.is_method = TRUE]
NoneType == Of("None", <<>>)
Fun(c, body) == Def(c, "g", <<>>, NoneType, body)
Class(c, name, body) == St(c, "cls", [name |-> name, base |-> "", body |-> body])

Simple(c) ==
  {Assign(c, N("x"), "=", One), Assign(c, N("x"), "+=", N("a")),
   Assign(c, N("x") \o O("getattr") \o N("y"), "=", N("a")),
   Expr(c, N("a")), St(c, "assert", N("a") \o O("==") \o <<[tuple |-> <<>>]>>),
   Return(c, <<>>), Return(c, N("a")), Pass(c), Break(c), Continue(c), Global(c, "a"),
   St(c, "import", [path |-> <<"m">>, as |-> ""]),
   St(c, "import", [path |-> <<"m", "n">>, as |-> "o"]),
   St(c, "import_from", [path |-> <<"m">>, names |-> <<[what |-> "n", as |-> "o"]>>]),
   St(c, "import_from", [path |-> <<"m", "n">>,
     names |-> <<[what |-> "n", as |-> ""], [what |-> "o", as |-> "p"]>>])}
  \cup {Annotate(c, "y", t, e) : t \in Types, e \in {<<>>, N("a")}}

\* every statement that has blocks, around blocks b and d in a deeper column
Compound(c, b, d) ==
  {For(c, b), While(c, d), If(c, b, <<>>, <<>>), If(c, b, <<d>>, b), If(c, d, <<d, b>>, <<>>),
   Try(c, b, <<Except(<<"E">>, "", d)>>, <<>>, <<>>),
   Try(c, d, <<Except(<<"E">>, "e", b), Except(<<"F", "G">>, "", d)>>, b, d),
   Try(c, d, <<Except(<<"E">>, "", b)>>, d, <<>>),
   Try(c, b, <<Except(<<"E", "F">>, "e", d)>>, <<>>, b),
   With(c, "", b), With(c, "f", d), Fun(c, b),
   [Def(c, "h", <<Param("p", Whole, <<>>), Param("q", Whole, One)>>, Whole, d)
      EXCEPT !.func.decorator = N("a")]}

X(c) == Assign(c, N("x"), "=", One)
Bodies(c) ==
  {<<X(c)>>, <<Break(c)>>, <<Expr(c, N("a")), Return(c, N("a"))>>,
   <<Assign(c, N("y"), "=", Comp("list", <<N("i")>>,
       <<[it |-> It("i"), iterable |-> N("b")]>>, <<>>)), Continue(c)>>}

\* control flow in control flow, and something behind it on both levels
Inner(c, e) ==
  UNION {Compound(c, b, <<X(e)>>) : b \in {<<Break(e)>>, <<Expr(e, N("a")), Break(e)>>}}
Nested ==
  {<<s, X(1)>> : s \in UNION {UNION {Compound(1, <<t>>, <<X(3), t>>)
      : t \in Inner(3, 7)}}}
  \cup {<<While(1, <<t, u>>), While(1, <<u>>)>> : t \in Inner(4, 6),
          u \in {Break(4), Return(4, <<>>)}}

Control == {<<s, Assign(1, N("x"), "=", One)>> :
              s \in UNION {Compound(1, b, d) : b, d \in Bodies(3)}}

-----------------------------------------------------------------------------
(* Functions and classes.                                                  *)

Defaults == {<<>>, One}
Functions ==
  {<<Def(1, "g", <<Param("p", Whole, d), Param("q", Of("List", <<Whole>>), e),
                   Param("r", Whole, f)>>, Whole, <<Return(3, N("p"))>>)>> :
     d, e, f \in Defaults}
  \cup {<<X(1), Def(1, "g", <<Param(p, Whole, <<>>)>>, NoneType, body), X(1)>> :
          p \in {"p", "x"},
          body \in {<<Global(3, "x"), X(3)>>, <<X(3), Global(3, "x"), X(3)>>,
                    <<Global(3, "z"), X(3)>>, <<For(3, <<X(4)>>), Global(3, "x"), X(3)>>}}

Members == {<<Annotate(3, "m", Whole, d), Annotate(3, "n", Obj("C"), e)>> : d, e \in Defaults}
MethodsOf(name) ==
  {<<Method(3, name, params, returns, <<Return(5, N("self"))>>)>> :
     params \in {<<>>, <<Param("p", Obj("C"), <<>>)>>,
                 <<Param("p", Whole, <<>>), Param("q", Whole, One)>>},
     returns \in {Whole, Of("bool", <<>>), Of("str", <<>>), NoneType}}
Classes ==
  {<<Class(1, "C", m \o b), Annotate(1, "y", Obj(k), <<>>)>> :
     m \in Members, b \in {<<>>, <<Method(3, "k", <<>>, Obj("C"), <<X(5)>>), X(3)>>},
     k \in {"C", "D"}}
  \cup {<<Class(1, "C", b)>> :
          b \in UNION {MethodsOf(n) : n \in Text!SpecialNames \cup {"m"}}}
  \cup {<<Fun(1, <<Class(3, "C", <<X(5)>>)>>)>>,
        <<[Class(1, "C", <<Pass(3)>>) EXCEPT !.cls.base = "B"],
          Class(1, "D", <<Annotate(4, "y", Obj("C"), <<>>)>>)>>,
        <<Def(1, "g", <<Param("p", Obj("C"), <<>>)>>, Whole, <<Pass(3)>>),
          Class(1, "C", <<Pass(3)>>)>>}

-----------------------------------------------------------------------------
(* Columns: blocks of different widths, and blocks that are not aligned.   *)

Nest(c, d, e, f) == <<While(1, <<If(c, <<X(d)>>, <<>>, <<X(e)>>), X(f)>>), X(1)>>
\* in the column of the block before it, the last statement would be part of that
Columns == UNION {{Nest(c, d, e, f) : c \in {2, 3, 5}, f \in {2, 3, 5} \ {e}} :
                    d, e \in {1, 3, 4, 6}}
Depths ==
  {<<While(1, <<While(2, <<While(3, <<While(4, <<X(5)>>)>>)>>)>>)>>,
   <<Fun(1, <<Fun(2, <<Fun(3, <<X(4)>>)>>), X(2)>>), Fun(1, <<X(2)>>)>>,
   <<While(1, <<While(2, <<While(3, <<X(4)>>), X(3)>>), X(2)>>), X(1),
     While(1, <<While(2, <<X(7)>>), X(2)>>)>>}

MCPrograms ==
  {<<Expr(1, e)>> : e \in Expressions}
    \cup {<<s, t>> : s \in Simple(1), t \in {X(1), Break(1)}}
    \cup {<<Fun(1, <<s, X(2)>>), s>> : s \in Simple(2)}
    \cup Control \cup Nested \cup Functions \cup Classes \cup Columns \cup Depths

\* three clusters, one of which starts in the last slots of a table
MCHash(name) ==
  CASE name \in {"a", "f", "m", "x"} -> 3 [] name \in {"b", "i", "y"} -> 2 [] OTHER -> 19
=============================================================================
