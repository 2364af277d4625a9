---------------------------- MODULE MCStatements ----------------------------
(***************************************************************************)
(* Small programs for Statements.  The body of f is what varies; the       *)
(* module calls f, and f calls a helper that raises, returns early, or has *)
(* a try statement of its own.                                             *)
(***************************************************************************)
EXTENDS CompiledMeaning

MCExceptions == {"KeyError", "IndexError", "AssertionError"}

a == Show("a")
b == Show("b")
key == Raise("KeyError")
index == Raise("IndexError")
helper == Call("helper")
When(body) == If(<<Arm(Test, body)>>, <<>>)

Program(f, h) ==
  [module |-> <<Call("f"), Show("end")>>, f |-> f, helper |-> h]

Programs2(bodies, helpers) == {Program(f, h) : f \in bodies, h \in helpers}

(* Branches, with conditions that are false, true, or raise.               *)
Conditionals ==
  {<<If(<<Arm(Test, <<a>>), Arm(c, <<x>>)>>, orelse), b>> :
     c \in {Test, "KeyError"}, x \in {b, Return, helper}, orelse \in {<<>>, <<Show("else")>>}}
  \cup {<<If(<<Arm(Test, <<a>>)>>, orelse), b>> : orelse \in {<<>>, <<Return>>}}
  \cup {<<AssertThat(c), b>> : c \in {Test, "KeyError"}}

(* Loops, left from the head, by break, continue, return or a raise in the *)
(* middle, and a loop in a loop.                                           *)
LoopBodies ==
  {<<If(<<Arm(Test, <<x>>)>>, <<y>>), b>> :
     x \in {Break, Continue, helper}, y \in {Break, a, Return}}
  \cup {<<While(Test, <<When(<<x>>), b>>), y, a>> :
          x \in {Break, Continue}, y \in {Show("y"), Break, Continue}}

Loops ==
  {<<While(Test, body), Show("after")>> : body \in LoopBodies}
  \cup {<<For(c, body), Show("after")>> : c \in {Test, "KeyError"}, body \in LoopBodies}

(* Try statements that are left by falling off their end, whose bodies     *)
(* raise what they catch and whose other blocks do not raise.              *)
Falls ==
  {Try(<<When(<<x>>), y, a>>, handlers, <<>>, finally) :
     x \in {key, index, helper}, y \in {helper, AssertThat(Test)},
     handlers \in {<<Except({"KeyError"}, <<Show("key")>>),
                    Except({"IndexError", "AssertionError"}, <<Show("index")>>)>>,
                  <<Except({"AssertionError", "KeyError", "IndexError"}, <<>>)>>},
     finally \in {<<>>, <<Show("finally")>>}}

Catching(body) ==
  Try(body, <<Except({"KeyError"}, <<Show("key")>>)>>, <<>>, <<Show("finally")>>)
CatchingIndex(body) ==
  Try(body, <<Except({"IndexError"}, <<Show("index")>>)>>, <<>>, <<>>)

Tries ==
  {<<t, b>> : t \in Falls}
  \cup {<<While(Test, <<Catching(<<When(<<x>>), a>>), b>>)>> : x \in {key, helper}}
  \cup {<<Catching(<<For(Test, <<When(<<x>>), b>>), When(<<key>>), a>>), b>> :
          x \in {Break, Continue, key}}
  \cup {<<Catching(<<CatchingIndex(<<When(<<index>>), a>>), When(<<x>>), b>>)>> :
          x \in {key, helper}}
  \cup {<<CatchingIndex(<<When(<<index>>)>>), Catching(<<When(<<key>>), helper, a>>), When(<<key>>)>>}

Quiet == {<<Show("h")>>, <<When(<<Return>>), Show("h")>>}
Raising == {<<When(<<key>>), Show("h")>>}
Handling ==
  {<<When(<<key>>), CatchingIndex(<<When(<<index>>), b>>), Show("h")>>}

ContainedPrograms ==
  Programs2(Conditionals \cup Loops, Raising)
  \cup Programs2(Tries, Quiet \cup Raising \cup Handling)

(* Try statements left by a jump. *)
JumpingPrograms ==
  Programs2({<<Catching(<<a, Return>>), b>>,
             <<While(Test, <<Catching(<<When(<<Break>>), a>>)>>), b>>,
             <<While(Test, <<Catching(<<When(<<Continue>>), a>>)>>), b>>},
            {<<Show("h")>>})

MCFunctions == {"module", "f", "helper"}

(* The statements of a set of programs, by the place they stand in.        *)
RECURSIVE Nested(_, _)
Nested(s, place) ==
  {<<place, s>>} \cup
    UNION {UNION {Nested(block[k], Within(s, place)) : k \in DOMAIN block} : block \in Blocks(s)}

StatementsOf(programs) ==
  LET bodies == UNION {{prog[f] : f \in DOMAIN prog} : prog \in programs}
      placed == UNION {UNION {Nested(body[k], FunctionBody) : k \in DOMAIN body} : body \in bodies}
  IN [place \in Place |-> {p[2] : p \in {q \in placed : q[1] = place}}]

RECURSIVE DepthOf(_)
DepthOf(s) ==
  LET inner == UNION {{block[k] : k \in DOMAIN block} : block \in Blocks(s)}
  IN IF inner = {} THEN 0 ELSE 1 + Max({DepthOf(t) : t \in inner})

MCDepth == [s \in AnyStatement |-> DepthOf(s)]
ContainedStatements == StatementsOf(ContainedPrograms)
JumpingStatements == StatementsOf(JumpingPrograms)

-----------------------------------------------------------------------------
(* The programs come to an end within Patience, however their tests come   *)
(* out, so that MeansTheSame speaks of all of their runs.                  *)
Outcomes == UNION {[1 .. n -> BOOLEAN] : n \in 0 .. MaxTests}

ASSUME ProgramsFinish ==
  \A prog \in Programs, out \in Outcomes : Finished(prog, out)

(* They are programs whose try statements are handled (Handled), as far as *)
(* the tests of a run go.                                                  *)
TriesOf(prog) == {s \in UNION Range(StatementsOf({prog})) : s.kind = "try"}

ASSUME TriesHandled ==
  \A prog \in Programs, n \in 0 .. Patience, out \in Outcomes :
    \A s \in TriesOf(prog) : Handles(prog, s, n, AtStart(out))
=============================================================================
