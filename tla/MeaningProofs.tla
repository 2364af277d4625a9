---------------------------- MODULE MeaningProofs ----------------------------
(***************************************************************************)
(* Proof that the C of module Statements does what Python means by the     *)
(* program it was compiled from (CompiledMeaning), for every program and   *)
(* however its tests come out.                                             *)
(*                                                                         *)
(* Python's meaning is followed backwards.  A call at a place of its       *)
(* function is a configuration: its locals, current_excepts, the state of  *)
(* affairs as Python sees it, and how the function is to end.  Every       *)
(* statement is compiled to code that leads from the configurations in     *)
(* which Python's statement would come to some outcome to those with that  *)
(* outcome at its end, and to the handler, the loop or the exit that its   *)
(* surroundings plan for where it leaves otherwise (MeantStatement, by     *)
(* induction on the depth of statements).  So there is a plan for every    *)
(* place of a function (Mapped), and the running program keeps to it, call *)
(* by call (Faithful, by induction on the steps).                          *)
(***************************************************************************)
EXTENDS CompiledMeaning, StatementProofs

-----------------------------------------------------------------------------
(* What Python means, one level at a time                                  *)

(* What tasks do that are followed n deep, by what they do one step less.  *)
Level(prog, f, n) ==
  [task \in Task |-> [env \in Env |->
     IF n = 0 THEN Leaving(env, Unfinished) ELSE ExecTask(prog, f[n - 1], task, env)]]

FollowedUpTo(prog, f, n) == f = [m \in 0 .. n |-> Level(prog, f, m)]

LEMMA LevelSame ==
  ASSUME NEW prog, NEW f, NEW g, NEW n \in Nat, n # 0 => f[n - 1] = g[n - 1]
  PROVE  Level(prog, f, n) = Level(prog, g, n)
<1>1. CASE n = 0
  BY <1>1 DEF Level
<1>2. CASE n # 0
  BY <1>2 DEF Level
<1>3. QED
  BY <1>1, <1>2

LEMMA FollowedExists ==
  ASSUME NEW prog
  PROVE  \A n \in Nat : \E f : FollowedUpTo(prog, f, n)
<1> DEFINE S == {n \in Nat : \E f : FollowedUpTo(prog, f, n)}
<1>1. 0 \in S
  <2> DEFINE L(m) == Level(prog, <<>>, m)
             f == [m \in 0 .. 0 |-> L(m)]
             h == [m \in 0 .. 0 |-> Level(prog, f, m)]
  <2>1. \A m \in 0 .. 0 : Level(prog, f, m) = L(m)
    <3>1. TAKE m \in 0 .. 0
    <3>2. m = 0 /\ m \in Nat
      OBVIOUS
    <3> HIDE DEF f
    <3>3. QED
      BY <3>2, LevelSame
  <2>2. f = h
    <3> HIDE DEF L
    <3>1. QED
      BY <2>1
  <2>3. FollowedUpTo(prog, f, 0)
    BY <2>2 DEF FollowedUpTo
  <2>4. QED
    BY <2>3
<1>2. ASSUME NEW n \in Nat, n \in S PROVE n + 1 \in S
  <2>1. PICK f : FollowedUpTo(prog, f, n)
    BY <1>2
  <2> DEFINE L(m) == IF m <= n THEN f[m] ELSE Level(prog, f, m)
             g == [m \in 0 .. n + 1 |-> L(m)]
             h == [m \in 0 .. n + 1 |-> Level(prog, g, m)]
  <2>2. \A m \in 0 .. n : g[m] = f[m] /\ f[m] = Level(prog, f, m)
    <3> DEFINE e == [m \in 0 .. n |-> Level(prog, f, m)]
    <3>1. f = e
      BY <2>1 DEF FollowedUpTo
    <3>2. \A m \in 0 .. n : e[m] = Level(prog, f, m)
      OBVIOUS
    <3> HIDE DEF e
    <3>3. \A m \in 0 .. n : m \in 0 .. n + 1 /\ m <= n
      OBVIOUS
    <3>4. QED
      BY <3>1, <3>2, <3>3
  <2>3. ASSUME NEW m \in 0 .. n + 1 PROVE Level(prog, g, m) = L(m)
    <3>1. m # 0 => g[m - 1] = f[m - 1]
      BY <2>2
    <3>2. Level(prog, g, m) = Level(prog, f, m)
      <4> HIDE DEF g
      <4>1. QED
        BY <3>1, LevelSame
    <3>3. QED
      BY <2>2, <3>2
  <2>4. g = h
    <3> HIDE DEF L
    <3>1. QED
      BY <2>3
  <2>5. FollowedUpTo(prog, g, n + 1)
    BY <2>4 DEF FollowedUpTo
  <2>6. QED
    BY <2>5
<1> HIDE DEF S
<1>3. \A n \in Nat : n \in S
  BY <1>1, <1>2, InductionOnNat
<1>4. QED
  BY <1>3 DEF S

LEMMA FollowedAgree ==
  ASSUME NEW prog, NEW n \in Nat, NEW m \in Nat, NEW f, NEW g,
         FollowedUpTo(prog, f, n), FollowedUpTo(prog, g, m)
  PROVE  \A i \in (0 .. n) \cap (0 .. m) : f[i] = g[i]
<1> DEFINE S == {i \in Nat : i \in (0 .. n) \cap (0 .. m) => f[i] = g[i]}
<1>1. /\ \A i \in 0 .. n : f[i] = Level(prog, f, i)
      /\ \A i \in 0 .. m : g[i] = Level(prog, g, i)
  <2> DEFINE d == [i \in 0 .. n |-> Level(prog, f, i)]
             e == [i \in 0 .. m |-> Level(prog, g, i)]
  <2>1. f = d /\ g = e
    BY DEF FollowedUpTo
  <2>2. /\ \A i \in 0 .. n : d[i] = Level(prog, f, i)
        /\ \A i \in 0 .. m : e[i] = Level(prog, g, i)
    OBVIOUS
  <2> HIDE DEF d, e
  <2>3. QED
    BY <2>1, <2>2
<1>2. 0 \in S
  <2>1. Level(prog, f, 0) = Level(prog, g, 0)
    BY LevelSame
  <2>2. QED
    BY <1>1, <2>1
<1>3. ASSUME NEW i \in Nat, i \in S PROVE i + 1 \in S
  <2>1. SUFFICES ASSUME i + 1 \in (0 .. n) \cap (0 .. m) PROVE f[i + 1] = g[i + 1]
    OBVIOUS
  <2>2. i \in (0 .. n) \cap (0 .. m) /\ (i + 1) - 1 = i
    BY <2>1
  <2>3. f[(i + 1) - 1] = g[(i + 1) - 1]
    BY <1>3, <2>2
  <2>4. Level(prog, f, i + 1) = Level(prog, g, i + 1)
    BY <2>3, LevelSame
  <2>5. QED
    BY <1>1, <2>1, <2>4
<1> HIDE DEF S
<1>4. \A i \in Nat : i \in S
  BY <1>2, <1>3, InductionOnNat
<1>5. QED
  BY <1>4 DEF S

(* Followed is defined: it satisfies its own recursion.                    *)
LEMMA FollowedIs ==
  ASSUME NEW prog, NEW n \in Nat
  PROVE  Followed(prog)[n] = Level(prog, Followed(prog), n)
<1> DEFINE upTo(m) == CHOOSE f : FollowedUpTo(prog, f, m)
           F == [m \in Nat |-> upTo(m)[m]]
<1>1. \A m \in Nat : FollowedUpTo(prog, upTo(m), m)
  BY FollowedExists
<1> HIDE DEF upTo
<1>2. ASSUME NEW m \in Nat PROVE F[m] = Level(prog, F, m)
  <2>1. F[m] = upTo(m)[m]
    OBVIOUS
  <2>2. upTo(m)[m] = Level(prog, upTo(m), m)
    <3> DEFINE f == upTo(m)
               d == [i \in 0 .. m |-> Level(prog, f, i)]
    <3>1. f = d
      BY <1>1 DEF FollowedUpTo
    <3>2. d[m] = Level(prog, f, m)
      OBVIOUS
    <3> HIDE DEF d
    <3>3. QED
      BY <3>1, <3>2
  <2>3. ASSUME m # 0 PROVE upTo(m)[m - 1] = F[m - 1]
    <3>1. m - 1 \in Nat /\ m - 1 \in (0 .. m) \cap (0 .. m - 1)
      BY <2>3
    <3>2. F[m - 1] = upTo(m - 1)[m - 1]
      BY <3>1
    <3>3. upTo(m)[m - 1] = upTo(m - 1)[m - 1]
      BY <1>1, <3>1, FollowedAgree
    <3>4. QED
      BY <3>2, <3>3
  <2> HIDE DEF F
  <2>4. Level(prog, upTo(m), m) = Level(prog, F, m)
    BY <2>3, LevelSame
  <2>5. QED
    BY <2>1, <2>2, <2>4
<1>3. F = [m \in Nat |-> Level(prog, F, m)]
  <2> DEFINE G == [m \in Nat |-> Level(prog, F, m)]
  <2>1. \A m \in Nat : F[m] = G[m]
    BY <1>2
  <2>2. F = G
    BY <2>1
  <2>3. QED
    BY <2>2
<1> HIDE DEF F
<1> DEFINE R == CHOOSE r : r = [m \in Nat |-> Level(prog, r, m)]
<1>4. R = [m \in Nat |-> Level(prog, R, m)]
  BY <1>3
<1>5. Followed(prog) = R
  BY DEF Followed, Level
<1> HIDE DEF R
<1> DEFINE G == [m \in Nat |-> Level(prog, R, m)]
<1>6. R = G /\ \A m \in Nat : G[m] = Level(prog, R, m)
  BY <1>4
<1> HIDE DEF G
<1>7. QED
  BY <1>5, <1>6

(* What the parts of a statement are. *)
LEMMA StatementParts ==
  ASSUME NEW s \in AnyStatement
  PROVE  /\ s.kind \in {"print", "break", "continue", "return", "raise", "call", "assert",
                        "while", "for", "if", "try"}
         /\ s.kind = "print" => s.event \in Event
         /\ s.kind = "raise" => s.exc \in Exceptions
         /\ s.kind = "call" => s.fn \in Functions
         /\ s.kind \in {"assert", "while", "for"} => s.cond \in Condition
         /\ s.kind \in {"while", "for"} => s.body \in Seq(AnyStatement)
         /\ s.kind = "if" => /\ s.arms \in Seq([cond : Condition, body : Seq(AnyStatement)])
                             /\ s.orelse \in Seq(AnyStatement)
         /\ s.kind = "try" =>
              /\ s.excepts \in Seq([types : SUBSET Exceptions, body : Seq(AnyStatement)])
              /\ s.body \in Seq(AnyStatement) /\ s.orelse \in Seq(AnyStatement)
              /\ s.finally \in Seq(AnyStatement)
<1>1. PICK place \in Place : s \in Statement[place]
  BY DEF AnyStatement
<1>2. /\ WellFormed(s)
      /\ \A block \in Blocks(s) : block \in Seq(Statement[Within(s, place)])
  BY <1>1, ProgramsAssumption
<1>3. Within(s, place) \in Place
  BY DEF Within, Place
<1>4. \A block \in Blocks(s) : block \in Seq(AnyStatement)
  <2>1. Statement[Within(s, place)] \subseteq AnyStatement
    BY <1>3 DEF AnyStatement
  <2>2. QED
    BY <1>2, <2>1
<1>5. s.kind = "print" => s.event \in Event
  BY DEF Event
<1>6. /\ s.kind \in {"while", "for"} => s.body \in Blocks(s)
      /\ s.kind = "if" => s.orelse \in Blocks(s)
      /\ s.kind = "try" => {s.body, s.orelse, s.finally} \subseteq Blocks(s)
  BY DEF Blocks
<1>7. QED
  BY <1>2, <1>4, <1>5, <1>6 DEF WellFormed

Runs == [Task -> [Env -> Env]]

(* No exception has the name of another way to leave. *)
LEMMA HowsApart ==
  ASSUME NEW x \in Exceptions
  PROVE  x # "normal" /\ x # "break" /\ x # "continue" /\ x # "return" /\ x # Unfinished
         /\ x # Test /\ x # NoException /\ x \notin Departures /\ x \in How
BY ExceptionsAssumption DEF Departures, How

LEMMA LeavingIn ==
  ASSUME NEW env \in Env, NEW how \in How
  PROVE  /\ Leaving(env, how) \in Env
         /\ Leaving(env, how) = [tests |-> env.tests, printed |-> env.printed, how |-> how]
BY DEF Leaving, Env

LEMMA EvaluateIn ==
  ASSUME NEW c \in Condition, NEW env \in Env
  PROVE  /\ Evaluate(c, env).env \in Env
         /\ Evaluate(c, env).holds \in BOOLEAN
         /\ c # Test => c \in Exceptions /\ Evaluate(c, env) = [env |-> Leaving(env, c), holds |-> FALSE]
         /\ (c = Test /\ env.tests = <<>>) => Evaluate(c, env) = [env |-> env, holds |-> FALSE]
         /\ (c = Test /\ env.tests # <<>>) =>
              Evaluate(c, env) = [env |-> [env EXCEPT !.tests = Tail(@)], holds |-> Head(env.tests)]
<1>1. CASE c # Test
  <2>1. c \in Exceptions /\ c \in How
    BY <1>1, HowsApart DEF Condition
  <2>2. QED
    BY <1>1, <2>1, LeavingIn DEF Evaluate
<1>2. CASE c = Test /\ env.tests = <<>>
  BY <1>2 DEF Evaluate
<1>3. CASE c = Test /\ env.tests # <<>>
  <2>1. env.tests \in Seq(BOOLEAN)
    BY DEF Env
  <2>2. Tail(env.tests) \in Seq(BOOLEAN) /\ Head(env.tests) \in BOOLEAN
    BY <1>3, <2>1, HeadTailProperties
  <2>3. [env EXCEPT !.tests = Tail(@)] \in Env
    BY <2>2 DEF Env
  <2>4. QED
    BY <1>3, <2>2, <2>3 DEF Evaluate
<1>4. QED
  BY <1>1, <1>2, <1>3

LEMMA TasksIn ==
  /\ \A stmts \in Seq(AnyStatement) : Do(stmts) \in Task
  /\ \A arms \in Seq([cond : Condition, body : Seq(AnyStatement)]), orelse \in Seq(AnyStatement) :
       Choice(arms, orelse) \in Task
BY DEF Do, Choice, Task

LEMMA RunsIn ==
  ASSUME NEW run \in Runs, NEW env \in Env
  PROVE  /\ \A stmts \in Seq(AnyStatement) : run[Do(stmts)][env] \in Env
         /\ \A arms \in Seq([cond : Condition, body : Seq(AnyStatement)]), orelse \in Seq(AnyStatement) :
              run[Choice(arms, orelse)][env] \in Env
<1>1. \A task \in Task : run[task][env] \in Env
  BY DEF Runs
<1>2. QED
  BY <1>1, TasksIn

LEMMA LoopIn ==
  ASSUME NEW run \in Runs, NEW s \in AnyStatement, s.kind \in {"while", "for"}, NEW env \in Env
  PROVE  ExecLoop(run, s, env) \in Env
<1> DEFINE c == Evaluate(s.cond, env)
           once == run[Do(s.body)][c.env]
<1>1. s.cond \in Condition /\ s.body \in Seq(AnyStatement)
  BY StatementParts
<1>2. c.env \in Env /\ c.holds \in BOOLEAN
  BY <1>1, EvaluateIn
<1> HIDE DEF c
<1>3. once \in Env
  BY <1>1, <1>2, RunsIn
<1> HIDE DEF once
<1>4. Leaving(once, "normal") \in Env
  BY <1>3, LeavingIn DEF How, Departures
<1>5. <<s>> \in Seq(AnyStatement)
  OBVIOUS
<1>6. run[Do(<<s>>)][Leaving(once, "normal")] \in Env
  BY <1>4, <1>5, RunsIn
<1>7. ExecLoop(run, s, env) \in {c.env, Leaving(once, "normal"), run[Do(<<s>>)][Leaving(once, "normal")], once}
  BY <1>2 DEF ExecLoop, c, once
<1>8. QED
  BY <1>2, <1>3, <1>4, <1>6, <1>7

(* The except block that catches an exception. *)
Catches(s, i, how) ==
  /\ i \in DOMAIN s.excepts /\ how \in s.excepts[i].types
  /\ \A j \in DOMAIN s.excepts : how \in s.excepts[j].types => i <= j

LEMMA FirstCatches ==
  ASSUME NEW s \in AnyStatement, s.kind = "try", NEW how,
         \E i \in DOMAIN s.excepts : how \in s.excepts[i].types
  PROVE  \E i : Catches(s, i, how)
<1> DEFINE T == {i \in DOMAIN s.excepts : how \in s.excepts[i].types}
<1>1. T \in SUBSET Nat /\ T # {}
  <2>1. DOMAIN s.excepts = 1 .. Len(s.excepts) /\ Len(s.excepts) \in Nat
    BY StatementParts
  <2>2. QED
    BY <2>1
<1>2. PICK i \in T : \A j \in T : i <= j
  BY <1>1, LeastNumber
<1>3. QED
  BY <1>2 DEF Catches

LEMMA ExceptsIs ==
  ASSUME NEW run, NEW s \in AnyStatement, s.kind = "try", NEW env
  PROVE  /\ env.how = "normal" => ExecExcepts(run, s, env) = run[Do(s.orelse)][env]
         /\ (env.how # "normal" /\ ~(\E i \in DOMAIN s.excepts : env.how \in s.excepts[i].types))
              => ExecExcepts(run, s, env) = env
         /\ (env.how # "normal" /\ \E i \in DOMAIN s.excepts : env.how \in s.excepts[i].types)
              => \E i : /\ Catches(s, i, env.how)
                        /\ ExecExcepts(run, s, env) = run[Do(s.excepts[i].body)][Leaving(env, "normal")]
<1>1. CASE env.how = "normal"
  BY <1>1 DEF ExecExcepts
<1>2. CASE env.how # "normal" /\ ~(\E i \in DOMAIN s.excepts : env.how \in s.excepts[i].types)
  BY <1>2 DEF ExecExcepts
<1>3. CASE env.how # "normal" /\ \E i \in DOMAIN s.excepts : env.how \in s.excepts[i].types
  <2> DEFINE C(i) == env.how \in s.excepts[i].types
             first == CHOOSE i \in DOMAIN s.excepts :
                        C(i) /\ \A j \in DOMAIN s.excepts : C(j) => i <= j
  <2>1. \E i \in DOMAIN s.excepts : C(i) /\ \A j \in DOMAIN s.excepts : C(j) => i <= j
    BY <1>3, FirstCatches DEF Catches
  <2>2. first \in DOMAIN s.excepts /\ C(first) /\ \A j \in DOMAIN s.excepts : C(j) => first <= j
    BY <2>1
  <2>3. Catches(s, first, env.how)
    BY <2>2 DEF Catches
  <2>4. ExecExcepts(run, s, env) = run[Do(s.excepts[first].body)][Leaving(env, "normal")]
    BY <1>3 DEF ExecExcepts
  <2> HIDE DEF first
  <2>5. QED
    BY <1>3, <2>3, <2>4
<1>4. QED
  BY <1>1, <1>2, <1>3

LEMMA TryIn ==
  ASSUME NEW run \in Runs, NEW s \in AnyStatement, s.kind = "try", NEW env \in Env
  PROVE  ExecTry(run, s, env) \in Env
<1> DEFINE b == run[Do(s.body)][env]
           handled == ExecExcepts(run, s, b)
           final == run[Do(s.finally)][Leaving(handled, "normal")]
<1>1. /\ s.excepts \in Seq([types : SUBSET Exceptions, body : Seq(AnyStatement)])
      /\ s.body \in Seq(AnyStatement) /\ s.orelse \in Seq(AnyStatement)
      /\ s.finally \in Seq(AnyStatement)
  BY StatementParts
<1>2. "normal" \in How
  BY DEF How, Departures
<1>3. b \in Env
  BY <1>1, RunsIn
<1> HIDE DEF b
<1>4. ASSUME NEW i \in DOMAIN s.excepts PROVE s.excepts[i].body \in Seq(AnyStatement)
  <2> DEFINE S == [types : SUBSET Exceptions, body : Seq(AnyStatement)]
  <2>0. s.excepts \in Seq(S)
    BY <1>1
  <2> HIDE DEF S
  <2>1. s.excepts[i] \in S
    BY <2>0
  <2> USE DEF S
  <2>2. QED
    BY <2>1
<1>5. Leaving(b, "normal") \in Env
  BY <1>2, <1>3, LeavingIn
<1>6. \A i \in DOMAIN s.excepts : run[Do(s.excepts[i].body)][Leaving(b, "normal")] \in Env
  BY <1>4, <1>5, RunsIn
<1>7. run[Do(s.orelse)][b] \in Env
  BY <1>1, <1>3, RunsIn
<1>8. handled \in Env
  BY <1>3, <1>6, <1>7, ExceptsIs DEF Catches
<1> HIDE DEF handled
<1>9. Leaving(handled, "normal") \in Env
  BY <1>2, <1>8, LeavingIn
<1>10. final \in Env
  BY <1>1, <1>9, RunsIn
<1> HIDE DEF final
<1>11. handled.how \in How
  BY <1>8 DEF Env
<1>12. Leaving(final, handled.how) \in Env
  BY <1>10, <1>11, LeavingIn
<1>13. ExecTry(run, s, env) \in {Leaving(final, handled.how), final}
  BY DEF ExecTry, b, handled, final
<1>14. QED
  BY <1>10, <1>12, <1>13

LEMMA ExecIn ==
  ASSUME NEW prog \in Programs, NEW run \in Runs, NEW s \in AnyStatement, NEW env \in Env
  PROVE  Exec(prog, run, s, env) \in Env
<1>1. {"normal", "break", "continue", "return"} \subseteq How /\ Exceptions \subseteq How
      /\ "AssertionError" \in How
  BY ExceptionsAssumption DEF How, Departures
<1>2. CASE s.kind = "print"
  <2>1. s.event \in Event /\ env.printed \in Seq(Event)
    BY <1>2, StatementParts DEF Env
  <2>2. Append(env.printed, s.event) \in Seq(Event)
    BY <2>1
  <2>3. [env EXCEPT !.printed = Append(@, s.event)] \in Env
    BY <2>2 DEF Env
  <2>4. QED
    BY <1>2, <2>3 DEF Exec
<1>3. CASE s.kind = "raise"
  <2>1. s.exc \in How
    BY <1>1, <1>3, StatementParts
  <2>2. QED
    BY <1>3, <2>1, LeavingIn DEF Exec
<1>4. CASE s.kind = "call"
  <2> DEFINE r == run[Do(prog[s.fn])][env]
  <2>1. prog[s.fn] \in Seq(AnyStatement)
    <3>1. s.fn \in Functions
      BY <1>4, StatementParts
    <3>2. prog[s.fn] \in Seq(Statement[FunctionBody])
      BY <3>1, ProgramsAssumption
    <3>3. Statement[FunctionBody] \subseteq AnyStatement
      BY DEF AnyStatement, FunctionBody, Place
    <3>4. QED
      BY <3>2, <3>3
  <2>2. r \in Env
    BY <2>1, RunsIn
  <2> HIDE DEF r
  <2>3. Leaving(r, "normal") \in Env
    BY <1>1, <2>2, LeavingIn
  <2>4. Exec(prog, run, s, env) \in {r, Leaving(r, "normal")}
    BY <1>4 DEF Exec, ExecCall, r
  <2>5. QED
    BY <2>2, <2>3, <2>4
<1>5. CASE s.kind = "assert"
  <2> DEFINE c == Evaluate(s.cond, env)
  <2>1. c.env \in Env
    BY <1>5, StatementParts, EvaluateIn
  <2> HIDE DEF c
  <2>2. Leaving(c.env, "AssertionError") \in Env
    BY <1>1, <2>1, LeavingIn
  <2>3. Exec(prog, run, s, env) \in {c.env, Leaving(c.env, "AssertionError")}
    BY <1>5 DEF Exec, c
  <2>4. QED
    BY <2>1, <2>2, <2>3
<1>6. CASE s.kind = "if"
  <2>1. run[Choice(s.arms, s.orelse)][env] \in Env
    BY <1>6, StatementParts, RunsIn
  <2>2. QED
    BY <1>6, <2>1 DEF Exec
<1>7. CASE s.kind = "while"
  BY <1>7, LoopIn DEF Exec
<1>8. CASE s.kind = "for"
  <2>1. ExecLoop(run, s, env) \in Env
    BY <1>8, LoopIn
  <2>2. s.cond # Test => Leaving(env, s.cond) \in Env
    BY <1>1, <1>8, StatementParts, LeavingIn DEF Condition
  <2>3. QED
    BY <1>8, <2>1, <2>2 DEF Exec
<1>9. CASE s.kind = "try"
  BY <1>9, TryIn DEF Exec
<1>10. CASE s.kind \in {"break", "continue", "return"}
  BY <1>1, <1>10, LeavingIn DEF Exec
<1>11. QED
  BY <1>2, <1>3, <1>4, <1>5, <1>6, <1>7, <1>8, <1>9, <1>10, StatementParts

-----------------------------------------------------------------------------
(* What follows from a statement, or a task, being over                    *)

Stmts == Seq(AnyStatement)
Arms == Seq([cond : Condition, body : Stmts])

(* How far a program can be followed, and how tasks and statements end     *)
(* that are over somewhere on the way.                                     *)
Deep(prog) == {Followed(prog)[n] : n \in Nat}

Finishes(prog, task, env, r) ==
  \E run \in Deep(prog) : r = run[task][env] /\ r.how # Unfinished

Does(prog, s, env, r) ==
  \E run \in Deep(prog) : r = Exec(prog, run, s, env) /\ r.how # Unfinished

LEMMA ArmsIn ==
  ASSUME NEW run \in Runs, NEW arms \in Arms, NEW orelse \in Stmts, NEW env \in Env
  PROVE  ExecArms(run, arms, orelse, env) \in Env
<1>1. CASE arms = <<>>
  BY <1>1, RunsIn DEF ExecArms, Stmts
<1>2. CASE arms # <<>>
  <2> DEFINE A == [cond : Condition, body : Stmts]
             c == Evaluate(Head(arms).cond, env)
  <2>1. Head(arms) \in A /\ Tail(arms) \in Seq(A)
    <3>1. arms \in Seq(A)
      BY DEF Arms
    <3> HIDE DEF A
    <3>2. QED
      BY <1>2, <3>1, HeadTailProperties
  <2>2. Head(arms).cond \in Condition /\ Head(arms).body \in Stmts
    BY <2>1
  <2>3. c.env \in Env
    BY <2>2, EvaluateIn
  <2> HIDE DEF c
  <2>4. run[Do(Head(arms).body)][c.env] \in Env
    BY <2>2, <2>3, RunsIn DEF Stmts
  <2>5. run[Choice(Tail(arms), orelse)][c.env] \in Env
    BY <2>1, <2>3, RunsIn DEF Stmts
  <2>6. ExecArms(run, arms, orelse, env)
          \in {run[Do(Head(arms).body)][c.env], run[Choice(Tail(arms), orelse)][c.env]}
    BY <1>2 DEF ExecArms, c
  <2>7. QED
    BY <2>4, <2>5, <2>6
<1>3. QED
  BY <1>1, <1>2

LEMMA TaskIn ==
  ASSUME NEW prog \in Programs, NEW run \in Runs, NEW task \in Task, NEW env \in Env
  PROVE  ExecTask(prog, run, task, env) \in Env
<1>1. CASE task \in [block : Seq(AnyStatement)]
  <2>1. "block" \in DOMAIN task /\ task.block \in Stmts
    BY <1>1 DEF Stmts
  <2>2. CASE task.block = <<>> \/ env.how # "normal"
    BY <2>1, <2>2 DEF ExecTask, ExecBody
  <2>3. CASE task.block # <<>> /\ env.how = "normal"
    <3>1. Head(task.block) \in AnyStatement /\ Tail(task.block) \in Stmts
      BY <2>1, <2>3, HeadTailProperties DEF Stmts
    <3>2. Exec(prog, run, Head(task.block), env) \in Env
      BY <3>1, ExecIn
    <3>3. run[Do(Tail(task.block))][Exec(prog, run, Head(task.block), env)] \in Env
      BY <3>1, <3>2, RunsIn DEF Stmts
    <3>4. QED
      BY <2>1, <2>3, <3>3 DEF ExecTask, ExecBody
  <2>4. QED
    BY <2>2, <2>3
<1>2. CASE task \in [arms : Seq([cond : Condition, body : Seq(AnyStatement)]), orelse : Seq(AnyStatement)]
  <2>1. "block" \notin DOMAIN task /\ task.arms \in Arms /\ task.orelse \in Stmts
    BY <1>2 DEF Stmts, Arms
  <2>2. QED
    BY <2>1, ArmsIn DEF ExecTask
<1>3. QED
  BY <1>1, <1>2 DEF Task

LEMMA FollowedIn ==
  ASSUME NEW prog \in Programs
  PROVE  \A n \in Nat : Followed(prog)[n] \in Runs
<1> DEFINE F == Followed(prog)
           S == {n \in Nat : F[n] \in Runs}
<1>1. \A n \in Nat : F[n] = Level(prog, F, n)
  BY FollowedIs
<1> HIDE DEF F
<1>2. Unfinished \in How
  BY DEF How
<1>3. 0 \in S
  <2>1. F[0] = [task \in Task |-> [env \in Env |-> Leaving(env, Unfinished)]]
    BY <1>1 DEF Level
  <2>2. \A env \in Env : Leaving(env, Unfinished) \in Env
    BY <1>2, LeavingIn
  <2>3. QED
    BY <2>1, <2>2 DEF Runs
<1>4. ASSUME NEW n \in Nat, n \in S PROVE n + 1 \in S
  <2>1. F[n] \in Runs /\ n + 1 \in Nat /\ n + 1 # 0 /\ (n + 1) - 1 = n
    BY <1>4
  <2>2. F[n + 1] = [task \in Task |-> [env \in Env |-> ExecTask(prog, F[n], task, env)]]
    BY <1>1, <2>1 DEF Level
  <2>3. \A task \in Task, env \in Env : ExecTask(prog, F[n], task, env) \in Env
    BY <2>1, TaskIn
  <2>4. QED
    BY <2>1, <2>2, <2>3 DEF Runs
<1> HIDE DEF S
<1>5. \A n \in Nat : n \in S
  BY <1>3, <1>4, InductionOnNat
<1>6. QED
  BY <1>5 DEF S, F

(* A task that is over was followed a step further than its parts. *)
LEMMA FinishesIs ==
  ASSUME NEW prog \in Programs, NEW task \in Task, NEW env \in Env, NEW r,
         Finishes(prog, task, env, r)
  PROVE  /\ r \in Env /\ r.how # Unfinished
         /\ \E run \in Deep(prog) : r = ExecTask(prog, run, task, env)
<1>1. PICK n \in Nat : r = Followed(prog)[n][task][env] /\ r.how # Unfinished
  BY DEF Finishes, Deep
<1>2. Followed(prog)[n] \in Runs
  BY FollowedIn
<1>3. r \in Env
  BY <1>1, <1>2 DEF Runs
<1>4. Followed(prog)[n][task][env]
        = IF n = 0 THEN Leaving(env, Unfinished) ELSE ExecTask(prog, Followed(prog)[n - 1], task, env)
  <2> DEFINE F == Followed(prog)
  <2>1. F[n] = Level(prog, F, n)
    BY FollowedIs
  <2> HIDE DEF F
  <2>2. F[n][task][env] = IF n = 0 THEN Leaving(env, Unfinished)
                          ELSE ExecTask(prog, F[n - 1], task, env)
    BY <2>1 DEF Level
  <2>3. QED
    BY <2>2 DEF F
<1>5. n # 0
  <2>1. Leaving(env, Unfinished).how = Unfinished
    BY LeavingIn DEF How
  <2>2. QED
    BY <1>1, <1>4, <2>1
<1>6. n - 1 \in Nat
  BY <1>5
<1>7. Followed(prog)[n - 1] \in Deep(prog)
  BY <1>6 DEF Deep
<1>8. QED
  BY <1>1, <1>3, <1>4, <1>5, <1>7

LEMMA DeepIn ==
  ASSUME NEW prog \in Programs
  PROVE  Deep(prog) \subseteq Runs
BY FollowedIn DEF Deep

LEMMA DoesIn ==
  ASSUME NEW prog \in Programs, NEW s \in AnyStatement, NEW env \in Env, NEW r,
         Does(prog, s, env, r)
  PROVE  r \in Env /\ r.how # Unfinished
BY DeepIn, ExecIn DEF Does

LEMMA BlockTask ==
  ASSUME NEW stmts \in Stmts
  PROVE  /\ Do(stmts) \in Task
         /\ \A prog, run, env : ExecTask(prog, run, Do(stmts), env) = ExecBody(prog, run, stmts, env)
<1>1. Do(stmts) \in Task
  BY TasksIn DEF Stmts
<1>2. "block" \in DOMAIN Do(stmts) /\ Do(stmts).block = stmts
  BY DEF Do
<1>3. QED
  BY <1>1, <1>2 DEF ExecTask

(* Nothing more is done once control is leaving, or at the end of a block. *)
LEMMA BlockOver ==
  ASSUME NEW prog \in Programs, NEW stmts \in Stmts, NEW env \in Env, NEW r,
         Finishes(prog, Do(stmts), env, r), env.how # "normal" \/ stmts = <<>>
  PROVE  r = env
BY BlockTask, FinishesIs DEF ExecBody

LEMMA BlockGoesOn ==
  ASSUME NEW prog \in Programs, NEW stmts \in Stmts, NEW env \in Env, NEW r,
         Finishes(prog, Do(stmts), env, r), env.how = "normal", stmts # <<>>
  PROVE  /\ Head(stmts) \in AnyStatement /\ Tail(stmts) \in Stmts
         /\ \E r1 \in Env : /\ Does(prog, Head(stmts), env, r1)
                            /\ Finishes(prog, Do(Tail(stmts)), r1, r)
<1>1. Head(stmts) \in AnyStatement /\ Tail(stmts) \in Stmts
  BY HeadTailProperties DEF Stmts
<1>2. PICK run \in Deep(prog) : r = ExecBody(prog, run, stmts, env)
  BY BlockTask, FinishesIs
<1> DEFINE r1 == Exec(prog, run, Head(stmts), env)
<1>3. r = run[Do(Tail(stmts))][r1]
  BY <1>2 DEF ExecBody
<1>4. r1 \in Env
  BY <1>1, DeepIn, ExecIn
<1>5. r.how # Unfinished
  BY BlockTask, FinishesIs
<1>6. Does(prog, Head(stmts), env, r1) \/ r1.how = Unfinished
  BY DEF Does
<1> HIDE DEF r1
<1>7. Finishes(prog, Do(Tail(stmts)), r1, r)
  BY <1>3, <1>5 DEF Finishes
<1>8. r1.how # Unfinished
  <2>1. r1.how # "normal" => r = r1
    BY <1>1, <1>4, <1>7, BlockOver
  <2>2. Unfinished # "normal"
    BY DEF Unfinished
  <2>3. QED
    BY <1>5, <2>1, <2>2
<1>9. QED
  BY <1>1, <1>4, <1>6, <1>7, <1>8

LEMMA ChoiceTask ==
  ASSUME NEW arms \in Arms, NEW orelse \in Stmts
  PROVE  /\ Choice(arms, orelse) \in Task
         /\ \A prog, run, env : ExecTask(prog, run, Choice(arms, orelse), env)
                                  = ExecArms(run, arms, orelse, env)
<1>1. Choice(arms, orelse) \in Task
  BY TasksIn DEF Stmts, Arms
<1>2. /\ "block" \notin DOMAIN Choice(arms, orelse)
      /\ Choice(arms, orelse).arms = arms /\ Choice(arms, orelse).orelse = orelse
  BY DEF Choice
<1>3. QED
  BY <1>1, <1>2 DEF ExecTask

LEMMA ChoiceOver ==
  ASSUME NEW prog \in Programs, NEW orelse \in Stmts, NEW env \in Env, NEW r,
         Finishes(prog, Choice(<<>>, orelse), env, r)
  PROVE  Finishes(prog, Do(orelse), env, r)
<1> DEFINE arms == <<>>
<1>1. arms \in Arms /\ arms = <<>>
  BY DEF Arms
<1> HIDE DEF arms
<1>2. r.how # Unfinished /\ \E run \in Deep(prog) : r = ExecArms(run, arms, orelse, env)
  BY <1>1, ChoiceTask, FinishesIs
<1>3. QED
  BY <1>1, <1>2 DEF ExecArms, Finishes

LEMMA ChoiceGoesOn ==
  ASSUME NEW prog \in Programs, NEW arms \in Arms, NEW orelse \in Stmts, NEW env \in Env, NEW r,
         Finishes(prog, Choice(arms, orelse), env, r), arms # <<>>
  PROVE  LET c == Evaluate(Head(arms).cond, env)
         IN /\ Head(arms).cond \in Condition /\ Head(arms).body \in Stmts /\ Tail(arms) \in Arms
            /\ c.env \in Env
            /\ c.holds \/ Raised(c.env) => Finishes(prog, Do(Head(arms).body), c.env, r)
            /\ ~(c.holds \/ Raised(c.env)) => Finishes(prog, Choice(Tail(arms), orelse), c.env, r)
<1> DEFINE A == [cond : Condition, body : Stmts]
<1>1. Head(arms) \in A /\ Tail(arms) \in Seq(A)
  <2>1. arms \in Seq(A)
    BY DEF Arms
  <2> HIDE DEF A
  <2>2. QED
    BY <2>1, HeadTailProperties
<1>2. Head(arms).cond \in Condition /\ Head(arms).body \in Stmts /\ Tail(arms) \in Arms
  BY <1>1 DEF Arms
<1>3. r.how # Unfinished /\ \E run \in Deep(prog) : r = ExecArms(run, arms, orelse, env)
  BY ChoiceTask, FinishesIs
<1>4. Evaluate(Head(arms).cond, env).env \in Env
  BY <1>2, EvaluateIn
<1>5. QED
  BY <1>2, <1>3, <1>4 DEF ExecArms, Finishes

-----------------------------------------------------------------------------
(* What follows from a statement being over, for every kind of statement   *)

Returned(r) == IF Raised(r) THEN r ELSE Leaving(r, "normal")

LEMMA BodiesIn ==
  ASSUME NEW prog \in Programs, NEW f \in Functions
  PROVE  prog[f] \in Stmts
<1>1. prog[f] \in Seq(Statement[FunctionBody])
  BY ProgramsAssumption
<1>2. Statement[FunctionBody] \subseteq AnyStatement
  BY DEF AnyStatement, FunctionBody, Place
<1>3. QED
  BY <1>1, <1>2 DEF Stmts

LEMMA RaisedIs ==
  ASSUME NEW r \in Env, r.how # Unfinished
  PROVE  Raised(r) <=> r.how \in Exceptions
BY HowsApart DEF Raised, Env, How

LEMMA DoesSimple ==
  ASSUME NEW prog, NEW s, NEW env, NEW r, Does(prog, s, env, r)
  PROVE  /\ s.kind = "print" => r = [env EXCEPT !.printed = Append(@, s.event)]
         /\ s.kind = "raise" => r = Leaving(env, s.exc)
         /\ s.kind = "assert" =>
              LET c == Evaluate(s.cond, env)
              IN r = IF c.holds \/ Raised(c.env) THEN c.env ELSE Leaving(c.env, "AssertionError")
         /\ s.kind = "if" => Finishes(prog, Choice(s.arms, s.orelse), env, r)
         /\ s.kind = "for" /\ s.cond # Test => r = Leaving(env, s.cond)
         /\ s.kind \in {"break", "continue", "return"} => r = Leaving(env, s.kind)
BY DEF Does, Exec, Finishes

LEMMA DoesCall ==
  ASSUME NEW prog \in Programs, NEW s \in AnyStatement, s.kind = "call", NEW env \in Env, NEW r,
         Does(prog, s, env, r)
  PROVE  /\ s.fn \in Functions
         /\ \E r1 \in Env : /\ Finishes(prog, Do(prog[s.fn]), env, r1)
                            /\ r = Returned(r1)
<1>1. s.fn \in Functions
  BY StatementParts
<1>2. prog[s.fn] \in Stmts
  BY <1>1, BodiesIn
<1>3. PICK run \in Deep(prog) : r = ExecCall(prog, run, s.fn, env) /\ r.how # Unfinished
  BY DEF Does, Exec
<1> DEFINE r1 == run[Do(prog[s.fn])][env]
<1>4. r1 \in Env
  BY <1>2, DeepIn, RunsIn DEF Stmts
<1>5. r = Returned(r1)
  BY <1>3 DEF ExecCall, Returned
<1>6. r1.how # Unfinished
  <2>1. r1.how = Unfinished => Raised(r1)
    BY DEF Raised, Departures, Unfinished
  <2>2. QED
    BY <1>3, <1>5, <2>1 DEF Returned
<1>7. Finishes(prog, Do(prog[s.fn]), env, r1)
  BY <1>6 DEF Finishes
<1>8. QED
  BY <1>1, <1>4, <1>5, <1>7

LEMMA DoesLoop ==
  ASSUME NEW prog \in Programs, NEW s \in AnyStatement, NEW env \in Env, NEW r,
         s.kind = "while" \/ (s.kind = "for" /\ s.cond = Test), Does(prog, s, env, r)
  PROVE  LET c == Evaluate(s.cond, env)
         IN /\ c.env \in Env /\ c.holds \in BOOLEAN
            /\ ~c.holds => r = c.env
            /\ c.holds => \E once \in Env :
                 /\ Finishes(prog, Do(s.body), c.env, once)
                 /\ once.how = "break" => r = Leaving(once, "normal")
                 /\ once.how \in {"normal", "continue"} => Does(prog, s, Leaving(once, "normal"), r)
                 /\ once.how \notin {"normal", "continue", "break"} => r = once
<1> DEFINE c == Evaluate(s.cond, env)
<1>1. s.cond \in Condition /\ s.body \in Stmts
  BY StatementParts DEF Stmts
<1>2. c.env \in Env /\ c.holds \in BOOLEAN
  BY <1>1, EvaluateIn
<1>3. PICK run \in Deep(prog) : r = ExecLoop(run, s, env) /\ r.how # Unfinished
  BY DEF Does, Exec
<1> DEFINE once == run[Do(s.body)][c.env]
<1>4. ~c.holds => r = c.env
  BY <1>3 DEF ExecLoop
<1>5. c.holds =>
        /\ once.how = "break" => r = Leaving(once, "normal")
        /\ once.how \in {"normal", "continue"} => r = run[Do(<<s>>)][Leaving(once, "normal")]
        /\ once.how \notin {"normal", "continue", "break"} => r = once
  BY <1>3 DEF ExecLoop
<1>6. c.holds => Finishes(prog, Do(s.body), c.env, once)
  <2>1. c.holds /\ once.how = Unfinished => r = once
    BY <1>5 DEF Unfinished
  <2>2. QED
    BY <1>3, <2>1 DEF Finishes
<1> HIDE DEF c
<1>7. once \in Env
  BY <1>1, <1>2, DeepIn, RunsIn DEF Stmts
<1> HIDE DEF once
<1>8. c.holds /\ once.how \in {"normal", "continue"} => Does(prog, s, Leaving(once, "normal"), r)
  <2>1. SUFFICES ASSUME c.holds, once.how \in {"normal", "continue"}
                 PROVE  Does(prog, s, Leaving(once, "normal"), r)
    OBVIOUS
  <2> DEFINE e == Leaving(once, "normal")
             stmts == <<s>>
  <2>2. e \in Env /\ e.how = "normal"
    BY <1>7, LeavingIn DEF How, Departures
  <2>3. stmts \in Stmts /\ stmts # <<>> /\ Head(stmts) = s /\ Tail(stmts) = <<>>
    BY DEF Stmts
  <2>4. Finishes(prog, Do(stmts), e, r)
    BY <1>3, <1>5, <2>1 DEF Finishes
  <2> HIDE DEF e, stmts
  <2>5. PICK r1 \in Env : Does(prog, s, e, r1) /\ Finishes(prog, Do(Tail(stmts)), r1, r) /\ Tail(stmts) \in Stmts
    BY <2>2, <2>3, <2>4, BlockGoesOn
  <2>6. r = r1
    BY <2>3, <2>5, BlockOver
  <2>7. QED
    BY <2>5, <2>6 DEF e
<1>9. QED
  BY <1>2, <1>4, <1>5, <1>6, <1>7, <1>8 DEF c

(* The finally block is the last of a try statement that handles what its  *)
(* body raises.                                                            *)
EndsWith(prog, s, env, r) ==
  \E final \in Env : /\ Finishes(prog, Do(s.finally), env, final)
                     /\ final.how \notin Exceptions
                     /\ final.how = "normal" => r = final

HandlesAt(prog, s) ==
  \A n \in Nat, env \in Env : env.how = "normal" => Handles(prog, s, n, env)

LEMMA DoesTry ==
  ASSUME NEW prog \in Programs, NEW s \in AnyStatement, s.kind = "try", NEW env \in Env,
         env.how = "normal", NEW r, Does(prog, s, env, r), HandlesAt(prog, s)
  PROVE  \E b \in Env :
           /\ Finishes(prog, Do(s.body), env, b)
           /\ b.how = "normal" => EndsWith(prog, s, b, r)
           /\ b.how \in Exceptions => \E i : \E h \in Env :
                /\ Catches(s, i, b.how)
                /\ Finishes(prog, Do(s.excepts[i].body), Leaving(b, "normal"), h)
                /\ h.how \notin Exceptions
                /\ h.how = "normal" => EndsWith(prog, s, h, r)
<1>1. /\ s.body \in Stmts /\ s.orelse \in Stmts /\ s.finally \in Stmts
      /\ s.excepts \in Seq([types : SUBSET Exceptions, body : Seq(AnyStatement)])
  BY StatementParts DEF Stmts
<1>2. ASSUME NEW i \in DOMAIN s.excepts
      PROVE  s.excepts[i].body \in Stmts /\ s.excepts[i].types \subseteq Exceptions
  <2> DEFINE S == [types : SUBSET Exceptions, body : Seq(AnyStatement)]
  <2>0. s.excepts \in Seq(S)
    BY <1>1
  <2> HIDE DEF S
  <2>1. s.excepts[i] \in S
    BY <2>0
  <2>2. QED
    BY <2>1 DEF S, Stmts
<1>3. PICK n \in Nat : r = Exec(prog, Followed(prog)[n], s, env) /\ r.how # Unfinished
  BY DEF Does, Deep
<1> DEFINE run == Followed(prog)[n]
           b == run[Do(s.body)][env]
           handled == ExecExcepts(run, s, b)
           e == Leaving(handled, "normal")
           final == run[Do(s.finally)][e]
<1>4. run \in Deep(prog) /\ run \in Runs
  BY FollowedIn DEF Deep
<1>5. \A v \in Env : v.how = "normal" =>
        LET raised == run[Do(s.body)][v].how
        IN /\ s.orelse = <<>>
           /\ raised \in Exceptions => \E i \in DOMAIN s.excepts : raised \in s.excepts[i].types
           /\ \A i \in DOMAIN s.excepts : run[Do(s.excepts[i].body)][v].how \notin Exceptions
           /\ run[Do(s.finally)][v].how \notin Exceptions
  BY DEF HandlesAt, Handles
<1>6. r = IF final.how = "normal" \/ handled.how = Unfinished THEN Leaving(final, handled.how)
          ELSE final
  BY <1>3 DEF Exec, ExecTry
<1> HIDE DEF run
<1>7. b \in Env
  BY <1>1, <1>4, RunsIn DEF Stmts
<1>8. /\ s.orelse = <<>>
      /\ b.how \in Exceptions => \E i \in DOMAIN s.excepts : b.how \in s.excepts[i].types
  BY <1>5
<1> HIDE DEF b
<1>9. "normal" \in How
  BY DEF How, Departures
<1> DEFINE e1 == Leaving(b, "normal")
<1>10. e1 \in Env /\ e1.how = "normal"
  BY <1>7, <1>9, LeavingIn
<1> HIDE DEF e1
<1>a. /\ b.how = "normal" => handled = run[Do(s.orelse)][b]
      /\ (b.how # "normal" /\ ~(\E i \in DOMAIN s.excepts : b.how \in s.excepts[i].types))
           => handled = b
      /\ (b.how # "normal" /\ \E i \in DOMAIN s.excepts : b.how \in s.excepts[i].types)
           => \E i : Catches(s, i, b.how) /\ handled = run[Do(s.excepts[i].body)][e1]
  <2>1. b.how = "normal" => handled = run[Do(s.orelse)][b]
    BY ExceptsIs
  <2>2. (b.how # "normal" /\ ~(\E i \in DOMAIN s.excepts : b.how \in s.excepts[i].types))
           => handled = b
    BY ExceptsIs
  <2>3. (b.how # "normal" /\ \E i \in DOMAIN s.excepts : b.how \in s.excepts[i].types)
           => \E i : Catches(s, i, b.how) /\ handled = run[Do(s.excepts[i].body)][e1]
    <3>1. SUFFICES ASSUME b.how # "normal", \E i \in DOMAIN s.excepts : b.how \in s.excepts[i].types
                   PROVE  \E i : Catches(s, i, b.how) /\ handled = run[Do(s.excepts[i].body)][e1]
      OBVIOUS
    <3>2. \E i : Catches(s, i, b.how) /\ handled = run[Do(s.excepts[i].body)][Leaving(b, "normal")]
      BY <3>1, ExceptsIs
    <3>3. QED
      BY <3>2 DEF e1
  <2>4. QED
    BY <2>1, <2>2, <2>3
<1> HIDE DEF handled
<1>11. handled \in Env
  <2>1. run[Do(s.orelse)][b] \in Env
    BY <1>1, <1>4, <1>7, RunsIn DEF Stmts
  <2>2. \A i \in DOMAIN s.excepts : run[Do(s.excepts[i].body)][e1] \in Env
    BY <1>2, <1>4, <1>10, RunsIn DEF Stmts
  <2>3. QED
    BY <1>7, <1>a, <2>1, <2>2 DEF Catches
<1>12. /\ b.how = "normal" => handled = run[Do(s.orelse)][b]
       /\ b.how = Unfinished => handled = b
       /\ b.how \in Exceptions => \E i : Catches(s, i, b.how) /\ handled = run[Do(s.excepts[i].body)][e1]
  <2>1. b.how \in Exceptions => b.how # "normal"
    BY HowsApart
  <2>2. b.how = Unfinished => b.how # "normal" /\ b.how \notin Exceptions
    BY HowsApart DEF Unfinished
  <2>3. b.how = Unfinished => ~(\E i \in DOMAIN s.excepts : b.how \in s.excepts[i].types)
    BY <1>2, <2>2
  <2>4. QED
    BY <1>8, <1>a, <2>1, <2>2, <2>3
<1>13. e \in Env /\ e.how = "normal"
  BY <1>9, <1>11, LeavingIn
<1>14. final \in Env /\ final.how \notin Exceptions
  BY <1>1, <1>4, <1>5, <1>13, RunsIn DEF Stmts
<1> HIDE DEF final
<1>15. handled.how # Unfinished /\ final.how # Unfinished
  <2>1. handled.how = Unfinished => r = Leaving(final, Unfinished)
    BY <1>6
  <2>2. Leaving(final, Unfinished).how = Unfinished
    BY <1>14, LeavingIn DEF How
  <2>3. final.how = Unfinished /\ handled.how # Unfinished => r = final
    BY <1>6 DEF Unfinished
  <2>4. QED
    BY <1>3, <2>1, <2>2, <2>3
<1>16. b.how # Unfinished
  BY <1>12, <1>15
<1>17. Finishes(prog, Do(s.body), env, b)
  BY <1>4, <1>16 DEF Finishes, b
<1>18. ASSUME handled.how = "normal" PROVE EndsWith(prog, s, handled, r)
  <2>1. e = handled
    BY <1>11, <1>18 DEF Leaving, Env
  <2>2. Finishes(prog, Do(s.finally), handled, final)
    BY <1>4, <1>15, <2>1 DEF Finishes, final
  <2>3. final.how = "normal" => r = final
    BY <1>6, <1>14, <1>18 DEF Leaving, Env
  <2>4. QED
    BY <1>14, <2>2, <2>3 DEF EndsWith
<1>19. ASSUME b.how = "normal" PROVE EndsWith(prog, s, b, r)
  <2>1. Finishes(prog, Do(s.orelse), b, handled)
    BY <1>4, <1>12, <1>15, <1>19 DEF Finishes
  <2>2. handled = b
    BY <1>1, <1>7, <1>8, <2>1, BlockOver
  <2>3. QED
    BY <1>18, <1>19, <2>2
<1>20. ASSUME b.how \in Exceptions
       PROVE  \E i : \E h \in Env :
                /\ Catches(s, i, b.how)
                /\ Finishes(prog, Do(s.excepts[i].body), Leaving(b, "normal"), h)
                /\ h.how \notin Exceptions
                /\ h.how = "normal" => EndsWith(prog, s, h, r)
  <2>1. PICK i : Catches(s, i, b.how) /\ handled = run[Do(s.excepts[i].body)][e1]
    BY <1>12, <1>20
  <2>2. i \in DOMAIN s.excepts
    BY <2>1 DEF Catches
  <2>3. handled.how \notin Exceptions
    BY <1>5, <1>10, <2>1, <2>2
  <2>4. Finishes(prog, Do(s.excepts[i].body), e1, handled)
    BY <1>4, <1>15, <2>1 DEF Finishes
  <2>5. QED
    BY <1>11, <1>18, <2>1, <2>3, <2>4 DEF e1
<1>21. QED
  BY <1>7, <1>17, <1>19, <1>20

-----------------------------------------------------------------------------
(* What the code of a function still has to do                             *)

(* A call at a place of its function: its locals, the excepts and those it *)
(* began with, the state of affairs as Python sees it, with the tests that *)
(* are still to come (an exception on its way out is the pending one), and *)
(* how the function is to end.                                             *)
Content == BOOLEAN \cup Exceptions \cup {NoException} \cup SUBSET Exceptions
Locals == UNION {[D -> Content] : D \in SUBSET IdOf}
Config ==
  {x \in [l : Locals, m : SUBSET Exceptions, e : SUBSET Exceptions, env : Env, r : Env] :
     x.env.how = "normal" \/ x.env.how \in x.m}

To(x, l, m, env) == [l |-> l, m |-> m, e |-> x.e, env |-> env, r |-> x.r]

(* What x becomes with the outcome r1 of an instruction is in b; what it   *)
(* does not expect to be raised ends the program.                          *)
Resumes(x, r1, b) ==
  IF r1.how \in Exceptions
  THEN IF r1.how \in x.m THEN To(x, x.l, x.m, r1) \in b
       ELSE x.m = {} /\ x.e = {} /\ x.r = r1
  ELSE To(x, x.l, x.m, Leaving(r1, "normal")) \in b

Met(i, x) == (IF i.on = GlobalException THEN x.env.how # "normal" ELSE x.l[i.on]) # i.negate

(* Where instruction i takes x: to b, behind it, or to one of the plans M  *)
(* for the places that can be jumped to.                                   *)
Goes(prog, i, x, b, M) ==
  CASE i.op = "print" ->
         To(x, x.l, x.m, [x.env EXCEPT !.printed = Append(@, i.event)]) \in b
    [] i.op \in {"test", "next"} ->
         LET c == Evaluate(Test, x.env)
         IN To(x, Assigned(x.l, i.into, c.holds), x.m, c.env) \in b
    [] i.op = "if" -> IF Met(i, x) THEN x \in b ELSE x \in M[<<"endif", i.id>>]
    [] i.op = "goto" -> x \in M[<<"label", i.id>>]
    [] i.op = "break" -> x \in M[<<"endwhile", i.id>>]
    [] i.op = "endwhile" -> x \in M[<<"while", i.id>>]
    [] i.op \in {"label", "while", "endif", "iter"} -> x \in b
    [] i.op = "raise" -> i.exc \in Exceptions /\ Resumes(x, Leaving(x.env, i.exc), b)
    [] i.op = "call" ->
         \E r1 \in Env : Finishes(prog, Do(prog[i.fn]), x.env, r1) /\ Resumes(x, r1, b)
    [] i.op = "catch" ->
         /\ x.env.how # "normal"
         /\ To(x, Assigned(x.l, i.into, x.env.how), x.m, Leaving(x.env, "normal")) \in b
    [] i.op = "match" -> To(x, Assigned(x.l, i.into, x.l[i.of] \in i.types), x.m, x.env) \in b
    [] i.op = "save" -> To(x, Assigned(x.l, i.into, x.m), x.m, x.env) \in b
    [] i.op = "excepts" -> To(x, x.l, i.types, x.env) \in b
    [] i.op = "restore" -> To(x, x.l, x.l[i.from], x.env) \in b
    [] i.op = "return" ->
         /\ x.m = x.e
         /\ x.env.how # "normal" => x.r = x.env
         /\ x.env.how = "normal" => x.r \in {x.env, Leaving(x.env, "return")}
    [] OTHER -> FALSE

(* What can be jumped to is planned for. *)
Lands(i, a, b, M) ==
  /\ i.op \in {"label", "while", "endif"} => M[<<i.op, i.id>>] \subseteq a
  /\ i.op = "endwhile" => M[<<"endwhile", i.id>>] \subseteq b

Leads(prog, i, a, b, M) == Lands(i, a, b, M) /\ \A x \in a : Goes(prog, i, x, b, M)

Passes(prog, c, M, a, b) ==
  \E A \in [1 .. Len(c) + 1 -> SUBSET Config] :
    /\ a \subseteq A[1] /\ A[Len(c) + 1] \subseteq b
    /\ \A i \in 1 .. Len(c) : Leads(prog, c[i], A[i], A[i + 1], M)

LEMMA ResumesMore ==
  ASSUME NEW x, NEW r1, NEW b, NEW d, b \subseteq d, Resumes(x, r1, b)
  PROVE  Resumes(x, r1, d)
BY DEF Resumes

LEMMA GoesMore ==
  ASSUME NEW prog, NEW i, NEW x, NEW b, NEW d, b \subseteq d, NEW M, Goes(prog, i, x, b, M)
  PROVE  Goes(prog, i, x, d, M)
<1>1. \A r1 : Resumes(x, r1, b) => Resumes(x, r1, d)
  BY ResumesMore
<1>2. CASE i.op = "raise"
  <2>1. Resumes(x, Leaving(x.env, i.exc), b)
    BY <1>2 DEF Goes
  <2>2. Resumes(x, Leaving(x.env, i.exc), d)
    BY <1>1, <2>1
  <2>3. QED
    BY <1>2, <2>2 DEF Goes
<1>3. CASE i.op = "call"
  <2>1. \E r1 \in Env : Finishes(prog, Do(prog[i.fn]), x.env, r1) /\ Resumes(x, r1, b)
    BY <1>3 DEF Goes
  <2>2. \E r1 \in Env : Finishes(prog, Do(prog[i.fn]), x.env, r1) /\ Resumes(x, r1, d)
    BY <1>1, <2>1
  <2>3. QED
    BY <1>3, <2>2 DEF Goes
<1>4. CASE i.op \notin {"raise", "call"}
  BY <1>4 DEF Goes
<1>5. QED
  BY <1>2, <1>3, <1>4

LEMMA LeadsMore ==
  ASSUME NEW prog, NEW i, NEW a, NEW b, NEW d, b \subseteq d, NEW M, Leads(prog, i, a, b, M)
  PROVE  Leads(prog, i, a, d, M)
<1>1. Lands(i, a, d, M)
  BY DEF Leads, Lands
<1>2. \A x \in a : Goes(prog, i, x, d, M)
  BY GoesMore DEF Leads
<1>3. QED
  BY <1>1, <1>2 DEF Leads

LEMMA PassesJoined ==
  ASSUME NEW prog, NEW c, NEW d, IsCode(c), IsCode(d), NEW M, NEW f, NEW g, NEW h,
         Passes(prog, c, M, f, g), Passes(prog, d, M, g, h)
  PROVE  Passes(prog, c \o d, M, f, h)
<1> DEFINE e == c \o d
           m == Len(c)
           n == Len(d)
<1>1. /\ m \in Nat /\ n \in Nat /\ Len(e) = m + n
      /\ \A i \in 1 .. m : e[i] = c[i]
      /\ \A i \in 1 .. n : e[m + i] = d[i]
  BY JoinedCode DEF Joined
<1>2. PICK A \in [1 .. m + 1 -> SUBSET Config] :
        /\ f \subseteq A[1] /\ A[m + 1] \subseteq g
        /\ \A i \in 1 .. m : Leads(prog, c[i], A[i], A[i + 1], M)
  BY DEF Passes
<1>3. PICK B \in [1 .. n + 1 -> SUBSET Config] :
        /\ g \subseteq B[1] /\ B[n + 1] \subseteq h
        /\ \A i \in 1 .. n : Leads(prog, d[i], B[i], B[i + 1], M)
  BY DEF Passes
<1> HIDE DEF e, m, n
<1> DEFINE C == [i \in 1 .. m + n + 1 |-> IF i <= m THEN A[i] ELSE B[i - m]]
<1>4. C \in [1 .. m + n + 1 -> SUBSET Config]
  <2> DEFINE P == SUBSET Config
  <2> HIDE DEF P
  <2>1. ASSUME NEW i \in 1 .. m + n + 1 PROVE (IF i <= m THEN A[i] ELSE B[i - m]) \in P
    <3>1. i <= m => i \in 1 .. m + 1
      BY <1>1
    <3>2. ~(i <= m) => i - m \in 1 .. n + 1
      BY <1>1
    <3>3. A \in [1 .. m + 1 -> P] /\ B \in [1 .. n + 1 -> P]
      BY <1>2, <1>3 DEF P
    <3>4. QED
      BY <3>1, <3>2, <3>3
  <2>2. C \in [1 .. m + n + 1 -> P]
    BY <2>1
  <2>3. QED
    BY <2>2 DEF P
<1>5. \A i \in 1 .. m : C[i] = A[i]
  BY <1>1
<1>6. \A i \in 1 .. n + 1 : C[m + i] = B[i]
  <2>1. TAKE i \in 1 .. n + 1
  <2>2. PICK j \in 1 .. m + n + 1 : j = m + i /\ ~(j <= m) /\ j - m = i
    BY <1>1
  <2>3. C[j] = B[j - m]
    BY <2>2
  <2>4. QED
    BY <2>2, <2>3
<1>7. A[m + 1] \subseteq C[m + 1]
  <2>1. 1 \in 1 .. n + 1
    BY <1>1
  <2>2. C[m + 1] = B[1]
    BY <1>6, <2>1
  <2>3. QED
    BY <1>2, <1>3, <2>2
<1>8. f \subseteq C[1] /\ C[m + n + 1] \subseteq h
  <2>1. m = 0 \/ 1 \in 1 .. m
    BY <1>1
  <2>2. m = 0 => A[1] \subseteq C[1]
    BY <1>7
  <2>3. PICK j \in 1 .. n + 1 : j = n + 1 /\ m + j = m + n + 1
    BY <1>1
  <2>4. C[m + j] = B[j]
    BY <1>6
  <2>5. C[m + n + 1] \subseteq h
    BY <1>3, <2>3, <2>4
  <2> HIDE DEF C
  <2>6. QED
    BY <1>2, <1>5, <2>1, <2>2, <2>5
<1> HIDE DEF C
<1>9. ASSUME NEW i \in 1 .. m + n PROVE Leads(prog, e[i], C[i], C[i + 1], M)
  <2>1. CASE i < m
    <3>1. i \in 1 .. m /\ i + 1 \in 1 .. m
      BY <1>1, <2>1
    <3>2. QED
      BY <1>1, <1>2, <1>5, <3>1
  <2>2. CASE i = m
    <3>1. m \in 1 .. m
      BY <1>1, <2>2
    <3>2. Leads(prog, c[m], A[m], A[m + 1], M)
      BY <1>2, <3>1
    <3>3. Leads(prog, c[m], A[m], C[m + 1], M)
      BY <1>7, <3>2, LeadsMore
    <3>4. QED
      BY <1>1, <1>5, <2>2, <3>1, <3>3
  <2>3. CASE i > m
    <3>1. PICK k \in 1 .. n : i = m + k
      <4>1. i - m \in 1 .. n /\ i = m + (i - m)
        BY <1>1, <2>3
      <4>2. QED
        BY <4>1
    <3>2. PICK l \in 1 .. n + 1 : l = k + 1 /\ i + 1 = m + l
      BY <1>1, <3>1
    <3>3. k \in 1 .. n + 1
      BY <1>1, <3>1
    <3>4. e[i] = d[k] /\ C[i] = B[k] /\ C[i + 1] = B[l]
      BY <1>1, <1>6, <3>1, <3>2, <3>3
    <3>5. Leads(prog, d[k], B[k], B[l], M)
      BY <1>3, <3>2
    <3>6. QED
      BY <3>4, <3>5
  <2>4. QED
    BY <1>1, <2>1, <2>2, <2>3
<1>10. \E A_ \in [1 .. m + n + 1 -> SUBSET Config] :
         /\ f \subseteq A_[1] /\ A_[m + n + 1] \subseteq h
         /\ \A i \in 1 .. m + n : Leads(prog, e[i], A_[i], A_[i + 1], M)
  BY <1>4, <1>8, <1>9
<1>11. QED
  BY <1>1, <1>10 DEF Passes, e

LEMMA PassesOne ==
  ASSUME NEW prog, NEW x, NEW M, NEW a \in SUBSET Config, NEW b \in SUBSET Config,
         Leads(prog, x, a, b, M)
  PROVE  Passes(prog, <<x>>, M, a, b)
<1> DEFINE P == SUBSET Config
           c == <<x>>
           A == [i \in 1 .. 2 |-> IF i = 1 THEN a ELSE b]
<1> HIDE DEF P
<1>0. a \in P /\ b \in P
  BY DEF P
<1>1. A \in [1 .. 2 -> P] /\ A[1] = a /\ A[2] = b
  BY <1>0
<1>2. Len(c) = 1 /\ c[1] = x
  OBVIOUS
<1>3. \A i \in 1 .. 1 : i = 1 /\ i + 1 = 2
  OBVIOUS
<1> HIDE DEF A, c
<1>4. \A i \in 1 .. 1 : Leads(prog, c[i], A[i], A[i + 1], M)
  BY <1>1, <1>2, <1>3
<1>5. 1 + 1 = 2
  OBVIOUS
<1>6. Passes(prog, c, M, a, b)
  BY <1>1, <1>2, <1>4, <1>5 DEF Passes, P
<1>7. QED
  BY <1>6 DEF c

LEMMA PassesEmpty ==
  ASSUME NEW prog, NEW M, NEW a \in SUBSET Config
  PROVE  Passes(prog, <<>>, M, a, a)
<1> DEFINE P == SUBSET Config
           A == [i \in 1 .. 1 |-> a]
<1> HIDE DEF P
<1>0. a \in P
  BY DEF P
<1>1. A \in [1 .. 1 -> P] /\ A[1] = a
  BY <1>0
<1>2. Len(<<>>) = 0 /\ 0 + 1 = 1 /\ 1 .. 0 = {}
  OBVIOUS
<1> HIDE DEF A
<1>3. QED
  BY <1>1, <1>2 DEF Passes, P

LEMMA PassesMore ==
  ASSUME NEW prog, NEW c, NEW M, NEW a, NEW b, NEW a2, NEW b2,
         a2 \subseteq a, b \subseteq b2, Passes(prog, c, M, a, b)
  PROVE  Passes(prog, c, M, a2, b2)
BY DEF Passes

-----------------------------------------------------------------------------
(* Code that does what it has to whatever surrounds it                     *)

MarkSet == {"label", "while", "endif", "endwhile"} \X IdOf
Agrees(M, W, T) == \A m \in MarkSet : m[2] \in T => M[m] = W[m]
Given(M, F) == \A f \in F : M[f[1]] = f[2]

(* There are plans for the marks with identifiers in T with which the code *)
(* takes a to b, given the plans F for other marks.                        *)
Meant(prog, c, T, F, a, b) ==
  /\ IsCode(c)
  /\ \E W : \A M : Agrees(M, W, T) /\ Given(M, F) => Passes(prog, c, M, a, b)

LEMMA MeantJoined ==
  ASSUME NEW prog, NEW c, NEW d, NEW T, NEW U, T \cap U = {}, NEW F, NEW a, NEW b, NEW e,
         Meant(prog, c, T, F, a, b), Meant(prog, d, U, F, b, e)
  PROVE  Meant(prog, c \o d, T \cup U, F, a, e)
<1>1. PICK W : \A M : Agrees(M, W, T) /\ Given(M, F) => Passes(prog, c, M, a, b)
  BY DEF Meant
<1>2. PICK X : \A M : Agrees(M, X, U) /\ Given(M, F) => Passes(prog, d, M, b, e)
  BY DEF Meant
<1>3. IsCode(c) /\ IsCode(d) /\ IsCode(c \o d)
  BY JoinedCode DEF Meant
<1> DEFINE Y == [m \in MarkSet |-> IF m[2] \in T THEN W[m] ELSE X[m]]
<1>4. \A m \in MarkSet : /\ m[2] \in T => Y[m] = W[m]
                         /\ m[2] \in U => Y[m] = X[m]
  OBVIOUS
<1> HIDE DEF Y
<1>5. ASSUME NEW M, Agrees(M, Y, T \cup U), Given(M, F) PROVE Passes(prog, c \o d, M, a, e)
  <2>1. Agrees(M, W, T) /\ Agrees(M, X, U)
    BY <1>4, <1>5 DEF Agrees
  <2>2. Passes(prog, c, M, a, b) /\ Passes(prog, d, M, b, e)
    BY <1>1, <1>2, <1>5, <2>1
  <2>3. QED
    BY <1>3, <2>2, PassesJoined
<1>6. QED
  BY <1>3, <1>5 DEF Meant

LEMMA MeantMore ==
  ASSUME NEW prog, NEW c, NEW T, NEW U, T \subseteq U, NEW F, NEW G, F \subseteq G,
         NEW a, NEW b, NEW a2, NEW b2, a2 \subseteq a, b \subseteq b2,
         Meant(prog, c, T, F, a, b)
  PROVE  Meant(prog, c, U, G, a2, b2)
<1>1. PICK W : \A M : Agrees(M, W, T) /\ Given(M, F) => Passes(prog, c, M, a, b)
  BY DEF Meant
<1>2. ASSUME NEW M, Agrees(M, W, U), Given(M, G) PROVE Passes(prog, c, M, a2, b2)
  <2>1. Agrees(M, W, T) /\ Given(M, F)
    BY <1>2 DEF Agrees, Given
  <2>2. Passes(prog, c, M, a, b)
    BY <1>1, <2>1
  <2>3. QED
    BY <2>2, PassesMore
<1>3. QED
  BY <1>2 DEF Meant

LEMMA MeantEmpty ==
  ASSUME NEW prog, NEW T, NEW F, NEW a \in SUBSET Config, NEW b, a \subseteq b
  PROVE  Meant(prog, <<>>, T, F, a, b)
<1>1. \A M : Passes(prog, <<>>, M, a, b)
  BY PassesEmpty, PassesMore
<1>2. QED
  BY <1>1, EmptyCode DEF Meant

LEMMA MeantOne ==
  ASSUME NEW prog, NEW x, NEW T, NEW F, NEW a \in SUBSET Config, NEW b \in SUBSET Config,
         \A M : Given(M, F) => Leads(prog, x, a, b, M)
  PROVE  Meant(prog, <<x>>, T, F, a, b)
<1>1. \A M : Given(M, F) => Passes(prog, <<x>>, M, a, b)
  BY PassesOne
<1>2. QED
  BY <1>1, OneInstruction DEF Meant

(* The plans P for the marks with identifiers in O.                        *)
PlansFor(P, O) == {<<m, P[m]>> : m \in {k \in MarkSet : k[2] \in O}}

LEMMA MeantClosed ==
  ASSUME NEW prog, NEW c, NEW T, NEW O, T \cap O = {}, NEW F, NEW P, NEW a, NEW b,
         Meant(prog, c, T, F \cup PlansFor(P, O), a, b)
  PROVE  Meant(prog, c, T \cup O, F, a, b)
<1> DEFINE G == F \cup PlansFor(P, O)
<1>1. PICK W : \A M : Agrees(M, W, T) /\ Given(M, G) => Passes(prog, c, M, a, b)
  BY DEF Meant
<1> DEFINE Y == [m \in MarkSet |-> IF m[2] \in T THEN W[m] ELSE P[m]]
<1>2. \A m \in MarkSet : /\ m[2] \in T => Y[m] = W[m]
                         /\ m[2] \in O => Y[m] = P[m]
  OBVIOUS
<1> HIDE DEF Y
<1>3. ASSUME NEW M, Agrees(M, Y, T \cup O), Given(M, F) PROVE Passes(prog, c, M, a, b)
  <2>1. Agrees(M, W, T)
    BY <1>2, <1>3 DEF Agrees
  <2>2. \A f \in PlansFor(P, O) : M[f[1]] = f[2]
    <3>1. ASSUME NEW m \in MarkSet, m[2] \in O PROVE M[m] = P[m]
      BY <1>2, <1>3, <3>1 DEF Agrees
    <3>2. QED
      BY <3>1 DEF PlansFor
  <2>3. Given(M, G)
    BY <1>3, <2>2 DEF Given
  <2>4. QED
    BY <1>1, <2>1, <2>3
<1>4. QED
  BY <1>3 DEF Meant

(* Pieces behind one another, each with identifiers of its own.            *)
Chain(prog, n, seqs, T, F, G) ==
  /\ n \in Nat /\ DOMAIN seqs = 1 .. n /\ seqs = [k \in 1 .. n |-> seqs[k]]
  /\ G[1] \in SUBSET Config
  /\ \A k, l \in 1 .. n : k # l => T[k] \cap T[l] = {}
  /\ \A k \in 1 .. n : Meant(prog, seqs[k], T[k], F, G[k], G[k + 1])

LEMMA MeantFlattened ==
  ASSUME NEW prog, NEW n, NEW seqs, NEW T, NEW F, NEW G, Chain(prog, n, seqs, T, F, G)
  PROVE  Meant(prog, FlattenSeq(seqs), UNION {T[k] : k \in 1 .. n}, F, G[1], G[n + 1])
<1> DEFINE upTo(m) == UNION {T[k] : k \in 1 .. m}
<1>0. /\ n \in Nat /\ DOMAIN seqs = 1 .. n /\ seqs = [k \in 1 .. n |-> seqs[k]]
      /\ G[1] \in SUBSET Config
      /\ \A k, l \in 1 .. n : k # l => T[k] \cap T[l] = {}
      /\ \A k \in 1 .. n : Meant(prog, seqs[k], T[k], F, G[k], G[k + 1])
  BY DEF Chain
<1>1. Len(seqs) = n
  BY <1>0
<1>2. CASE n = 0
  <2>1. FlattenSeq(seqs) = seqs
    BY <1>1, <1>2 DEF FlattenSeq
  <2>2. seqs = <<>> /\ n + 1 = 1
    BY <1>0, <1>2
  <2>3. QED
    BY <1>0, <2>1, <2>2, MeantEmpty
<1>3. CASE n # 0
  <2>1. PICK f : FlattenedUpTo(f, seqs, n) /\ FlattenSeq(seqs) = f[n]
    BY <1>1, <1>3, FlattenSeqIs
  <2> DEFINE S == {m \in Nat : m + 1 <= n => Meant(prog, f[m + 1], upTo(m + 1), F, G[1], G[m + 1 + 1])}
  <2>2. 0 \in S
    <3>1. PICK i \in 1 .. n : i = 1 /\ i = 0 + 1
      BY <1>0, <1>3
    <3>2. f[i] = seqs[i]
      BY <1>0, <2>1, <3>1, FlattenedAt
    <3>3. T[i] \subseteq upTo(i)
      BY <3>1
    <3> HIDE DEF upTo
    <3>4. Meant(prog, f[i], upTo(i), F, G[i], G[i + 1])
      BY <1>0, <3>2, <3>3, MeantMore
    <3>5. QED
      BY <3>1, <3>4
  <2>3. ASSUME NEW m \in Nat, m \in S PROVE m + 1 \in S
    <3>1. SUFFICES ASSUME m + 1 + 1 <= n
                   PROVE  Meant(prog, f[m + 1 + 1], upTo(m + 1 + 1), F, G[1], G[m + 1 + 1 + 1])
      OBVIOUS
    <3>2. PICK i \in 1 .. n : i = m + 1 + 1 /\ i # 1 /\ i - 1 = m + 1
      BY <3>1
    <3>3. Meant(prog, f[i - 1], upTo(i - 1), F, G[1], G[i])
      <4> HIDE DEF upTo
      <4>1. m + 1 <= n
        BY <3>1, <1>1
      <4>2. Meant(prog, f[m + 1], upTo(m + 1), F, G[1], G[m + 1 + 1])
        BY <2>3, <4>1
      <4>3. QED
        BY <3>2, <4>2
    <3> DEFINE both == f[i - 1] \o seqs[i]
    <3>4. f[i] = IF i = 1 THEN seqs[i] ELSE both
      BY <1>0, <2>1, FlattenedAt
    <3> HIDE DEF both, S
    <3>5. f[i] = both
      BY <3>2, <3>4
    <3>6. upTo(i - 1) \cap T[i] = {}
      <4>1. \A k \in 1 .. i - 1 : k \in 1 .. n /\ k # i
        BY <1>0, <3>2
      <4>2. QED
        BY <1>0, <4>1
    <3>7. upTo(i - 1) \cup T[i] = upTo(i)
      <4>1. \A k : k \in 1 .. i <=> k \in 1 .. i - 1 \/ k = i
        BY <3>2
      <4>2. QED
        BY <4>1
    <3> HIDE DEF upTo
    <3>8. Meant(prog, both, upTo(i), F, G[1], G[i + 1])
      BY <1>0, <3>3, <3>6, <3>7, MeantJoined DEF both
    <3>9. QED
      BY <3>2, <3>5, <3>8
  <2> HIDE DEF S
  <2>4. \A m \in Nat : m \in S
    BY <2>2, <2>3, InductionOnNat
  <2>5. n - 1 \in S /\ n - 1 + 1 = n
    BY <1>0, <1>3, <2>4
  <2> HIDE DEF upTo
  <2>6. Meant(prog, f[n], upTo(n), F, G[1], G[n + 1])
    BY <2>5 DEF S
  <2>7. QED
    BY <2>1, <2>6 DEF upTo
<1>4. QED
  BY <1>2, <1>3

-----------------------------------------------------------------------------
(* What a call may be like at a place of the source                        *)

(* The excepts in force, and the locals that hold what try statements      *)
(* around remember.                                                        *)
Scope == [mask : Mask, kept : SUBSET Saved]
Holding(x, K) ==
  \A k \in K : k.old \in DOMAIN x.l /\ x.l[k.old] = Expected(k.mask, x.e)

(* The calls in that scope with <<excepts at entry, state, end>> in Q.     *)
At(h, Q) ==
  {x \in Config : /\ x.m = Expected(h.mask, x.e)
                  /\ Holding(x, h.kept)
                  /\ <<x.e, x.env, x.r>> \in Q}

Triple == (SUBSET Exceptions) \X Env \X Env
Starting(Q) == {q \in Triple : q[2].how = "normal" /\ q \in Q}
As(Q, how) == {q \in Q : q[2].how = how}
Thrown(Q) == {q \in Q : q[2].how \in Exceptions}
Coming(Q, how) ==
  {q \in Triple : q[2].how = "normal" /\ <<q[1], Leaving(q[2], how), q[3]>> \in Q}
Before(prog, s, Q) ==
  {q \in Triple : q[2].how = "normal" /\ \E r1 : Does(prog, s, q[2], r1) /\ <<q[1], r1, q[3]>> \in Q}
BeforeTask(prog, task, Q) ==
  {q \in Triple : q[2].how = "normal" /\ \E r1 : Finishes(prog, task, q[2], r1) /\ <<q[1], r1, q[3]>> \in Q}

(* What may be thrown, and where it goes: to the handler of the try        *)
(* statement around, or out of the function.                               *)
Throws(F, ctx, h, Q) ==
  /\ ctx.inTry => /\ h.mask # <<>> /\ \A q \in Thrown(Q) : q[2].how \in h.mask[1]
                  /\ \E P : <<<<"label", ctx.excepts>>, P>> \in F /\ At(h, Thrown(Q)) \subseteq P
  /\ ~ctx.inTry => /\ h.mask = <<>>
                   /\ \A q \in Thrown(Q) : q[3] = q[2] /\ (q[2].how \in q[1] \/ q[1] = {})

LEMMA ConfigIs ==
  ASSUME NEW x \in Config
  PROVE  /\ x.l \in Locals /\ x.m \subseteq Exceptions /\ x.e \subseteq Exceptions
         /\ x.env \in Env /\ x.r \in Env
         /\ x.env.how = "normal" \/ (x.env.how \in x.m /\ x.env.how \in Exceptions /\ x.env.how # "normal")
         /\ <<x.e, x.env, x.r>> \in Triple
<1>1. /\ x.l \in Locals /\ x.m \in SUBSET Exceptions /\ x.e \in SUBSET Exceptions
      /\ x.env \in Env /\ x.r \in Env
      /\ x.env.how = "normal" \/ x.env.how \in x.m
  BY DEF Config
<1>2. x.env.how \in x.m => x.env.how \in Exceptions /\ x.env.how # "normal"
  BY <1>1, HowsApart
<1>3. <<x.e, x.env, x.r>> \in Triple
  BY <1>1 DEF Triple
<1>4. QED
  BY <1>1, <1>2, <1>3

LEMMA ToIs ==
  ASSUME NEW x \in Config, NEW l \in Locals, NEW m \in SUBSET Exceptions, NEW env \in Env,
         env.how = "normal" \/ env.how \in m
  PROVE  /\ To(x, l, m, env) \in Config
         /\ To(x, l, m, env).l = l /\ To(x, l, m, env).m = m /\ To(x, l, m, env).e = x.e
         /\ To(x, l, m, env).env = env /\ To(x, l, m, env).r = x.r
BY ConfigIs DEF To, Config

LEMMA AssignedIn ==
  ASSUME NEW l \in Locals, NEW id \in IdOf, NEW v \in Content
  PROVE  Assigned(l, id, v) \in Locals
<1> DEFINE D == {id} \cup DOMAIN l
<1>1. PICK E \in SUBSET IdOf : l \in [E -> Content]
  BY DEF Locals
<1>2. D \in SUBSET IdOf
  BY <1>1
<1>3. \A y \in D : (IF y = id THEN v ELSE l[y]) \in Content
  BY <1>1
<1>4. Assigned(l, id, v) \in [D -> Content]
  BY <1>3 DEF Assigned
<1> HIDE DEF D
<1>5. QED
  BY <1>2, <1>4 DEF Locals

LEMMA AtIn ==
  ASSUME NEW h, NEW Q
  PROVE  At(h, Q) \in SUBSET Config
BY DEF At

LEMMA AtMore ==
  ASSUME NEW h, NEW Q, NEW R, Q \cap Triple \subseteq R
  PROVE  At(h, Q) \subseteq At(h, R)
BY ConfigIs DEF At

LEMMA AtParts ==
  ASSUME NEW h, NEW Q, NEW x \in At(h, Q)
  PROVE  /\ x.env.how = "normal" => x \in At(h, As(Q, "normal"))
         /\ x.env.how # "normal" => x \in At(h, Thrown(Q))
BY ConfigIs DEF At, As, Thrown

(* A step that stays in the scope. *)
LEMMA AtNext ==
  ASSUME NEW h, NEW Q0, NEW x \in At(h, Q0), NEW Q, NEW env \in Env,
         env.how = "normal" \/ env.how \in x.m, <<x.e, env, x.r>> \in Q
  PROVE  To(x, x.l, x.m, env) \in At(h, Q)
<1> DEFINE y == To(x, x.l, x.m, env)
<1>1. y \in Config /\ y.l = x.l /\ y.m = x.m /\ y.e = x.e /\ y.env = env /\ y.r = x.r
  BY ConfigIs, ToIs DEF At
<1> HIDE DEF y
<1>2. y \in At(h, Q)
  BY <1>1 DEF At, Holding
<1>3. QED
  BY <1>2 DEF y

LEMMA AtAssigned ==
  ASSUME NEW h \in Scope, NEW Q0, NEW x \in At(h, Q0), NEW Q, NEW env \in Env,
         env.how = "normal" \/ env.how \in x.m, <<x.e, env, x.r>> \in Q,
         NEW id \in IdOf, NEW v \in Content, \A k \in h.kept : k.old # id,
         NEW y, y = To(x, Assigned(x.l, id, v), x.m, env)
  PROVE  /\ y \in At(h, Q)
         /\ y.m = x.m /\ y.e = x.e /\ y.env = env /\ y.r = x.r
         /\ id \in DOMAIN y.l /\ y.l[id] = v
         /\ \A i \in DOMAIN x.l : i # id => i \in DOMAIN y.l /\ y.l[i] = x.l[i]
<1> DEFINE l == Assigned(x.l, id, v)
<1>1. x \in Config
  BY DEF At
<1>2. l \in Locals
  BY <1>1, ConfigIs, AssignedIn
<1>3. DOMAIN l = {id} \cup DOMAIN x.l /\ l[id] = v /\ \A i \in DOMAIN x.l : i # id => l[i] = x.l[i]
  <2> DEFINE o == x.l
  <2> HIDE DEF o
  <2>1. /\ DOMAIN Assigned(o, id, v) = {id} \cup DOMAIN o /\ Assigned(o, id, v)[id] = v
        /\ \A i \in DOMAIN o : i # id => Assigned(o, id, v)[i] = o[i]
    BY DEF Assigned
  <2>2. QED
    BY <2>1 DEF o
<1> HIDE DEF l
<1>4. y \in Config /\ y.l = l /\ y.m = x.m /\ y.e = x.e /\ y.env = env /\ y.r = x.r
  <2>1. x.m \in SUBSET Exceptions
    BY <1>1, ConfigIs
  <2>2. QED
    BY <1>1, <1>2, <2>1, ToIs DEF l
<1>5. y \in At(h, Q)
  BY <1>3, <1>4 DEF At, Holding
<1>6. QED
  BY <1>3, <1>4, <1>5

(* Whatever an instruction comes to, it leads on in the scope.             *)
LEMMA ResumesAt ==
  ASSUME NEW F, NEW ctx \in Context, NEW h, NEW Q0, NEW x \in At(h, Q0), NEW Q, Throws(F, ctx, h, Q),
         NEW r1 \in Env,
         r1.how \in Exceptions => <<x.e, r1, x.r>> \in Q,
         r1.how \notin Exceptions => <<x.e, Leaving(r1, "normal"), x.r>> \in Q
  PROVE  Resumes(x, r1, At(h, Q))
<1>1. CASE r1.how \in Exceptions /\ r1.how \in x.m
  <2>1. To(x, x.l, x.m, r1) \in At(h, Q)
    BY <1>1, AtNext
  <2>2. QED
    BY <1>1, <2>1 DEF Resumes
<1>2. CASE r1.how \in Exceptions /\ r1.how \notin x.m
  <2>1. <<x.e, r1, x.r>> \in Thrown(Q)
    BY <1>2 DEF Thrown
  <2>2. x.m = Expected(h.mask, x.e)
    BY DEF At
  <2>3. ~ctx.inTry
    BY <1>2, <2>1, <2>2 DEF Throws, Expected
  <2>4. x.m = x.e /\ x.r = r1 /\ (r1.how \in x.e \/ x.e = {})
    BY <2>1, <2>2, <2>3 DEF Throws, Expected
  <2>5. QED
    BY <1>2, <2>4 DEF Resumes
<1>3. CASE r1.how \notin Exceptions
  <2> DEFINE env == Leaving(r1, "normal")
  <2>1. env \in Env /\ env.how = "normal"
    BY LeavingIn DEF How, Departures
  <2> HIDE DEF env
  <2>2. To(x, x.l, x.m, env) \in At(h, Q)
    BY <1>3, <2>1, AtNext DEF env
  <2>3. QED
    BY <1>3, <2>2 DEF Resumes, env
<1>4. QED
  BY <1>1, <1>2, <1>3

-----------------------------------------------------------------------------
(* What the pieces do that statements are compiled to                      *)

LEMMA IfMeant ==
  ASSUME NEW prog, NEW id, NEW on, NEW negate, NEW body, NEW T, NEW F,
         NEW a \in SUBSET Config, NEW d \in SUBSET Config, NEW P \in SUBSET Config,
         <<<<"endif", id>>, P>> \in F, Meant(prog, body, T, F, d, P),
         \A x \in a : IF Met([op |-> "if", id |-> id, on |-> on, negate |-> negate], x)
                      THEN x \in d ELSE x \in P
  PROVE  Meant(prog, IfBlock(id, on, negate, body), T, F, a, P)
<1> DEFINE i == [op |-> "if", id |-> id, on |-> on, negate |-> negate]
           z == [op |-> "endif", id |-> id]
<1>1. ASSUME NEW M, Given(M, F) PROVE Leads(prog, i, a, d, M) /\ Leads(prog, z, P, P, M)
  <2>1. M[<<"endif", id>>] = P
    BY <1>1 DEF Given
  <2>2. \A x \in a : IF Met(i, x) THEN x \in d ELSE x \in P
    OBVIOUS
  <2>3. i.op = "if" /\ i.id = id /\ z.op = "endif" /\ z.id = id
    OBVIOUS
  <2> HIDE DEF i, z
  <2>4. QED
    BY <2>1, <2>2, <2>3 DEF Leads, Lands, Goes
<1> HIDE DEF i, z
<1>2. Meant(prog, <<i>>, {}, F, a, d) /\ Meant(prog, <<z>>, {}, F, P, P)
  BY <1>1, MeantOne
<1>3. Meant(prog, <<i>> \o body, {} \cup T, F, a, P)
  BY <1>2, MeantJoined
<1>4. Meant(prog, (<<i>> \o body) \o <<z>>, ({} \cup T) \cup {}, F, a, P)
  BY <1>2, <1>3, MeantJoined
<1>5. ({} \cup T) \cup {} = T
  OBVIOUS
<1>6. QED
  BY <1>4, <1>5 DEF IfBlock, i, z

LEMMA GotoMeant ==
  ASSUME NEW prog, NEW id, NEW F, NEW P, <<<<"label", id>>, P>> \in F,
         NEW T, NEW a \in SUBSET Config, a \subseteq P, NEW b \in SUBSET Config
  PROVE  Meant(prog, Goto(id), T, F, a, b)
<1> DEFINE i == [op |-> "goto", id |-> id]
<1>1. i.op = "goto" /\ i.id = id
  OBVIOUS
<1> HIDE DEF i
<1>2. ASSUME NEW M, Given(M, F) PROVE Leads(prog, i, a, b, M)
  BY <1>1, <1>2 DEF Given, Leads, Lands, Goes
<1>3. QED
  BY <1>2, MeantOne DEF Goto, i

LEMMA BreakMeant ==
  ASSUME NEW prog, NEW id, NEW F, NEW P, <<<<"endwhile", id>>, P>> \in F,
         NEW T, NEW a \in SUBSET Config, a \subseteq P, NEW b \in SUBSET Config
  PROVE  Meant(prog, LeaveLoop(id), T, F, a, b)
<1> DEFINE i == [op |-> "break", id |-> id]
<1>1. i.op = "break" /\ i.id = id
  OBVIOUS
<1> HIDE DEF i
<1>2. ASSUME NEW M, Given(M, F) PROVE Leads(prog, i, a, b, M)
  BY <1>1, <1>2 DEF Given, Leads, Lands, Goes
<1>3. QED
  BY <1>2, MeantOne DEF LeaveLoop, i

LEMMA LabelMeant ==
  ASSUME NEW prog, NEW id, NEW F, NEW P, <<<<"label", id>>, P>> \in F,
         NEW T, NEW a \in SUBSET Config, P \subseteq a
  PROVE  Meant(prog, Label(id), T, F, a, a)
<1> DEFINE i == [op |-> "label", id |-> id]
<1>1. i.op = "label" /\ i.id = id
  OBVIOUS
<1> HIDE DEF i
<1>2. ASSUME NEW M, Given(M, F) PROVE Leads(prog, i, a, a, M)
  BY <1>1, <1>2 DEF Given, Leads, Lands, Goes
<1>3. QED
  BY <1>2, MeantOne DEF Label, i

(* Returning, with or without an exception pending.                        *)
LEMMA ReturnMeant ==
  ASSUME NEW prog, NEW F, NEW T, NEW h, h.mask = <<>>, NEW Q, NEW b \in SUBSET Config,
         \A q \in Q : /\ q[2].how # "normal" => q[3] = q[2]
                      /\ q[2].how = "normal" => q[3] \in {q[2], Leaving(q[2], "return")}
  PROVE  Meant(prog, ReturnInst, T, F, At(h, Q), b)
<1> DEFINE i == [op |-> "return"]
<1>1. i.op = "return"
  OBVIOUS
<1> HIDE DEF i
<1>2. ASSUME NEW x \in At(h, Q)
      PROVE  /\ x.m = x.e
             /\ x.env.how # "normal" => x.r = x.env
             /\ x.env.how = "normal" => x.r \in {x.env, Leaving(x.env, "return")}
  BY DEF At, Expected
<1>3. ASSUME NEW M PROVE Leads(prog, i, At(h, Q), b, M)
  BY <1>1, <1>2 DEF Leads, Lands, Goes
<1>4. QED
  BY <1>3, AtIn, MeantOne DEF ReturnInst, i

LEMMA CheckMeant ==
  ASSUME NEW prog, NEW id, NEW ctx \in Context, NEW h, NEW F, NEW Q, Throws(F, ctx, h, Q),
         NEW P \in SUBSET Config, <<<<"endif", id>>, P>> \in F, At(h, As(Q, "normal")) \subseteq P
  PROVE  Meant(prog, CheckExceptions(id, ctx), {}, F, At(h, Q), P)
<1> DEFINE body == IF ctx.inTry THEN Goto(ctx.excepts) ELSE ReturnInst
           a == At(h, Q)
           d == At(h, Thrown(Q))
<1>1. a \in SUBSET Config /\ d \in SUBSET Config
  BY AtIn
<1>2. Meant(prog, body, {}, F, d, P)
  <2>1. CASE ctx.inTry
    <3>1. PICK Pe : <<<<"label", ctx.excepts>>, Pe>> \in F /\ d \subseteq Pe
      BY <2>1 DEF Throws
    <3>2. QED
      BY <1>1, <2>1, <3>1, GotoMeant
  <2>2. CASE ~ctx.inTry
    <3>1. h.mask = <<>> /\ \A q \in Thrown(Q) : q[2].how # "normal" /\ q[3] = q[2]
      BY <2>2, HowsApart DEF Throws, Thrown
    <3>2. Meant(prog, ReturnInst, {}, F, At(h, Thrown(Q)), P)
      BY <3>1, ReturnMeant
    <3>3. QED
      BY <2>2, <3>2
  <2>3. QED
    BY <2>1, <2>2
<1>3. \A x \in a : IF Met([op |-> "if", id |-> id, on |-> GlobalException, negate |-> FALSE], x)
                   THEN x \in d ELSE x \in P
  BY AtParts DEF Met
<1> HIDE DEF a, d, body
<1>4. Meant(prog, IfBlock(id, GlobalException, FALSE, body), {}, F, a, P)
  BY <1>1, <1>2, <1>3, IfMeant
<1>5. QED
  BY <1>4 DEF CheckExceptions, a, body

LEMMA UnsafeMeant ==
  ASSUME NEW prog, NEW i, NEW at, NEW ctx \in Context, NEW h, NEW F, NEW Q, Throws(F, ctx, h, Q),
         NEW a \in SUBSET Config, \A M : Given(M, F) => Leads(prog, i, a, At(h, Q), M),
         NEW P \in SUBSET Config, <<<<"endif", Id(at, i.op)>>, P>> \in F,
         At(h, As(Q, "normal")) \subseteq P
  PROVE  Meant(prog, Unsafe(i, at, ctx), {}, F, a, P)
<1>1. Meant(prog, CheckExceptions(Id(at, i.op), ctx), {}, F, At(h, Q), P)
  BY CheckMeant
<1>2. Meant(prog, <<i>>, {}, F, a, At(h, Q))
  BY AtIn, MeantOne
<1>3. Meant(prog, <<i>> \o CheckExceptions(Id(at, i.op), ctx), {} \cup {}, F, a, P)
  BY <1>1, <1>2, MeantJoined
<1>4. QED
  BY <1>3 DEF Unsafe

(* What is thrown goes on to where it is caught; nothing goes on behind.   *)
LEMMA RaiseMeant ==
  ASSUME NEW prog, NEW x \in Exceptions, NEW at, NEW ctx \in Context, NEW h, NEW F, NEW Q,
         Throws(F, ctx, h, Q), <<<<"endif", Id(at, "raise")>>, {}>> \in F,
         NEW Q0, \A q \in Q0 \cap Triple : <<q[1], Leaving(q[2], x), q[3]>> \in Q
  PROVE  Meant(prog, RaiseInst(x, at, ctx), {}, F, At(h, Q0), {})
<1> DEFINE i == [op |-> "raise", exc |-> x]
           R == {q \in Q : q[2].how = x}
<1>1. i.op = "raise" /\ i.exc = x
  OBVIOUS
<1> HIDE DEF i
<1>2. x # "normal" /\ x \in How
  BY HowsApart
<1>3. As(R, "normal") = {} /\ Thrown(R) \subseteq Thrown(Q)
  BY <1>2 DEF As, Thrown
<1>4. Throws(F, ctx, h, R)
  <2>1. At(h, Thrown(R)) \subseteq At(h, Thrown(Q))
    BY <1>3, AtMore
  <2>2. QED
    BY <1>3, <2>1 DEF Throws
<1>5. ASSUME NEW c \in At(h, Q0) PROVE Resumes(c, Leaving(c.env, x), At(h, R))
  <2> DEFINE r1 == Leaving(c.env, x)
  <2>1. c \in Config /\ <<c.e, c.env, c.r>> \in Q0
    BY DEF At
  <2>2. r1 \in Env /\ r1.how = x
    BY <1>2, <2>1, ConfigIs, LeavingIn
  <2>3. <<c.e, r1, c.r>> \in Q
    BY <2>1, ConfigIs
  <2> HIDE DEF r1
  <2>4. <<c.e, r1, c.r>> \in R
    BY <2>2, <2>3
  <2> HIDE DEF R
  <2>5. Resumes(c, r1, At(h, R))
    BY <1>4, <2>2, <2>4, ResumesAt
  <2>6. QED
    BY <2>5 DEF r1
<1> HIDE DEF R
<1>6. ASSUME NEW M PROVE Leads(prog, i, At(h, Q0), At(h, R), M)
  BY <1>1, <1>5 DEF Leads, Lands, Goes
<1>7. At(h, As(R, "normal")) \subseteq {}
  BY <1>3 DEF At
<1>8. Meant(prog, Unsafe(i, at, ctx), {}, F, At(h, Q0), {})
  BY <1>1, <1>4, <1>6, <1>7, AtIn, UnsafeMeant
<1>9. QED
  BY <1>8 DEF RaiseInst, i

(* A condition that has come out: with Qt where it holds, else with Qf.    *)
Decided(h, id, Qt, Qf) ==
  {x \in Config : /\ id \in DOMAIN x.l /\ x.l[id] \in BOOLEAN
                  /\ x.l[id] = TRUE => x \in At(h, Qt)
                  /\ x.l[id] = FALSE => x \in At(h, Qf)}

(* How a condition may come out of Q0. *)
Parts(Q0, Qt, Qf) ==
  \A q \in Q0 \cap Triple : q[2].how = "normal" /\
    LET v == Evaluate(Test, q[2])
    IN /\ v.holds => <<q[1], v.env, q[3]>> \in Qt
       /\ ~v.holds => <<q[1], v.env, q[3]>> \in Qf

LEMMA TestMeant ==
  ASSUME NEW prog, NEW op \in {"test", "next"}, NEW at \in Seq(Nat), NEW h \in Scope, NEW F,
         NEW Q0, NEW Qt, NEW Qf, Parts(Q0, Qt, Qf)
  PROVE  Meant(prog, <<[op |-> op, into |-> Value(at)]>>, {}, F, At(h, Q0),
               Decided(h, Value(at), Qt, Qf))
<1> DEFINE i == [op |-> op, into |-> Value(at)]
           b == Decided(h, Value(at), Qt, Qf)
<1>1. i.op \in {"test", "next"} /\ i.into = Value(at)
  OBVIOUS
<1>2. Value(at) \in IdOf /\ \A k \in h.kept : k.old # Value(at)
  <2>1. Value(at) = [at |-> at, tag |-> "value"] /\ "value" \in Tags
    BY DEF Value, Id, Tags
  <2>2. \A k \in Saved : k.old.tag = "old"
    BY DEF Saved
  <2>3. h.kept \in SUBSET Saved
    BY DEF Scope
  <2>4. QED
    BY <2>1, <2>2, <2>3 DEF IdOf
<1> HIDE DEF i
<1>3. ASSUME NEW x \in At(h, Q0)
      PROVE  LET c == Evaluate(Test, x.env)
             IN To(x, Assigned(x.l, Value(at), c.holds), x.m, c.env) \in b
  <2> DEFINE c == Evaluate(Test, x.env)
             y == To(x, Assigned(x.l, Value(at), c.holds), x.m, c.env)
  <2>1. x \in Config /\ <<x.e, x.env, x.r>> \in Q0 \cap Triple
    BY ConfigIs DEF At
  <2>2. x.env.how = "normal"
    BY <2>1 DEF Parts
  <2>3. c.env \in Env /\ c.holds \in BOOLEAN /\ c.env.how = "normal"
    <3>1. x.env \in Env /\ Test \in Condition
      BY <2>1, ConfigIs DEF Condition
    <3>2. c.env \in Env /\ c.holds \in BOOLEAN
      BY <3>1, EvaluateIn
    <3>3. c.env.how = x.env.how
      BY <3>1 DEF Evaluate, Env
    <3>4. QED
      BY <2>2, <3>2, <3>3
  <2>4. /\ c.holds => <<x.e, c.env, x.r>> \in Qt
        /\ ~c.holds => <<x.e, c.env, x.r>> \in Qf
    <3>1. \A q \in Q0 \cap Triple :
            /\ Evaluate(Test, q[2]).holds => <<q[1], Evaluate(Test, q[2]).env, q[3]>> \in Qt
            /\ ~Evaluate(Test, q[2]).holds => <<q[1], Evaluate(Test, q[2]).env, q[3]>> \in Qf
      BY DEF Parts
    <3>2. QED
      BY <2>1, <3>1
  <2> HIDE DEF c
  <2>5. c.holds \in Content
    BY <2>3 DEF Content
  <2> HIDE DEF y
  <2>0. y = To(x, Assigned(x.l, Value(at), c.holds), x.m, c.env)
    BY DEF y
  <2> DEFINE v == c.holds
             id == Value(at)
             env == c.env
  <2>a. /\ v \in Content /\ id \in IdOf /\ env \in Env /\ env.how = "normal"
        /\ \A k \in h.kept : k.old # id
        /\ y = To(x, Assigned(x.l, id, v), x.m, env)
    BY <1>2, <2>0, <2>3, <2>5
  <2> HIDE DEF v, id, env
  <2>b. \A R : <<x.e, env, x.r>> \in R => y \in At(h, R) /\ id \in DOMAIN y.l /\ y.l[id] = v
    BY <2>a, AtAssigned
  <2>6. ASSUME c.holds PROVE y \in At(h, Qt) /\ Value(at) \in DOMAIN y.l /\ y.l[Value(at)] = c.holds
    BY <2>b, <2>4, <2>6 DEF v, id, env
  <2>7. ASSUME ~c.holds PROVE y \in At(h, Qf) /\ Value(at) \in DOMAIN y.l /\ y.l[Value(at)] = c.holds
    BY <2>b, <2>4, <2>7 DEF v, id, env
  <2>8. y \in b
    BY <2>3, <2>6, <2>7, AtIn DEF Decided
  <2>9. QED
    BY <2>8 DEF c, y
<1>4. ASSUME NEW M PROVE Leads(prog, i, At(h, Q0), b, M)
  BY <1>1, <1>3 DEF Leads, Lands, Goes
<1>5. b \in SUBSET Config
  BY DEF Decided
<1>6. QED
  BY <1>4, <1>5, AtIn, MeantOne DEF i

(* Evaluating a condition, which may throw.                                *)
LEMMA EvaluatedMeant ==
  ASSUME NEW prog, NEW c \in Condition, NEW at \in Seq(Nat), NEW ctx \in Context, NEW h \in Scope,
         NEW F, NEW Q, Throws(F, ctx, h, Q), <<<<"endif", Id(at, "raise")>>, {}>> \in F,
         NEW Q0, NEW Qt, NEW Qf,
         c = Test => Parts(Q0, Qt, Qf),
         c # Test => \A q \in Q0 \cap Triple : <<q[1], Leaving(q[2], c), q[3]>> \in Q
  PROVE  Meant(prog, Evaluated(c, at, ctx), {}, F, At(h, Q0), Decided(h, Value(at), Qt, Qf))
<1> DEFINE i == <<[op |-> "test", into |-> Value(at)]>>
           b == Decided(h, Value(at), Qt, Qf)
<1>1. CASE c = Test
  <2>1. Meant(prog, i, {}, F, At(h, Q0), b)
    BY <1>1, TestMeant
  <2>2. IsCode(i)
    BY OneInstruction
  <2> HIDE DEF i
  <2>3. Evaluated(c, at, ctx) = i
    BY <1>1, <2>2, EmptyCode DEF Evaluated, i
  <2>4. QED
    BY <2>1, <2>3
<1>2. CASE c # Test
  <2>1. c \in Exceptions
    BY <1>2 DEF Condition
  <2>2. Meant(prog, RaiseInst(c, at, ctx), {}, F, At(h, Q0), {})
    BY <1>2, <2>1, RaiseMeant
  <2>3. Parts({}, Qt, Qf)
    BY DEF Parts
  <2>4. Meant(prog, i, {}, F, At(h, {}), b)
    BY <2>3, TestMeant
  <2>5. At(h, {}) = {}
    BY DEF At
  <2>6. Meant(prog, RaiseInst(c, at, ctx) \o i, {} \cup {}, F, At(h, Q0), b)
    BY <2>2, <2>4, <2>5, MeantJoined
  <2>7. QED
    BY <1>2, <2>6 DEF Evaluated
<1>3. QED
  BY <1>1, <1>2

(* A block that runs if a condition came out as it should.                 *)
LEMMA DecidedIf ==
  ASSUME NEW prog, NEW id, NEW on \in IdOf, on # GlobalException, NEW negate \in BOOLEAN, NEW body,
         NEW T, NEW F, NEW h, NEW Qt, NEW Qf, NEW P \in SUBSET Config, <<<<"endif", id>>, P>> \in F,
         Meant(prog, body, T, F, At(h, IF negate THEN Qf ELSE Qt), P),
         At(h, IF negate THEN Qt ELSE Qf) \subseteq P
  PROVE  Meant(prog, IfBlock(id, on, negate, body), T, F, Decided(h, on, Qt, Qf), P)
<1> DEFINE i == [op |-> "if", id |-> id, on |-> on, negate |-> negate]
           a == Decided(h, on, Qt, Qf)
           d == At(h, IF negate THEN Qf ELSE Qt)
<1>1. a \in SUBSET Config /\ d \in SUBSET Config
  BY AtIn DEF Decided
<1>2. \A x \in a : IF Met(i, x) THEN x \in d ELSE x \in P
  <2>1. TAKE x \in a
  <2>2. Met(i, x) <=> x.l[on] # negate
    BY DEF Met
  <2>3. CASE x.l[on] = TRUE
    BY <2>2, <2>3 DEF Decided
  <2>4. CASE x.l[on] = FALSE
    BY <2>2, <2>4 DEF Decided
  <2>5. QED
    BY <2>3, <2>4 DEF Decided
<1> HIDE DEF a, d
<1>3. QED
  BY <1>1, <1>2, IfMeant DEF a, d

-----------------------------------------------------------------------------
(* What the code of statements means                                       *)

(* Where control goes that leaves a statement with Q otherwise than at its *)
(* end, in a context and place.                                            *)
Accepts(F, ctx, place, h, Q) ==
  /\ ctx \in Context /\ place \in Place /\ ctx.inTry = place.inTry
  /\ Throws(F, ctx, h, Q)
  /\ ~place.inTry => \A q \in Q : q[2].how = "return" => q[3] = q[2]
  /\ place.loop = "here" =>
       /\ \E P : <<<<"label", After(ctx.loop)>>, P>> \in F /\ At(h, Coming(Q, "continue")) \subseteq P
       /\ \E P : <<<<"endwhile", ctx.loop>>, P>> \in F /\ At(h, Coming(Q, "break")) \subseteq P

(* None of the identifiers holds excepts that are remembered. *)
Free(h, T) == \A k \in h.kept : k.old \notin T

(* The code of a statement leads from where the statement is about to be   *)
(* done, with Q as what comes of it, to where it is done.                  *)
MeantStatement(prog, s, place) ==
  \A at \in Seq(Nat), ctx \in Context, h \in Scope, Q \in SUBSET Triple : \A F :
    Free(h, Region(at)) /\ Accepts(F, ctx, place, h, Q)
      => Meant(prog, CompileStatement[s][at][ctx], Region(at), F,
               At(h, Before(prog, s, Q)), At(h, As(Q, "normal")))

(* Only what is left otherwise than at the end matters. *)
LEMMA AcceptsSame ==
  ASSUME NEW F, NEW ctx, NEW place, NEW h, NEW Q, NEW R, Accepts(F, ctx, place, h, Q),
         \A q \in R : q[2].how # "normal" => q \in Q
  PROVE  Accepts(F, ctx, place, h, R)
<1>1. Thrown(R) \subseteq Thrown(Q)
  BY HowsApart DEF Thrown
<1>2. At(h, Thrown(R)) \subseteq At(h, Thrown(Q))
  BY <1>1, AtMore
<1>3. Throws(F, ctx, h, R)
  BY <1>1, <1>2 DEF Accepts, Throws
<1>4. ASSUME NEW how \in {"continue", "break"} PROVE At(h, Coming(R, how)) \subseteq At(h, Coming(Q, how))
  <2>1. ASSUME NEW q \in Coming(R, how) PROVE q \in Coming(Q, how)
    <3> DEFINE p == <<q[1], Leaving(q[2], how), q[3]>>
    <3>1. q \in Triple /\ p \in R
      BY DEF Coming
    <3>2. how \in How /\ how # "normal"
      BY DEF How, Departures
    <3>3. Leaving(q[2], how).how = how
      BY <3>1, <3>2, LeavingIn DEF Triple
    <3>4. p \in Q
      BY <3>1, <3>2, <3>3
    <3>5. QED
      BY <3>4 DEF Coming
  <2>2. QED
    BY <2>1, AtMore
<1>5. \A q \in R : q[2].how = "return" => q \in Q
  OBVIOUS
<1>6. ~place.inTry => \A q \in R : q[2].how = "return" => q[3] = q[2]
  BY <1>5 DEF Accepts
<1>7. ASSUME place.loop = "here"
      PROVE  /\ \E P : <<<<"label", After(ctx.loop)>>, P>> \in F /\ At(h, Coming(R, "continue")) \subseteq P
             /\ \E P : <<<<"endwhile", ctx.loop>>, P>> \in F /\ At(h, Coming(R, "break")) \subseteq P
  <2>1. PICK P : <<<<"label", After(ctx.loop)>>, P>> \in F /\ At(h, Coming(Q, "continue")) \subseteq P
    BY <1>7 DEF Accepts
  <2>2. PICK P2 : <<<<"endwhile", ctx.loop>>, P2>> \in F /\ At(h, Coming(Q, "break")) \subseteq P2
    BY <1>7 DEF Accepts
  <2>3. At(h, Coming(R, "continue")) \subseteq P /\ At(h, Coming(R, "break")) \subseteq P2
    BY <1>4, <2>1, <2>2
  <2>4. QED
    BY <2>1, <2>2, <2>3
<1>8. QED
  BY <1>3, <1>6, <1>7 DEF Accepts

(* The rest of a block. *)
Rest(stmts, k) == SubSeq(stmts, k, Len(stmts))

LEMMA RestIs ==
  ASSUME NEW X, NEW stmts \in Seq(X)
  PROVE  /\ Rest(stmts, 1) = stmts
         /\ Rest(stmts, Len(stmts) + 1) = <<>>
         /\ \A k \in 1 .. Len(stmts) + 1 : Rest(stmts, k) \in Seq(X)
         /\ \A k \in 1 .. Len(stmts) : /\ Rest(stmts, k) # <<>>
                                       /\ Head(Rest(stmts, k)) = stmts[k]
                                       /\ Tail(Rest(stmts, k)) = Rest(stmts, k + 1)
<1> DEFINE n == Len(stmts)
<1>1. n \in Nat /\ \A i \in 1 .. n : stmts[i] \in X
  OBVIOUS
<1>2. Rest(stmts, 1) = stmts
  BY SubSeqFull DEF Rest
<1>3. Rest(stmts, n + 1) = <<>>
  <2>1. n + 1 \in Int /\ n \in Int /\ n < n + 1
    BY <1>1
  <2> HIDE DEF n
  <2>2. SubSeq(stmts, n + 1, n) = <<>>
    BY <2>1, SubSeqEmpty
  <2>3. QED
    BY <2>2 DEF Rest, n
<1>4. ASSUME NEW k \in 1 .. n + 1 PROVE Rest(stmts, k) \in Seq(X) /\ (k \in 1 .. n => Len(Rest(stmts, k)) # 0)
  <2>1. k \in Int /\ n \in Int /\ \A i \in k .. n : stmts[i] \in X
    BY <1>1
  <2> HIDE DEF n
  <2>2. SubSeq(stmts, k, n) \in Seq(X) /\ Len(SubSeq(stmts, k, n)) = IF k <= n THEN n - k + 1 ELSE 0
    BY <2>1, SubSeqProperties
  <2>3. QED
    BY <1>1, <2>1, <2>2 DEF Rest, n
<1>5. ASSUME NEW k \in 1 .. n
      PROVE  Head(Rest(stmts, k)) = stmts[k] /\ Tail(Rest(stmts, k)) = Rest(stmts, k + 1)
  <2>1. k \in 1 .. Len(stmts) /\ n \in k .. Len(stmts)
    BY <1>1
  <2> HIDE DEF n
  <2>2. Head(SubSeq(stmts, k, n)) = stmts[k] /\ Tail(SubSeq(stmts, k, n)) = SubSeq(stmts, k + 1, n)
    BY <2>1, HeadTailOfSubSeq
  <2>3. QED
    BY <2>2 DEF Rest, n
<1>6. \A k \in 1 .. n : k \in 1 .. n + 1 /\ Rest(stmts, k) # <<>>
  <2>1. TAKE k \in 1 .. n
  <2>2. k \in 1 .. n + 1
    BY <1>1
  <2>3. Len(Rest(stmts, k)) # 0 /\ Len(<<>>) = 0
    BY <1>4, <2>2
  <2>4. QED
    BY <2>2, <2>3
<1>7. QED
  BY <1>2, <1>3, <1>4, <1>5, <1>6

(* What comes of one statement of a block: the rest of it, or what comes   *)
(* of all.                                                                 *)
Going(prog, task, Q) ==
  BeforeTask(prog, task, Q) \cup {q \in Q : q[2].how # "normal"}

LEMMA GoingOn ==
  ASSUME NEW prog \in Programs, NEW stmts \in Stmts, stmts # <<>>, NEW Q
  PROVE  BeforeTask(prog, Do(stmts), Q) \subseteq Before(prog, Head(stmts), Going(prog, Do(Tail(stmts)), Q))
<1> DEFINE R == Going(prog, Do(Tail(stmts)), Q)
           s == Head(stmts)
           rest == Tail(stmts)
<1>1. ASSUME NEW q \in BeforeTask(prog, Do(stmts), Q) PROVE q \in Before(prog, s, R)
  <2>1. q \in Triple /\ q[2].how = "normal"
    BY DEF BeforeTask
  <2>2. PICK r : Finishes(prog, Do(stmts), q[2], r) /\ <<q[1], r, q[3]>> \in Q
    BY DEF BeforeTask
  <2>3. q[2] \in Env /\ q[1] \in SUBSET Exceptions /\ q[3] \in Env
    BY <2>1 DEF Triple
  <2>4. PICK r1 \in Env : Does(prog, s, q[2], r1) /\ Finishes(prog, Do(rest), r1, r)
    BY <2>1, <2>2, <2>3, BlockGoesOn
  <2>5. rest \in Stmts
    BY <2>1, <2>2, <2>3, BlockGoesOn
  <2> DEFINE p == <<q[1], r1, q[3]>>
  <2>6. p[1] = q[1] /\ p[2] = r1 /\ p[3] = q[3] /\ p \in Triple
    BY <2>3 DEF Triple
  <2> HIDE DEF R, s, rest, p
  <2>7. CASE r1.how = "normal"
    <3>1. p \in BeforeTask(prog, Do(rest), Q)
      BY <2>2, <2>4, <2>6, <2>7 DEF BeforeTask
    <3>2. p \in R
      BY <3>1 DEF R, Going, rest
    <3>3. QED
      BY <2>1, <2>4, <3>2 DEF Before, p
  <2>8. CASE r1.how # "normal"
    <3>1. r = r1
      BY <2>4, <2>5, <2>8, BlockOver
    <3>2. p \in R
      BY <2>2, <2>6, <2>8, <3>1 DEF R, Going, p
    <3>3. QED
      BY <2>1, <2>4, <3>2 DEF Before, p
  <2>9. QED
    BY <2>7, <2>8
<1>2. QED
  BY <1>1

LEMMA GoingIs ==
  ASSUME NEW prog, NEW task, NEW Q
  PROVE  /\ As(Going(prog, task, Q), "normal") \subseteq BeforeTask(prog, task, Q)
         /\ \A q \in Going(prog, task, Q) : q[2].how # "normal" => q \in Q
         /\ Q \in SUBSET Triple => Going(prog, task, Q) \in SUBSET Triple
BY DEF Going, BeforeTask, As

LEMMA BlockEnds ==
  ASSUME NEW prog \in Programs, NEW Q
  PROVE  BeforeTask(prog, Do(<<>>), Q) \subseteq As(Q, "normal")
<1>1. <<>> \in Stmts
  BY DEF Stmts
<1>2. ASSUME NEW q \in BeforeTask(prog, Do(<<>>), Q) PROVE q \in As(Q, "normal")
  <2>1. q \in Triple /\ q[2].how = "normal"
    BY DEF BeforeTask
  <2>2. PICK r : Finishes(prog, Do(<<>>), q[2], r) /\ <<q[1], r, q[3]>> \in Q
    BY DEF BeforeTask
  <2>3. q[2] \in Env /\ q = <<q[1], q[2], q[3]>>
    BY <2>1 DEF Triple
  <2>4. r = q[2]
    BY <1>1, <2>2, <2>3, BlockOver
  <2>5. QED
    BY <2>1, <2>2, <2>3, <2>4 DEF As
<1>3. QED
  BY <1>2

LEMMA BodyMeant ==
  ASSUME NEW prog \in Programs, NEW stmts \in Stmts, NEW place,
         \A k \in DOMAIN stmts : MeantStatement(prog, stmts[k], place),
         NEW at \in Seq(Nat), NEW ctx \in Context, NEW h \in Scope, Free(h, Inside(at, Nat)),
         NEW Q \in SUBSET Triple, NEW F, Accepts(F, ctx, place, h, Q)
  PROVE  Meant(prog, CompileBody(CompileStatement, stmts, at, ctx), Inside(at, Nat), F,
               At(h, BeforeTask(prog, Do(stmts), Q)), At(h, As(Q, "normal")))
<1> DEFINE n == Len(stmts)
           seqs == [k \in DOMAIN stmts |-> CompileStatement[stmts[k]][Append(at, k)][ctx]]
           T == [k \in 1 .. n |-> Inside(at, {k})]
           todo(k) == BeforeTask(prog, Do(Rest(stmts, k)), Q)
           G == [k \in 1 .. n + 1 |-> At(h, todo(k))]
<1>1. n \in Nat /\ DOMAIN stmts = 1 .. n /\ \A k \in 1 .. n : k \in 1 .. n + 1 /\ k + 1 \in 1 .. n + 1
  BY DEF Stmts
<1>0. 1 \in 1 .. n + 1 /\ n + 1 \in 1 .. n + 1
  BY <1>1
<1>2. ASSUME NEW k \in 1 .. n PROVE Meant(prog, seqs[k], T[k], F, G[k], G[k + 1])
  <2>1. k \in Nat /\ Append(at, k) \in Seq(Nat) /\ Region(Append(at, k)) \subseteq T[k]
    BY RegionInside
  <2>2. Region(Append(at, k)) \subseteq Inside(at, Nat)
    BY <2>1, InsideParts
  <2>3. Free(h, Region(Append(at, k)))
    BY <2>2 DEF Free
  <2> DEFINE c == CompileStatement[stmts[k]][Append(at, k)][ctx]
             R == Going(prog, Do(Rest(stmts, k + 1)), Q)
             t == Region(Append(at, k))
             a == At(h, Before(prog, stmts[k], R))
             b == At(h, As(R, "normal"))
  <2>4. R \in SUBSET Triple /\ Accepts(F, ctx, place, h, R)
    BY AcceptsSame, GoingIs
  <2>5. Meant(prog, c, t, F, a, b)
    <3> HIDE DEF R
    <3>1. MeantStatement(prog, stmts[k], place)
      BY <1>1
    <3>2. QED
      BY <2>1, <2>3, <2>4, <3>1 DEF MeantStatement
  <2>6. seqs[k] = c
    BY <1>1
  <2>7. todo(k) \subseteq Before(prog, stmts[k], R)
    <3>1. /\ Rest(stmts, k) \in Stmts /\ Rest(stmts, k) # <<>>
          /\ Head(Rest(stmts, k)) = stmts[k] /\ Tail(Rest(stmts, k)) = Rest(stmts, k + 1)
      BY <1>1, RestIs DEF Stmts
    <3>2. QED
      BY <3>1, GoingOn
  <2>8. As(R, "normal") \subseteq todo(k + 1)
    BY GoingIs
  <2>9. G[k] = At(h, todo(k)) /\ G[k + 1] = At(h, todo(k + 1))
    BY <1>1
  <2> HIDE DEF R, todo, G, T, seqs
  <2>10. G[k] \subseteq a /\ b \subseteq G[k + 1]
    BY <2>7, <2>8, <2>9, AtMore
  <2> HIDE DEF a, b, c, t
  <2>11. Meant(prog, c, T[k], F, G[k], G[k + 1])
    <3>1. t \subseteq T[k]
      BY <2>1 DEF t
    <3>2. QED
      BY <2>5, <2>10, <3>1, MeantMore
  <2>12. QED
    BY <2>6, <2>11
<1>3. \A k, l \in 1 .. n : k # l => T[k] \cap T[l] = {}
  <2>1. \A k, l \in 1 .. n : k # l => {k} \cap {l} = {}
    OBVIOUS
  <2>2. QED
    BY <2>1, InsideParts
<1>4. UNION {T[k] : k \in 1 .. n} \subseteq Inside(at, Nat)
  <2>1. ASSUME NEW k \in 1 .. n PROVE T[k] \subseteq Inside(at, Nat)
    BY InsideParts
  <2>2. QED
    BY <2>1
<1>5. seqs = [k \in 1 .. n |-> seqs[k]] /\ DOMAIN seqs = 1 .. n
  BY <1>1
<1>6. CompileBody(CompileStatement, stmts, at, ctx) = FlattenSeq(seqs)
  BY DEF CompileBody
<1>7. G[1] = At(h, BeforeTask(prog, Do(stmts), Q))
  BY <1>0, RestIs DEF Stmts
<1>8. G[n + 1] \subseteq At(h, As(Q, "normal"))
  <2>1. G[n + 1] = At(h, BeforeTask(prog, Do(<<>>), Q))
    BY <1>0, RestIs DEF Stmts
  <2> HIDE DEF G
  <2>2. QED
    BY <2>1, BlockEnds, AtMore
<1>9. G[1] \in SUBSET Config
  BY <1>7, AtIn
<1> HIDE DEF seqs, T, n, G
<1>10. Meant(prog, FlattenSeq(seqs), UNION {T[k] : k \in 1 .. n}, F, G[1], G[n + 1])
  <2>1. n \in Nat
    BY <1>1
  <2>2. QED
    <3>1. Chain(prog, n, seqs, T, F, G)
      BY <1>2, <1>3, <1>5, <1>9, <2>1 DEF Chain
    <3>2. QED
      BY <3>1, MeantFlattened
<1> HIDE DEF todo
<1>11. QED
  <2> DEFINE f == FlattenSeq(seqs)
             a == At(h, BeforeTask(prog, Do(stmts), Q))
             b == At(h, As(Q, "normal"))
             U == UNION {T[k] : k \in 1 .. n}
             V == Inside(at, Nat)
  <2>1. Meant(prog, f, U, F, G[1], G[n + 1]) /\ U \subseteq V /\ a \subseteq G[1] /\ G[n + 1] \subseteq b
    BY <1>4, <1>7, <1>8, <1>10
  <2> HIDE DEF f, a, b, U, V
  <2>2. Meant(prog, f, V, F, a, b)
    BY <2>1, MeantMore
  <2>3. QED
    BY <1>6, <2>2 DEF f, a, b, V

(* The plans N for marks with identifiers in O, no mark with two of them.  *)
Plans(N, O) ==
  /\ \A f \in N : f = <<f[1], f[2]>> /\ f[1] \in MarkSet /\ f[1][2] \in O
  /\ \A f, g \in N : f[1] = g[1] => f[2] = g[2]

LEMMA MeantPlanned ==
  ASSUME NEW prog, NEW c, NEW T, NEW O, T \cap O = {}, NEW F, NEW N, Plans(N, O), NEW a, NEW b,
         Meant(prog, c, T, F \cup N, a, b)
  PROVE  Meant(prog, c, T \cup O, F, a, b)
<1> DEFINE P == [m \in MarkSet |-> CHOOSE p : <<m, p>> \in N]
<1>1. ASSUME NEW f \in N PROVE f \in PlansFor(P, O)
  <2>1. f = <<f[1], f[2]>> /\ f[1] \in MarkSet /\ f[1][2] \in O
    BY DEF Plans
  <2>2. PICK m : m = f[1]
    OBVIOUS
  <2>3. PICK p : p = P[m]
    OBVIOUS
  <2>4. p = CHOOSE q : <<m, q>> \in N
    BY <2>1, <2>2, <2>3
  <2>5. <<m, p>> \in N
    BY <2>1, <2>2, <2>4
  <2>6. <<m, p>>[1] = m /\ <<m, p>>[2] = p
    OBVIOUS
  <2>7. p = f[2]
    BY <2>2, <2>5, <2>6 DEF Plans
  <2> HIDE DEF P
  <2>8. QED
    BY <2>1, <2>2, <2>3, <2>7 DEF PlansFor
<1> HIDE DEF P
<1>2. F \cup N \subseteq F \cup PlansFor(P, O)
  BY <1>1
<1>3. Meant(prog, c, T, F \cup PlansFor(P, O), a, b)
  BY <1>2, MeantMore
<1>4. QED
  BY <1>3, MeantClosed

(* Marks of a statement's own. *)
LEMMA OwnMark ==
  ASSUME NEW at \in Seq(Nat), NEW tag \in Tags, NEW op \in {"label", "while", "endif", "endwhile"}
  PROVE  /\ <<op, Id(at, tag)>> \in MarkSet /\ Id(at, tag) \in Own(at) /\ Id(at, tag) \in Region(at)
         /\ Id(at, tag).at = at /\ Id(at, tag).tag = tag
BY DEF MarkSet, Id, IdOf, Own, Region

(* Those of a part of a statement. *)
LEMMA PartMark ==
  ASSUME NEW at \in Seq(Nat), NEW k \in Nat, NEW tag \in Tags
  PROVE  /\ Append(at, k) \in Seq(Nat) /\ Id(Append(at, k), tag) \in Region(at)
         /\ Region(Append(at, k)) \subseteq Region(at)
<1>1. Append(at, k) \in Seq(Nat) /\ Region(Append(at, k)) \subseteq Inside(at, {k})
  BY RegionInside
<1>2. Inside(at, {k}) \subseteq Inside(at, Nat)
  BY InsideParts
<1>3. Id(Append(at, k), tag) \in Region(Append(at, k))
  BY <1>1, OwnMark
<1>4. QED
  BY <1>1, <1>2, <1>3 DEF Region

LEMMA BeforeIs ==
  ASSUME NEW prog, NEW s, NEW Q, NEW q \in Before(prog, s, Q)
  PROVE  /\ q[1] \in SUBSET Exceptions /\ q[2] \in Env /\ q[3] \in Env /\ q[2].how = "normal"
         /\ q \in Triple /\ q = <<q[1], q[2], q[3]>>
         /\ \E r : Does(prog, s, q[2], r) /\ <<q[1], r, q[3]>> \in Q
<1>1. q \in Triple /\ q[2].how = "normal" /\ \E r : Does(prog, s, q[2], r) /\ <<q[1], r, q[3]>> \in Q
  BY DEF Before
<1>2. QED
  BY <1>1 DEF Triple

LEMMA AtBefore ==
  ASSUME NEW prog, NEW s, NEW Q, NEW h, NEW x \in At(h, Before(prog, s, Q))
  PROVE  /\ x \in Config /\ x.env \in Env /\ x.env.how = "normal"
         /\ \E r : Does(prog, s, x.env, r) /\ <<x.e, r, x.r>> \in Q
<1>1. x \in Config /\ <<x.e, x.env, x.r>> \in Before(prog, s, Q)
  BY DEF At
<1> DEFINE q == <<x.e, x.env, x.r>>
<1>2. q[1] = x.e /\ q[2] = x.env /\ q[3] = x.r
  OBVIOUS
<1>a. q \in Before(prog, s, Q)
  BY <1>1
<1> HIDE DEF q
<1>3. q[2] \in Env /\ q[2].how = "normal" /\ \E r : Does(prog, s, q[2], r) /\ <<q[1], r, q[3]>> \in Q
  BY <1>a, BeforeIs
<1>4. QED
  BY <1>1, <1>2, <1>3

(* The statements without statements in them.                              *)

LEMMA PrintMeant ==
  ASSUME NEW prog \in Programs, NEW s \in AnyStatement, s.kind = "print",
         NEW at \in Seq(Nat), NEW ctx \in Context, NEW h \in Scope, NEW F,
         NEW Q \in SUBSET Triple, Throws(F, ctx, h, Q)
  PROVE  Meant(prog, Unsafe([op |-> "print", event |-> s.event], at, ctx), Region(at), F,
               At(h, Before(prog, s, Q)), At(h, As(Q, "normal")))
<1> DEFINE i == [op |-> "print", event |-> s.event]
           b == At(h, As(Q, "normal"))
           a == At(h, Before(prog, s, Q))
           m == <<"endif", Id(at, i.op)>>
           N == {<<m, b>>}
           G == F \cup N
<1>1. i.op = "print" /\ i.event = s.event
  OBVIOUS
<1> HIDE DEF i
<1>2. m \in MarkSet /\ m[2] \in Region(at)
  BY <1>1, OwnMark DEF Tags
<1>3. Plans(N, Region(at))
  <2> HIDE DEF m, b
  <2>1. QED
    BY <1>2 DEF Plans
<1>4. Throws(G, ctx, h, Q)
  BY DEF Throws
<1>5. ASSUME NEW x \in a
      PROVE  To(x, x.l, x.m, [x.env EXCEPT !.printed = Append(@, i.event)]) \in At(h, Q)
  <2> DEFINE env == [x.env EXCEPT !.printed = Append(@, i.event)]
  <2>1. x.env \in Env /\ x.env.how = "normal" /\ i.event \in Event
    BY <1>1, AtBefore, StatementParts
  <2>2. env \in Env /\ env.how = "normal"
    <3>1. x.env.printed \in Seq(Event)
      BY <2>1 DEF Env
    <3>2. Append(x.env.printed, i.event) \in Seq(Event)
      BY <2>1, <3>1
    <3>3. QED
      BY <2>1, <3>2 DEF Env
  <2>3. PICK r : Does(prog, s, x.env, r) /\ <<x.e, r, x.r>> \in Q
    BY AtBefore
  <2>4. r = env
    BY <1>1, <2>3, DoesSimple
  <2> HIDE DEF env
  <2>5. To(x, x.l, x.m, env) \in At(h, Q)
    BY <2>2, <2>3, <2>4, AtNext
  <2>6. QED
    BY <2>5 DEF env
<1>6. ASSUME NEW M PROVE Leads(prog, i, a, At(h, Q), M)
  BY <1>1, <1>5 DEF Leads, Lands, Goes
<1>7. a \in SUBSET Config /\ b \in SUBSET Config
  BY AtIn
<1>8. <<m, b>> \in G
  OBVIOUS
<1>9. Meant(prog, Unsafe(i, at, ctx), {}, G, a, b)
  <2> HIDE DEF a, G
  <2>1. QED
    BY <1>4, <1>6, <1>7, <1>8, UnsafeMeant
<1> HIDE DEF a, b, N
<1>10. Meant(prog, Unsafe(i, at, ctx), {} \cup Region(at), F, a, b)
  BY <1>3, <1>9, MeantPlanned
<1>11. QED
  BY <1>10 DEF a, b, i

LEMMA RaisesMeant ==
  ASSUME NEW prog \in Programs, NEW s \in AnyStatement, s.kind = "raise",
         NEW at \in Seq(Nat), NEW ctx \in Context, NEW h \in Scope, NEW F,
         NEW Q \in SUBSET Triple, Throws(F, ctx, h, Q)
  PROVE  Meant(prog, RaiseInst(s.exc, at, ctx), Region(at), F,
               At(h, Before(prog, s, Q)), At(h, As(Q, "normal")))
<1> DEFINE b == At(h, As(Q, "normal"))
           Q0 == Before(prog, s, Q)
           a == At(h, Q0)
           m == <<"endif", Id(at, "raise")>>
           N == {<<m, {}>>}
           G == F \cup N
           c == RaiseInst(s.exc, at, ctx)
<1>1. s.exc \in Exceptions
  BY StatementParts
<1>2. m \in MarkSet /\ m[2] \in Region(at)
  BY OwnMark DEF Tags
<1>3. Plans(N, Region(at))
  <2> HIDE DEF m
  <2>1. QED
    BY <1>2 DEF Plans
<1>4. Throws(G, ctx, h, Q)
  BY DEF Throws
<1>5. \A q \in Q0 \cap Triple : <<q[1], Leaving(q[2], s.exc), q[3]>> \in Q
  <2>1. ASSUME NEW q \in Q0 PROVE <<q[1], Leaving(q[2], s.exc), q[3]>> \in Q
    <3>1. PICK r : Does(prog, s, q[2], r) /\ <<q[1], r, q[3]>> \in Q
      BY BeforeIs
    <3>2. r = Leaving(q[2], s.exc)
      BY <3>1, DoesSimple
    <3>3. QED
      BY <3>1, <3>2
  <2>2. QED
    BY <2>1
<1>6. Meant(prog, c, {}, G, a, {})
  <2>1. <<m, {}>> \in G
    OBVIOUS
  <2> HIDE DEF G, Q0
  <2>2. QED
    BY <1>1, <1>4, <1>5, <2>1, RaiseMeant
<1> HIDE DEF a, b, N, c
<1>7. Meant(prog, c, {} \cup Region(at), F, a, {})
  BY <1>3, <1>6, MeantPlanned
<1>8. Meant(prog, c, Region(at), F, a, b)
  BY <1>7, MeantMore
<1>9. QED
  BY <1>8 DEF a, b, c

LEMMA CallsMeant ==
  ASSUME NEW prog \in Programs, NEW s \in AnyStatement, s.kind = "call",
         NEW at \in Seq(Nat), NEW ctx \in Context, NEW h \in Scope, NEW F,
         NEW Q \in SUBSET Triple, Throws(F, ctx, h, Q)
  PROVE  Meant(prog, Unsafe([op |-> "call", fn |-> s.fn], at, ctx), Region(at), F,
               At(h, Before(prog, s, Q)), At(h, As(Q, "normal")))
<1> DEFINE i == [op |-> "call", fn |-> s.fn]
           b == At(h, As(Q, "normal"))
           a == At(h, Before(prog, s, Q))
           m == <<"endif", Id(at, i.op)>>
           N == {<<m, b>>}
           G == F \cup N
<1>1. i.op = "call" /\ i.fn = s.fn
  OBVIOUS
<1> HIDE DEF i
<1>2. m \in MarkSet /\ m[2] \in Region(at)
  BY <1>1, OwnMark DEF Tags
<1>3. Plans(N, Region(at))
  <2> HIDE DEF m, b
  <2>1. QED
    BY <1>2 DEF Plans
<1>4. Throws(G, ctx, h, Q)
  BY DEF Throws
<1>5. ASSUME NEW x \in a
      PROVE  \E r1 \in Env : Finishes(prog, Do(prog[s.fn]), x.env, r1) /\ Resumes(x, r1, At(h, Q))
  <2>1. x.env \in Env /\ x.env.how = "normal"
    BY AtBefore
  <2>2. PICK r : Does(prog, s, x.env, r) /\ <<x.e, r, x.r>> \in Q
    BY AtBefore
  <2>3. PICK r1 \in Env : Finishes(prog, Do(prog[s.fn]), x.env, r1) /\ r = Returned(r1)
    BY <2>1, <2>2, DoesCall
  <2>4. r1.how # Unfinished
    BY <2>3 DEF Finishes
  <2>5. /\ r1.how \in Exceptions => r = r1
        /\ r1.how \notin Exceptions => r = Leaving(r1, "normal")
    BY <2>3, <2>4, RaisedIs DEF Returned
  <2>6. Resumes(x, r1, At(h, Q))
    <3>1. /\ r1.how \in Exceptions => <<x.e, r1, x.r>> \in Q
          /\ r1.how \notin Exceptions => <<x.e, Leaving(r1, "normal"), x.r>> \in Q
      BY <2>2, <2>5
    <3>2. QED
      BY <3>1, ResumesAt
  <2>7. QED
    BY <2>3, <2>6
<1>6. ASSUME NEW M PROVE Leads(prog, i, a, At(h, Q), M)
  BY <1>1, <1>5 DEF Leads, Lands, Goes
<1>7. a \in SUBSET Config /\ b \in SUBSET Config
  BY AtIn
<1>8. <<m, b>> \in G
  OBVIOUS
<1>9. Meant(prog, Unsafe(i, at, ctx), {}, G, a, b)
  <2> HIDE DEF a, G
  <2>1. QED
    BY <1>4, <1>6, <1>7, <1>8, UnsafeMeant
<1> HIDE DEF a, b, N
<1>10. Meant(prog, Unsafe(i, at, ctx), {} \cup Region(at), F, a, b)
  BY <1>3, <1>9, MeantPlanned
<1>11. QED
  BY <1>10 DEF a, b, i

LEMMA ParksMeant ==
  ASSUME NEW prog \in Programs, NEW s \in AnyStatement, s.kind \in {"break", "continue", "return"},
         NEW at \in Seq(Nat), NEW ctx, NEW place, NEW h \in Scope, NEW F,
         NEW Q \in SUBSET Triple, Accepts(F, ctx, place, h, Q),
         s.kind = "return" => ~place.inTry, s.kind \in {"break", "continue"} => place.loop = "here"
  PROVE  /\ s.kind = "break" => Meant(prog, LeaveLoop(ctx.loop), Region(at), F,
                                      At(h, Before(prog, s, Q)), At(h, As(Q, "normal")))
         /\ s.kind = "continue" => Meant(prog, Goto(After(ctx.loop)), Region(at), F,
                                      At(h, Before(prog, s, Q)), At(h, As(Q, "normal")))
         /\ s.kind = "return" => Meant(prog, ReturnInst, Region(at), F,
                                      At(h, Before(prog, s, Q)), At(h, As(Q, "normal")))
<1> DEFINE b == At(h, As(Q, "normal"))
           Q0 == Before(prog, s, Q)
           a == At(h, Q0)
<1>1. ASSUME NEW q \in Q0
      PROVE  /\ q \in Triple /\ q[2].how = "normal" /\ q[2] \in Env
             /\ <<q[1], Leaving(q[2], s.kind), q[3]>> \in Q
  <2>1. PICK r : Does(prog, s, q[2], r) /\ <<q[1], r, q[3]>> \in Q
    BY BeforeIs
  <2>2. r = Leaving(q[2], s.kind)
    BY <2>1, DoesSimple
  <2>3. QED
    BY <2>1, <2>2, BeforeIs
<1>2. a \in SUBSET Config /\ b \in SUBSET Config
  BY AtIn
<1>3. Q0 \subseteq Coming(Q, s.kind)
  BY <1>1 DEF Coming
<1>4. a \subseteq At(h, Coming(Q, s.kind))
  <2> HIDE DEF Q0
  <2>1. QED
    BY <1>3, AtMore
<1>5. CASE s.kind = "break"
  <2>1. PICK P : <<<<"endwhile", ctx.loop>>, P>> \in F /\ At(h, Coming(Q, "break")) \subseteq P
    BY <1>5 DEF Accepts
  <2>2. a \subseteq P
    BY <1>4, <1>5, <2>1
  <2> HIDE DEF a, b
  <2>3. Meant(prog, LeaveLoop(ctx.loop), Region(at), F, a, b)
    BY <1>2, <2>1, <2>2, BreakMeant
  <2>4. QED
    BY <1>5, <2>3 DEF a, b
<1>6. CASE s.kind = "continue"
  <2>1. PICK P : <<<<"label", After(ctx.loop)>>, P>> \in F /\ At(h, Coming(Q, "continue")) \subseteq P
    BY <1>6 DEF Accepts
  <2>2. a \subseteq P
    BY <1>4, <1>6, <2>1
  <2> HIDE DEF a, b
  <2>3. Meant(prog, Goto(After(ctx.loop)), Region(at), F, a, b)
    BY <1>2, <2>1, <2>2, GotoMeant
  <2>4. QED
    BY <1>6, <2>3 DEF a, b
<1>7. CASE s.kind = "return"
  <2>1. h.mask = <<>>
    BY <1>7 DEF Accepts, Throws
  <2>2. ASSUME NEW q \in Q0 PROVE q[3] = Leaving(q[2], "return") /\ q[2].how = "normal"
    <3> DEFINE p == <<q[1], Leaving(q[2], "return"), q[3]>>
    <3>1. p \in Q /\ q[2] \in Env
      BY <1>1, <1>7
    <3>2. Leaving(q[2], "return").how = "return"
      BY <3>1, LeavingIn DEF How, Departures
    <3>3. p[3] = p[2]
      BY <1>7, <3>1, <3>2 DEF Accepts
    <3>4. QED
      BY <1>1, <3>3
  <2> HIDE DEF b, Q0
  <2>3. Meant(prog, ReturnInst, Region(at), F, At(h, Q0), b)
    BY <1>2, <2>1, <2>2, ReturnMeant
  <2>4. QED
    BY <1>7, <2>3 DEF b, Q0
<1>8. QED
  BY <1>5, <1>6, <1>7

LEMMA AssertMeant ==
  ASSUME NEW prog \in Programs, NEW s \in AnyStatement, s.kind = "assert",
         NEW at \in Seq(Nat), NEW ctx \in Context, NEW h \in Scope, NEW F,
         NEW Q \in SUBSET Triple, Throws(F, ctx, h, Q)
  PROVE  Meant(prog, CompileAssert(s, at, ctx), Region(at), F,
               At(h, Before(prog, s, Q)), At(h, As(Q, "normal")))
<1> DEFINE p == Append(at, 1)
           Q0 == Before(prog, s, Q)
           Qt == As(Q, "normal")
           Qf == Coming(Q, "AssertionError")
           a == At(h, Q0)
           b == At(h, Qt)
           m1 == <<"endif", Id(p, "raise")>>
           m2 == <<"endif", Id(at, "raise")>>
           m3 == <<"endif", Id(at, "assert")>>
           N == {<<m1, {}>>, <<m2, {}>>, <<m3, b>>}
           G == F \cup N
           check == Evaluated(s.cond, p, ctx)
           block == IfBlock(Id(at, "assert"), Value(p), TRUE, RaiseInst("AssertionError", at, ctx))
<1>1. s.cond \in Condition /\ p \in Seq(Nat) /\ "AssertionError" \in Exceptions
  BY StatementParts, RegionInside, ExceptionsAssumption
<1>2. /\ m1 \in MarkSet /\ m1[2] \in Region(at) /\ m2 \in MarkSet /\ m2[2] \in Region(at)
      /\ m3 \in MarkSet /\ m3[2] \in Region(at)
  <2>1. Id(p, "raise") \in Region(at)
    BY PartMark DEF Tags
  <2>2. QED
    BY <1>1, <2>1, OwnMark DEF Tags
<1>3. m1 # m3 /\ m2 # m3
  <2>1. m1[2].tag = "raise" /\ m2[2].tag = "raise" /\ m3[2].tag = "assert"
    BY DEF Id
  <2>2. QED
    BY <2>1
<1>4. Plans(N, Region(at))
  <2> HIDE DEF m1, m2, m3, b
  <2>1. QED
    BY <1>2, <1>3 DEF Plans
<1>5. Throws(G, ctx, h, Q)
  BY DEF Throws
<1>6. <<m1, {}>> \in G /\ <<m2, {}>> \in G /\ <<m3, b>> \in G
  OBVIOUS
<1>7. ASSUME NEW q \in Q0, s.cond = Test
      PROVE  LET v == Evaluate(Test, q[2])
             IN /\ v.holds => <<q[1], v.env, q[3]>> \in Qt
                /\ ~v.holds => <<q[1], v.env, q[3]>> \in Qf
  <2> DEFINE v == Evaluate(Test, q[2])
  <2>1. PICK r : Does(prog, s, q[2], r) /\ <<q[1], r, q[3]>> \in Q
    BY BeforeIs
  <2>2. q[1] \in SUBSET Exceptions /\ q[2] \in Env /\ q[3] \in Env /\ q[2].how = "normal"
    BY BeforeIs
  <2>3. v.env \in Env /\ v.holds \in BOOLEAN /\ v.env.how = "normal"
    <3>1. v.env \in Env /\ v.holds \in BOOLEAN
      BY <2>2, EvaluateIn DEF Condition
    <3>2. v.env.how = q[2].how
      BY <2>2 DEF Evaluate, Env
    <3>3. QED
      BY <2>2, <3>1, <3>2
  <2>4. r = IF v.holds \/ Raised(v.env) THEN v.env ELSE Leaving(v.env, "AssertionError")
    BY <1>7, <2>1, DoesSimple
  <2>5. ~Raised(v.env)
    BY <2>3 DEF Raised, Departures
  <2> HIDE DEF v
  <2>6. ASSUME v.holds PROVE <<q[1], v.env, q[3]>> \in Qt
    BY <2>1, <2>3, <2>4, <2>6 DEF As
  <2>7. ASSUME ~v.holds PROVE <<q[1], v.env, q[3]>> \in Qf
    <3>1. <<q[1], v.env, q[3]>> \in Triple
      BY <2>2, <2>3 DEF Triple
    <3>2. <<q[1], Leaving(v.env, "AssertionError"), q[3]>> \in Q
      BY <2>1, <2>4, <2>5, <2>7
    <3>3. QED
      BY <2>3, <3>1, <3>2 DEF Coming
  <2>8. QED
    BY <2>6, <2>7 DEF v
<1>8. s.cond = Test => Parts(Q0, Qt, Qf)
  BY <1>7, BeforeIs DEF Parts
<1>9. s.cond # Test => \A q \in Q0 \cap Triple : <<q[1], Leaving(q[2], s.cond), q[3]>> \in Q
  <2>1. ASSUME NEW q \in Q0, s.cond # Test PROVE <<q[1], Leaving(q[2], s.cond), q[3]>> \in Q
    <3> DEFINE v == Evaluate(s.cond, q[2])
    <3>1. PICK r : Does(prog, s, q[2], r) /\ <<q[1], r, q[3]>> \in Q
      BY BeforeIs
    <3>2. q[2] \in Env
      BY BeforeIs
    <3>3. v = [env |-> Leaving(q[2], s.cond), holds |-> FALSE] /\ s.cond \in Exceptions
      BY <1>1, <2>1, <3>2, EvaluateIn
    <3>4. v.env = Leaving(q[2], s.cond) /\ v.env.how = s.cond
      BY <3>2, <3>3, LeavingIn, HowsApart
    <3>5. Raised(v.env)
      BY <3>3, <3>4, HowsApart DEF Raised
    <3>6. r = IF v.holds \/ Raised(v.env) THEN v.env ELSE Leaving(v.env, "AssertionError")
      BY <3>1, DoesSimple
    <3> HIDE DEF v
    <3>7. QED
      BY <3>1, <3>4, <3>5, <3>6
  <2>2. QED
    BY <2>1
<1>10. Meant(prog, check, {}, G, a, Decided(h, Value(p), Qt, Qf))
  <2> HIDE DEF G, N, Q0, Qt, Qf, p
  <2>1. QED
    BY <1>1, <1>5, <1>6, <1>8, <1>9, EvaluatedMeant
<1>11. Meant(prog, RaiseInst("AssertionError", at, ctx), {}, G, At(h, Qf), b)
  <2>1. \A q \in Qf \cap Triple : <<q[1], Leaving(q[2], "AssertionError"), q[3]>> \in Q
    BY DEF Coming
  <2> HIDE DEF G, Qf, b
  <2>2. Meant(prog, RaiseInst("AssertionError", at, ctx), {}, G, At(h, Qf), {})
    BY <1>1, <1>5, <1>6, <2>1, RaiseMeant
  <2>3. QED
    BY <2>2, MeantMore
<1>12. Meant(prog, block, {}, G, Decided(h, Value(p), Qt, Qf), b)
  <2>1. Value(p) \in IdOf /\ Value(p) # GlobalException
    BY <1>1 DEF Value, Id, IdOf, Tags, GlobalException
  <2>2. b \in SUBSET Config
    BY AtIn
  <2>3. At(h, Qt) \subseteq b
    OBVIOUS
  <2> HIDE DEF G, Qt, Qf, b, p
  <2>4. QED
    BY <1>6, <1>11, <2>1, <2>2, <2>3, DecidedIf
<1>13. Meant(prog, check \o block, {} \cup {}, G, a, b)
  <2> HIDE DEF G, Qt, Qf, b, p, check, block
  <2>1. QED
    BY <1>10, <1>12, MeantJoined
<1>14. CompileAssert(s, at, ctx) = check \o block
  BY DEF CompileAssert
<1> HIDE DEF a, b, N, check, block
<1>15. Meant(prog, check \o block, {} \cup Region(at), F, a, b)
  BY <1>4, <1>13, MeantPlanned
<1>16. QED
  BY <1>14, <1>15 DEF a, b

LEMMA TestIn ==
  ASSUME NEW env \in Env
  PROVE  /\ Evaluate(Test, env).env \in Env /\ Evaluate(Test, env).holds \in BOOLEAN
         /\ Evaluate(Test, env).env.how = env.how
<1>1. Evaluate(Test, env).env \in Env /\ Evaluate(Test, env).holds \in BOOLEAN
  BY EvaluateIn DEF Condition
<1>2. Evaluate(Test, env).env.how = env.how
  BY DEF Evaluate, Env
<1>3. QED
  BY <1>1, <1>2

LEMMA ThrowsSame ==
  ASSUME NEW F, NEW G, F \subseteq G, NEW ctx, NEW h, NEW Q, NEW R, Throws(F, ctx, h, Q),
         Thrown(R) \subseteq Thrown(Q)
  PROVE  Throws(G, ctx, h, R)
<1>1. At(h, Thrown(R)) \subseteq At(h, Thrown(Q))
  BY AtMore
<1>2. QED
  BY <1>1 DEF Throws

LEMMA AcceptsMore ==
  ASSUME NEW F, NEW G, F \subseteq G, NEW ctx, NEW place, NEW h, NEW Q, Accepts(F, ctx, place, h, Q)
  PROVE  Accepts(G, ctx, place, h, Q)
BY ThrowsSame DEF Accepts

LEMMA BeforeTaskIs ==
  ASSUME NEW prog, NEW task, NEW Q, NEW q \in BeforeTask(prog, task, Q)
  PROVE  /\ q[1] \in SUBSET Exceptions /\ q[2] \in Env /\ q[3] \in Env /\ q[2].how = "normal"
         /\ q \in Triple /\ q = <<q[1], q[2], q[3]>>
         /\ \E r : Finishes(prog, task, q[2], r) /\ <<q[1], r, q[3]>> \in Q
<1>1. q \in Triple /\ q[2].how = "normal" /\ \E r : Finishes(prog, task, q[2], r) /\ <<q[1], r, q[3]>> \in Q
  BY DEF BeforeTask
<1>2. QED
  BY <1>1 DEF Triple

(* The blocks of a statement. *)
MeantInside(prog, s, place) ==
  \A block \in Blocks(s) : \A k \in DOMAIN block : MeantStatement(prog, block[k], Within(s, place))

LEMMA BlockMeant ==
  ASSUME NEW prog \in Programs, NEW s, NEW place, MeantInside(prog, s, place),
         NEW block \in Stmts, block \in Blocks(s),
         NEW at \in Seq(Nat), NEW k \in Nat, NEW ctx \in Context, NEW h \in Scope,
         Free(h, Inside(at, Nat)), NEW Q \in SUBSET Triple, NEW F, Accepts(F, ctx, Within(s, place), h, Q)
  PROVE  Meant(prog, CompileBody(CompileStatement, block, Append(at, k), ctx), Inside(Append(at, k), Nat), F,
               At(h, BeforeTask(prog, Do(block), Q)), At(h, As(Q, "normal")))
<1>1. Append(at, k) \in Seq(Nat) /\ Region(Append(at, k)) \subseteq Inside(at, {k})
  BY RegionInside
<1>2. Inside(Append(at, k), Nat) \subseteq Inside(at, Nat)
  BY <1>1, InsideParts DEF Region
<1>3. Free(h, Inside(Append(at, k), Nat))
  BY <1>2 DEF Free
<1>4. \A i \in DOMAIN block : MeantStatement(prog, block[i], Within(s, place))
  BY DEF MeantInside
<1>5. QED
  BY <1>1, <1>3, <1>4, BodyMeant

LEMMA EmptyBody ==
  ASSUME NEW at, NEW ctx
  PROVE  CompileBody(CompileStatement, <<>>, at, ctx) = <<>>
<1> DEFINE seqs == [k \in DOMAIN <<>> |-> CompileStatement[<<>>[k]][Append(at, k)][ctx]]
<1>1. DOMAIN <<>> = {} /\ DOMAIN seqs = {}
  BY EmptyCode
<1>2. seqs = <<>>
  BY <1>1
<1>3. CompileBody(CompileStatement, <<>>, at, ctx) = FlattenSeq(seqs)
  BY DEF CompileBody
<1> HIDE DEF seqs
<1>4. FlattenSeq(seqs) = seqs
  BY <1>2 DEF FlattenSeq
<1>5. QED
  BY <1>2, <1>3, <1>4

-----------------------------------------------------------------------------
(* If statements                                                           *)

LEMMA ChoiceParts ==
  ASSUME NEW prog \in Programs, NEW arms \in Arms, NEW orelse \in Stmts, arms # <<>>, NEW Q
  PROVE  LET Q0 == BeforeTask(prog, Choice(arms, orelse), Q)
             Qt == BeforeTask(prog, Do(Head(arms).body), Q)
             Qf == BeforeTask(prog, Choice(Tail(arms), orelse), Q)
         IN /\ Head(arms).cond = Test => Parts(Q0, Qt, Qf)
            /\ Head(arms).cond # Test =>
                 \A q \in Q0 \cap Triple : <<q[1], Leaving(q[2], Head(arms).cond), q[3]>> \in Q
<1> DEFINE Q0 == BeforeTask(prog, Choice(arms, orelse), Q)
           Qt == BeforeTask(prog, Do(Head(arms).body), Q)
           Qf == BeforeTask(prog, Choice(Tail(arms), orelse), Q)
           cond == Head(arms).cond
<1>1. ASSUME NEW q \in Q0
      PROVE  /\ cond = Test => /\ Evaluate(Test, q[2]).holds => <<q[1], Evaluate(Test, q[2]).env, q[3]>> \in Qt
                               /\ ~Evaluate(Test, q[2]).holds => <<q[1], Evaluate(Test, q[2]).env, q[3]>> \in Qf
             /\ cond # Test => <<q[1], Leaving(q[2], cond), q[3]>> \in Q
  <2> DEFINE c == Evaluate(cond, q[2])
  <2>1. q[1] \in SUBSET Exceptions /\ q[2] \in Env /\ q[3] \in Env /\ q[2].how = "normal"
    BY BeforeTaskIs
  <2>2. PICK r : Finishes(prog, Choice(arms, orelse), q[2], r) /\ <<q[1], r, q[3]>> \in Q
    BY BeforeTaskIs
  <2>3. /\ cond \in Condition /\ Head(arms).body \in Stmts /\ c.env \in Env
        /\ c.holds \/ Raised(c.env) => Finishes(prog, Do(Head(arms).body), c.env, r)
        /\ ~(c.holds \/ Raised(c.env)) => Finishes(prog, Choice(Tail(arms), orelse), c.env, r)
    BY <2>1, <2>2, ChoiceGoesOn
  <2>4. CASE cond = Test
    <3>1. c = Evaluate(Test, q[2]) /\ c.env.how = "normal"
      BY <2>1, <2>4, TestIn
    <3>2. ~Raised(c.env)
      BY <3>1 DEF Raised, Departures
    <3>3. <<q[1], c.env, q[3]>> \in Triple
      BY <2>1, <2>3 DEF Triple
    <3> HIDE DEF c
    <3>4. c.holds => <<q[1], c.env, q[3]>> \in Qt
      BY <2>2, <2>3, <3>1, <3>3 DEF BeforeTask
    <3>5. ~c.holds => <<q[1], c.env, q[3]>> \in Qf
      BY <2>2, <2>3, <3>1, <3>2, <3>3 DEF BeforeTask
    <3> HIDE DEF Qt, Qf, cond
    <3>6. QED
      BY <2>4, <3>1, <3>4, <3>5
  <2>5. CASE cond # Test
    <3>1. cond \in Exceptions /\ c = [env |-> Leaving(q[2], cond), holds |-> FALSE]
      BY <2>1, <2>3, <2>5, EvaluateIn
    <3>2. c.env = Leaving(q[2], cond) /\ c.env.how = cond
      BY <2>1, <3>1, LeavingIn, HowsApart
    <3>3. Raised(c.env) /\ c.env.how # "normal"
      BY <3>1, <3>2, HowsApart DEF Raised
    <3> HIDE DEF c
    <3>4. r = c.env
      BY <2>3, <3>3, BlockOver
    <3>5. QED
      BY <2>2, <2>5, <3>2, <3>4
  <2>6. QED
    BY <2>4, <2>5
<1>2. \A q \in Q0 : q[2].how = "normal"
  BY BeforeTaskIs
<1>3. cond = Test => Parts(Q0, Qt, Qf)
  <2> HIDE DEF Q0, Qt, Qf, cond
  <2>1. QED
    BY <1>1, <1>2 DEF Parts
<1>4. QED
  BY <1>1, <1>3

(* An arm of an if statement, which goes to the exit or next to the end.   *)
LEMMA ArmMeant ==
  ASSUME NEW prog, NEW cond \in Condition, NEW p \in Seq(Nat), NEW ctx \in Context, NEW h \in Scope,
         NEW F, NEW Q, Throws(F, ctx, h, Q), NEW Q0, NEW Qt, NEW Qf,
         cond = Test => Parts(Q0, Qt, Qf),
         cond # Test => \A q \in Q0 \cap Triple : <<q[1], Leaving(q[2], cond), q[3]>> \in Q,
         NEW c, NEW b \in SUBSET Config, Meant(prog, c, Inside(p, Nat), F, At(h, Qt), b),
         NEW next \in SUBSET Config, At(h, Qf) \subseteq next,
         NEW leave, NEW exit,
         \/ leave = <<>> /\ b \subseteq next
         \/ leave = Goto(exit) /\ \E P : <<<<"label", exit>>, P>> \in F /\ b \subseteq P
  PROVE  Meant(prog, Evaluated(cond, p, ctx) \o IfBlock(Id(p, "if"), Value(p), FALSE, c \o leave),
               Region(p), F, At(h, Q0), next)
<1> DEFINE m1 == <<"endif", Id(p, "raise")>>
           m2 == <<"endif", Id(p, "if")>>
           N == {<<m1, {}>>, <<m2, next>>}
           G == F \cup N
           T == Inside(p, Nat)
           a == At(h, Q0)
           check == Evaluated(cond, p, ctx)
           block == IfBlock(Id(p, "if"), Value(p), FALSE, c \o leave)
<1>1. m1 \in MarkSet /\ m1[2] \in Own(p) /\ m2 \in MarkSet /\ m2[2] \in Own(p)
  BY OwnMark DEF Tags
<1>2. m1 # m2
  <2>1. m1[2].tag = "raise" /\ m2[2].tag = "if"
    BY DEF Id
  <2>2. QED
    BY <2>1
<1>3. Plans(N, Own(p))
  <2> HIDE DEF m1, m2
  <2>1. QED
    BY <1>1, <1>2 DEF Plans
<1>4. Throws(G, ctx, h, Q)
  BY DEF Throws
<1>5. <<m1, {}>> \in G /\ <<m2, next>> \in G /\ F \subseteq G
  OBVIOUS
<1>6. Meant(prog, check, {}, G, a, Decided(h, Value(p), Qt, Qf))
  <2> HIDE DEF G, N
  <2>1. QED
    BY <1>4, <1>5, EvaluatedMeant
<1>7. Meant(prog, c, T, G, At(h, Qt), b)
  <2> HIDE DEF G, N, T
  <2>1. Meant(prog, c, T, F, At(h, Qt), b)
    BY DEF T
  <2>2. QED
    BY <1>5, <2>1, MeantMore
<1>8. Meant(prog, c \o leave, T, G, At(h, Qt), next)
  <2> HIDE DEF T, N
  <2>1. CASE leave = <<>> /\ b \subseteq next
    <3>1. c \o leave = c
      BY <1>7, <2>1, EmptyCode DEF Meant
    <3> HIDE DEF G
    <3>2. Meant(prog, c, T, G, At(h, Qt), next)
      BY <1>7, <2>1, MeantMore
    <3>3. QED
      BY <3>1, <3>2
  <2>2. CASE leave = Goto(exit) /\ \E P : <<<<"label", exit>>, P>> \in F /\ b \subseteq P
    <3>1. PICK P : <<<<"label", exit>>, P>> \in G /\ b \subseteq P
      BY <2>2
    <3> HIDE DEF G
    <3>2. Meant(prog, leave, {}, G, b, next)
      BY <2>2, <3>1, GotoMeant
    <3>3. Meant(prog, c \o leave, T \cup {}, G, At(h, Qt), next)
      BY <1>7, <3>2, MeantJoined
    <3>4. T \cup {} = T
      OBVIOUS
    <3>5. QED
      BY <3>3, <3>4
  <2>3. QED
    BY <2>1, <2>2
<1>9. Meant(prog, block, T, G, Decided(h, Value(p), Qt, Qf), next)
  <2>1. Value(p) \in IdOf /\ Value(p) # GlobalException
    BY DEF Value, Id, IdOf, Tags, GlobalException
  <2> HIDE DEF G, N, T
  <2>2. QED
    BY <1>5, <1>8, <2>1, DecidedIf
<1> HIDE DEF G, T, a, check, block, N
<1>10. Meant(prog, check \o block, {} \cup T, G, a, next)
  BY <1>6, <1>9, MeantJoined
<1>11. {} \cup T = T /\ T \cap Own(p) = {} /\ T \cup Own(p) = Region(p)
  BY OwnApart DEF T, Region
<1>12. Meant(prog, check \o block, T, F \cup N, a, next)
  BY <1>10, <1>11 DEF G
<1>13. Meant(prog, check \o block, T \cup Own(p), F, a, next)
  BY <1>3, <1>11, <1>12, MeantPlanned
<1>14. QED
  BY <1>11, <1>13 DEF a, check, block

LEMMA IfStatementMeant ==
  ASSUME NEW prog \in Programs, NEW s \in AnyStatement, s.kind = "if", NEW place,
         MeantInside(prog, s, place),
         NEW at \in Seq(Nat), NEW ctx, NEW h \in Scope, Free(h, Region(at)),
         NEW Q \in SUBSET Triple, NEW F, Accepts(F, ctx, place, h, Q)
  PROVE  Meant(prog, CompileIf(CompileStatement, s, at, ctx), Region(at), F,
               At(h, Before(prog, s, Q)), At(h, As(Q, "normal")))
<1> DEFINE exit == Id(at, "exit")
           reqGoto == s.orelse # <<>> \/ Len(s.arms) > 1
           Exit(i) == IF reqGoto THEN i ELSE <<>>
           body(i) == CompileBody(CompileStatement, s.arms[i].body, Append(at, i), ctx)
           Arm_(i) == Evaluated(s.arms[i].cond, Append(at, i), ctx)
                        \o IfBlock(Id(Append(at, i), "if"), Value(Append(at, i)), FALSE,
                                   body(i) \o Exit(Goto(exit)))
           seqs == [i \in DOMAIN s.arms |-> Arm_(i)]
           orelse == CompileBody(CompileStatement, s.orelse, Append(at, 0), ctx)
           last == Exit(Label(exit))
           d == (FlattenSeq(seqs) \o orelse) \o last
           n == Len(s.arms)
           a == At(h, Before(prog, s, Q))
           b == At(h, As(Q, "normal"))
           mark == <<"label", exit>>
           N == {<<mark, b>>}
           FN == F \cup N
           left(k) == BeforeTask(prog, Choice(Rest(s.arms, k), s.orelse), Q)
           begin(k) == BeforeTask(prog, Do(s.arms[k].body), Q)
           other == IF reqGoto THEN At(h, BeforeTask(prog, Do(s.orelse), Q)) ELSE b
           G == [k \in 1 .. n + 1 |-> IF k \in 1 .. n THEN At(h, left(k)) ELSE other]
           T == [k \in 1 .. n |-> Inside(at, {k})]
<1>1. CompileIf(CompileStatement, s, at, ctx) = d
  BY DEF CompileIf
<1>2. s.arms \in Arms /\ s.orelse \in Stmts
  BY StatementParts DEF Arms, Stmts
<1>3. /\ n \in Nat /\ DOMAIN s.arms = 1 .. n
      /\ \A i \in 1 .. n : /\ s.arms[i].body \in Stmts /\ s.arms[i].body \in Blocks(s)
                           /\ s.arms[i].cond \in Condition
      /\ s.orelse \in Blocks(s) /\ Within(s, place) = place
  <2>1. n \in Nat /\ DOMAIN s.arms = 1 .. n
    BY <1>2 DEF Arms
  <2>2. \A i \in 1 .. n : s.arms[i] \in [cond : Condition, body : Stmts]
    <3> DEFINE S == [cond : Condition, body : Stmts]
    <3>1. s.arms \in Seq(S)
      BY <1>2 DEF Arms
    <3> HIDE DEF S
    <3>2. \A i \in 1 .. n : s.arms[i] \in S
      BY <3>1
    <3>3. QED
      BY <3>2 DEF S
  <2>3. /\ s.orelse \in Blocks(s)
        /\ \A i \in DOMAIN s.arms : s.arms[i].body \in Blocks(s)
    BY DEF Blocks
  <2>4. Within(s, place) = place
    BY DEF Within
  <2> HIDE DEF n
  <2>5. QED
    BY <2>1, <2>2, <2>3, <2>4
<1>4. /\ Free(h, Inside(at, Nat)) /\ ctx \in Context /\ Throws(F, ctx, h, Q)
      /\ Accepts(FN, ctx, place, h, Q) /\ Throws(FN, ctx, h, Q)
  <2>1. Free(h, Inside(at, Nat)) /\ ctx \in Context /\ Throws(F, ctx, h, Q)
    BY DEF Free, Region, Accepts
  <2>2. F \subseteq FN
    OBVIOUS
  <2> HIDE DEF FN
  <2>3. Accepts(FN, ctx, place, h, Q)
    BY <2>2, AcceptsMore
  <2>4. QED
    BY <2>1, <2>3 DEF Accepts
<1>5. \A k \in Nat : /\ Append(at, k) \in Seq(Nat)
                     /\ Region(Append(at, k)) \subseteq Inside(at, {k})
                     /\ Inside(at, {k}) \subseteq Inside(at, Nat)
  BY RegionInside, InsideParts
<1>6. mark \in MarkSet /\ mark[2] \in Own(at)
  BY OwnMark DEF Tags
<1>7. Plans(N, Own(at))
  <2> HIDE DEF mark, b
  <2>1. QED
    BY <1>6 DEF Plans
<1>8. a \in SUBSET Config /\ b \in SUBSET Config /\ other \in SUBSET Config
      /\ \A k : At(h, left(k)) \in SUBSET Config
  BY AtIn
<1>9. /\ Rest(s.arms, 1) = s.arms /\ Rest(s.arms, n + 1) = <<>>
      /\ \A k \in 1 .. n + 1 : Rest(s.arms, k) \in Arms
      /\ \A k \in 1 .. n : /\ Rest(s.arms, k) # <<>>
                           /\ Head(Rest(s.arms, k)) = s.arms[k]
                           /\ Tail(Rest(s.arms, k)) = Rest(s.arms, k + 1)
  BY <1>2, RestIs DEF Arms
<1>10. left(n + 1) \subseteq BeforeTask(prog, Do(s.orelse), Q)
  <2>1. ASSUME NEW q \in left(n + 1) PROVE q \in BeforeTask(prog, Do(s.orelse), Q)
    <3>1. q \in BeforeTask(prog, Choice(<<>>, s.orelse), Q)
      BY <1>9
    <3>2. PICK r : Finishes(prog, Choice(<<>>, s.orelse), q[2], r) /\ <<q[1], r, q[3]>> \in Q
      BY <3>1, BeforeTaskIs
    <3>3. q[2] \in Env /\ q \in Triple /\ q[2].how = "normal"
      BY <3>1, BeforeTaskIs
    <3>4. Finishes(prog, Do(s.orelse), q[2], r)
      BY <1>2, <3>2, <3>3, ChoiceOver
    <3>5. QED
      BY <3>2, <3>3, <3>4 DEF BeforeTask
  <2>2. QED
    BY <2>1
<1>11. ~reqGoto => BeforeTask(prog, Do(s.orelse), Q) \subseteq As(Q, "normal")
  BY BlockEnds
<1>12. At(h, left(n + 1)) \subseteq other
  <2> HIDE DEF left, reqGoto
  <2>1. CASE reqGoto
    BY <1>10, <2>1, AtMore
  <2>2. CASE ~reqGoto
    <3>1. left(n + 1) \subseteq As(Q, "normal")
      BY <1>10, <1>11, <2>2
    <3>2. QED
      BY <2>2, <3>1, AtMore
  <2>3. QED
    BY <2>1, <2>2
<1>13. \A k \in 1 .. n + 1 : At(h, left(k)) \subseteq G[k]
  <2> DEFINE w(k) == At(h, left(k))
  <2> HIDE DEF w, other, n
  <2>1. \A k \in 1 .. n + 1 : k \in 1 .. n \/ k = n + 1
    BY <1>3
  <2>2. w(n + 1) \subseteq other
    BY <1>12 DEF w
  <2>3. \A k \in 1 .. n + 1 : G[k] = IF k \in 1 .. n THEN w(k) ELSE other
    BY DEF w
  <2> HIDE DEF G
  <2>4. \A k \in 1 .. n + 1 : w(k) \subseteq G[k]
    BY <2>1, <2>2, <2>3
  <2>5. QED
    BY <2>4 DEF w
<1>14. /\ \A k \in 1 .. n : G[k] = At(h, left(k)) /\ k + 1 \in 1 .. n + 1 /\ k \in Nat
       /\ G[n + 1] = other
       /\ \A k \in 1 .. n + 1 : G[k] \in SUBSET Config
  <2> DEFINE P == SUBSET Config
             w(k) == At(h, left(k))
  <2>1. other \in P /\ \A k : w(k) \in P
    BY <1>8
  <2>2. \A k \in 1 .. n + 1 : G[k] = IF k \in 1 .. n THEN w(k) ELSE other
    OBVIOUS
  <2> HIDE DEF P, w, other, G, n
  <2>3. n + 1 \in 1 .. n + 1 /\ n + 1 \notin 1 .. n /\ \A k \in 1 .. n : k \in 1 .. n + 1 /\ k + 1 \in 1 .. n + 1 /\ k \in Nat
    BY <1>3
  <2>4. /\ \A k \in 1 .. n : G[k] = w(k)
        /\ G[n + 1] = other
        /\ \A k \in 1 .. n + 1 : G[k] \in P
    BY <2>1, <2>2, <2>3
  <2>5. QED
    BY <2>3, <2>4 DEF P, w
<1>15. (n > 1 \/ s.orelse # <<>>) <=> reqGoto
  OBVIOUS
<1>16. ASSUME NEW i \in 1 .. n PROVE Meant(prog, seqs[i], T[i], FN, G[i], G[i + 1])
  <2> DEFINE p == Append(at, i)
             leave == Exit(Goto(exit))
             block == s.arms[i].body
             cond == s.arms[i].cond
             c == body(i)
             e == Evaluated(cond, p, ctx) \o IfBlock(Id(p, "if"), Value(p), FALSE, c \o leave)
             Q0 == left(i)
             Qt == begin(i)
             Qf == left(i + 1)
             next == G[i + 1]
  <2>1. i \in Nat /\ p \in Seq(Nat) /\ Region(p) \subseteq T[i]
    BY <1>5, <1>14
  <2>2. Meant(prog, c, Inside(p, Nat), FN, At(h, Qt), b)
    <3>1. block \in Stmts /\ block \in Blocks(s)
      BY <1>3
    <3> HIDE DEF block, FN
    <3>2. Meant(prog, CompileBody(CompileStatement, block, Append(at, i), ctx), Inside(Append(at, i), Nat), FN,
                At(h, BeforeTask(prog, Do(block), Q)), At(h, As(Q, "normal")))
      BY <1>3, <1>4, <2>1, <3>1, BlockMeant
    <3>3. QED
      BY <3>2 DEF block
  <2>3. \/ leave = <<>> /\ b \subseteq next
        \/ leave = Goto(exit) /\ \E P : <<<<"label", exit>>, P>> \in FN /\ b \subseteq P
    <3>1. CASE reqGoto
      <4>1. <<mark, b>> \in FN
        OBVIOUS
      <4>2. QED
        BY <3>1, <4>1
    <3>2. CASE ~reqGoto
      <4> HIDE DEF G, b
      <4>1. ~(n > 1) /\ other = b
        BY <3>2
      <4> HIDE DEF n, other
      <4>2. i + 1 = n + 1
        BY <1>3, <4>1
      <4>3. next = b
        BY <1>14, <4>1, <4>2
      <4>4. QED
        BY <3>2, <4>3
    <3>3. QED
      BY <3>1, <3>2
  <2>4. /\ cond = Test => Parts(Q0, Qt, Qf)
        /\ cond # Test => \A q \in Q0 \cap Triple : <<q[1], Leaving(q[2], cond), q[3]>> \in Q
    <3>1. /\ Rest(s.arms, i) \in Arms /\ Rest(s.arms, i) # <<>>
          /\ Head(Rest(s.arms, i)) = s.arms[i] /\ Tail(Rest(s.arms, i)) = Rest(s.arms, i + 1)
      <4> HIDE DEF n
      <4>1. i \in 1 .. n + 1
        BY <1>3
      <4>2. QED
        BY <1>9, <4>1
    <3>2. QED
      BY <1>2, <3>1, ChoiceParts
  <2>5. cond \in Condition /\ At(h, Qf) \subseteq next /\ next \in SUBSET Config
    <3> HIDE DEF G, n, left
    <3>1. QED
      BY <1>3, <1>13, <1>14
  <2>6. seqs[i] = e /\ G[i] = At(h, Q0)
    BY <1>3, <1>14
  <2> HIDE DEF p, leave, block, cond, c, Q0, Qt, Qf, next, FN, b, exit, body, Exit, left, begin, G, T, n, seqs
  <2>7. Meant(prog, e, Region(p), FN, At(h, Q0), next)
    <3>1. b \in SUBSET Config
      BY <1>8
    <3>2. QED
      BY <1>4, <2>1, <2>2, <2>3, <2>4, <2>5, <3>1, ArmMeant
  <2> HIDE DEF e
  <2>8. Meant(prog, e, T[i], FN, G[i], next)
    <3> DEFINE U == T[i]
               V == Region(p)
               w == At(h, Q0)
    <3>1. V \subseteq U /\ Meant(prog, e, V, FN, w, next)
      BY <2>1, <2>7
    <3> HIDE DEF U, V, w
    <3>2. Meant(prog, e, U, FN, w, next)
      BY <3>1, MeantMore
    <3>3. QED
      BY <2>6, <3>2 DEF U, w
  <2>9. QED
    BY <2>6, <2>8 DEF next
<1>17. Meant(prog, FlattenSeq(seqs), UNION {T[k] : k \in 1 .. n}, FN, G[1], other)
  <2>1. \A k, l \in 1 .. n : k # l => T[k] \cap T[l] = {}
    <3>1. \A k, l \in 1 .. n : k # l => {k} \cap {l} = {}
      OBVIOUS
    <3>2. QED
      BY <3>1, InsideParts
  <2>2. seqs = [k \in 1 .. n |-> seqs[k]] /\ DOMAIN seqs = 1 .. n
    BY <1>3
  <2>3. G[1] \in SUBSET Config
    <3> HIDE DEF G, n
    <3>1. 1 \in 1 .. n + 1
      BY <1>3
    <3>2. QED
      BY <1>14, <3>1
  <2> HIDE DEF seqs, T, n, G, FN, other
  <2>4. Chain(prog, n, seqs, T, FN, G)
    BY <1>3, <1>16, <2>1, <2>2, <2>3 DEF Chain
  <2>5. Meant(prog, FlattenSeq(seqs), UNION {T[k] : k \in 1 .. n}, FN, G[1], G[n + 1])
    BY <2>4, MeantFlattened
  <2>6. QED
    BY <1>14, <2>5
<1>18. Meant(prog, orelse, Inside(at, {0}), FN, other, b)
  <2> DEFINE p == Append(at, 0)
             w == At(h, BeforeTask(prog, Do(s.orelse), Q))
             V == Inside(p, Nat)
             U == Inside(at, {0})
  <2>1. V \subseteq U
    BY <1>5 DEF Region
  <2>2. CASE reqGoto
    <3>1. other = w
      BY <2>2
    <3> HIDE DEF FN
    <3>2. Meant(prog, orelse, V, FN, w, b)
      BY <1>2, <1>3, <1>4, BlockMeant
    <3> HIDE DEF V, U, w, b, orelse, other
    <3>3. Meant(prog, orelse, U, FN, w, b)
      BY <2>1, <3>2, MeantMore
    <3>4. QED
      BY <3>1, <3>3 DEF U
  <2>3. CASE ~reqGoto
    <3>1. other = b /\ s.orelse = <<>>
      BY <2>3
    <3>2. orelse = <<>>
      BY <3>1, EmptyBody
    <3> HIDE DEF orelse, other, b, FN
    <3>3. Meant(prog, <<>>, U, FN, b, b)
      BY <1>8, MeantEmpty
    <3>4. QED
      BY <3>1, <3>2, <3>3
  <2>4. QED
    BY <2>2, <2>3
<1>19. Meant(prog, last, {}, FN, b, b)
  <2>1. CASE reqGoto
    <3>1. <<<<"label", exit>>, b>> \in FN /\ b \subseteq b
      OBVIOUS
    <3> HIDE DEF FN, b, exit
    <3>2. Meant(prog, Label(exit), {}, FN, b, b)
      BY <1>8, <3>1, LabelMeant
    <3>3. QED
      BY <2>1, <3>2
  <2>2. CASE ~reqGoto
    <3>1. last = <<>>
      BY <2>2
    <3> HIDE DEF FN, b, last
    <3>2. Meant(prog, <<>>, {}, FN, b, b)
      BY <1>8, MeantEmpty
    <3>3. QED
      BY <3>1, <3>2
  <2>3. QED
    BY <2>1, <2>2
<1>20. a \subseteq G[1]
  <2>1. ASSUME NEW q \in Before(prog, s, Q) PROVE q \in left(1)
    <3>1. PICK r : Does(prog, s, q[2], r) /\ <<q[1], r, q[3]>> \in Q
      BY BeforeIs
    <3>2. Finishes(prog, Choice(s.arms, s.orelse), q[2], r)
      BY <3>1, DoesSimple
    <3>3. q \in Triple /\ q[2].how = "normal"
      BY BeforeIs
    <3>4. QED
      BY <1>9, <3>1, <3>2, <3>3 DEF BeforeTask
  <2> HIDE DEF left, G, n
  <2>2. a \subseteq At(h, left(1))
    <3>1. Before(prog, s, Q) \subseteq left(1)
      BY <2>1
    <3>2. QED
      BY <3>1, AtMore
  <2>3. 1 \in 1 .. n + 1
    BY <1>3
  <2>4. QED
    BY <1>13, <2>2, <2>3
<1>21. (UNION {T[k] : k \in 1 .. n}) \cap Inside(at, {0}) = {} /\ UNION {T[k] : k \in 1 .. n} \subseteq Inside(at, Nat)
  <2>1. ASSUME NEW k \in 1 .. n PROVE T[k] \cap Inside(at, {0}) = {} /\ T[k] \subseteq Inside(at, Nat)
    <3>1. {k} \cap {0} = {} /\ k \in Nat /\ {k} \subseteq Nat
      OBVIOUS
    <3>2. QED
      BY <3>1, InsideParts
  <2>2. QED
    BY <2>1
<1>22. Meant(prog, d, Inside(at, Nat), FN, a, b)
  <2> DEFINE U == UNION {T[k] : k \in 1 .. n}
             V == Inside(at, {0})
             W == Inside(at, Nat)
             f == FlattenSeq(seqs)
  <2>1. U \cap V = {} /\ U \cup V \subseteq W
    BY <1>5, <1>21
  <2>2. Meant(prog, f, U, FN, G[1], other)
    BY <1>17
  <2> HIDE DEF U, V, W, f, orelse, last, FN, a, b, G, other
  <2>3. Meant(prog, f \o orelse, U \cup V, FN, G[1], b)
    BY <1>18, <2>1, <2>2, MeantJoined DEF V
  <2>4. Meant(prog, (f \o orelse) \o last, (U \cup V) \cup {}, FN, G[1], b)
    BY <1>19, <2>3, MeantJoined
  <2>5. (U \cup V) \cup {} \subseteq W
    BY <2>1
  <2>6. Meant(prog, (f \o orelse) \o last, W, FN, a, b)
    BY <1>20, <2>4, <2>5, MeantMore
  <2>7. QED
    BY <2>6 DEF f, W
<1>23. Meant(prog, d, Inside(at, Nat) \cup Own(at), F, a, b)
  <2>1. Inside(at, Nat) \cap Own(at) = {}
    BY OwnApart
  <2> HIDE DEF d, N, a, b
  <2>2. QED
    BY <1>7, <1>22, <2>1, MeantPlanned
<1>24. Inside(at, Nat) \cup Own(at) = Region(at)
  BY DEF Region
<1> HIDE DEF a, b, d
<1>25. QED
  BY <1>1, <1>23, <1>24 DEF a, b

-----------------------------------------------------------------------------
(* Loops                                                                   *)

LEMMA LeavingBack ==
  ASSUME NEW env \in Env, NEW how \in How
  PROVE  /\ Leaving(env, how) \in Env /\ Leaving(env, how).how = how
         /\ env.how = "normal" => Leaving(Leaving(env, how), "normal") = env /\ Leaving(env, "normal") = env
<1>1. env = [tests |-> env.tests, printed |-> env.printed, how |-> env.how]
  BY DEF Env
<1>2. "normal" \in How
  BY DEF How, Departures
<1>3. Leaving(env, how) \in Env /\ Leaving(env, how) = [tests |-> env.tests, printed |-> env.printed, how |-> how]
  BY LeavingIn
<1> DEFINE e == Leaving(env, how)
<1>4. e \in Env /\ e.tests = env.tests /\ e.printed = env.printed /\ e.how = how
  BY <1>3
<1> HIDE DEF e
<1>5. Leaving(e, "normal") = [tests |-> env.tests, printed |-> env.printed, how |-> "normal"]
  BY <1>2, <1>4, LeavingIn
<1>6. Leaving(env, "normal") = [tests |-> env.tests, printed |-> env.printed, how |-> "normal"]
  BY <1>2, LeavingIn
<1>7. QED
  BY <1>1, <1>4, <1>5, <1>6 DEF e

(* What comes of the body of a loop whose head stands with Qh.             *)
Iterated(Q, Qh) ==
  {q \in Triple :
     \/ q[2].how \in {"normal", "continue"} /\ <<q[1], Leaving(q[2], "normal"), q[3]>> \in Qh
     \/ q[2].how = "break" /\ <<q[1], Leaving(q[2], "normal"), q[3]>> \in Q
     \/ q[2].how \notin {"normal", "continue", "break"} /\ q \in Q}

LEMMA LoopParts ==
  ASSUME NEW prog \in Programs, NEW s \in AnyStatement, s.kind \in {"while", "for"}, s.cond = Test,
         NEW Q
  PROVE  LET Q0 == Before(prog, s, Q)
         IN Parts(Q0, BeforeTask(prog, Do(s.body), Iterated(Q, Q0)), As(Q, "normal"))
<1> DEFINE Q0 == Before(prog, s, Q)
           R == Iterated(Q, Q0)
           Qt == BeforeTask(prog, Do(s.body), R)
           Qf == As(Q, "normal")
<1>1. ASSUME NEW q \in Q0
      PROVE  /\ Evaluate(Test, q[2]).holds => <<q[1], Evaluate(Test, q[2]).env, q[3]>> \in Qt
             /\ ~Evaluate(Test, q[2]).holds => <<q[1], Evaluate(Test, q[2]).env, q[3]>> \in Qf
  <2> DEFINE c == Evaluate(Test, q[2])
  <2>1. q[1] \in SUBSET Exceptions /\ q[2] \in Env /\ q[3] \in Env /\ q[2].how = "normal"
    BY BeforeIs
  <2>2. PICK r : Does(prog, s, q[2], r) /\ <<q[1], r, q[3]>> \in Q
    BY BeforeIs
  <2>3. c.env \in Env /\ c.holds \in BOOLEAN /\ c.env.how = "normal"
    BY <2>1, TestIn
  <2>4. /\ ~c.holds => r = c.env
        /\ c.holds => \E once \in Env :
             /\ Finishes(prog, Do(s.body), c.env, once)
             /\ once.how = "break" => r = Leaving(once, "normal")
             /\ once.how \in {"normal", "continue"} => Does(prog, s, Leaving(once, "normal"), r)
             /\ once.how \notin {"normal", "continue", "break"} => r = once
    BY <2>1, <2>2, DoesLoop
  <2> HIDE DEF c
  <2>5. ASSUME ~c.holds PROVE <<q[1], c.env, q[3]>> \in Qf
    BY <2>2, <2>3, <2>4, <2>5 DEF As
  <2>6. ASSUME c.holds PROVE <<q[1], c.env, q[3]>> \in Qt
    <3>1. PICK once \in Env :
             /\ Finishes(prog, Do(s.body), c.env, once)
             /\ once.how = "break" => r = Leaving(once, "normal")
             /\ once.how \in {"normal", "continue"} => Does(prog, s, Leaving(once, "normal"), r)
             /\ once.how \notin {"normal", "continue", "break"} => r = once
      BY <2>4, <2>6
    <3> DEFINE p == <<q[1], once, q[3]>>
               back == Leaving(once, "normal")
               again == <<q[1], back, q[3]>>
    <3>2. p \in Triple /\ p[1] = q[1] /\ p[2] = once /\ p[3] = q[3]
      BY <2>1 DEF Triple
    <3>3. back \in Env /\ back.how = "normal"
      BY LeavingIn DEF How, Departures
    <3>4. again \in Triple /\ again[1] = q[1] /\ again[2] = back /\ again[3] = q[3]
      BY <2>1, <3>3 DEF Triple
    <3>5. ASSUME once.how \in {"normal", "continue"} PROVE again \in Q0
      <4>1. Does(prog, s, back, r)
        BY <3>1, <3>5
      <4> HIDE DEF back, again
      <4>2. QED
        BY <2>2, <3>3, <3>4, <4>1 DEF Before
    <3>6. once.how = "break" => again \in Q
      BY <2>2, <3>1
    <3>7. once.how \notin {"normal", "continue", "break"} => p \in Q
      BY <2>2, <3>1
    <3>8. p \in R
      <4> HIDE DEF Q0, p
      <4>1. again = <<p[1], Leaving(p[2], "normal"), p[3]>>
        BY <3>2
      <4> HIDE DEF again
      <4>2. QED
        BY <3>2, <3>5, <3>6, <3>7, <4>1 DEF Iterated
    <3>9. <<q[1], c.env, q[3]>> \in Triple
      BY <2>1, <2>3 DEF Triple
    <3> HIDE DEF R
    <3>10. QED
      BY <2>3, <3>1, <3>8, <3>9 DEF BeforeTask
  <2>7. QED
    BY <2>5, <2>6 DEF c
<1>2. \A q \in Q0 : q[2].how = "normal"
  BY BeforeIs
<1> HIDE DEF Q0, Qt, Qf
<1>3. Parts(Q0, Qt, Qf)
  BY <1>1, <1>2 DEF Parts
<1>4. QED
  BY <1>3 DEF Q0, Qt, Qf

(* What surrounds the body of a loop. *)
LEMMA LoopAccepts ==
  ASSUME NEW s, s.kind \in {"while", "for"}, NEW F, NEW G, F \subseteq G, NEW ctx, NEW place,
         NEW at \in Seq(Nat), NEW h, NEW Q, Accepts(F, ctx, place, h, Q),
         NEW Qh, \A q \in Qh : q[2].how = "normal",
         <<<<"label", After(Id(at, "loop"))>>, At(h, Qh)>> \in G,
         <<<<"endwhile", Id(at, "loop")>>, At(h, As(Q, "normal"))>> \in G
  PROVE  Accepts(G, [ctx EXCEPT !.loop = Id(at, "loop")], Within(s, place), h, Iterated(Q, Qh))
<1> DEFINE loop == Id(at, "loop")
           c == [ctx EXCEPT !.loop = loop]
           R == Iterated(Q, Qh)
           w == Within(s, place)
<1>1. ctx \in Context /\ place \in Place /\ ctx.inTry = place.inTry /\ Throws(F, ctx, h, Q)
  BY DEF Accepts
<1>2. loop \in IdOf
  BY DEF Id, IdOf, Tags
<1> HIDE DEF loop
<1>3. c \in Context /\ c.inTry = ctx.inTry /\ c.excepts = ctx.excepts /\ c.loop = loop
  BY <1>1, <1>2 DEF Context
<1>4. w \in Place /\ w.inTry = place.inTry /\ w.loop = "here"
  <2>1. w = [place EXCEPT !.loop = "here"]
    BY DEF Within
  <2>2. QED
    BY <1>1, <2>1 DEF Place
<1> HIDE DEF c, w
<1>5. \A q \in R : q \in Triple /\ (q[2].how \notin {"normal", "continue", "break"} => q \in Q)
  BY DEF Iterated
<1>6. Thrown(R) \subseteq Thrown(Q)
  <2>1. ASSUME NEW q \in Thrown(R) PROVE q \in Thrown(Q)
    <3>1. q \in R /\ q[2].how \in Exceptions
      BY DEF Thrown
    <3>2. q \in Q
      BY <1>5, <3>1, HowsApart
    <3>3. QED
      BY <3>1, <3>2 DEF Thrown
  <2>2. QED
    BY <2>1
<1>7. Throws(G, c, h, R)
  <2>1. Throws(G, ctx, h, R)
    BY <1>1, <1>6, ThrowsSame
  <2>2. QED
    BY <1>3, <2>1 DEF Throws
<1>8. ~w.inTry => \A q \in R : q[2].how = "return" => q[3] = q[2]
  <2>1. \A q \in R : q[2].how = "return" => q \in Q
    BY <1>5
  <2>2. QED
    BY <1>4, <2>1 DEF Accepts
<1>9. ASSUME NEW how \in {"continue", "break"}, NEW q \in Coming(R, how)
      PROVE  /\ how = "continue" => q \in Qh
             /\ how = "break" => q \in As(Q, "normal")
  <2> DEFINE p == <<q[1], Leaving(q[2], how), q[3]>>
             again == <<p[1], Leaving(p[2], "normal"), p[3]>>
  <2>1. q \in Triple /\ q[2].how = "normal" /\ p \in R
    BY DEF Coming
  <2>2. q[1] \in SUBSET Exceptions /\ q[2] \in Env /\ q[3] \in Env /\ q = <<q[1], q[2], q[3]>>
    BY <2>1 DEF Triple
  <2>3. how \in How
    BY DEF How, Departures
  <2>4. p[2].how = how /\ Leaving(p[2], "normal") = q[2] /\ p[1] = q[1] /\ p[3] = q[3]
    BY <2>1, <2>2, <2>3, LeavingBack
  <2>5. again = q
    BY <2>2, <2>4
  <2> HIDE DEF p
  <2>6. how = "continue" => again \in Qh
    BY <2>1, <2>4 DEF Iterated
  <2>7. how = "break" => again \in Q
    BY <2>1, <2>4 DEF Iterated
  <2> HIDE DEF again
  <2>8. QED
    BY <2>1, <2>5, <2>6, <2>7 DEF As
<1>10. Coming(R, "continue") \subseteq Qh /\ Coming(R, "break") \subseteq As(Q, "normal")
  BY <1>9
<1>11. At(h, Coming(R, "continue")) \subseteq At(h, Qh) /\ At(h, Coming(R, "break")) \subseteq At(h, As(Q, "normal"))
  BY <1>10, AtMore
<1> HIDE DEF R
<1>12. Accepts(G, c, w, h, R)
  <2>1. \E P : <<<<"label", After(c.loop)>>, P>> \in G /\ At(h, Coming(R, "continue")) \subseteq P
    BY <1>3, <1>11 DEF loop
  <2>2. \E P : <<<<"endwhile", c.loop>>, P>> \in G /\ At(h, Coming(R, "break")) \subseteq P
    BY <1>3, <1>11 DEF loop
  <2>3. QED
    BY <1>1, <1>3, <1>4, <1>7, <1>8, <2>1, <2>2 DEF Accepts
<1>13. QED
  BY <1>12 DEF c, w, R, loop

(* The plans for the marks of a loop: at its head, behind it, in its body. *)
LoopPlans(at, head, b, d) ==
  {<<<<"while", Id(at, "loop")>>, head>>, <<<<"endwhile", Id(at, "loop")>>, b>>,
   <<<<"label", Id(at, "after")>>, head>>, <<<<"endif", Id(at, "stop")>>, d>>,
   <<<<"endif", Id(at, "raise")>>, {}>>, <<<<"endif", Id(at, "iter")>>, head>>}

LEMMA LoopPlanned ==
  ASSUME NEW at \in Seq(Nat), NEW head, NEW b, NEW d
  PROVE  Plans(LoopPlans(at, head, b, d), Own(at))
<1> DEFINE m1 == <<"while", Id(at, "loop")>>
           m2 == <<"endwhile", Id(at, "loop")>>
           m3 == <<"label", Id(at, "after")>>
           m4 == <<"endif", Id(at, "stop")>>
           m5 == <<"endif", Id(at, "raise")>>
           m6 == <<"endif", Id(at, "iter")>>
           N == {<<m1, head>>, <<m2, b>>, <<m3, head>>, <<m4, d>>, <<m5, {}>>, <<m6, head>>}
<1>1. /\ m1 \in MarkSet /\ m1[2] \in Own(at) /\ m2 \in MarkSet /\ m2[2] \in Own(at)
      /\ m3 \in MarkSet /\ m3[2] \in Own(at) /\ m4 \in MarkSet /\ m4[2] \in Own(at)
      /\ m5 \in MarkSet /\ m5[2] \in Own(at) /\ m6 \in MarkSet /\ m6[2] \in Own(at)
  BY OwnMark DEF Tags
<1>2. /\ m1[1] = "while" /\ m2[1] = "endwhile" /\ m3[1] = "label"
      /\ m4[1] = "endif" /\ m5[1] = "endif" /\ m6[1] = "endif"
      /\ m4[2].tag = "stop" /\ m5[2].tag = "raise" /\ m6[2].tag = "iter"
  BY DEF Id
<1> HIDE DEF m1, m2, m3, m4, m5, m6
<1>3. \A f \in N : f = <<f[1], f[2]>> /\ f[1] \in MarkSet /\ f[1][2] \in Own(at)
  BY <1>1
<1>4. /\ m1 \notin {m2, m3, m4, m5, m6} /\ m2 \notin {m3, m4, m5, m6} /\ m3 \notin {m4, m5, m6}
      /\ m4 \notin {m5, m6} /\ m5 # m6
  BY <1>2
<1>5. \A f, g \in N : f[1] = g[1] => f[2] = g[2]
  <2> DEFINE plan(m) == IF m = m2 THEN b ELSE IF m = m4 THEN d ELSE IF m = m5 THEN {} ELSE head
  <2>0. /\ plan(m1) = head /\ plan(m2) = b /\ plan(m3) = head /\ plan(m4) = d /\ plan(m5) = {}
        /\ plan(m6) = head
    BY <1>4
  <2> HIDE DEF plan
  <2>1. \A f \in N : f[2] = plan(f[1])
    <3>1. TAKE f \in N
    <3>2. \/ f = <<m1, head>> \/ f = <<m2, b>> \/ f = <<m3, head>> \/ f = <<m4, d>>
          \/ f = <<m5, {}>> \/ f = <<m6, head>>
      OBVIOUS
    <3> HIDE DEF N
    <3>3. \/ f[1] = m1 /\ f[2] = head
          \/ f[1] = m2 /\ f[2] = b
          \/ f[1] = m3 /\ f[2] = head
          \/ f[1] = m4 /\ f[2] = d
          \/ f[1] = m5 /\ f[2] = {}
          \/ f[1] = m6 /\ f[2] = head
      BY <3>2
    <3>4. QED
      BY <2>0, <3>3
  <2> HIDE DEF plan, N
  <2>2. QED
    BY <2>1
<1>6. Plans(N, Own(at))
  BY <1>3, <1>5 DEF Plans
<1>7. QED
  BY <1>6 DEF LoopPlans, m1, m2, m3, m4, m5, m6

(* A condition at the head of a loop that leaves it where it is false.     *)
LEMMA StopMeant ==
  ASSUME NEW prog, NEW at \in Seq(Nat), NEW h, NEW Qt, NEW Qf, NEW F,
         <<<<"endif", Id(at, "stop")>>, At(h, Qt)>> \in F, <<<<"endwhile", Id(at, "loop")>>, At(h, Qf)>> \in F
  PROVE  Meant(prog, StopOn(at, TRUE), {}, F, Decided(h, Value(at), Qt, Qf), At(h, Qt))
<1> DEFINE d == At(h, Qt)
           b == At(h, Qf)
<1>1. d \in SUBSET Config /\ b \in SUBSET Config
  BY AtIn
<1>2. Meant(prog, LeaveLoop(Id(at, "loop")), {}, F, b, d)
  <2>1. b \subseteq b
    OBVIOUS
  <2> HIDE DEF b, d
  <2>2. <<<<"endwhile", Id(at, "loop")>>, b>> \in F
    BY DEF b
  <2>3. QED
    BY <1>1, <2>1, <2>2, BreakMeant
<1>3. Value(at) \in IdOf /\ Value(at) # GlobalException
  BY DEF Value, Id, IdOf, Tags, GlobalException
<1>4. d \subseteq d
  OBVIOUS
<1>5. QED
  BY <1>1, <1>2, <1>3, <1>4, DecidedIf DEF StopOn

LEMMA LoopMeant ==
  ASSUME NEW prog \in Programs, NEW s \in AnyStatement, s.kind \in {"while", "for"}, NEW place,
         MeantInside(prog, s, place),
         NEW at \in Seq(Nat), NEW ctx, NEW h \in Scope, Free(h, Region(at)),
         NEW Q \in SUBSET Triple, NEW F, Accepts(F, ctx, place, h, Q),
         NEW Qh \in SUBSET Triple, \A q \in Qh : q[2].how = "normal",
         NEW Qt, Qt = BeforeTask(prog, Do(s.body), Iterated(Q, Qh)),
         NEW G, G = F \cup LoopPlans(at, At(h, Qh), At(h, As(Q, "normal")), At(h, Qt)),
         NEW init, NEW before, NEW a,
         Meant(prog, init, {}, G, a, At(h, Qh)),
         Meant(prog, before, {}, G, At(h, Qh), At(h, Qt))
  PROVE  Meant(prog, LoopBlock(Id(at, "loop"), init, before,
                               CompileBody(CompileStatement, s.body, Append(at, 1),
                                           [ctx EXCEPT !.loop = Id(at, "loop")])),
               Region(at), F, a, At(h, As(Q, "normal")))
<1> DEFINE loop == Id(at, "loop")
           c == [ctx EXCEPT !.loop = loop]
           R == Iterated(Q, Qh)
           H == At(h, Qh)
           b == At(h, As(Q, "normal"))
           d == At(h, Qt)
           e == At(h, As(R, "normal"))
           N == LoopPlans(at, H, b, d)
           body == CompileBody(CompileStatement, s.body, Append(at, 1), c)
           w == [op |-> "while", id |-> loop]
           z == [op |-> "endwhile", id |-> loop]
           V == Inside(Append(at, 1), Nat)
<1>1. /\ <<<<"while", loop>>, H>> \in G /\ <<<<"endwhile", loop>>, b>> \in G
      /\ <<<<"label", After(loop)>>, H>> \in G
  <2>1. After(loop) = Id(at, "after")
    BY DEF After, Id
  <2>2. QED
    BY <2>1 DEF LoopPlans
<1>2. H \in SUBSET Config /\ b \in SUBSET Config /\ d \in SUBSET Config /\ e \in SUBSET Config
  BY AtIn
<1>3. Accepts(G, c, Within(s, place), h, R)
  <2>1. F \subseteq G
    OBVIOUS
  <2>2. /\ <<<<"label", After(Id(at, "loop"))>>, At(h, Qh)>> \in G
        /\ <<<<"endwhile", Id(at, "loop")>>, At(h, As(Q, "normal"))>> \in G
    BY <1>1
  <2>3. Accepts(G, [ctx EXCEPT !.loop = Id(at, "loop")], Within(s, place), h, Iterated(Q, Qh))
    <3> HIDE DEF loop, c, R, H, b, d, e, N
    <3> DEFINE K == G
    <3>1. /\ F \subseteq K /\ <<<<"label", After(Id(at, "loop"))>>, At(h, Qh)>> \in K
          /\ <<<<"endwhile", Id(at, "loop")>>, At(h, As(Q, "normal"))>> \in K
      BY <2>1, <2>2
    <3> HIDE DEF K
    <3>2. Accepts(K, [ctx EXCEPT !.loop = Id(at, "loop")], Within(s, place), h, Iterated(Q, Qh))
      BY <3>1, LoopAccepts
    <3>3. QED
      BY <3>2 DEF K
  <2>4. QED
    BY <2>3
<1>4. Meant(prog, body, V, G, d, e)
  <2>1. Free(h, Inside(at, Nat)) /\ c \in Context
    BY <1>3 DEF Free, Region, Accepts
  <2>2. s.body \in Stmts /\ s.body \in Blocks(s)
    BY StatementParts DEF Stmts, Blocks
  <2>3. R \in SUBSET Triple
    BY DEF Iterated
  <2> HIDE DEF c, R
  <2>4. Meant(prog, CompileBody(CompileStatement, s.body, Append(at, 1), c), Inside(Append(at, 1), Nat), G,
              At(h, BeforeTask(prog, Do(s.body), R)), At(h, As(R, "normal")))
    BY <1>3, <2>1, <2>2, <2>3, BlockMeant
  <2>5. QED
    BY <2>4 DEF R, c
<1>5. e \subseteq H
  <2>1. ASSUME NEW q \in As(R, "normal") PROVE q \in Qh
    <3>1. q \in R /\ q[2].how = "normal"
      BY DEF As
    <3>2. q \in Triple /\ <<q[1], Leaving(q[2], "normal"), q[3]>> \in Qh
      BY <3>1 DEF Iterated
    <3>3. Leaving(q[2], "normal") = q[2] /\ q = <<q[1], q[2], q[3]>>
      <4>1. q[2] \in Env /\ q = <<q[1], q[2], q[3]>> /\ "normal" \in How
        BY <3>2 DEF Triple, How, Departures
      <4>2. QED
        BY <3>1, <4>1, LeavingBack
    <3>4. QED
      BY <3>2, <3>3
  <2>2. As(R, "normal") \subseteq Qh
    BY <2>1
  <2>3. QED
    BY <2>2, AtMore
<1>6. w.op = "while" /\ w.id = loop /\ z.op = "endwhile" /\ z.id = loop
  OBVIOUS
<1> HIDE DEF H, b, d, e, w, z, loop
<1>7. Meant(prog, <<w>>, {}, G, H, H)
  <2>1. ASSUME NEW M, Given(M, G) PROVE Leads(prog, w, H, H, M)
    <3>1. M[<<"while", loop>>] = H
      BY <1>1, <2>1 DEF Given
    <3>2. QED
      BY <1>6, <3>1 DEF Leads, Lands, Goes
  <2>2. QED
    BY <1>2, <2>1, MeantOne
<1>8. Meant(prog, <<z>>, {}, G, H, b)
  <2>1. ASSUME NEW M, Given(M, G) PROVE Leads(prog, z, H, b, M)
    <3>1. M[<<"while", loop>>] = H /\ M[<<"endwhile", loop>>] = b
      BY <1>1, <2>1 DEF Given
    <3>2. QED
      BY <1>6, <3>1 DEF Leads, Lands, Goes
  <2>2. QED
    BY <1>2, <2>1, MeantOne
<1>9. Meant(prog, Label(After(loop)), {}, G, H, H)
  <2>1. H \subseteq H
    OBVIOUS
  <2>2. QED
    BY <1>1, <1>2, <2>1, LabelMeant
<1>10. Meant(prog, body, V, G, d, H)
  <2> HIDE DEF body, V
  <2>1. G \subseteq G /\ V \subseteq V /\ d \subseteq d
    OBVIOUS
  <2>2. QED
    BY <1>4, <1>5, <2>1, MeantMore
<1> DEFINE all == ((((init \o <<w>>) \o before) \o body) \o Label(After(loop))) \o <<z>>
<1>11. Meant(prog, all, V, G, a, b)
  <2> HIDE DEF body, V
  <2>0. Meant(prog, init, {}, G, a, H) /\ Meant(prog, before, {}, G, H, d)
    BY DEF H, d
  <2>1. Meant(prog, init \o <<w>>, {} \cup {}, G, a, H)
    BY <1>7, <2>0, MeantJoined
  <2>2. Meant(prog, (init \o <<w>>) \o before, ({} \cup {}) \cup {}, G, a, d)
    BY <2>0, <2>1, MeantJoined
  <2>3. ({} \cup {}) \cup {} = {} /\ {} \cup V = V /\ V \cup {} = V
    OBVIOUS
  <2>4. Meant(prog, ((init \o <<w>>) \o before) \o body, {} \cup V, G, a, H)
    <3>1. Meant(prog, (init \o <<w>>) \o before, {}, G, a, d)
      BY <2>2, <2>3
    <3>2. QED
      BY <1>10, <3>1, MeantJoined
  <2>5. Meant(prog, (((init \o <<w>>) \o before) \o body) \o Label(After(loop)), V \cup {}, G, a, H)
    <3>1. Meant(prog, ((init \o <<w>>) \o before) \o body, V, G, a, H)
      BY <2>3, <2>4
    <3>2. QED
      BY <1>9, <3>1, MeantJoined
  <2>6. Meant(prog, all, V \cup {}, G, a, b)
    <3>1. Meant(prog, (((init \o <<w>>) \o before) \o body) \o Label(After(loop)), V, G, a, H)
      BY <2>3, <2>5
    <3>2. QED
      BY <1>8, <3>1, MeantJoined
  <2>7. QED
    BY <2>3, <2>6
<1>12. Meant(prog, all, V \cup Own(at), F, a, b)
  <2>1. V \cap Own(at) = {}
    <3>1. Region(Append(at, 1)) \subseteq Inside(at, {1}) /\ Own(at) \cap Inside(at, {1}) = {}
      BY RegionInside, OwnApart
    <3>2. QED
      BY <3>1 DEF Region
  <2>2. Plans(N, Own(at))
    BY LoopPlanned
  <2>3. G = F \cup N
    BY DEF H, b, d
  <2> HIDE DEF all, N, V
  <2>4. QED
    BY <1>11, <2>1, <2>2, <2>3, MeantPlanned
<1>13. V \cup Own(at) \subseteq Region(at)
  <2>1. Region(Append(at, 1)) \subseteq Inside(at, {1}) /\ Inside(at, {1}) \subseteq Inside(at, Nat)
    BY RegionInside, InsideParts
  <2>2. QED
    BY <2>1 DEF Region
<1>14. Meant(prog, all, Region(at), F, a, b)
  <2> DEFINE U == V \cup Own(at)
             W == Region(at)
  <2>1. U \subseteq W /\ F \subseteq F /\ a \subseteq a /\ b \subseteq b
    BY <1>13
  <2>2. Meant(prog, all, U, F, a, b)
    BY <1>12
  <2> HIDE DEF all, U, W
  <2>3. Meant(prog, all, W, F, a, b)
    BY <2>1, <2>2, MeantMore
  <2>4. QED
    BY <2>3 DEF W
<1>15. LoopBlock(loop, init, before, body) = all
  BY DEF LoopBlock, w, z
<1> HIDE DEF all
<1>16. QED
  BY <1>14, <1>15 DEF loop, b

(* What an expression raises at the head of a loop comes of the loop. *)
LEMMA LoopRaises ==
  ASSUME NEW prog \in Programs, NEW s \in AnyStatement, s.kind \in {"while", "for"}, s.cond # Test,
         NEW Q, NEW q \in Before(prog, s, Q)
  PROVE  s.cond \in Exceptions /\ <<q[1], Leaving(q[2], s.cond), q[3]>> \in Q
<1>1. q[2] \in Env
  BY BeforeIs
<1>2. PICK r : Does(prog, s, q[2], r) /\ <<q[1], r, q[3]>> \in Q
  BY BeforeIs
<1>3. s.cond \in Condition
  BY StatementParts
<1>4. s.cond \in Exceptions
  BY <1>3 DEF Condition
<1>5. CASE s.kind = "while"
  <2> DEFINE c == Evaluate(s.cond, q[2])
  <2>1. c = [env |-> Leaving(q[2], s.cond), holds |-> FALSE]
    BY <1>1, <1>3, EvaluateIn
  <2>2. ~c.holds => r = c.env
    BY <1>1, <1>2, <1>5, DoesLoop
  <2>3. r = Leaving(q[2], s.cond)
    BY <2>1, <2>2
  <2>4. QED
    BY <1>2, <1>4, <2>3
<1>6. CASE s.kind = "for"
  <2>1. r = Leaving(q[2], s.cond)
    BY <1>2, <1>6, DoesSimple
  <2>2. QED
    BY <1>2, <1>4, <2>1
<1>7. QED
  BY <1>5, <1>6

LEMMA WhileMeant ==
  ASSUME NEW prog \in Programs, NEW s \in AnyStatement, s.kind = "while", NEW place,
         MeantInside(prog, s, place),
         NEW at \in Seq(Nat), NEW ctx, NEW h \in Scope, Free(h, Region(at)),
         NEW Q \in SUBSET Triple, NEW F, Accepts(F, ctx, place, h, Q)
  PROVE  Meant(prog, CompileWhile(CompileStatement, s, at, ctx), Region(at), F,
               At(h, Before(prog, s, Q)), At(h, As(Q, "normal")))
<1> DEFINE Qh == Before(prog, s, Q)
           Qt == BeforeTask(prog, Do(s.body), Iterated(Q, Qh))
           Qf == As(Q, "normal")
           b == At(h, Qf)
           G == F \cup LoopPlans(at, At(h, Qh), b, At(h, Qt))
           check == Evaluated(s.cond, at, ctx)
           before == check \o StopOn(at, TRUE)
           body == CompileBody(CompileStatement, s.body, Append(at, 1), [ctx EXCEPT !.loop = Id(at, "loop")])
<1>1. ctx \in Context /\ Throws(F, ctx, h, Q) /\ s.cond \in Condition
  BY StatementParts DEF Accepts
<1>2. Throws(G, ctx, h, Q)
  <2>1. F \subseteq G /\ Thrown(Q) \subseteq Thrown(Q)
    OBVIOUS
  <2> HIDE DEF G
  <2>2. QED
    BY <1>1, <2>1, ThrowsSame
<1>3. /\ <<<<"endif", Id(at, "raise")>>, {}>> \in G /\ <<<<"endif", Id(at, "stop")>>, At(h, Qt)>> \in G
      /\ <<<<"endwhile", Id(at, "loop")>>, At(h, Qf)>> \in G
  BY DEF LoopPlans
<1>4. s.cond = Test => Parts(Qh, Qt, Qf)
  BY LoopParts
<1>5. s.cond # Test => \A q \in Qh \cap Triple : <<q[1], Leaving(q[2], s.cond), q[3]>> \in Q
  BY LoopRaises
<1>6. Qh \in SUBSET Triple /\ \A q \in Qh : q[2].how = "normal"
  BY BeforeIs
<1>7. Meant(prog, check, {}, G, At(h, Qh), Decided(h, Value(at), Qt, Qf))
  <2> HIDE DEF G, Qh, Qt, Qf
  <2>1. QED
    BY <1>1, <1>2, <1>3, <1>4, <1>5, EvaluatedMeant
<1>8. Meant(prog, StopOn(at, TRUE), {}, G, Decided(h, Value(at), Qt, Qf), At(h, Qt))
  <2> HIDE DEF G, Qh, Qt, Qf
  <2>1. QED
    BY <1>3, StopMeant
<1>9. Meant(prog, before, {}, G, At(h, Qh), At(h, Qt))
  <2> HIDE DEF G, Qh, Qt, Qf, check
  <2>1. Meant(prog, before, {} \cup {}, G, At(h, Qh), At(h, Qt))
    BY <1>7, <1>8, MeantJoined
  <2>2. {} \cup {} = {}
    OBVIOUS
  <2>3. QED
    BY <2>1, <2>2
<1>10. Meant(prog, <<>>, {}, G, At(h, Qh), At(h, Qh))
  BY AtIn, MeantEmpty
<1>11. Meant(prog, LoopBlock(Id(at, "loop"), <<>>, before, body), Region(at), F, At(h, Qh), b)
  <2> DEFINE a == At(h, Qh)
  <2>1. Qt = BeforeTask(prog, Do(s.body), Iterated(Q, Qh))
        /\ G = F \cup LoopPlans(at, At(h, Qh), At(h, As(Q, "normal")), At(h, Qt))
    OBVIOUS
  <2>2. Meant(prog, <<>>, {}, G, a, At(h, Qh))
    BY <1>10
  <2> HIDE DEF G, Qh, Qt, before, a
  <2>3. Meant(prog, LoopBlock(Id(at, "loop"), <<>>, before,
                               CompileBody(CompileStatement, s.body, Append(at, 1),
                                           [ctx EXCEPT !.loop = Id(at, "loop")])),
               Region(at), F, a, At(h, As(Q, "normal")))
    BY <1>6, <1>9, <2>1, <2>2, LoopMeant
  <2>4. QED
    BY <2>3 DEF a
<1>12. CompileWhile(CompileStatement, s, at, ctx) = LoopBlock(Id(at, "loop"), <<>>, before, body)
  BY DEF CompileWhile
<1> HIDE DEF before, body, Qh, b
<1>13. QED
  BY <1>11, <1>12 DEF Qh, b

LEMMA IterMeant ==
  ASSUME NEW prog, NEW at \in Seq(Nat), NEW ctx \in Context, NEW h \in Scope, NEW F, NEW Q,
         Throws(F, ctx, h, Q), NEW Qh, \A q \in Qh : q[2].how = "normal",
         <<<<"endif", Id(at, "iter")>>, At(h, Qh)>> \in F
  PROVE  Meant(prog, Unsafe([op |-> "iter"], at, ctx), {}, F, At(h, Qh), At(h, Qh))
<1> DEFINE i == [op |-> "iter"]
           a == At(h, Qh)
<1>1. i.op = "iter"
  OBVIOUS
<1> HIDE DEF i
<1>2. ASSUME NEW M PROVE Leads(prog, i, a, a, M)
  BY <1>1 DEF Leads, Lands, Goes
<1>3. Thrown(Qh) \subseteq Thrown(Q)
  BY HowsApart DEF Thrown
<1>4. Throws(F, ctx, h, Qh)
  <2>1. F \subseteq F
    OBVIOUS
  <2>2. QED
    BY <1>3, <2>1, ThrowsSame
<1>5. At(h, As(Qh, "normal")) \subseteq a
  <2>1. As(Qh, "normal") \subseteq Qh
    BY DEF As
  <2>2. QED
    BY <2>1, AtMore
<1>6. a \in SUBSET Config /\ <<<<"endif", Id(at, i.op)>>, a>> \in F
  BY <1>1, AtIn
<1>7. Meant(prog, Unsafe(i, at, ctx), {}, F, a, a)
  <2>1. \A M : Given(M, F) => Leads(prog, i, a, At(h, Qh), M)
    BY <1>2
  <2> HIDE DEF a
  <2>2. QED
    BY <1>4, <1>5, <1>6, <2>1, UnsafeMeant
<1>8. QED
  BY <1>7 DEF a, i

LEMMA ForMeant ==
  ASSUME NEW prog \in Programs, NEW s \in AnyStatement, s.kind = "for", NEW place,
         MeantInside(prog, s, place),
         NEW at \in Seq(Nat), NEW ctx, NEW h \in Scope, Free(h, Region(at)),
         NEW Q \in SUBSET Triple, NEW F, Accepts(F, ctx, place, h, Q)
  PROVE  Meant(prog, CompileFor(CompileStatement, s, at, ctx), Region(at), F,
               At(h, Before(prog, s, Q)), At(h, As(Q, "normal")))
<1> DEFINE Q0 == Before(prog, s, Q)
           Qh == IF s.cond = Test THEN Q0 ELSE {}
           Qt == BeforeTask(prog, Do(s.body), Iterated(Q, Qh))
           Qf == As(Q, "normal")
           a == At(h, Q0)
           b == At(h, Qf)
           H == At(h, Qh)
           G == F \cup LoopPlans(at, H, b, At(h, Qt))
           first == IF s.cond = Test THEN <<>> ELSE RaiseInst(s.cond, at, ctx)
           iter == Unsafe([op |-> "iter"], at, ctx)
           next == <<[op |-> "next", into |-> Value(at)]>>
           before == next \o StopOn(at, TRUE)
           body == CompileBody(CompileStatement, s.body, Append(at, 1), [ctx EXCEPT !.loop = Id(at, "loop")])
<1>1. ctx \in Context /\ Throws(F, ctx, h, Q) /\ s.cond \in Condition
  BY StatementParts DEF Accepts
<1>2. Throws(G, ctx, h, Q)
  <2>1. F \subseteq G /\ Thrown(Q) \subseteq Thrown(Q)
    OBVIOUS
  <2> HIDE DEF G
  <2>2. QED
    BY <1>1, <2>1, ThrowsSame
<1>3. /\ <<<<"endif", Id(at, "raise")>>, {}>> \in G /\ <<<<"endif", Id(at, "stop")>>, At(h, Qt)>> \in G
      /\ <<<<"endwhile", Id(at, "loop")>>, At(h, Qf)>> \in G
      /\ <<<<"endif", Id(at, "iter")>>, H>> \in G
  BY DEF LoopPlans
<1>4. Parts(Qh, Qt, Qf)
  <2>1. CASE s.cond = Test
    <3>1. Qh = Q0
      BY <2>1
    <3> HIDE DEF Qh
    <3>2. QED
      BY <2>1, <3>1, LoopParts
  <2>2. CASE s.cond # Test
    <3>1. Qh = {}
      BY <2>2
    <3> HIDE DEF Qh, Qt, Qf
    <3>2. QED
      BY <3>1 DEF Parts
  <2>3. QED
    BY <2>1, <2>2
<1>5. s.cond # Test => s.cond \in Exceptions /\ \A q \in Q0 \cap Triple : <<q[1], Leaving(q[2], s.cond), q[3]>> \in Q
  BY <1>1, LoopRaises DEF Condition
<1>6. Qh \in SUBSET Triple /\ \A q \in Qh : q[2].how = "normal"
  BY BeforeIs
<1>7. a \in SUBSET Config /\ b \in SUBSET Config /\ H \in SUBSET Config
  BY AtIn
<1>8. Meant(prog, next, {}, G, H, Decided(h, Value(at), Qt, Qf))
  <2> HIDE DEF G, Qh, Qt, Qf
  <2>1. QED
    BY <1>4, TestMeant
<1>9. Meant(prog, StopOn(at, TRUE), {}, G, Decided(h, Value(at), Qt, Qf), At(h, Qt))
  <2> HIDE DEF G, Qh, Qt, Qf
  <2>1. QED
    BY <1>3, StopMeant
<1>10. Meant(prog, before, {}, G, H, At(h, Qt))
  <2> HIDE DEF G, H, Qt, Qf, next
  <2>1. Meant(prog, before, {} \cup {}, G, H, At(h, Qt))
    BY <1>8, <1>9, MeantJoined
  <2>2. {} \cup {} = {}
    OBVIOUS
  <2>3. QED
    BY <2>1, <2>2
<1>11. Meant(prog, iter, {}, G, H, H)
  <2> HIDE DEF G, Qh
  <2>1. QED
    BY <1>1, <1>2, <1>3, <1>6, IterMeant
<1>12. Meant(prog, first, {}, G, a, H)
  <2>1. CASE s.cond = Test
    <3>1. first = <<>> /\ H = a
      BY <2>1
    <3> HIDE DEF first, a, H, G
    <3>2. a \subseteq a
      OBVIOUS
    <3>3. Meant(prog, <<>>, {}, G, a, a)
      BY <1>7, <3>2, MeantEmpty
    <3>4. QED
      BY <3>1, <3>3
  <2>2. CASE s.cond # Test
    <3>1. first = RaiseInst(s.cond, at, ctx)
      BY <2>2
    <3>2. Meant(prog, RaiseInst(s.cond, at, ctx), {}, G, At(h, Q0), {})
      <4> HIDE DEF G, Q0
      <4>1. QED
        BY <1>1, <1>2, <1>3, <1>5, <2>2, RaiseMeant
    <3> HIDE DEF first, a, H, G
    <3>3. Meant(prog, first, {}, G, a, {}) /\ {} \subseteq H /\ a \subseteq a /\ G \subseteq G /\ {} \subseteq {}
      BY <3>1, <3>2 DEF a
    <3>4. QED
      BY <3>3, MeantMore
  <2>3. QED
    BY <2>1, <2>2
<1>13. Meant(prog, first \o iter, {}, G, a, H)
  <2> HIDE DEF G, H, a, first, iter
  <2>1. Meant(prog, first \o iter, {} \cup {}, G, a, H)
    BY <1>11, <1>12, MeantJoined
  <2>2. {} \cup {} = {}
    OBVIOUS
  <2>3. QED
    BY <2>1, <2>2
<1>14. Meant(prog, LoopBlock(Id(at, "loop"), first \o iter, before, body), Region(at), F, a, b)
  <2> DEFINE init == first \o iter
  <2>1. Qt = BeforeTask(prog, Do(s.body), Iterated(Q, Qh))
        /\ G = F \cup LoopPlans(at, At(h, Qh), At(h, As(Q, "normal")), At(h, Qt))
    OBVIOUS
  <2>2. Meant(prog, init, {}, G, a, At(h, Qh)) /\ Meant(prog, before, {}, G, At(h, Qh), At(h, Qt))
    BY <1>10, <1>13
  <2> HIDE DEF G, Qh, Qt, before, a, init
  <2>3. Meant(prog, LoopBlock(Id(at, "loop"), init, before,
                               CompileBody(CompileStatement, s.body, Append(at, 1),
                                           [ctx EXCEPT !.loop = Id(at, "loop")])),
               Region(at), F, a, At(h, As(Q, "normal")))
    BY <1>6, <2>1, <2>2, LoopMeant
  <2>4. QED
    BY <2>3 DEF init
<1>15. CompileFor(CompileStatement, s, at, ctx) = LoopBlock(Id(at, "loop"), first \o iter, before, body)
  BY DEF CompileFor
<1> HIDE DEF before, body, a, b, first, iter
<1>16. QED
  BY <1>14, <1>15 DEF a, b, Q0, Qf

-----------------------------------------------------------------------------
(* Try statements                                                          *)

(* Nothing is raised, and what ends normally is in Q.                      *)
Quietly(Q) == {q \in Triple : q[2].how \notin Exceptions /\ (q[2].how = "normal" => q \in Q)}

(* What is left of a try statement at its finally block, at its except     *)
(* block i, and at the end of its body.                                    *)
Ending(prog, s, Q) == BeforeTask(prog, Do(s.finally), Quietly(Q))
Catching(prog, s, Q, i) == BeforeTask(prog, Do(s.excepts[i].body), Quietly(Ending(prog, s, Q)))
Trying(prog, s, Q) ==
  {q \in Triple :
     /\ q[2].how = "normal" => q \in Ending(prog, s, Q)
     /\ q[2].how \in Exceptions => \E i :
          /\ Catches(s, i, q[2].how)
          /\ <<q[1], Leaving(q[2], "normal"), q[3]>> \in Catching(prog, s, Q, i)}

LEMMA TryEnds ==
  ASSUME NEW prog, NEW s, NEW env \in Env, env.how = "normal", NEW e \in SUBSET Exceptions,
         NEW r, NEW end \in Env, NEW Q \in SUBSET Triple,
         EndsWith(prog, s, env, r), <<e, r, end>> \in Q
  PROVE  <<e, env, end>> \in Ending(prog, s, Q)
<1>1. PICK final \in Env : /\ Finishes(prog, Do(s.finally), env, final)
                           /\ final.how \notin Exceptions
                           /\ final.how = "normal" => r = final
  BY DEF EndsWith
<1> DEFINE q == <<e, final, end>>
<1>2. q \in Triple /\ q[2] = final
  BY DEF Triple
<1>3. final.how = "normal" => q \in Q
  BY <1>1
<1> HIDE DEF q
<1>4. q \in Quietly(Q)
  BY <1>1, <1>2, <1>3 DEF Quietly
<1> DEFINE p == <<e, env, end>>
<1>5. p \in Triple /\ p[1] = e /\ p[2] = env /\ p[3] = end
  BY DEF Triple
<1> HIDE DEF p
<1>6. <<p[1], final, p[3]>> \in Quietly(Q)
  BY <1>4, <1>5 DEF q
<1>7. p \in Ending(prog, s, Q)
  BY <1>1, <1>5, <1>6 DEF Ending, BeforeTask
<1>8. QED
  BY <1>7 DEF p

LEMMA TryGoesOn ==
  ASSUME NEW prog \in Programs, NEW s \in AnyStatement, s.kind = "try", HandlesAt(prog, s),
         NEW Q \in SUBSET Triple
  PROVE  Before(prog, s, Q) \subseteq BeforeTask(prog, Do(s.body), Trying(prog, s, Q))
<1>1. ASSUME NEW q \in Before(prog, s, Q) PROVE q \in BeforeTask(prog, Do(s.body), Trying(prog, s, Q))
  <2> DEFINE e == q[1]
             env == q[2]
             end == q[3]
  <2>1. /\ e \in SUBSET Exceptions /\ env \in Env /\ end \in Env /\ env.how = "normal" /\ q \in Triple
    BY BeforeIs
  <2>2. PICK r : Does(prog, s, env, r) /\ <<e, r, end>> \in Q
    BY BeforeIs
  <2> HIDE DEF e, env, end
  <2>3. PICK b \in Env :
           /\ Finishes(prog, Do(s.body), env, b)
           /\ b.how = "normal" => EndsWith(prog, s, b, r)
           /\ b.how \in Exceptions => \E i : \E h \in Env :
                /\ Catches(s, i, b.how)
                /\ Finishes(prog, Do(s.excepts[i].body), Leaving(b, "normal"), h)
                /\ h.how \notin Exceptions
                /\ h.how = "normal" => EndsWith(prog, s, h, r)
    BY <2>1, <2>2, DoesTry
  <2> DEFINE p == <<e, b, end>>
  <2>4. p \in Triple /\ p[1] = e /\ p[2] = b /\ p[3] = end
    BY <2>1 DEF Triple
  <2>5. b.how = "normal" => p \in Ending(prog, s, Q)
    BY <2>1, <2>2, <2>3, TryEnds
  <2>6. ASSUME b.how \in Exceptions
        PROVE  \E i : /\ Catches(s, i, b.how)
                      /\ <<e, Leaving(b, "normal"), end>> \in Catching(prog, s, Q, i)
    <3>1. PICK i : \E h \in Env :
                /\ Catches(s, i, b.how)
                /\ Finishes(prog, Do(s.excepts[i].body), Leaving(b, "normal"), h)
                /\ h.how \notin Exceptions
                /\ h.how = "normal" => EndsWith(prog, s, h, r)
      BY <2>3, <2>6
    <3>2. PICK h \in Env :
                /\ Catches(s, i, b.how)
                /\ Finishes(prog, Do(s.excepts[i].body), Leaving(b, "normal"), h)
                /\ h.how \notin Exceptions
                /\ h.how = "normal" => EndsWith(prog, s, h, r)
      BY <3>1
    <3> DEFINE d == Leaving(b, "normal")
               x == <<e, h, end>>
               y == <<e, d, end>>
    <3>3. d \in Env /\ d.how = "normal"
      BY LeavingIn DEF How, Departures
    <3>4. x \in Triple /\ x[2] = h
      BY <2>1, <3>2 DEF Triple
    <3>5. h.how = "normal" => x \in Ending(prog, s, Q)
      BY <2>1, <2>2, <3>2, TryEnds
    <3> HIDE DEF x, d
    <3>6. x \in Quietly(Ending(prog, s, Q))
      BY <3>2, <3>4, <3>5 DEF Quietly
    <3>7. y \in Triple /\ y[1] = e /\ y[2] = d /\ y[3] = end
      BY <2>1, <3>3 DEF Triple
    <3> HIDE DEF y
    <3>8. <<y[1], h, y[3]>> \in Quietly(Ending(prog, s, Q)) /\ Finishes(prog, Do(s.excepts[i].body), y[2], h)
      BY <3>2, <3>6, <3>7 DEF x, d
    <3>9. y \in Catching(prog, s, Q, i)
      BY <3>3, <3>7, <3>8 DEF Catching, BeforeTask
    <3>10. QED
      BY <3>2, <3>9 DEF y, d
  <2> HIDE DEF p
  <2>7. p \in Trying(prog, s, Q)
    BY <2>4, <2>5, <2>6 DEF Trying
  <2>8. <<q[1], b, q[3]>> \in Trying(prog, s, Q) /\ Finishes(prog, Do(s.body), q[2], b)
    BY <2>3, <2>7 DEF p, e, env, end
  <2>9. q[2].how = "normal" /\ q \in Triple
    BY <2>1 DEF env
  <2>10. QED
    BY <2>8, <2>9 DEF BeforeTask
<1>2. QED
  BY <1>1

(* The scope inside a try statement, and one that remembers already.       *)
Deeper(at, h) == [mask |-> h.mask, kept |-> h.kept \cup {[old |-> Id(at, "old"), mask |-> h.mask]}]
Inner(s, at, h) == [mask |-> <<TypesOf(s)>>, kept |-> Deeper(at, h).kept]

LEMMA InnerIs ==
  ASSUME NEW s \in AnyStatement, s.kind = "try", NEW at \in Seq(Nat), NEW h \in Scope, Free(h, Region(at))
  PROVE  /\ TypesOf(s) \subseteq Exceptions
         /\ Deeper(at, h) \in Scope /\ Inner(s, at, h) \in Scope
         /\ Free(Inner(s, at, h), Inside(at, Nat))
         /\ Id(at, "old") \in IdOf /\ \A k \in h.kept : k.old # Id(at, "old")
         /\ Inner(s, at, h).mask = <<TypesOf(s)>>
<1> DEFINE old == Id(at, "old")
           e == [old |-> old, mask |-> h.mask]
<1>1. old \in IdOf /\ old.tag = "old" /\ old \in Own(at)
  BY DEF Id, IdOf, Tags, Own
<1>2. h.mask \in Mask /\ h.kept \in SUBSET Saved
  BY DEF Scope
<1>3. e \in Saved /\ e.old = old
  BY <1>1, <1>2 DEF Saved
<1>4. TypesOf(s) \subseteq Exceptions
  <2> DEFINE S == [types : SUBSET Exceptions, body : Seq(AnyStatement)]
  <2>1. s.excepts \in Seq(S)
    BY StatementParts
  <2> HIDE DEF S
  <2>2. \A i \in DOMAIN s.excepts : s.excepts[i] \in S
    BY <2>1
  <2>3. \A i \in DOMAIN s.excepts : s.excepts[i].types \subseteq Exceptions
    BY <2>2 DEF S
  <2>4. QED
    BY <2>3 DEF TypesOf
<1>5. <<TypesOf(s)>> \in Mask
  BY <1>4 DEF Mask
<1>6. old \in Region(at) /\ Inside(at, Nat) \subseteq Region(at) /\ Own(at) \cap Inside(at, Nat) = {}
  BY <1>1, OwnApart DEF Region
<1> HIDE DEF old, e
<1> DEFINE K == h.kept \cup {e}
<1>7. K \in SUBSET Saved
  BY <1>2, <1>3
<1>8. \A k \in K : k.old \notin Inside(at, Nat)
  BY <1>1, <1>3, <1>6 DEF Free
<1>9. Deeper(at, h) = [mask |-> h.mask, kept |-> K] /\ Inner(s, at, h) = [mask |-> <<TypesOf(s)>>, kept |-> K]
  BY DEF Deeper, Inner, e, old
<1> HIDE DEF K
<1>10. Deeper(at, h) \in Scope /\ Inner(s, at, h) \in Scope /\ Free(Inner(s, at, h), Inside(at, Nat))
  BY <1>2, <1>5, <1>7, <1>8, <1>9 DEF Scope, Free
<1>11. \A k \in h.kept : k.old # old
  BY <1>6 DEF Free
<1>12. QED
  BY <1>1, <1>4, <1>9, <1>10, <1>11 DEF old

(* What surrounds the blocks of a try statement.                           *)
LEMMA TryAccepts ==
  ASSUME NEW s \in AnyStatement, s.kind = "try", NEW place \in Place, NEW at \in Seq(Nat),
         NEW ctx \in Context, NEW h \in Scope, NEW G, NEW X,
         <<<<"label", Id(at, "excepts")>>, X>> \in G,
         NEW R, \A q \in Thrown(R) : \E i : Catches(s, i, q[2].how),
         At(Inner(s, at, h), Thrown(R)) \subseteq X
  PROVE  Accepts(G, TryContext(at, ctx), Within(s, place), Inner(s, at, h), R)
<1> DEFINE inner == TryContext(at, ctx)
           around == Within(s, place)
           g == Inner(s, at, h)
<1>1. Id(at, "excepts") \in IdOf
  BY DEF Id, IdOf, Tags
<1>2. inner \in Context /\ inner.inTry = TRUE /\ inner.excepts = Id(at, "excepts")
  BY <1>1 DEF Context, TryContext
<1>3. around = [loop |-> IF place.loop = "none" THEN "none" ELSE "outside", inTry |-> TRUE]
  BY DEF Within
<1>4. around \in Place /\ around.inTry = TRUE /\ around.loop # "here"
  BY <1>3 DEF Place
<1>5. g.mask = <<TypesOf(s)>>
  BY DEF Inner
<1>6. \A q \in Thrown(R) : q[2].how \in TypesOf(s)
  BY DEF Catches, TypesOf
<1>7. g.mask # <<>> /\ g.mask[1] = TypesOf(s)
  BY <1>5
<1> HIDE DEF inner, around, g
<1>8. Throws(G, inner, g, R)
  BY <1>2, <1>6, <1>7 DEF Throws, g
<1>9. Accepts(G, inner, around, g, R)
  BY <1>2, <1>4, <1>8 DEF Accepts
<1>10. QED
  BY <1>9 DEF inner, around, g

LEMMA QuietlyIs ==
  ASSUME NEW Q
  PROVE  /\ Quietly(Q) \in SUBSET Triple /\ Thrown(Quietly(Q)) = {}
         /\ As(Quietly(Q), "normal") \subseteq As(Q, "normal")
         /\ \A h : At(h, Thrown(Quietly(Q))) = {}
BY DEF Quietly, Thrown, As, At

LEMMA TryingIs ==
  ASSUME NEW prog, NEW s, NEW Q
  PROVE  /\ Trying(prog, s, Q) \in SUBSET Triple
         /\ As(Trying(prog, s, Q), "normal") \subseteq Ending(prog, s, Q)
         /\ \A q \in Thrown(Trying(prog, s, Q)) : \E i :
              /\ Catches(s, i, q[2].how)
              /\ <<q[1], Leaving(q[2], "normal"), q[3]>> \in Catching(prog, s, Q, i)
BY DEF Trying, As, Thrown

(* An exception was caught that except block k catches, or a later one.    *)
Searching(prog, s, at, h, Q, k) ==
  {x \in Config :
     /\ x.m = Expected(Inner(s, at, h).mask, x.e) /\ Holding(x, Inner(s, at, h).kept)
     /\ x.env.how = "normal" /\ Id(at, "exception") \in DOMAIN x.l
     /\ \E i : /\ Catches(s, i, x.l[Id(at, "exception")]) /\ k <= i
               /\ <<x.e, x.env, x.r>> \in Catching(prog, s, Q, i)}

(* It was matched with the types of except block k. *)
Matched(prog, s, at, h, Q, k, into) ==
  {x \in Config :
     /\ into \in DOMAIN x.l /\ x.l[into] \in BOOLEAN
     /\ x.l[into] = TRUE => x \in At(Inner(s, at, h), Catching(prog, s, Q, k))
     /\ x.l[into] = FALSE => x \in Searching(prog, s, at, h, Q, k + 1)}

LEMMA MatchMeant ==
  ASSUME NEW prog \in Programs, NEW s \in AnyStatement, s.kind = "try", NEW at \in Seq(Nat),
         NEW h \in Scope, Inner(s, at, h) \in Scope, NEW Q, NEW F, NEW k \in DOMAIN s.excepts,
         NEW into \in IdOf, into.tag = "value"
  PROVE  Meant(prog, <<[op |-> "match", of |-> Id(at, "exception"), types |-> s.excepts[k].types,
                        into |-> into]>>,
               {}, F, Searching(prog, s, at, h, Q, k), Matched(prog, s, at, h, Q, k, into))
<1> DEFINE exc == Id(at, "exception")
           types == s.excepts[k].types
           inst_ == [op |-> "match", of |-> exc, types |-> types, into |-> into]
           g == Inner(s, at, h)
           a == Searching(prog, s, at, h, Q, k)
           b == Matched(prog, s, at, h, Q, k, into)
<1>1. into # exc /\ exc.tag = "exception"
  BY DEF Id
<1>2. \A j \in g.kept : j.old # into
  <2>1. g.kept \in SUBSET Saved
    BY DEF Scope
  <2>2. QED
    BY <2>1 DEF Saved
<1>3. /\ inst_.op = "match" /\ inst_.of = exc /\ inst_.types = types /\ inst_.into = into
  OBVIOUS
<1>4. k \in Nat
  <2>1. s.excepts \in Seq([types : SUBSET Exceptions, body : Seq(AnyStatement)])
    BY StatementParts
  <2>2. QED
    BY <2>1
<1>5. ASSUME NEW x \in a
      PROVE  To(x, Assigned(x.l, into, x.l[exc] \in types), x.m, x.env) \in b
  <2> DEFINE v == x.l[exc] \in types
             y == To(x, Assigned(x.l, into, v), x.m, x.env)
             how == x.l[exc]
  <2>1. x \in Config /\ x.env.how = "normal" /\ exc \in DOMAIN x.l
    BY DEF Searching
  <2>2. PICK i : Catches(s, i, how) /\ k <= i /\ <<x.e, x.env, x.r>> \in Catching(prog, s, Q, i)
    BY DEF Searching
  <2>3. x \in At(g, {<<x.e, x.env, x.r>>})
    BY <2>1 DEF Searching, At
  <2>4. x.env \in Env
    BY <2>1, ConfigIs
  <2>5. v \in BOOLEAN /\ v \in Content
    BY DEF Content
  <2> DEFINE Q1 == {<<x.e, x.env, x.r>>}
             z == To(x, Assigned(x.l, into, v), x.m, x.env)
  <2>6. <<x.e, x.env, x.r>> \in Q1
    OBVIOUS
  <2>7. i \in Nat
    <3>1. i \in DOMAIN s.excepts
      BY <2>2 DEF Catches
    <3>2. s.excepts \in Seq([types : SUBSET Exceptions, body : Seq(AnyStatement)])
      BY StatementParts
    <3>3. QED
      BY <3>1, <3>2
  <2>8. z = To(x, Assigned(x.l, into, v), x.m, x.env)
    OBVIOUS
  <2>9. v <=> how \in types
    OBVIOUS
  <2> HIDE DEF v, g, exc, z, types
  <2>10. /\ z \in At(g, Q1)
        /\ z.m = x.m /\ z.e = x.e /\ z.env = x.env /\ z.r = x.r
        /\ into \in DOMAIN z.l /\ z.l[into] = v
        /\ \A j \in DOMAIN x.l : j # into => j \in DOMAIN z.l /\ z.l[j] = x.l[j]
    <3> HIDE DEF Q1
    <3>1. x \in At(g, Q1) /\ g \in Scope /\ (x.env.how = "normal" \/ x.env.how \in x.m)
      BY <2>1, <2>3 DEF Q1, g
    <3>2. QED
      BY <1>2, <2>4, <2>5, <2>6, <2>8, <3>1, AtAssigned
  <2>11. exc \in DOMAIN z.l /\ z.l[exc] = how
    BY <1>1, <2>1, <2>10
  <2>12. z \in Config
    BY <2>10 DEF At
  <2>13. ASSUME v = TRUE PROVE z \in At(g, Catching(prog, s, Q, k))
    <3>1. how \in types /\ \A j \in DOMAIN s.excepts : how \in s.excepts[j].types => i <= j
      BY <2>2, <2>9, <2>13 DEF Catches
    <3>2. i <= k
      BY <3>1 DEF types
    <3>3. i = k
      BY <1>4, <2>2, <2>7, <3>2
    <3>4. Q1 \cap Triple \subseteq Catching(prog, s, Q, k)
      BY <2>2, <3>3
    <3>5. QED
      BY <2>10, <3>4, AtMore
  <2>14. ASSUME v = FALSE PROVE z \in Searching(prog, s, at, h, Q, k + 1)
    <3>1. how \notin types /\ how \in s.excepts[i].types
      BY <2>2, <2>9, <2>14 DEF Catches
    <3>2. i # k
      BY <3>1 DEF types
    <3>3. k + 1 <= i
      BY <1>4, <2>2, <2>7, <3>2
    <3>4. z.m = Expected(g.mask, z.e) /\ Holding(z, g.kept)
      BY <2>10 DEF At
    <3>5. Catches(s, i, z.l[exc]) /\ <<z.e, z.env, z.r>> \in Catching(prog, s, Q, i) /\ z.env.how = "normal"
      BY <2>1, <2>2, <2>10, <2>11
    <3>6. QED
      BY <2>11, <2>12, <3>3, <3>4, <3>5 DEF Searching, g, exc
  <2>15. z \in b
    BY <2>5, <2>10, <2>12, <2>13, <2>14 DEF Matched, g
  <2>16. QED
    BY <2>15 DEF z, v, types
<1>6. a \in SUBSET Config /\ b \in SUBSET Config
  BY DEF Searching, Matched
<1> HIDE DEF inst_, a, b, exc, types
<1>7. ASSUME NEW M PROVE Leads(prog, inst_, a, b, M)
  BY <1>3, <1>5 DEF Leads, Lands, Goes
<1>8. Meant(prog, <<inst_>>, {}, F, a, b)
  BY <1>6, <1>7, MeantOne
<1>9. QED
  BY <1>8 DEF inst_, a, b, exc, types

(* An except block, behind which nothing is left that it catches.          *)
LEMMA HandlerMeant ==
  ASSUME NEW prog \in Programs, NEW s \in AnyStatement, s.kind = "try", NEW at \in Seq(Nat),
         NEW ctx, NEW h \in Scope, Inner(s, at, h) \in Scope, NEW Q, NEW F, NEW k \in DOMAIN s.excepts,
         NEW b, b = At(Inner(s, at, h), Ending(prog, s, Q)),
         <<<<"label", Id(at, "finally")>>, b>> \in F,
         Meant(prog, HandlerBody(s, at, ctx, k), Inside(Append(at, k + 1), Nat), F,
               At(Inner(s, at, h), Catching(prog, s, Q, k)), b)
  PROVE  Meant(prog, Handler(s, at, ctx, k), Region(Append(at, k + 1)), F,
               Searching(prog, s, at, h, Q, k), Searching(prog, s, at, h, Q, k + 1))
<1> DEFINE p == Append(at, k + 1)
           m == <<"endif", Id(p, "except")>>
           next == Searching(prog, s, at, h, Q, k + 1)
           N == {<<m, next>>}
           G == F \cup N
           T == Inside(p, Nat)
           a == Searching(prog, s, at, h, Q, k)
           d == At(Inner(s, at, h), Catching(prog, s, Q, k))
           w == Matched(prog, s, at, h, Q, k, Value(p))
           c == HandlerBody(s, at, ctx, k)
           match == <<[op |-> "match", of |-> Id(at, "exception"), types |-> s.excepts[k].types,
                       into |-> Value(p)]>>
           block == IfBlock(Id(p, "except"), Value(p), FALSE, c \o Goto(Id(at, "finally")))
<1>1. k \in Nat /\ p \in Seq(Nat)
  <2>1. s.excepts \in Seq([types : SUBSET Exceptions, body : Seq(AnyStatement)])
    BY StatementParts
  <2>2. k \in Nat
    BY <2>1
  <2>3. k + 1 \in Nat
    BY <2>2
  <2>4. QED
    BY <2>2, <2>3
<1>2. m \in MarkSet /\ m[2] \in Own(p)
  BY <1>1, OwnMark DEF Tags
<1>3. Plans(N, Own(p))
  <2> HIDE DEF m
  <2>1. QED
    BY <1>2 DEF Plans
<1>4. Value(p) \in IdOf /\ Value(p).tag = "value" /\ Value(p) # GlobalException
  BY <1>1 DEF Value, Id, IdOf, Tags, GlobalException
<1>5. <<m, next>> \in G /\ <<<<"label", Id(at, "finally")>>, b>> \in G /\ F \subseteq G
  OBVIOUS
<1>6. Meant(prog, match, {}, G, a, w)
  <2> HIDE DEF G, p
  <2>1. QED
    BY <1>4, MatchMeant
<1>7. next \in SUBSET Config /\ d \in SUBSET Config /\ b \in SUBSET Config /\ w \in SUBSET Config
  BY AtIn DEF Searching, Matched
<1>8. Meant(prog, c, T, G, d, b)
  <2>1. Meant(prog, c, T, F, d, b)
    OBVIOUS
  <2> HIDE DEF G, c, T, d
  <2>2. QED
    BY <1>5, <2>1, MeantMore
<1>9. Meant(prog, c \o Goto(Id(at, "finally")), T, G, d, next)
  <2>1. b \subseteq b
    OBVIOUS
  <2> HIDE DEF G, c, T, d, next
  <2>2. Meant(prog, Goto(Id(at, "finally")), {}, G, b, next)
    BY <1>5, <1>7, <2>1, GotoMeant
  <2>3. Meant(prog, c \o Goto(Id(at, "finally")), T \cup {}, G, d, next)
    BY <1>8, <2>2, MeantJoined
  <2>4. T \cup {} = T
    OBVIOUS
  <2>5. QED
    BY <2>3, <2>4
<1>10. \A x \in w : IF Met([op |-> "if", id |-> Id(p, "except"), on |-> Value(p), negate |-> FALSE], x)
                    THEN x \in d ELSE x \in next
  <2>1. ASSUME NEW x \in w
        PROVE  IF Met([op |-> "if", id |-> Id(p, "except"), on |-> Value(p), negate |-> FALSE], x)
               THEN x \in d ELSE x \in next
    <3> HIDE DEF p
    <3>1. /\ x.l[Value(p)] \in BOOLEAN
          /\ x.l[Value(p)] = TRUE => x \in d
          /\ x.l[Value(p)] = FALSE => x \in next
      BY DEF Matched
    <3> HIDE DEF d, next, w
    <3>2. QED
      BY <1>4, <3>1 DEF Met
  <2>2. QED
    BY <2>1
<1>11. Meant(prog, block, T, G, w, next)
  <2> DEFINE id == Id(p, "except")
             body == c \o Goto(Id(at, "finally"))
  <2>1. <<<<"endif", id>>, next>> \in G
    BY <1>5
  <2>2. \A x \in w : IF Met([op |-> "if", id |-> id, on |-> Value(p), negate |-> FALSE], x)
                    THEN x \in d ELSE x \in next
    BY <1>10
  <2>3. Meant(prog, body, T, G, d, next)
    BY <1>9
  <2> HIDE DEF G, c, T, d, next, w, p, id, body
  <2>4. Meant(prog, IfBlock(id, Value(p), FALSE, body), T, G, w, next)
    BY <1>7, <2>1, <2>2, <2>3, IfMeant
  <2>5. QED
    BY <2>4 DEF id, body
<1>12. Handler(s, at, ctx, k) = match \o block
  BY DEF Handler
<1> HIDE DEF G, T, a, match, block, N, w, next
<1>13. Meant(prog, match \o block, {} \cup T, G, a, next)
  BY <1>6, <1>11, MeantJoined
<1>14. {} \cup T = T /\ T \cap Own(p) = {} /\ T \cup Own(p) = Region(p)
  BY <1>1, OwnApart DEF T, Region
<1>15. Meant(prog, match \o block, T, F \cup N, a, next)
  BY <1>13, <1>14 DEF G
<1>16. Meant(prog, match \o block, T \cup Own(p), F, a, next)
  BY <1>3, <1>14, <1>15, MeantPlanned
<1>17. QED
  BY <1>12, <1>14, <1>16 DEF a, next

(* All except blocks: one of them catches. *)
LEMMA HandlersMeant ==
  ASSUME NEW prog \in Programs, NEW s \in AnyStatement, s.kind = "try", NEW at \in Seq(Nat),
         NEW ctx, NEW h \in Scope, Inner(s, at, h) \in Scope, NEW Q, NEW F,
         NEW b, b = At(Inner(s, at, h), Ending(prog, s, Q)),
         <<<<"label", Id(at, "finally")>>, b>> \in F,
         \A k \in DOMAIN s.excepts :
           Meant(prog, HandlerBody(s, at, ctx, k), Inside(Append(at, k + 1), Nat), F,
                 At(Inner(s, at, h), Catching(prog, s, Q, k)), b)
  PROVE  Meant(prog, Handlers(s, at, ctx), Inside(at, Nat \ {0, 1}), F,
               Searching(prog, s, at, h, Q, 1), {})
<1> DEFINE n == Len(s.excepts)
           seqs == [i \in DOMAIN s.excepts |-> Handler(s, at, ctx, i)]
           T == [i \in 1 .. n |-> Region(Append(at, i + 1))]
           G == [i \in 1 .. n + 1 |-> Searching(prog, s, at, h, Q, i)]
           rest == Nat \ {0, 1}
<1>1. n \in Nat /\ DOMAIN s.excepts = 1 .. n
  <2>1. s.excepts \in Seq([types : SUBSET Exceptions, body : Seq(AnyStatement)])
    BY StatementParts
  <2>2. QED
    BY <2>1
<1> HIDE DEF n
<1>2. \A i \in 1 .. n : /\ i \in Nat /\ i + 1 \in Nat /\ i \in 1 .. n + 1 /\ i + 1 \in 1 .. n + 1
                        /\ {i + 1} \subseteq rest /\ {i + 1} \subseteq Nat
  BY <1>1
<1>3. \A i \in 1 .. n : T[i] \subseteq Inside(at, {i + 1}) /\ Inside(at, {i + 1}) \subseteq Inside(at, rest)
  <2> HIDE DEF rest
  <2>1. TAKE i \in 1 .. n
  <2>2. i + 1 \in Nat /\ {i + 1} \subseteq rest
    BY <1>2
  <2>3. Region(Append(at, i + 1)) \subseteq Inside(at, {i + 1})
    BY <2>2, RegionInside
  <2>4. Inside(at, {i + 1}) \subseteq Inside(at, rest)
    BY <2>2, InsideParts
  <2>5. QED
    BY <2>3, <2>4
<1>4. \A k, l \in 1 .. n : k # l => T[k] \cap T[l] = {}
  <2>1. ASSUME NEW k \in 1 .. n, NEW l \in 1 .. n, k # l PROVE T[k] \cap T[l] = {}
    <3>1. {k + 1} \cap {l + 1} = {}
      BY <1>1, <2>1
    <3> DEFINE i == {k + 1}
               j == {l + 1}
    <3>2. i \cap j = {} /\ T[k] \subseteq Inside(at, i) /\ T[l] \subseteq Inside(at, j)
      BY <1>3, <3>1
    <3> HIDE DEF T, i, j
    <3>3. Inside(at, i) \cap Inside(at, j) = {}
      BY <3>2, InsideParts
    <3>4. QED
      BY <3>2, <3>3
  <2>2. QED
    BY <2>1
<1>5. G[1] = Searching(prog, s, at, h, Q, 1) /\ G[1] \in SUBSET Config
  <2>1. 1 \in 1 .. n + 1
    BY <1>1
  <2>2. QED
    BY <2>1 DEF Searching
<1>6. G[n + 1] = {}
  <2>1. n + 1 \in 1 .. n + 1
    BY <1>1
  <2>2. \A i, how : Catches(s, i, how) => ~(n + 1 <= i)
    BY <1>1 DEF Catches
  <2>3. Searching(prog, s, at, h, Q, n + 1) = {}
    BY <2>2 DEF Searching
  <2>4. QED
    BY <2>1, <2>3
<1>7. ASSUME NEW i \in 1 .. n PROVE Meant(prog, seqs[i], T[i], F, G[i], G[i + 1])
  <2>1. /\ seqs[i] = Handler(s, at, ctx, i) /\ T[i] = Region(Append(at, i + 1))
        /\ G[i] = Searching(prog, s, at, h, Q, i) /\ G[i + 1] = Searching(prog, s, at, h, Q, i + 1)
        /\ i \in DOMAIN s.excepts
    BY <1>1, <1>2
  <2>2. Meant(prog, HandlerBody(s, at, ctx, i), Inside(Append(at, i + 1), Nat), F,
                 At(Inner(s, at, h), Catching(prog, s, Q, i)), b)
    BY <2>1
  <2> HIDE DEF seqs, T, G
  <2>3. QED
    BY <2>1, <2>2, HandlerMeant
<1>8. seqs = [k \in 1 .. n |-> seqs[k]] /\ DOMAIN seqs = 1 .. n
  BY <1>1
<1>9. UNION {T[k] : k \in 1 .. n} \subseteq Inside(at, rest)
  <2> HIDE DEF T, rest
  <2>1. QED
    BY <1>3
<1>10. Handlers(s, at, ctx) = FlattenSeq(seqs)
  BY DEF Handlers
<1> HIDE DEF seqs, T, G
<1>11. Chain(prog, n, seqs, T, F, G)
  BY <1>1, <1>4, <1>5, <1>7, <1>8 DEF Chain
<1>12. Meant(prog, FlattenSeq(seqs), UNION {T[k] : k \in 1 .. n}, F, G[1], G[n + 1])
  BY <1>11, MeantFlattened
<1> DEFINE U == UNION {T[k] : k \in 1 .. n}
           V == Inside(at, rest)
           c == FlattenSeq(seqs)
           g == G[1]
<1>13. U \subseteq V /\ g \subseteq g /\ F \subseteq F /\ Meant(prog, c, U, F, g, {})
  BY <1>6, <1>9, <1>12
<1> HIDE DEF U, V, c, g
<1>14. Meant(prog, c, V, F, g, {})
  BY <1>13, MeantMore
<1>15. QED
  BY <1>5, <1>10, <1>14 DEF V, c, g

(* The instructions with which a try statement begins and ends. *)
LEMMA SaveMeant ==
  ASSUME NEW prog, NEW at \in Seq(Nat), NEW h \in Scope, Deeper(at, h) \in Scope,
         Id(at, "old") \in IdOf, \A k \in h.kept : k.old # Id(at, "old"),
         NEW Q0, \A q \in Q0 : q[2].how = "normal", NEW F
  PROVE  Meant(prog, <<[op |-> "save", into |-> Id(at, "old")]>>, {}, F,
               At(h, Q0), At(Deeper(at, h), Q0))
<1> DEFINE old == Id(at, "old")
           inst_ == [op |-> "save", into |-> old]
           g == Deeper(at, h)
           a == At(h, Q0)
           b == At(g, Q0)
<1>1. inst_.op = "save" /\ inst_.into = old
  OBVIOUS
<1>2. g.mask = h.mask /\ \A k \in g.kept : k \in h.kept \/ (k.old = old /\ k.mask = h.mask)
  BY DEF Deeper
<1> HIDE DEF old, inst_, g
<1>3. ASSUME NEW x \in a PROVE To(x, Assigned(x.l, old, x.m), x.m, x.env) \in b
  <2> DEFINE v == x.m
             y == To(x, Assigned(x.l, old, v), x.m, x.env)
  <2>1. /\ x \in Config /\ x.m = Expected(h.mask, x.e) /\ Holding(x, h.kept)
        /\ <<x.e, x.env, x.r>> \in Q0
    BY DEF At
  <2>2. x.env.how = "normal"
    <3> DEFINE q == <<x.e, x.env, x.r>>
    <3>1. q \in Q0 /\ q[2] = x.env
      BY <2>1
    <3> HIDE DEF q
    <3>2. QED
      BY <3>1
  <2>3. x.env \in Env /\ v \in Content
    BY <2>1, ConfigIs DEF Content
  <2>4. y = To(x, Assigned(x.l, old, v), x.m, x.env) /\ v = x.m
    OBVIOUS
  <2>5. old \in IdOf /\ \A k \in h.kept : k.old # old
    BY DEF old
  <2> HIDE DEF v, y, b
  <2>6. x \in At(h, Q0)
    OBVIOUS
  <2> HIDE DEF a
  <2>7. /\ y \in At(h, Q0)
        /\ y.m = x.m /\ y.e = x.e /\ y.env = x.env /\ y.r = x.r
        /\ old \in DOMAIN y.l /\ y.l[old] = v
    BY <2>1, <2>2, <2>3, <2>4, <2>5, <2>6, AtAssigned
  <2>8. /\ y \in Config /\ y.m = Expected(h.mask, y.e) /\ Holding(y, h.kept)
        /\ <<y.e, y.env, y.r>> \in Q0
    BY <2>7 DEF At
  <2>9. Holding(y, g.kept)
    BY <1>2, <2>4, <2>7, <2>8 DEF Holding
  <2>10. y \in b
    BY <1>2, <2>8, <2>9 DEF At, b
  <2>11. QED
    BY <2>4, <2>10
<1>4. a \in SUBSET Config /\ b \in SUBSET Config
  BY AtIn
<1> HIDE DEF a, b
<1>5. ASSUME NEW M PROVE Leads(prog, inst_, a, b, M)
  BY <1>1, <1>3 DEF Leads, Lands, Goes
<1>6. Meant(prog, <<inst_>>, {}, F, a, b)
  BY <1>4, <1>5, MeantOne
<1>7. QED
  BY <1>6 DEF inst_, a, b, g, old

LEMMA SetMeant ==
  ASSUME NEW prog, NEW s \in AnyStatement, s.kind = "try", NEW at \in Seq(Nat), NEW h \in Scope,
         TypesOf(s) \subseteq Exceptions, NEW Q0, \A q \in Q0 : q[2].how = "normal", NEW F
  PROVE  Meant(prog, <<[op |-> "excepts", types |-> TypesOf(s)]>>, {}, F,
               At(Deeper(at, h), Q0), At(Inner(s, at, h), Q0))
<1> DEFINE inst_ == [op |-> "excepts", types |-> TypesOf(s)]
           f == Deeper(at, h)
           g == Inner(s, at, h)
           a == At(f, Q0)
           b == At(g, Q0)
           T == TypesOf(s)
<1>1. inst_.op = "excepts" /\ inst_.types = T
  OBVIOUS
<1>2. g.kept = f.kept /\ g.mask = <<T>>
  BY DEF Inner
<1>3. \A e : Expected(g.mask, e) = T
  BY <1>2 DEF Expected
<1>4. T \in SUBSET Exceptions
  OBVIOUS
<1> HIDE DEF inst_, f, g, T
<1>5. ASSUME NEW x \in a PROVE To(x, x.l, T, x.env) \in b
  <2> DEFINE y == To(x, x.l, T, x.env)
             q == <<x.e, x.env, x.r>>
  <2>1. x \in Config /\ Holding(x, f.kept) /\ q \in Q0 /\ q[2] = x.env
    BY DEF At
  <2>2. x.env \in Env /\ x.l \in Locals
    BY <2>1, ConfigIs
  <2> HIDE DEF q
  <2>3. x.env.how = "normal"
    BY <2>1
  <2>4. /\ y \in Config /\ y.l = x.l /\ y.m = T /\ y.e = x.e /\ y.env = x.env /\ y.r = x.r
    BY <1>4, <2>1, <2>2, <2>3, ToIs
  <2> HIDE DEF y
  <2>5. Holding(y, g.kept)
    BY <1>2, <2>1, <2>4 DEF Holding
  <2>6. <<y.e, y.env, y.r>> \in Q0
    BY <2>1, <2>4 DEF q
  <2>7. y \in b
    BY <1>3, <2>4, <2>5, <2>6 DEF At
  <2>8. QED
    BY <2>7 DEF y
<1>6. a \in SUBSET Config /\ b \in SUBSET Config
  BY AtIn
<1> HIDE DEF a, b
<1>7. ASSUME NEW M PROVE Leads(prog, inst_, a, b, M)
  BY <1>1, <1>5 DEF Leads, Lands, Goes
<1>8. Meant(prog, <<inst_>>, {}, F, a, b)
  BY <1>6, <1>7, MeantOne
<1>9. QED
  BY <1>8 DEF inst_, a, b, f, g, T

LEMMA RestoreMeant ==
  ASSUME NEW prog, NEW s, NEW at \in Seq(Nat), NEW h \in Scope,
         NEW Q0, \A q \in Q0 : q[2].how = "normal", NEW F
  PROVE  Meant(prog, <<[op |-> "restore", from |-> Id(at, "old")]>>, {}, F,
               At(Inner(s, at, h), Q0), At(h, Q0))
<1> DEFINE old == Id(at, "old")
           inst_ == [op |-> "restore", from |-> old]
           g == Inner(s, at, h)
           a == At(g, Q0)
           b == At(h, Q0)
           e == [old |-> old, mask |-> h.mask]
<1>1. inst_.op = "restore" /\ inst_.from = old
  OBVIOUS
<1>2. h.kept \subseteq g.kept /\ e \in g.kept /\ e.old = old /\ e.mask = h.mask
  BY DEF Inner, Deeper
<1>3. h.mask \in Mask
  BY DEF Scope
<1>4. \A d \in SUBSET Exceptions : Expected(h.mask, d) \in SUBSET Exceptions
  BY <1>3 DEF Mask, Expected
<1> HIDE DEF inst_, g, old, e
<1>5. ASSUME NEW x \in a PROVE To(x, x.l, x.l[old], x.env) \in b
  <2> DEFINE m == x.l[old]
             y == To(x, x.l, m, x.env)
             q == <<x.e, x.env, x.r>>
  <2>1. x \in Config /\ Holding(x, g.kept) /\ q \in Q0 /\ q[2] = x.env
    BY DEF At
  <2>2. x.env \in Env /\ x.l \in Locals /\ x.e \in SUBSET Exceptions
    BY <2>1, ConfigIs
  <2> HIDE DEF q
  <2>3. x.env.how = "normal"
    BY <2>1
  <2>4. m = Expected(h.mask, x.e) /\ Holding(x, h.kept)
    BY <1>2, <2>1 DEF Holding
  <2>5. m \in SUBSET Exceptions
    BY <1>4, <2>2, <2>4
  <2> HIDE DEF m
  <2>6. /\ y \in Config /\ y.l = x.l /\ y.m = m /\ y.e = x.e /\ y.env = x.env /\ y.r = x.r
    BY <2>1, <2>2, <2>3, <2>5, ToIs
  <2> HIDE DEF y
  <2>7. Holding(y, h.kept) /\ y.m = Expected(h.mask, y.e)
    BY <2>4, <2>6 DEF Holding
  <2>8. <<y.e, y.env, y.r>> \in Q0
    BY <2>1, <2>6 DEF q
  <2>9. y \in b
    BY <2>6, <2>7, <2>8 DEF At
  <2>10. QED
    BY <2>9 DEF y, m
<1>6. a \in SUBSET Config /\ b \in SUBSET Config
  BY AtIn
<1> HIDE DEF a, b
<1>7. ASSUME NEW M PROVE Leads(prog, inst_, a, b, M)
  BY <1>1, <1>5 DEF Leads, Lands, Goes
<1>8. Meant(prog, <<inst_>>, {}, F, a, b)
  BY <1>6, <1>7, MeantOne
<1>9. QED
  BY <1>8 DEF inst_, a, b, g, old

(* The exception is taken, and remembered.                                 *)
LEMMA TakeMeant ==
  ASSUME NEW prog, NEW s \in AnyStatement, s.kind = "try", NEW at \in Seq(Nat), NEW h \in Scope,
         Inner(s, at, h) \in Scope, NEW Q, NEW F
  PROVE  Meant(prog, <<[op |-> "catch", into |-> Id(at, "exception")]>>, {}, F,
               At(Inner(s, at, h), Thrown(Trying(prog, s, Q))), Searching(prog, s, at, h, Q, 1))
<1> DEFINE exc == Id(at, "exception")
           inst_ == [op |-> "catch", into |-> exc]
           g == Inner(s, at, h)
           R == Thrown(Trying(prog, s, Q))
           a == At(g, R)
           b == Searching(prog, s, at, h, Q, 1)
<1>1. inst_.op = "catch" /\ inst_.into = exc
  OBVIOUS
<1>2. exc \in IdOf /\ \A k \in g.kept : k.old # exc
  <2>1. g.kept \in SUBSET Saved
    BY DEF Scope
  <2>2. exc \in IdOf /\ exc.tag = "exception"
    BY DEF Id, IdOf, Tags
  <2> HIDE DEF exc, g
  <2>3. QED
    BY <2>1, <2>2 DEF Saved
<1>3. \A i, how : Catches(s, i, how) => 1 <= i
  <2>1. s.excepts \in Seq([types : SUBSET Exceptions, body : Seq(AnyStatement)])
    BY StatementParts
  <2>2. \A i \in DOMAIN s.excepts : i \in Nat /\ 1 <= i
    BY <2>1
  <2>3. QED
    BY <2>2 DEF Catches
<1> HIDE DEF inst_
<1>4. ASSUME NEW x \in a
      PROVE  /\ x.env.how # "normal"
             /\ To(x, Assigned(x.l, exc, x.env.how), x.m, Leaving(x.env, "normal")) \in b
  <2> DEFINE how == x.env.how
             env == Leaving(x.env, "normal")
             y == To(x, Assigned(x.l, exc, how), x.m, env)
             q == <<x.e, x.env, x.r>>
             Q1 == {<<x.e, env, x.r>>}
  <2>1. x \in Config /\ x \in At(g, R) /\ q \in R /\ q[1] = x.e /\ q[2] = x.env /\ q[3] = x.r
    BY DEF At
  <2>2. how \in Exceptions
    <3> HIDE DEF q
    <3>1. QED
      BY <2>1 DEF Thrown
  <2> HIDE DEF q
  <2>3. PICK i : Catches(s, i, how) /\ <<x.e, env, x.r>> \in Catching(prog, s, Q, i)
    BY <2>1, TryingIs
  <2>4. how # "normal" /\ how \in Content
    BY <2>2, HowsApart DEF Content
  <2>5. x.env \in Env
    BY <2>1, ConfigIs
  <2>6. env \in Env /\ env.how = "normal"
    BY <2>5, LeavingIn DEF How, Departures
  <2>7. <<x.e, env, x.r>> \in Q1 /\ y = To(x, Assigned(x.l, exc, how), x.m, env)
    OBVIOUS
  <2>8. g \in Scope
    OBVIOUS
  <2> HIDE DEF env, y, Q1, how, a, b, g, exc, R
  <2>9. /\ y \in At(g, Q1)
        /\ y.m = x.m /\ y.e = x.e /\ y.env = env /\ y.r = x.r
        /\ exc \in DOMAIN y.l /\ y.l[exc] = how
    BY <1>2, <2>1, <2>4, <2>6, <2>7, <2>8, AtAssigned
  <2>10. y \in Config /\ y.m = Expected(g.mask, y.e) /\ Holding(y, g.kept)
    BY <2>9 DEF At
  <2>11. <<y.e, y.env, y.r>> \in Catching(prog, s, Q, i) /\ Catches(s, i, y.l[exc]) /\ 1 <= i
         /\ y.env.how = "normal"
    BY <1>3, <2>3, <2>6, <2>9
  <2>12. y \in b
    BY <2>9, <2>10, <2>11 DEF Searching, b, g, exc
  <2>13. QED
    BY <2>4, <2>12 DEF y, how, env
<1>5. a \in SUBSET Config /\ b \in SUBSET Config
  BY AtIn DEF Searching
<1> HIDE DEF a, b
<1>6. ASSUME NEW M PROVE Leads(prog, inst_, a, b, M)
  BY <1>1, <1>4 DEF Leads, Lands, Goes
<1>7. Meant(prog, <<inst_>>, {}, F, a, b)
  BY <1>5, <1>6, MeantOne
<1>8. QED
  BY <1>7 DEF inst_, a, b

LEMMA CatchMeant ==
  ASSUME NEW prog, NEW s \in AnyStatement, s.kind = "try", NEW at \in Seq(Nat), NEW h \in Scope,
         Inner(s, at, h) \in Scope, NEW Q, NEW F, NEW ctx \in Context,
         NEW S, S = Searching(prog, s, at, h, Q, 1),
         <<<<"endif", Id(at, "catch")>>, S>> \in F,
         NEW X, <<<<"label", Id(at, "excepts")>>, X>> \in F
  PROVE  Meant(prog, Unsafe([op |-> "catch", into |-> Id(at, "exception")], at, TryContext(at, ctx)), {}, F,
               At(Inner(s, at, h), Thrown(Trying(prog, s, Q))), S)
<1> DEFINE take == [op |-> "catch", into |-> Id(at, "exception")]
           inner == TryContext(at, ctx)
           a == At(Inner(s, at, h), Thrown(Trying(prog, s, Q)))
           id == Id(at, "catch")
           body == Goto(Id(at, "excepts"))
           check == IfBlock(id, GlobalException, FALSE, body)
<1>1. Id(at, "excepts") \in IdOf
  BY DEF Id, IdOf, Tags
<1>2. inner.inTry = TRUE /\ inner.excepts = Id(at, "excepts")
  BY <1>1 DEF Context, TryContext
<1>3. take.op = "catch"
  OBVIOUS
<1>4. Unsafe(take, at, inner) = <<take>> \o check
  BY <1>2, <1>3 DEF Unsafe, CheckExceptions
<1>5. Meant(prog, <<take>>, {}, F, a, S)
  BY TakeMeant
<1>6. S \in SUBSET Config
  BY DEF Searching
<1>7. {} \in SUBSET Config /\ {} \subseteq X
  OBVIOUS
<1>8. Meant(prog, body, {}, F, {}, S)
  BY <1>6, <1>7, GotoMeant
<1>9. \A x \in S : IF Met([op |-> "if", id |-> id, on |-> GlobalException, negate |-> FALSE], x)
                   THEN x \in {} ELSE x \in S
  BY DEF Met, Searching
<1> HIDE DEF a, body, id
<1>10. <<<<"endif", id>>, S>> \in F
  BY DEF id
<1>11. Meant(prog, check, {}, F, S, S)
  BY <1>6, <1>7, <1>8, <1>9, <1>10, IfMeant
<1> HIDE DEF check, take
<1>12. Meant(prog, <<take>> \o check, {} \cup {}, F, a, S)
  BY <1>5, <1>11, MeantJoined
<1>13. {} \cup {} = {}
  OBVIOUS
<1>14. QED
  BY <1>4, <1>12, <1>13 DEF take, a

(* The plans for the marks of a try statement.                             *)
TryPlans(at, X, Y, S) ==
  {<<<<"label", Id(at, "excepts")>>, X>>, <<<<"label", Id(at, "finally")>>, Y>>,
   <<<<"endif", Id(at, "unraised")>>, {}>>, <<<<"endif", Id(at, "catch")>>, S>>}

LEMMA TryPlanned ==
  ASSUME NEW at \in Seq(Nat), NEW X, NEW Y, NEW S
  PROVE  Plans(TryPlans(at, X, Y, S), Own(at))
<1> DEFINE m1 == <<"label", Id(at, "excepts")>>
           m2 == <<"label", Id(at, "finally")>>
           m3 == <<"endif", Id(at, "unraised")>>
           m4 == <<"endif", Id(at, "catch")>>
           N == {<<m1, X>>, <<m2, Y>>, <<m3, {}>>, <<m4, S>>}
<1>1. /\ m1 \in MarkSet /\ m1[2] \in Own(at) /\ m2 \in MarkSet /\ m2[2] \in Own(at)
      /\ m3 \in MarkSet /\ m3[2] \in Own(at) /\ m4 \in MarkSet /\ m4[2] \in Own(at)
  BY OwnMark DEF Tags
<1>2. /\ m1[2].tag = "excepts" /\ m2[2].tag = "finally" /\ m3[2].tag = "unraised" /\ m4[2].tag = "catch"
  BY DEF Id
<1> HIDE DEF m1, m2, m3, m4
<1>3. \A f \in N : f = <<f[1], f[2]>> /\ f[1] \in MarkSet /\ f[1][2] \in Own(at)
  BY <1>1
<1>4. m1 \notin {m2, m3, m4} /\ m2 \notin {m3, m4} /\ m3 # m4
  BY <1>2
<1>5. \A f, g \in N : f[1] = g[1] => f[2] = g[2]
  <2> DEFINE plan(m) == IF m = m1 THEN X ELSE IF m = m2 THEN Y ELSE IF m = m3 THEN {} ELSE S
  <2>0. plan(m1) = X /\ plan(m2) = Y /\ plan(m3) = {} /\ plan(m4) = S
    BY <1>4
  <2> HIDE DEF plan
  <2>1. \A f \in N : f[2] = plan(f[1])
    <3>1. TAKE f \in N
    <3>2. f = <<m1, X>> \/ f = <<m2, Y>> \/ f = <<m3, {}>> \/ f = <<m4, S>>
      OBVIOUS
    <3> HIDE DEF N
    <3>3. \/ f[1] = m1 /\ f[2] = X
          \/ f[1] = m2 /\ f[2] = Y
          \/ f[1] = m3 /\ f[2] = {}
          \/ f[1] = m4 /\ f[2] = S
      BY <3>2
    <3>4. QED
      BY <2>0, <3>3
  <2> HIDE DEF plan, N
  <2>2. QED
    BY <2>1
<1>6. TryPlans(at, X, Y, S) = N
  BY DEF TryPlans, m1, m2, m3, m4
<1> HIDE DEF N
<1>7. QED
  BY <1>3, <1>5, <1>6 DEF Plans

(* A piece without marks of its own, but for those that are planned.       *)
LEMMA MeantFollowed ==
  ASSUME NEW prog, NEW c, NEW d, NEW T, NEW F, NEW a, NEW b, NEW e,
         Meant(prog, c, T, F, a, b), Meant(prog, d, {}, F, b, e)
  PROVE  Meant(prog, c \o d, T, F, a, e)
<1>1. T \cap {} = {} /\ T \cup {} = T
  OBVIOUS
<1>2. Meant(prog, c \o d, T \cup {}, F, a, e)
  BY <1>1, MeantJoined
<1>3. QED
  BY <1>1, <1>2

(* The blocks of a try statement, as they follow one another.              *)
LEMMA TryBlocksMeant ==
  ASSUME NEW prog \in Programs, NEW s \in AnyStatement, s.kind = "try", HandlesAt(prog, s),
         NEW at \in Seq(Nat), NEW ctx \in Context, NEW h \in Scope, Free(h, Region(at)),
         NEW Q \in SUBSET Triple, NEW G,
         NEW g, g = Inner(s, at, h),
         NEW X, X = At(g, Thrown(Trying(prog, s, Q))), NEW Y, Y = At(g, Ending(prog, s, Q)),
         NEW S, S = Searching(prog, s, at, h, Q, 1), TryPlans(at, X, Y, S) \subseteq G,
         NEW body, NEW handlers, NEW finally, NEW T1, NEW T2, NEW T3,
         T1 \cap T2 = {}, T1 \cap T3 = {}, T2 \cap T3 = {},
         Meant(prog, body, T1, G, At(g, BeforeTask(prog, Do(s.body), Trying(prog, s, Q))),
               At(g, As(Trying(prog, s, Q), "normal"))),
         Meant(prog, handlers, T2, G, S, {}),
         Meant(prog, finally, T3, G, Y, At(g, As(Quietly(Q), "normal")))
  PROVE  Meant(prog, TryCode(body, handlers, finally, s, at, TryContext(at, ctx)), (T1 \cup T2) \cup T3, G,
               At(h, Before(prog, s, Q)), At(h, As(Q, "normal")))
<1> DEFINE old == Id(at, "old")
           last == Id(at, "finally")
           exc == Id(at, "excepts")
           Q0 == Before(prog, s, Q)
           Qn == As(Quietly(Q), "normal")
           A0 == At(h, Q0)
           A1 == At(Deeper(at, h), Q0)
           A2 == At(g, Q0)
           A3 == At(g, As(Trying(prog, s, Q), "normal"))
           Z == At(g, Qn)
           E == At(h, As(Q, "normal"))
           save == <<[op |-> "save", into |-> old]>>
           set == <<[op |-> "excepts", types |-> TypesOf(s)]>>
           restore == <<[op |-> "restore", from |-> old]>>
           skip == IfBlock(Id(at, "unraised"), GlobalException, TRUE, Goto(last))
           catch == Unsafe([op |-> "catch", into |-> Id(at, "exception")], at, TryContext(at, ctx))
           start == <<[op |-> "save", into |-> old], [op |-> "excepts", types |-> TypesOf(s)]>>
           c1 == start \o body
           c2 == c1 \o skip
           c3 == c2 \o Label(exc)
           c4 == c3 \o catch
           c5 == c4 \o handlers
           c6 == c5 \o Label(last)
           c7 == c6 \o finally
           c8 == c7 \o restore
<1>1. /\ TypesOf(s) \subseteq Exceptions /\ Deeper(at, h) \in Scope /\ g \in Scope
      /\ Id(at, "old") \in IdOf /\ \A k \in h.kept : k.old # Id(at, "old")
  BY InnerIs
<1>2. /\ <<<<"label", exc>>, X>> \in G /\ <<<<"label", last>>, Y>> \in G
      /\ <<<<"endif", Id(at, "unraised")>>, {}>> \in G /\ <<<<"endif", Id(at, "catch")>>, S>> \in G
  BY DEF TryPlans
<1>3. \A q \in Q0 : q[2].how = "normal"
  BY BeforeIs
<1>4. \A q \in Qn : q[2].how = "normal"
  BY DEF As
<1>5. /\ A0 \in SUBSET Config /\ A1 \in SUBSET Config /\ A2 \in SUBSET Config /\ A3 \in SUBSET Config
      /\ X \in SUBSET Config /\ Y \in SUBSET Config /\ S \in SUBSET Config /\ {} \in SUBSET Config
      /\ E \in SUBSET Config
  BY AtIn DEF Searching
<1>6. Meant(prog, save, {}, G, A0, A1)
  <2> HIDE DEF Q0
  <2>1. QED
    BY <1>1, <1>3, SaveMeant
<1>7. Meant(prog, set, {}, G, A1, A2)
  <2> HIDE DEF Q0
  <2>1. QED
    BY <1>1, <1>3, SetMeant
<1>8. Meant(prog, body, T1, G, A2, A3)
  <2> DEFINE w == BeforeTask(prog, Do(s.body), Trying(prog, s, Q))
             v == At(g, w)
  <2>1. Q0 \subseteq w
    BY TryGoesOn
  <2>2. A2 \subseteq v
    <3> HIDE DEF w, Q0
    <3>1. QED
      BY <2>1, AtMore
  <2>3. Meant(prog, body, T1, G, v, A3) /\ T1 \subseteq T1 /\ G \subseteq G /\ A3 \subseteq A3
    OBVIOUS
  <2> HIDE DEF v, A2, A3
  <2>4. QED
    BY <2>2, <2>3, MeantMore
<1>9. Meant(prog, skip, {}, G, A3, {})
  <2> DEFINE id == Id(at, "unraised")
             goto == Goto(last)
  <2>1. A3 \subseteq Y
    <3>1. As(Trying(prog, s, Q), "normal") \subseteq Ending(prog, s, Q)
      BY TryingIs
    <3> DEFINE w == As(Trying(prog, s, Q), "normal")
    <3>2. w \subseteq Ending(prog, s, Q)
      BY <3>1
    <3> HIDE DEF w
    <3>3. At(g, w) \subseteq Y
      BY <3>2, AtMore
    <3>4. QED
      BY <3>3 DEF w
  <2>2. \A x \in A3 : IF Met([op |-> "if", id |-> id, on |-> GlobalException, negate |-> TRUE], x)
                      THEN x \in A3 ELSE x \in {}
    <3>1. ASSUME NEW x \in A3 PROVE x.env.how = "normal"
      <4> DEFINE q == <<x.e, x.env, x.r>>
      <4>1. q \in As(Trying(prog, s, Q), "normal") /\ q[2] = x.env
        BY DEF At
      <4> HIDE DEF q
      <4>2. QED
        BY <4>1 DEF As
    <3> HIDE DEF A3
    <3>2. QED
      BY <3>1 DEF Met
  <2> HIDE DEF A3, last, id
  <2>3. Meant(prog, goto, {}, G, A3, {})
    BY <1>2, <1>5, <2>1, GotoMeant
  <2>4. <<<<"endif", id>>, {}>> \in G
    BY <1>2 DEF id
  <2> HIDE DEF goto
  <2>5. Meant(prog, IfBlock(id, GlobalException, TRUE, goto), {}, G, A3, {})
    BY <1>5, <2>2, <2>3, <2>4, IfMeant
  <2>6. QED
    BY <2>5 DEF id, goto
<1>10. Meant(prog, Label(exc), {}, G, {}, X)
  <2>1. X \subseteq X /\ {} \subseteq X /\ {} \subseteq {} /\ G \subseteq G
    OBVIOUS
  <2> HIDE DEF exc
  <2>2. Meant(prog, Label(exc), {}, G, X, X)
    BY <1>2, <1>5, <2>1, LabelMeant
  <2>3. QED
    BY <2>1, <2>2, MeantMore
<1>11. Meant(prog, catch, {}, G, X, S)
  BY <1>1, <1>2, CatchMeant
<1>12. Meant(prog, Label(last), {}, G, {}, Y)
  <2>1. Y \subseteq Y /\ {} \subseteq Y /\ {} \subseteq {} /\ G \subseteq G
    OBVIOUS
  <2> HIDE DEF last
  <2>2. Meant(prog, Label(last), {}, G, Y, Y)
    BY <1>2, <1>5, <2>1, LabelMeant
  <2>3. QED
    BY <2>1, <2>2, MeantMore
<1>13. Meant(prog, restore, {}, G, Z, E)
  <2>1. Qn \subseteq As(Q, "normal")
    BY QuietlyIs
  <2> HIDE DEF Qn
  <2>2. Meant(prog, restore, {}, G, Z, At(h, Qn))
    BY <1>4, RestoreMeant
  <2>3. At(h, Qn) \subseteq E
    BY <2>1, AtMore
  <2> DEFINE v == At(h, Qn)
  <2>4. Meant(prog, restore, {}, G, Z, v) /\ v \subseteq E /\ Z \subseteq Z /\ {} \subseteq {} /\ G \subseteq G
    BY <2>2, <2>3
  <2> HIDE DEF v, E, Z, restore
  <2>5. QED
    BY <2>4, MeantMore
<1>14. TryCode(body, handlers, finally, s, at, TryContext(at, ctx)) = c8
  BY Zenon DEF TryCode
<1>15. start = save \o set
  OBVIOUS
<1>16. Meant(prog, finally, T3, G, Y, Z) /\ Meant(prog, handlers, T2, G, S, {})
  OBVIOUS
<1> HIDE DEF A0, A1, A2, A3, Z, E, save, set, restore, skip, catch, start, last, exc
<1>17. Meant(prog, start, {}, G, A0, A2)
  <2>1. Meant(prog, save \o set, {}, G, A0, A2)
    BY <1>6, <1>7, MeantFollowed
  <2>2. QED
    BY <1>15, <2>1
<1>18. Meant(prog, c1, T1, G, A0, A3)
  <2>1. {} \cap T1 = {} /\ {} \cup T1 = T1
    OBVIOUS
  <2>2. Meant(prog, c1, {} \cup T1, G, A0, A3)
    BY <1>8, <1>17, <2>1, MeantJoined
  <2>3. QED
    BY <2>1, <2>2
<1> HIDE DEF c1
<1>19. Meant(prog, c2, T1, G, A0, {})
  BY <1>9, <1>18, MeantFollowed
<1> HIDE DEF c2
<1>20. Meant(prog, c3, T1, G, A0, X)
  BY <1>10, <1>19, MeantFollowed
<1> HIDE DEF c3
<1>21. Meant(prog, c4, T1, G, A0, S)
  BY <1>11, <1>20, MeantFollowed
<1> HIDE DEF c4
<1>22. Meant(prog, c5, T1 \cup T2, G, A0, {})
  BY <1>16, <1>21, MeantJoined
<1> HIDE DEF c5
<1>23. Meant(prog, c6, T1 \cup T2, G, A0, Y)
  BY <1>12, <1>22, MeantFollowed
<1> HIDE DEF c6
<1>24. Meant(prog, c7, (T1 \cup T2) \cup T3, G, A0, Z)
  <2>1. (T1 \cup T2) \cap T3 = {}
    OBVIOUS
  <2> DEFINE T == T1 \cup T2
  <2>2. T \cap T3 = {} /\ Meant(prog, c6, T, G, A0, Y)
    BY <1>23, <2>1
  <2> HIDE DEF T
  <2>3. Meant(prog, c7, T \cup T3, G, A0, Z)
    BY <1>16, <2>2, MeantJoined
  <2>4. QED
    BY <2>3 DEF T
<1> HIDE DEF c7
<1>25. Meant(prog, c8, (T1 \cup T2) \cup T3, G, A0, E)
  BY <1>13, <1>24, MeantFollowed
<1>26. QED
  BY <1>14, <1>25 DEF A0, E, Q0

LEMMA TryMeant ==
  ASSUME NEW prog \in Programs, NEW s \in AnyStatement, s.kind = "try", NEW place,
         MeantInside(prog, s, place), HandlesAt(prog, s),
         NEW at \in Seq(Nat), NEW ctx, NEW h \in Scope, Free(h, Region(at)),
         NEW Q \in SUBSET Triple, NEW F, Accepts(F, ctx, place, h, Q)
  PROVE  Meant(prog, CompileTry(CompileStatement, s, at, ctx), Region(at), F,
               At(h, Before(prog, s, Q)), At(h, As(Q, "normal")))
<1> DEFINE inner == TryContext(at, ctx)
           around == Within(s, place)
           g == Inner(s, at, h)
           R == Trying(prog, s, Q)
           X == At(g, Thrown(R))
           Y == At(g, Ending(prog, s, Q))
           S == Searching(prog, s, at, h, Q, 1)
           N == TryPlans(at, X, Y, S)
           G == F \cup N
           T1 == Inside(at, {1})
           T2 == Inside(at, Nat \ {0, 1})
           T3 == Inside(at, {0})
           block1 == s.body
           block0 == s.finally
           body == CompileBody(CompileStatement, block1, Append(at, 1), inner)
           handlers == Handlers(s, at, inner)
           finally == CompileBody(CompileStatement, block0, Append(at, 0), inner)
           d == TryCode(body, handlers, finally, s, at, inner)
           Q1 == Quietly(Q)
           Q2 == Quietly(Ending(prog, s, Q))
           a == At(h, Before(prog, s, Q))
           b == At(h, As(Q, "normal"))
<1>1. ctx \in Context /\ place \in Place
  BY DEF Accepts
<1>2. CompileTry(CompileStatement, s, at, ctx) = d
  BY Zenon, <1>1, TryIs
<1>3. /\ g \in Scope /\ Free(g, Inside(at, Nat))
  BY InnerIs
<1>4. Plans(N, Own(at))
  <2> HIDE DEF X, Y, S
  <2>1. QED
    BY TryPlanned
<1>5. <<<<"label", Id(at, "excepts")>>, X>> \in G /\ <<<<"label", Id(at, "finally")>>, Y>> \in G /\ N \subseteq G
  BY DEF TryPlans
<1>6. Accepts(G, inner, around, g, R)
  <2>1. \A q \in Thrown(R) : \E i : Catches(s, i, q[2].how)
    BY TryingIs
  <2>2. At(Inner(s, at, h), Thrown(R)) \subseteq X
    OBVIOUS
  <2> HIDE DEF G, X, R
  <2>3. QED
    BY <1>1, <1>5, <2>1, <2>2, TryAccepts
<1>7. \A P : Accepts(G, inner, around, g, Quietly(P))
  <2>1. TAKE P
  <2> DEFINE W == Quietly(P)
  <2>2. (\A q \in Thrown(W) : \E i : Catches(s, i, q[2].how)) /\ At(Inner(s, at, h), Thrown(W)) \subseteq X
    BY QuietlyIs
  <2> HIDE DEF G, X, W
  <2>3. Accepts(G, inner, around, g, W)
    BY <1>1, <1>5, <2>2, TryAccepts
  <2>4. QED
    BY <2>3 DEF W
<1>8. inner \in Context
  BY <1>6 DEF Accepts
<1>9. /\ block1 \in Stmts /\ block0 \in Stmts
      /\ s.excepts \in Seq([types : SUBSET Exceptions, body : Stmts])
  BY StatementParts DEF Stmts
<1>10. /\ block1 \in Blocks(s) /\ block0 \in Blocks(s)
       /\ \A i \in DOMAIN s.excepts : s.excepts[i].body \in Blocks(s)
  BY DEF Blocks
<1>11. \A i \in DOMAIN s.excepts : i + 1 \in Nat /\ s.excepts[i].body \in Stmts
  <2> DEFINE E == [types : SUBSET Exceptions, body : Stmts]
  <2>1. s.excepts \in Seq(E)
    BY <1>9
  <2> HIDE DEF E
  <2>2. \A i \in DOMAIN s.excepts : i + 1 \in Nat /\ s.excepts[i] \in E
    BY <2>1
  <2>3. QED
    BY <2>2 DEF E
<1>12. \A k \in {0, 1} : Inside(Append(at, k), Nat) \subseteq Inside(at, {k})
  BY RegionInside DEF Region
<1>13. R \in SUBSET Triple /\ Q1 \in SUBSET Triple /\ Q2 \in SUBSET Triple
  BY TryingIs, QuietlyIs
<1>14. Meant(prog, body, T1, G, At(g, BeforeTask(prog, Do(s.body), R)), At(g, As(R, "normal")))
  <2> DEFINE v == At(g, BeforeTask(prog, Do(block1), R))
             w == At(g, As(R, "normal"))
             V == Inside(Append(at, 1), Nat)
  <2>1. V \subseteq T1
    BY <1>12
  <2>2. Meant(prog, body, V, G, v, w)
    <3> HIDE DEF block1, G, R, g, inner
    <3>1. QED
      BY <1>3, <1>6, <1>8, <1>9, <1>10, <1>13, BlockMeant
  <2>3. G \subseteq G /\ v \subseteq v /\ w \subseteq w
    OBVIOUS
  <2> HIDE DEF V, T1, v, w, G, body
  <2>4. Meant(prog, body, T1, G, v, w)
    BY <2>1, <2>2, <2>3, MeantMore
  <2>5. QED
    BY <2>4 DEF v, w
<1>15. Meant(prog, finally, T3, G, Y, At(g, As(Q1, "normal")))
  <2> DEFINE v == At(g, BeforeTask(prog, Do(block0), Q1))
             w == At(g, As(Q1, "normal"))
             V == Inside(Append(at, 0), Nat)
  <2>1. V \subseteq T3
    BY <1>12
  <2>2. Meant(prog, finally, V, G, v, w)
    <3>1. Accepts(G, inner, around, g, Q1)
      BY <1>7
    <3> HIDE DEF block0, G, Q1, g, inner
    <3>2. QED
      BY <1>3, <1>8, <1>9, <1>10, <1>13, <3>1, BlockMeant
  <2>3. G \subseteq G /\ v \subseteq v /\ w \subseteq w /\ v = Y
    BY DEF Ending
  <2> HIDE DEF V, T3, v, w, G, finally, Y
  <2>4. Meant(prog, finally, T3, G, v, w)
    BY <2>1, <2>2, <2>3, MeantMore
  <2>5. QED
    BY <2>3, <2>4 DEF w
<1>16. ASSUME NEW k \in DOMAIN s.excepts
       PROVE  Meant(prog, HandlerBody(s, at, inner, k), Inside(Append(at, k + 1), Nat), G,
                    At(g, Catching(prog, s, Q, k)), Y)
  <2> DEFINE block == s.excepts[k].body
             j == k + 1
             v == At(g, BeforeTask(prog, Do(block), Q2))
             w == At(g, As(Q2, "normal"))
             V == Inside(Append(at, j), Nat)
             c == CompileBody(CompileStatement, block, Append(at, j), inner)
  <2>1. block \in Stmts /\ block \in Blocks(s) /\ j \in Nat
    BY <1>10, <1>11
  <2>2. Meant(prog, c, V, G, v, w)
    <3>1. Accepts(G, inner, around, g, Q2)
      BY <1>7
    <3> HIDE DEF block, G, Q2, g, inner, j
    <3>2. QED
      BY <1>3, <1>8, <1>13, <2>1, <3>1, BlockMeant
  <2>3. w \subseteq Y
    <3>1. As(Q2, "normal") \subseteq Ending(prog, s, Q)
      <4>1. As(Q2, "normal") \subseteq As(Ending(prog, s, Q), "normal")
        BY QuietlyIs
      <4>2. QED
        BY <4>1 DEF As
    <3> DEFINE W == As(Q2, "normal")
    <3>2. W \subseteq Ending(prog, s, Q)
      BY <3>1
    <3> HIDE DEF W
    <3>3. At(g, W) \subseteq Y
      BY <3>2, AtMore
    <3>4. QED
      BY <3>3 DEF W
  <2>4. G \subseteq G /\ v \subseteq v /\ V \subseteq V
    OBVIOUS
  <2>5. v = At(g, Catching(prog, s, Q, k)) /\ c = HandlerBody(s, at, inner, k)
    BY DEF Catching, HandlerBody
  <2> HIDE DEF V, v, w, G, c, Y
  <2>6. Meant(prog, c, V, G, v, Y)
    BY <2>2, <2>3, <2>4, MeantMore
  <2>7. QED
    BY <2>5, <2>6 DEF V
<1>17. Meant(prog, handlers, T2, G, S, {})
  <2> HIDE DEF G
  <2>1. QED
    BY <1>3, <1>5, <1>16, HandlersMeant
<1>18. T1 \cap T2 = {} /\ T1 \cap T3 = {} /\ T2 \cap T3 = {}
  <2> DEFINE rest == Nat \ {0, 1}
  <2>1. {1} \cap rest = {} /\ {1} \cap {0} = {} /\ rest \cap {0} = {}
    OBVIOUS
  <2> HIDE DEF rest
  <2>2. Inside(at, {1}) \cap Inside(at, rest) = {}
    BY <2>1, InsideParts
  <2>3. Inside(at, {1}) \cap Inside(at, {0}) = {}
    BY <2>1, InsideParts
  <2>4. Inside(at, rest) \cap Inside(at, {0}) = {}
    BY <2>1, InsideParts
  <2>5. QED
    BY <2>2, <2>3, <2>4 DEF rest
<1> DEFINE T == (T1 \cup T2) \cup T3
<1>19. T \cap Own(at) = {} /\ T \cup Own(at) \subseteq Region(at)
  <2> DEFINE rest == Nat \ {0, 1}
  <2>1. {1} \subseteq Nat /\ {0} \subseteq Nat /\ rest \subseteq Nat
    OBVIOUS
  <2> HIDE DEF rest
  <2>2. Inside(at, {1}) \subseteq Inside(at, Nat)
    BY <2>1, InsideParts
  <2>3. Inside(at, {0}) \subseteq Inside(at, Nat)
    BY <2>1, InsideParts
  <2>4. Inside(at, rest) \subseteq Inside(at, Nat)
    BY <2>1, InsideParts
  <2>5. Own(at) \cap Inside(at, Nat) = {}
    BY OwnApart
  <2>6. QED
    BY <2>2, <2>3, <2>4, <2>5 DEF rest, Region
<1>20. Meant(prog, d, T, G, a, b)
  <2>1. TryPlans(at, X, Y, S) \subseteq G
    OBVIOUS
  <2> HIDE DEF T1, T2, T3, G, body, handlers, finally
  <2>2. QED
    BY <1>1, <1>14, <1>15, <1>17, <1>18, <2>1, TryBlocksMeant
<1> HIDE DEF d, a, b, N, T
<1>21. Meant(prog, d, T \cup Own(at), F, a, b)
  <2>1. Meant(prog, d, T, F \cup N, a, b)
    BY <1>20
  <2>2. QED
    BY <1>4, <1>19, <2>1, MeantPlanned
<1> DEFINE U == T \cup Own(at)
           V == Region(at)
<1>22. U \subseteq V /\ F \subseteq F /\ a \subseteq a /\ b \subseteq b /\ Meant(prog, d, U, F, a, b)
  BY <1>19, <1>21
<1> HIDE DEF U, V
<1>23. Meant(prog, d, V, F, a, b)
  BY <1>22, MeantMore
<1>24. QED
  BY <1>2, <1>23 DEF V, a, b

-----------------------------------------------------------------------------
(* Every statement, and every function                                     *)

(* What its blocks mean is what a statement needs to mean what it should.  *)
LEMMA MeantFromInside ==
  ASSUME NEW prog \in Programs, NEW place \in Place, NEW s \in Statement[place], Contained,
         s.kind = "try" => HandlesAt(prog, s), MeantInside(prog, s, place)
  PROVE  MeantStatement(prog, s, place)
<1>1. s \in AnyStatement
  BY DEF AnyStatement
<1>2. s.kind \in {"print", "break", "continue", "return", "raise", "call", "assert",
                  "while", "for", "if", "try"}
  BY <1>1, StatementParts
<1>3. /\ s.kind = "return" => ~place.inTry
      /\ s.kind \in {"break", "continue"} => place.loop = "here"
  <2>1. s.kind \in {"break", "continue"} => place.loop # "none"
    BY ProgramsAssumption
  <2>2. QED
    BY <2>1 DEF Contained, Place
<1>4. SUFFICES ASSUME NEW at \in Seq(Nat), NEW ctx \in Context, NEW h \in Scope,
                      NEW Q \in SUBSET Triple, NEW F, Free(h, Region(at)), Accepts(F, ctx, place, h, Q)
               PROVE  Meant(prog, CompileStatement[s][at][ctx], Region(at), F,
                            At(h, Before(prog, s, Q)), At(h, As(Q, "normal")))
  BY DEF MeantStatement
<1>5. Throws(F, ctx, h, Q)
  BY <1>4 DEF Accepts
<1>6. CompileStatement[s][at][ctx] = Compile(CompileStatement, s, at, ctx)
  BY <1>1, CodeOfStatement
<1>7. CASE s.kind = "print"
  <2>1. Compile(CompileStatement, s, at, ctx) = Unsafe([op |-> "print", event |-> s.event], at, ctx)
    BY <1>7 DEF Compile
  <2>2. QED
    BY <1>1, <1>5, <1>6, <1>7, <2>1, PrintMeant
<1>8. CASE s.kind = "raise"
  <2>1. Compile(CompileStatement, s, at, ctx) = RaiseInst(s.exc, at, ctx)
    BY <1>8 DEF Compile
  <2>2. QED
    BY <1>1, <1>5, <1>6, <1>8, <2>1, RaisesMeant
<1>9. CASE s.kind = "call"
  <2>1. Compile(CompileStatement, s, at, ctx) = Unsafe([op |-> "call", fn |-> s.fn], at, ctx)
    BY <1>9 DEF Compile
  <2>2. QED
    BY <1>1, <1>5, <1>6, <1>9, <2>1, CallsMeant
<1>10. CASE s.kind = "assert"
  <2>1. Compile(CompileStatement, s, at, ctx) = CompileAssert(s, at, ctx)
    BY <1>10 DEF Compile
  <2>2. QED
    BY <1>1, <1>5, <1>6, <1>10, <2>1, AssertMeant
<1>11. CASE s.kind \in {"break", "continue", "return"}
  <2>1. /\ s.kind = "break" => Compile(CompileStatement, s, at, ctx) = LeaveLoop(ctx.loop)
        /\ s.kind = "continue" => Compile(CompileStatement, s, at, ctx) = Goto(After(ctx.loop))
        /\ s.kind = "return" => Compile(CompileStatement, s, at, ctx) = ReturnInst
    BY DEF Compile
  <2>2. /\ s.kind = "break" => Meant(prog, LeaveLoop(ctx.loop), Region(at), F,
                                      At(h, Before(prog, s, Q)), At(h, As(Q, "normal")))
        /\ s.kind = "continue" => Meant(prog, Goto(After(ctx.loop)), Region(at), F,
                                      At(h, Before(prog, s, Q)), At(h, As(Q, "normal")))
        /\ s.kind = "return" => Meant(prog, ReturnInst, Region(at), F,
                                      At(h, Before(prog, s, Q)), At(h, As(Q, "normal")))
    BY <1>1, <1>3, <1>4, <1>11, ParksMeant
  <2>3. QED
    BY <1>6, <1>11, <2>1, <2>2
<1>12. CASE s.kind = "if"
  <2>1. Compile(CompileStatement, s, at, ctx) = CompileIf(CompileStatement, s, at, ctx)
    BY <1>12 DEF Compile
  <2>2. QED
    BY <1>1, <1>4, <1>6, <1>12, <2>1, IfStatementMeant
<1>13. CASE s.kind = "while"
  <2>1. Compile(CompileStatement, s, at, ctx) = CompileWhile(CompileStatement, s, at, ctx)
    BY <1>13 DEF Compile
  <2>2. QED
    BY <1>1, <1>4, <1>6, <1>13, <2>1, WhileMeant
<1>14. CASE s.kind = "for"
  <2>1. Compile(CompileStatement, s, at, ctx) = CompileFor(CompileStatement, s, at, ctx)
    BY <1>14 DEF Compile
  <2>2. QED
    BY <1>1, <1>4, <1>6, <1>14, <2>1, ForMeant
<1>15. CASE s.kind = "try"
  <2>1. Compile(CompileStatement, s, at, ctx) = CompileTry(CompileStatement, s, at, ctx)
    BY <1>15 DEF Compile
  <2>2. QED
    BY <1>1, <1>4, <1>6, <1>15, <2>1, TryMeant
<1>16. QED
  BY <1>2, <1>7, <1>8, <1>9, <1>10, <1>11, <1>12, <1>13, <1>14, <1>15

(* The statements of a program mean what they should, however deep.        *)
LEMMA AllMeant ==
  ASSUME NEW prog \in Programs, Contained, NEW S \in SUBSET AnyStatement, BuiltOf(prog, S),
         \A s \in S : s.kind = "try" => HandlesAt(prog, s)
  PROVE  \A place \in Place : \A s \in S \cap Statement[place] : MeantStatement(prog, s, place)
<1> DEFINE N == {n \in Nat : \A place \in Place : \A s \in S \cap Statement[place] :
                               Depth[s] < n => MeantStatement(prog, s, place)}
<1>1. \A place \in Place : \A s \in Statement[place] : Depth[s] \in Nat
  BY ProgramsAssumption DEF AnyStatement
<1>2. 0 \in N
  BY <1>1
<1>3. ASSUME NEW n \in Nat, n \in N PROVE n + 1 \in N
  <2>1. SUFFICES ASSUME NEW place \in Place, NEW s \in S \cap Statement[place], Depth[s] < n + 1
                 PROVE  MeantStatement(prog, s, place)
    OBVIOUS
  <2>2. Within(s, place) \in Place
    BY DEF Within, Place
  <2>3. ASSUME NEW block \in Blocks(s), NEW k \in DOMAIN block
        PROVE  MeantStatement(prog, block[k], Within(s, place))
    <3>1. block \in Seq(Statement[Within(s, place)]) /\ Depth[block[k]] < Depth[s]
      BY ProgramsAssumption
    <3>2. block[k] \in Statement[Within(s, place)]
      BY <3>1
    <3>3. block \in Seq(S)
      BY DEF BuiltOf
    <3>4. block[k] \in S
      BY <3>3
    <3>5. Depth[block[k]] \in Nat /\ Depth[s] \in Nat
      BY <1>1, <2>2, <3>2
    <3>6. Depth[block[k]] < n
      BY <2>1, <3>1, <3>5
    <3>7. QED
      BY <1>3, <2>2, <3>2, <3>4, <3>6
  <2>4. MeantInside(prog, s, place)
    BY <2>3 DEF MeantInside
  <2>5. QED
    BY <2>4, MeantFromInside
<1> HIDE DEF N
<1>4. \A n \in Nat : n \in N
  BY <1>2, <1>3, InductionOnNat
<1>5. ASSUME NEW place \in Place, NEW s \in S \cap Statement[place] PROVE MeantStatement(prog, s, place)
  <2>1. Depth[s] \in Nat
    BY <1>1
  <2>2. Depth[s] + 1 \in N /\ Depth[s] < Depth[s] + 1
    BY <1>4, <2>1
  <2>3. QED
    BY <2>2 DEF N
<1>6. QED
  BY <1>5

(* What a call may be like where it begins: it ends as Python says, and    *)
(* its caller expects what it raises, or nobody does.                      *)
Called == {q \in Triple : /\ q[3] = q[2]
                          /\ q[2].how \in Exceptions => (q[2].how \in q[1] \/ q[1] = {})}
AtCall == [mask |-> <<>>, kept |-> {}]
Begins(prog, f) == At(AtCall, BeforeTask(prog, Do(prog[f]), Called))

(* The plans for the places of a function.                                 *)
Mapped(prog, f, c, A, M) ==
  /\ A \in [1 .. Len(c) + 1 -> SUBSET Config]
  /\ Begins(prog, f) \subseteq A[1]
  /\ \A i \in 1 .. Len(c) : Leads(prog, c[i], A[i], A[i + 1], M)

LEMMA FunctionMapped ==
  ASSUME NEW prog \in Programs, Contained, Handled(prog), NEW f \in Functions
  PROVE  \E A : \E M : Mapped(prog, f, CompileFunction(prog[f]), A, M)
<1> DEFINE stmts == prog[f]
           body == CompileBody(CompileStatement, stmts, <<>>, Outside)
           h == AtCall
<1>1. FunctionBody \in Place /\ FunctionBody.loop = "none" /\ FunctionBody.inTry = FALSE
  BY DEF FunctionBody, Place
<1>2. <<>> \in Seq(Nat)
  OBVIOUS
<1>3. /\ Outside \in Context /\ Outside.inTry = FALSE
  <2>1. Id(<<>>, "no try") \in IdOf /\ Id(<<>>, "no loop") \in IdOf
    BY <1>2 DEF Id, IdOf, Tags
  <2>2. QED
    BY <2>1 DEF Outside, Context
<1>4. h \in Scope /\ h.mask = <<>> /\ h.kept = {}
  BY DEF AtCall, Scope, Mask
<1>5. Called \in SUBSET Triple
  BY DEF Called
<1>6. Accepts({}, Outside, FunctionBody, h, Called)
  <2>1. Throws({}, Outside, h, Called)
    BY <1>3, <1>4 DEF Throws, Thrown, Called
  <2>2. \A q \in Called : q[3] = q[2]
    BY DEF Called
  <2>3. QED
    BY <1>1, <1>3, <2>1, <2>2 DEF Accepts
<1>7. Free(h, Inside(<<>>, Nat))
  BY <1>4 DEF Free
<1>8. stmts \in Stmts
  BY BodiesIn
<1>9. \A k \in DOMAIN stmts : MeantStatement(prog, stmts[k], FunctionBody)
  <2>1. PICK S \in SUBSET AnyStatement :
           /\ BuiltOf(prog, S)
           /\ \A s \in S : s.kind = "try" => HandlesAt(prog, s)
    BY DEF Handled, HandlesAt
  <2>2. stmts \in Seq(S)
    BY <2>1 DEF BuiltOf
  <2>3. stmts \in Seq(Statement[FunctionBody])
    BY ProgramsAssumption
  <2>4. \A k \in DOMAIN stmts : stmts[k] \in S \cap Statement[FunctionBody]
    BY <2>2, <2>3
  <2>5. QED
    BY <1>1, <2>1, <2>4, AllMeant
<1> HIDE DEF h
<1>10. Meant(prog, body, Inside(<<>>, Nat), {}, At(h, BeforeTask(prog, Do(stmts), Called)),
             At(h, As(Called, "normal")))
  BY <1>2, <1>3, <1>4, <1>5, <1>6, <1>7, <1>8, <1>9, BodyMeant
<1>11. Meant(prog, ReturnInst, {}, {}, At(h, As(Called, "normal")), {})
  <2>1. \A q \in As(Called, "normal") :
          /\ q[2].how # "normal" => q[3] = q[2]
          /\ q[2].how = "normal" => q[3] \in {q[2], Leaving(q[2], "return")}
    BY DEF As, Called
  <2>2. {} \in SUBSET Config
    OBVIOUS
  <2>3. QED
    BY <1>4, <2>1, <2>2, ReturnMeant
<1>12. Meant(prog, body \o ReturnInst, Inside(<<>>, Nat), {},
             At(h, BeforeTask(prog, Do(stmts), Called)), {})
  BY <1>10, <1>11, MeantFollowed
<1> DEFINE c == body \o ReturnInst
<1>13. c = CompileFunction(prog[f])
  BY DEF CompileFunction
<1> HIDE DEF c
<1>14. PICK W : \A M : Agrees(M, W, Inside(<<>>, Nat)) /\ Given(M, {})
                         => Passes(prog, c, M, At(h, BeforeTask(prog, Do(stmts), Called)), {})
  BY <1>12 DEF Meant, c
<1>15. Agrees(W, W, Inside(<<>>, Nat)) /\ Given(W, {})
  BY DEF Agrees, Given
<1>16. Passes(prog, c, W, At(h, BeforeTask(prog, Do(stmts), Called)), {})
  BY <1>14, <1>15
<1>17. PICK A \in [1 .. Len(c) + 1 -> SUBSET Config] :
          /\ At(h, BeforeTask(prog, Do(stmts), Called)) \subseteq A[1]
          /\ \A i \in 1 .. Len(c) : Leads(prog, c[i], A[i], A[i + 1], W)
  BY <1>16 DEF Passes
<1>18. Mapped(prog, f, c, A, W)
  BY <1>17 DEF Mapped, Begins, h
<1>19. QED
  BY <1>13, <1>18

-----------------------------------------------------------------------------
(* A running program, and how its calls are to end                         *)

(* The plans for the places of a function, for good.                       *)
Story(prog, f) == CHOOSE A : \E M : Mapped(prog, f, CompileFunction(prog[f]), A, M)
Told(prog, fr) == Story(prog, fr.fn)[fr.pc]

Situation(fr, m, env, r) == [l |-> fr.locals, m |-> m, e |-> fr.entered, env |-> env, r |-> r]

(* The calls of stack st, in the state of affairs env, can end as R says:  *)
(* the last goes on as planned, the others when the next one has ended,    *)
(* and what nobody in the program expects to be raised ends all of them.   *)
Ends(prog, st, ex, env, r, R) ==
  /\ R \in [1 .. Len(st) -> Env] /\ R[1] = r
  /\ Situation(st[Len(st)], ex, env, R[Len(st)]) \in Told(prog, st[Len(st)])
  /\ \A k \in 1 .. Len(st) - 1 :
       Resumes(Situation(st[k], st[k + 1].entered, R[k + 1], R[k]), R[k + 1], Told(prog, st[k]))
  /\ \A k \in 1 .. Len(st) : st[k].entered = {} /\ R[k].how \in Exceptions => R[k] = r

Explained(prog, st, ex, env, r) == \E R : Ends(prog, st, ex, env, r, R)

LEMMA SituationIs ==
  ASSUME NEW fr, NEW m, NEW env, NEW r
  PROVE  LET x == Situation(fr, m, env, r)
         IN /\ x.l = fr.locals /\ x.m = m /\ x.e = fr.entered /\ x.env = env /\ x.r = r
            /\ \A l, m2, env2, i : To(x, l, m2, env2) = Situation(FrameTo(fr, i, l), m2, env2, r)
BY DEF Situation, To, FrameTo

LEMMA ToldIs ==
  ASSUME NEW prog, NEW fr, NEW i, NEW l
  PROVE  Told(prog, FrameTo(fr, i, l)) = Story(prog, fr.fn)[i]
BY DEF Told, FrameTo

LEMMA StoryIs ==
  ASSUME NEW prog \in Programs, Contained, Handled(prog), NEW f \in Functions
  PROVE  \E M : Mapped(prog, f, CompileFunction(prog[f]), Story(prog, f), M)
BY FunctionMapped DEF Story

(* What the last call does next. *)
LEMMA GoesOn ==
  ASSUME NEW prog \in Programs, Contained, Handled(prog), NEW f \in Functions,
         NEW c, c = CompileFunction(prog[f]), IsCode(c), NEW A, A = Story(prog, f)
  PROVE  \E M : \A i \in DOMAIN c :
           /\ \A x \in A[i] : x \in Config /\ Goes(prog, c[i], x, A[i + 1], M)
           /\ Lands(c[i], A[i], A[i + 1], M)
<1>1. PICK M : Mapped(prog, f, c, A, M)
  BY StoryIs
<1>2. Len(c) \in Nat /\ DOMAIN c = 1 .. Len(c)
  BY CodeOfElements
<1>3. A \in [1 .. Len(c) + 1 -> SUBSET Config]
  BY <1>1 DEF Mapped
<1>4. ASSUME NEW i \in DOMAIN c
      PROVE  /\ \A x \in A[i] : x \in Config /\ Goes(prog, c[i], x, A[i + 1], M)
             /\ Lands(c[i], A[i], A[i + 1], M)
  <2>1. i \in 1 .. Len(c) + 1 /\ i \in 1 .. Len(c)
    BY <1>2
  <2>2. A[i] \in SUBSET Config
    BY <1>3, <2>1
  <2>3. Leads(prog, c[i], A[i], A[i + 1], M)
    BY <1>1, <2>1 DEF Mapped
  <2>4. QED
    BY <2>2, <2>3 DEF Leads
<1>5. QED
  BY <1>4

(* The last call goes on, or another takes its place that does.            *)
LEMMA EndsReplaced ==
  ASSUME NEW prog, NEW st, Len(st) \in Nat, Len(st) > 0, NEW ex, NEW env, NEW r, NEW R,
         Ends(prog, st, ex, env, r, R),
         NEW st2, Len(st2) = Len(st), \A k \in 1 .. Len(st) - 1 : st2[k] = st[k],
         st2[Len(st)].entered = st[Len(st)].entered,
         NEW ex2, NEW env2,
         Situation(st2[Len(st)], ex2, env2, R[Len(st)]) \in Told(prog, st2[Len(st)])
  PROVE  Ends(prog, st2, ex2, env2, r, R)
<1> DEFINE n == Len(st)
<1>1. \A k \in 1 .. n : k \in 1 .. n - 1 \/ k = n
  OBVIOUS
<1>2. \A k \in 1 .. n : st2[k].entered = st[k].entered
  BY <1>1
<1>3. \A k \in 1 .. n - 1 : k \in 1 .. n /\ k + 1 \in 1 .. n
  OBVIOUS
<1>4. \A k \in 1 .. n - 1 :
         Resumes(Situation(st2[k], st2[k + 1].entered, R[k + 1], R[k]), R[k + 1], Told(prog, st2[k]))
  BY <1>2, <1>3 DEF Ends
<1>5. \A k \in 1 .. n : st2[k].entered = {} /\ R[k].how \in Exceptions => R[k] = r
  BY <1>2 DEF Ends
<1> HIDE DEF n
<1>6. R \in [1 .. n -> Env] /\ R[1] = r
  BY DEF Ends, n
<1>7. Len(st2) = n /\ Situation(st2[n], ex2, env2, R[n]) \in Told(prog, st2[n])
  BY DEF n
<1>8. QED
  BY <1>4, <1>5, <1>6, <1>7 DEF Ends

(* Another call begins, which ends with r1, and the last one waits for it. *)
LEMMA EndsPushed ==
  ASSUME NEW prog, NEW st, Len(st) \in Nat, Len(st) > 0, NEW ex, NEW env, NEW r, NEW R,
         Ends(prog, st, ex, env, r, R),
         NEW st2, Len(st2) = Len(st) + 1, \A k \in 1 .. Len(st) - 1 : st2[k] = st[k],
         st2[Len(st)].entered = st[Len(st)].entered,
         NEW r1 \in Env, NEW env2,
         Resumes(Situation(st2[Len(st)], st2[Len(st) + 1].entered, r1, R[Len(st)]), r1, Told(prog, st2[Len(st)])),
         Situation(st2[Len(st) + 1], ex, env2, r1) \in Told(prog, st2[Len(st) + 1]),
         st2[Len(st) + 1].entered = {} /\ r1.how \in Exceptions => r1 = r
  PROVE  Explained(prog, st2, ex, env2, r)
<1> DEFINE n == Len(st)
           R2 == [k \in 1 .. n + 1 |-> IF k = n + 1 THEN r1 ELSE R[k]]
<1>1. /\ \A k \in 1 .. n : k \in 1 .. n - 1 \/ k = n
      /\ \A k \in 1 .. n - 1 : k \in 1 .. n /\ k + 1 \in 1 .. n
      /\ \A k \in 1 .. n + 1 : k \in 1 .. n \/ k = n + 1
      /\ n \in 1 .. n /\ 1 \in 1 .. n /\ n + 1 \in 1 .. n + 1
      /\ (n + 1) - 1 = n
  OBVIOUS
<1>2. R \in [1 .. n -> Env] /\ R[1] = r
  BY DEF Ends
<1>3. /\ R2 \in [1 .. n + 1 -> Env]
      /\ R2[n + 1] = r1 /\ \A k \in 1 .. n : R2[k] = R[k]
  BY <1>2
<1>4. \A k \in 1 .. n : st2[k].entered = st[k].entered
  BY <1>1
<1>5. \A k \in 1 .. n - 1 :
         Resumes(Situation(st[k], st[k + 1].entered, R[k + 1], R[k]), R[k + 1], Told(prog, st[k]))
  BY DEF Ends
<1>6. \A k \in 1 .. n : st[k].entered = {} /\ R[k].how \in Exceptions => R[k] = r
  BY DEF Ends
<1>7. /\ Len(st2) = n + 1
      /\ Resumes(Situation(st2[n], st2[n + 1].entered, r1, R[n]), r1, Told(prog, st2[n]))
      /\ Situation(st2[n + 1], ex, env2, r1) \in Told(prog, st2[n + 1])
      /\ \A k \in 1 .. n - 1 : st2[k] = st[k]
  OBVIOUS
<1> HIDE DEF R2, n
<1>8. \A k \in 1 .. n - 1 :
         Resumes(Situation(st2[k], st2[k + 1].entered, R2[k + 1], R2[k]), R2[k + 1], Told(prog, st2[k]))
  BY <1>1, <1>3, <1>4, <1>5, <1>7
<1>9. \A k \in 1 .. n :
         Resumes(Situation(st2[k], st2[k + 1].entered, R2[k + 1], R2[k]), R2[k + 1], Told(prog, st2[k]))
  BY <1>1, <1>3, <1>7, <1>8
<1>10. \A k \in 1 .. n + 1 : st2[k].entered = {} /\ R2[k].how \in Exceptions => R2[k] = r
  <2>1. st2[n + 1].entered = {} /\ r1.how \in Exceptions => r1 = r
    BY DEF n
  <2>2. QED
    BY <1>1, <1>3, <1>4, <1>6, <2>1
<1>11. R2[1] = r
  BY <1>1, <1>2, <1>3
<1>12. Ends(prog, st2, ex, env2, r, R2)
  BY <1>1, <1>3, <1>7, <1>9, <1>10, <1>11 DEF Ends
<1>13. QED
  BY <1>12 DEF Explained

(* The last call has ended, and the one that waited for it goes on.        *)
LEMMA EndsPopped ==
  ASSUME NEW prog, NEW st, Len(st) \in Nat, Len(st) > 1, NEW ex, NEW env, NEW r, NEW R,
         Ends(prog, st, ex, env, r, R),
         NEW st2, Len(st2) = Len(st) - 1, \A k \in 1 .. Len(st) - 1 : st2[k] = st[k],
         NEW env2,
         Situation(st[Len(st) - 1], ex, env2, R[Len(st) - 1]) \in Told(prog, st[Len(st) - 1])
  PROVE  Explained(prog, st2, ex, env2, r)
<1> DEFINE n == Len(st)
           m == n - 1
           R2 == [k \in 1 .. m |-> R[k]]
<1>1. /\ m \in Nat /\ m > 0 /\ 1 \in 1 .. m /\ m \in 1 .. m
      /\ \A k \in 1 .. m : k \in 1 .. n
      /\ \A k \in 1 .. m - 1 : k \in 1 .. m /\ k + 1 \in 1 .. m
  OBVIOUS
<1>2. R \in [1 .. n -> Env] /\ R[1] = r
  BY DEF Ends
<1>3. \A k \in 1 .. m :
         Resumes(Situation(st[k], st[k + 1].entered, R[k + 1], R[k]), R[k + 1], Told(prog, st[k]))
  BY DEF Ends
<1>4. \A k \in 1 .. n : st[k].entered = {} /\ R[k].how \in Exceptions => R[k] = r
  BY DEF Ends
<1>5. /\ Len(st2) = m /\ \A k \in 1 .. m : st2[k] = st[k]
      /\ Situation(st[m], ex, env2, R[m]) \in Told(prog, st[m])
  OBVIOUS
<1> HIDE DEF n, m
<1>6. /\ R2 \in [1 .. m -> Env] /\ \A k \in 1 .. m : R2[k] = R[k]
  BY <1>1, <1>2
<1> HIDE DEF R2
<1>7. \A k \in 1 .. m - 1 :
         Resumes(Situation(st2[k], st2[k + 1].entered, R2[k + 1], R2[k]), R2[k + 1], Told(prog, st2[k]))
  BY <1>1, <1>3, <1>5, <1>6
<1>8. \A k \in 1 .. m : st2[k].entered = {} /\ R2[k].how \in Exceptions => R2[k] = r
  BY <1>1, <1>4, <1>5, <1>6
<1>9. Situation(st2[m], ex, env2, R2[m]) \in Told(prog, st2[m])
  BY <1>1, <1>5, <1>6
<1>10. R2[1] = r
  BY <1>1, <1>2, <1>6
<1>11. Ends(prog, st2, ex, env2, r, R2)
  BY <1>5, <1>6, <1>7, <1>8, <1>9, <1>10 DEF Ends
<1>12. QED
  BY <1>11 DEF Explained

(* A call that begins is where its function begins.                        *)
LEMMA BeginsTold ==
  ASSUME NEW prog \in Programs, Contained, Handled(prog), NEW f \in Functions,
         NEW ex \in SUBSET Exceptions, NEW env \in Env, env.how = "normal",
         NEW r1, Finishes(prog, Do(prog[f]), env, r1),
         r1.how \in Exceptions => (r1.how \in ex \/ ex = {}),
         NEW fr, fr = [fn |-> f, pc |-> 1, locals |-> <<>>, entered |-> ex]
  PROVE  Situation(fr, ex, env, r1) \in Told(prog, fr)
<1> DEFINE x == Situation(fr, ex, env, r1)
           q == <<ex, env, r1>>
           p == <<ex, r1, r1>>
<1>1. fr.fn = f /\ fr.pc = 1 /\ fr.locals = <<>> /\ fr.entered = ex
  OBVIOUS
<1>2. x.l = <<>> /\ x.m = ex /\ x.e = ex /\ x.env = env /\ x.r = r1
  BY <1>1 DEF Situation
<1>3. r1 \in Env
  <2>1. prog[f] \in Stmts
    BY BodiesIn
  <2>2. Do(prog[f]) \in Task
    BY <2>1, BlockTask
  <2>3. QED
    BY <2>2, FinishesIs
<1>4. <<>> \in Locals
  <2>1. <<>> \in [{} -> Content]
    OBVIOUS
  <2>2. QED
    BY <2>1 DEF Locals
<1>5. x \in Config
  BY <1>1, <1>3, <1>4 DEF Config, Situation
<1>6. q \in Triple /\ p \in Triple
  BY <1>3 DEF Triple
<1>7. p \in Called
  BY <1>6 DEF Called
<1>8. q \in BeforeTask(prog, Do(prog[f]), Called)
  BY <1>6, <1>7 DEF BeforeTask
<1> HIDE DEF x
<1>9. x \in At(AtCall, BeforeTask(prog, Do(prog[f]), Called))
  BY <1>2, <1>5, <1>8 DEF At, AtCall, Expected, Holding
<1>10. PICK M : Mapped(prog, f, CompileFunction(prog[f]), Story(prog, f), M)
  BY StoryIs
<1>11. x \in Story(prog, f)[1]
  BY <1>9, <1>10 DEF Mapped, Begins
<1>12. QED
  BY <1>1, <1>11 DEF Told, x

-----------------------------------------------------------------------------
(* The C program does what Python means                                    *)

(* The state of affairs of the C program, as Python sees it, when tests    *)
(* are still to come.                                                      *)
Now(left, out, exc) ==
  [tests |-> left, printed |-> out, how |-> IF exc = NoException THEN "normal" ELSE exc]

(* However the tests to come turn out: if Python's program ends with r     *)
(* then, the C program can end so, or has.                                 *)
Promised(left, r) ==
  /\ left \in Seq(BOOLEAN) /\ Len(tests \o left) <= MaxTests
  /\ Finishes(program, Do(program["module"]), AtStart(tests \o left), r)

Faithful ==
  \A left, r : Promised(left, r) =>
    /\ status = "running" => Explained(program, stack, excepts, Now(left, printed, pending), r)
    /\ status = "done" => printed = r.printed /\ r.how \notin Exceptions
    /\ status = "error" => printed = r.printed /\ r.how \in Exceptions

LEMMA NowIs ==
  ASSUME NEW left, NEW out, NEW exc \in Exceptions \cup {NoException}
  PROVE  /\ Now(left, out, exc).tests = left /\ Now(left, out, exc).printed = out
         /\ exc = NoException => Now(left, out, exc).how = "normal"
         /\ exc # NoException => /\ Now(left, out, exc).how = exc
                                 /\ Now(left, out, exc).how # "normal"
         /\ \A out2 : [Now(left, out, exc) EXCEPT !.printed = out2] = Now(left, out2, exc)
         /\ \A left2 : [Now(left, out, exc) EXCEPT !.tests = left2] = Now(left2, out, exc)
         /\ \A x \in Exceptions : Leaving(Now(left, out, exc), x) = Now(left, out, x)
         /\ Leaving(Now(left, out, exc), "normal") = Now(left, out, NoException)
<1>1. exc # NoException => exc # "normal"
  BY HowsApart
<1>2. \A x \in Exceptions : x # NoException
  BY HowsApart
<1>3. \A x \in Exceptions : Leaving(Now(left, out, exc), x) = Now(left, out, x)
  <2>1. SUFFICES ASSUME NEW x \in Exceptions
                 PROVE  Leaving(Now(left, out, exc), x) = Now(left, out, x)
    OBVIOUS
  <2> DEFINE h == IF exc = NoException THEN "normal" ELSE exc
  <2>2. Now(left, out, exc) = [tests |-> left, printed |-> out, how |-> h]
    BY DEF Now
  <2>3. Now(left, out, x) = [tests |-> left, printed |-> out, how |-> x]
    BY <1>2, Zenon DEF Now
  <2> HIDE DEF h
  <2>4. QED
    BY <2>2, <2>3 DEF Leaving
<1>4. QED
  BY <1>1, <1>3 DEF Leaving, Now

(* The last call, at a place of its function. *)
LEMMA TopGoes ==
  ASSUME IInv, Contained, Handled(program), NEW env, NEW q,
         Situation(top, excepts, env, q) \in Told(program, top)
  PROVE  /\ Situation(top, excepts, env, q) \in Config
         /\ program \in Programs /\ top.fn \in Functions
         /\ \E M : /\ Goes(program, inst, Situation(top, excepts, env, q),
                           Story(program, top.fn)[top.pc + 1], M)
                   /\ \A i \in DOMAIN code[top.fn] :
                        Lands(code[top.fn][i], Story(program, top.fn)[i], Story(program, top.fn)[i + 1], M)
<1> DEFINE f == top.fn
           c == code[f]
           A == Story(program, f)
           i == top.pc
           prog == program
           x == Situation(top, excepts, env, q)
<1>1. f \in Functions /\ i \in DOMAIN c /\ prog \in Programs
  BY TopFits DEF IInv, Globals
<1>2. c = CompileFunction(prog[f])
  BY <1>1 DEF IInv, Globals
<1>3. IsCode(c)
  BY TopFits DEF IsCharted, Charted
<1>4. x \in A[i]
  BY DEF Told
<1>5. inst = c[i] /\ Handled(prog)
  BY DEF inst
<1> HIDE DEF A, prog, x
<1>6. A = Story(prog, f)
  BY DEF A, prog
<1> HIDE DEF c, i, f
<1>7. PICK M : \A j \in DOMAIN c :
           /\ \A y \in A[j] : y \in Config /\ Goes(prog, c[j], y, A[j + 1], M)
           /\ Lands(c[j], A[j], A[j + 1], M)
  BY <1>1, <1>2, <1>3, <1>5, <1>6, GoesOn
<1>8. x \in Config /\ Goes(prog, c[i], x, A[i + 1], M)
  BY <1>1, <1>4, <1>7
<1>9. \A j \in DOMAIN c : Lands(c[j], A[j], A[j + 1], M)
  BY <1>7
<1>10. QED
  BY <1>1, <1>5, <1>8, <1>9 DEF A, prog, x, c, i, f

(* Facts about the stack that has another last call. *)
LEMMA TopReplaced ==
  ASSUME IInv, NEW g
  PROVE  LET st == [stack EXCEPT ![Len(stack)] = g]
         IN /\ Len(st) = Len(stack) /\ st[Len(stack)] = g
            /\ \A k \in 1 .. Len(stack) - 1 : st[k] = stack[k]
            /\ IsCode(st)
<1> DEFINE n == Len(stack)
           st2 == [stack EXCEPT ![n] = g]
           S == Elements(stack) \cup {g}
           st == stack
<1>1. IsCode(st) /\ n > 0 /\ n = Len(st)
  BY TopFits
<1> HIDE DEF st
<1>2. n \in Nat /\ st \in Seq(S)
  BY <1>1, CodeOfElements DEF st
<1>3. n \in 1 .. n /\ g \in S
  BY <1>1, <1>2
<1> HIDE DEF S
<1>4. st2 = [st EXCEPT ![n] = g]
  BY DEF st
<1>5. /\ st2 \in Seq(S) /\ Len(st2) = n
      /\ \A j \in 1 .. n : st2[j] = IF j = n THEN g ELSE st[j]
  <2> DEFINE t == [st EXCEPT ![n] = g]
  <2> HIDE DEF n
  <2>1. /\ t \in Seq(S) /\ Len(t) = n
        /\ \A j \in 1 .. n : t[j] = IF j = n THEN g ELSE st[j]
    BY <1>1, <1>2, <1>3, ExceptSeq
  <2>2. st2 = t
    BY <1>4 DEF n
  <2>3. QED
    BY <2>1, <2>2
<1> HIDE DEF st2, n
<1>6. IsCode(st2)
  BY <1>5, SequencesAreCode
<1>7. st2[n] = g /\ \A k \in 1 .. n - 1 : k \in 1 .. n /\ st2[k] = st[k]
  BY <1>2, <1>3, <1>5
<1>8. QED
  BY <1>5, <1>6, <1>7 DEF st2, n, st

(* The last call goes on. *)
LEMMA ExplainedOn ==
  ASSUME IInv, NEW g, g.entered = top.entered, NEW ex, NEW env, NEW env2, NEW r,
         Explained(program, stack, excepts, env, r),
         \A q \in Env : Situation(top, excepts, env, q) \in Told(program, top)
                          => Situation(g, ex, env2, q) \in Told(program, g)
  PROVE  Explained(program, [stack EXCEPT ![Len(stack)] = g], ex, env2, r)
<1> DEFINE st == [stack EXCEPT ![Len(stack)] = g]
<1>1. PICK R : Ends(program, stack, excepts, env, r, R)
  BY DEF Explained
<1>2. /\ Len(stack) \in Nat /\ Len(stack) > 0
  BY TopFits
<1>3. /\ Len(st) = Len(stack) /\ st[Len(stack)] = g
      /\ \A k \in 1 .. Len(stack) - 1 : st[k] = stack[k]
  BY TopReplaced
<1>4. Situation(g, ex, env2, R[Len(stack)]) \in Told(program, g)
  <2>1. Len(stack) \in 1 .. Len(stack)
    BY <1>2
  <2>2. R[Len(stack)] \in Env /\ Situation(top, excepts, env, R[Len(stack)]) \in Told(program, top)
    BY <1>1, <2>1 DEF Ends, top
  <2>3. QED
    BY <2>2
<1> HIDE DEF st
<1> DEFINE n == Len(stack)
           stk == stack
           prog == program
           ex1 == excepts
<1>5. g.entered = stk[n].entered
  BY DEF top
<1>6. /\ st[n] = g /\ Len(st) = n /\ \A k \in 1 .. n - 1 : st[k] = stk[k]
  BY <1>3
<1>7. Ends(prog, stk, ex1, env, r, R) /\ n = Len(stk) /\ n \in Nat /\ n > 0
  BY <1>1, <1>2
<1>8. Situation(g, ex, env2, R[n]) \in Told(prog, g)
  BY <1>4
<1> HIDE DEF n, stk, prog, ex1
<1>9. Ends(prog, st, ex, env2, r, R)
  BY <1>5, <1>6, <1>7, <1>8, EndsReplaced
<1>10. QED
  BY <1>9 DEF Explained, prog, st

(* A step that stays in the last call, at another place of its function.   *)
LEMMA FaithfulOn ==
  ASSUME IInv, Contained, Handled(program), Faithful,
         status = "running", status' = "running", program' = program, tests' = tests,
         NEW i, NEW l, stack' = [stack EXCEPT ![Len(stack)] = FrameTo(top, i, l)],
         NEW ex, ex = excepts', NEW out, out = printed', NEW exc, exc = pending',
         \A left \in Seq(BOOLEAN) : \A q \in Env : \A M :
           LET x == Situation(top, excepts, Now(left, printed, pending), q)
               A == Story(program, top.fn)
           IN /\ x \in Config
              /\ Goes(program, inst, x, A[top.pc + 1], M)
              /\ \A j \in DOMAIN code[top.fn] : Lands(code[top.fn][j], A[j], A[j + 1], M)
              => To(x, l, ex, Now(left, out, exc)) \in A[i]
  PROVE  Faithful'
<1> DEFINE g == FrameTo(top, i, l)
           st == [stack EXCEPT ![Len(stack)] = g]
<1>1. g.entered = top.entered
  BY FrameParts
<1>2. ASSUME NEW left \in Seq(BOOLEAN), NEW q \in Env,
             Situation(top, excepts, Now(left, printed, pending), q) \in Told(program, top)
      PROVE  Situation(g, ex, Now(left, out, exc), q) \in Told(program, g)
  <2> DEFINE env == Now(left, printed, pending)
             env2 == Now(left, out, exc)
             x == Situation(top, excepts, env, q)
             A == Story(program, top.fn)
  <2>1. x \in Config /\ \E M : /\ Goes(program, inst, x, A[top.pc + 1], M)
                               /\ \A j \in DOMAIN code[top.fn] : Lands(code[top.fn][j], A[j], A[j + 1], M)
    BY <1>2, TopGoes
  <2>2. To(x, l, ex, env2) \in A[i]
    BY <2>1
  <2>3. To(x, l, ex, env2) = Situation(g, ex, env2, q)
    BY SituationIs
  <2>4. Told(program, g) = A[i]
    BY ToldIs
  <2>5. QED
    BY <2>2, <2>3, <2>4
<1> HIDE DEF g
<1>3. ASSUME NEW left, NEW r, Promised(left, r)
      PROVE  Explained(program, st, ex, Now(left, out, exc), r)
  <2>1. Explained(program, stack, excepts, Now(left, printed, pending), r) /\ left \in Seq(BOOLEAN)
    BY <1>3 DEF Faithful, Promised
  <2> DEFINE env == Now(left, printed, pending)
             env2 == Now(left, out, exc)
  <2>2. \A q \in Env : Situation(top, excepts, env, q) \in Told(program, top)
                         => Situation(g, ex, env2, q) \in Told(program, g)
    BY <1>2, <2>1
  <2> HIDE DEF env, env2
  <2>3. Explained(program, st, ex, env2, r)
    BY <1>1, <2>1, <2>2, ExplainedOn DEF env
  <2>4. QED
    BY <2>3 DEF env2
<1>4. \A left, r : Promised(left, r)' <=> Promised(left, r)
  BY DEF Promised
<1>5. \A left, r : Explained(program, st, ex, Now(left, out, exc), r)
                     <=> Explained(program', stack', excepts', Now(left, printed', pending'), r)
  BY DEF g
<1> HIDE DEF st
<1>6. QED
  BY <1>3, <1>4, <1>5 DEF Faithful

-----------------------------------------------------------------------------
(* Every step of the last call keeps it                                    *)

LEMMA SituationParts ==
  ASSUME NEW m, NEW env, NEW q
  PROVE  LET x == Situation(top, m, env, q)
         IN x.l = top.locals /\ x.m = m /\ x.e = top.entered /\ x.env = env /\ x.r = q
            /\ To(x, top.locals, m, env) = x
BY DEF Situation, To

LEMMA PrintFaithful == ASSUME IInv, Contained, Handled(program), Faithful, DoPrint PROVE Faithful'
<1>1. inst.op = "print" /\ status = "running" /\ pending = NoException
  BY NotUrgent DEF DoPrint, Running
<1>2. /\ program' = program /\ tests' = tests /\ status' = status /\ excepts' = excepts
      /\ pending' = pending /\ printed' = Append(printed, inst.event)
  BY DEF DoPrint
<1>3. stack' = [stack EXCEPT ![Len(stack)] = FrameTo(top, top.pc + 1, top.locals)]
  BY TopFits, JumpIs DEF DoPrint, Proceed
<1> DEFINE l == top.locals
           i == top.pc + 1
           out == Append(printed, inst.event)
<1>4. ASSUME NEW left \in Seq(BOOLEAN), NEW q \in Env, NEW b, NEW M,
             Goes(program, inst, Situation(top, excepts, Now(left, printed, pending), q), b, M)
      PROVE  To(Situation(top, excepts, Now(left, printed, pending), q), l, excepts, Now(left, out, pending)) \in b
  <2> DEFINE env == Now(left, printed, pending)
             x == Situation(top, excepts, env, q)
  <2>1. x.l = l /\ x.m = excepts /\ x.env = env
    BY SituationParts
  <2>2. [env EXCEPT !.printed = out] = Now(left, out, pending)
    <3>1. pending \in Exceptions \cup {NoException}
      BY <1>1
    <3> HIDE DEF out
    <3>2. QED
      BY <3>1, NowIs
  <2>3. env.printed = printed
    BY <1>1, NowIs
  <2> HIDE DEF x, env, l
  <2>4. To(x, x.l, x.m, [x.env EXCEPT !.printed = Append(@, inst.event)]) \in b
    BY <1>1, <1>4 DEF Goes, x, env
  <2>5. QED
    BY <2>1, <2>2, <2>3, <2>4 DEF x, env
<1> HIDE DEF l, i, out
<1>5. QED
  BY <1>1, <1>2, <1>3, <1>4, FaithfulOn DEF l, i, out

LEMMA MatchFaithful == ASSUME IInv, Contained, Handled(program), Faithful, DoMatch PROVE Faithful'
<1>1. inst.op = "match" /\ status = "running"
  BY DEF DoMatch, Running
<1>2. /\ program' = program /\ tests' = tests /\ status' = status /\ excepts' = excepts
      /\ pending' = pending /\ printed' = printed
  BY DEF DoMatch, world
<1> DEFINE l == Assigned(top.locals, inst.into, top.locals[inst.of] \in inst.types)
           i == top.pc + 1
<1>3. stack' = [stack EXCEPT ![Len(stack)] = FrameTo(top, i, l)]
  BY TopFits, SetLocalIs DEF DoMatch
<1>4. ASSUME NEW left \in Seq(BOOLEAN), NEW q \in Env, NEW b, NEW M,
             Goes(program, inst, Situation(top, excepts, Now(left, printed, pending), q), b, M)
      PROVE  To(Situation(top, excepts, Now(left, printed, pending), q), l, excepts, Now(left, printed, pending)) \in b
  <2> DEFINE env == Now(left, printed, pending)
             x == Situation(top, excepts, env, q)
  <2>1. x.l = top.locals /\ x.m = excepts /\ x.env = env
    BY SituationParts
  <2> HIDE DEF x, env, l
  <2>2. To(x, Assigned(x.l, inst.into, x.l[inst.of] \in inst.types), x.m, x.env) \in b
    BY <1>1, <1>4 DEF Goes, x, env
  <2>3. QED
    BY <2>1, <2>2 DEF x, env, l
<1> HIDE DEF l, i
<1>5. QED
  BY <1>1, <1>2, <1>3, <1>4, FaithfulOn DEF i

LEMMA SaveFaithful == ASSUME IInv, Contained, Handled(program), Faithful, SaveExcepts PROVE Faithful'
<1>1. inst.op = "save" /\ status = "running"
  BY DEF SaveExcepts, Running
<1>2. /\ program' = program /\ tests' = tests /\ status' = status /\ excepts' = excepts
      /\ pending' = pending /\ printed' = printed
  BY DEF SaveExcepts, world
<1> DEFINE l == Assigned(top.locals, inst.into, excepts)
           i == top.pc + 1
<1>3. stack' = [stack EXCEPT ![Len(stack)] = FrameTo(top, i, l)]
  BY TopFits, SetLocalIs DEF SaveExcepts
<1>4. ASSUME NEW left \in Seq(BOOLEAN), NEW q \in Env, NEW b, NEW M,
             Goes(program, inst, Situation(top, excepts, Now(left, printed, pending), q), b, M)
      PROVE  To(Situation(top, excepts, Now(left, printed, pending), q), l, excepts, Now(left, printed, pending)) \in b
  <2> DEFINE env == Now(left, printed, pending)
             x == Situation(top, excepts, env, q)
  <2>1. x.l = top.locals /\ x.m = excepts /\ x.env = env
    BY SituationParts
  <2> HIDE DEF x, env, l
  <2>2. To(x, Assigned(x.l, inst.into, x.m), x.m, x.env) \in b
    BY <1>1, <1>4 DEF Goes, x, env
  <2>3. QED
    BY <2>1, <2>2 DEF x, env, l
<1> HIDE DEF l, i
<1>5. QED
  BY <1>1, <1>2, <1>3, <1>4, FaithfulOn DEF i

LEMMA CatchFaithful == ASSUME IInv, Contained, Handled(program), Faithful, GetException PROVE Faithful'
<1>1. inst.op = "catch" /\ status = "running"
  BY DEF GetException, Running
<1>2. /\ program' = program /\ tests' = tests /\ status' = status /\ excepts' = excepts
      /\ pending' = NoException /\ printed' = printed
  BY DEF GetException, world
<1> DEFINE l == Assigned(top.locals, inst.into, pending)
           i == top.pc + 1
<1>3. stack' = [stack EXCEPT ![Len(stack)] = FrameTo(top, i, l)]
  BY TopFits, SetLocalIs DEF GetException
<1>4. ASSUME NEW left \in Seq(BOOLEAN), NEW q \in Env, NEW b, NEW M,
             Goes(program, inst, Situation(top, excepts, Now(left, printed, pending), q), b, M)
      PROVE  To(Situation(top, excepts, Now(left, printed, pending), q), l, excepts, Now(left, printed, NoException)) \in b
  <2> DEFINE env == Now(left, printed, pending)
             x == Situation(top, excepts, env, q)
  <2>1. x.l = top.locals /\ x.m = excepts /\ x.env = env
    BY SituationParts
  <2>2. pending \in Exceptions \cup {NoException}
    BY DEF IInv, Globals
  <2>3. /\ pending = NoException => env.how = "normal"
        /\ pending # NoException => env.how = pending
        /\ Leaving(env, "normal") = Now(left, printed, NoException)
    BY <2>2, NowIs
  <2> HIDE DEF x, env, l
  <2>4. /\ x.env.how # "normal"
        /\ To(x, Assigned(x.l, inst.into, x.env.how), x.m, Leaving(x.env, "normal")) \in b
    BY <1>1, <1>4 DEF Goes, x, env
  <2>5. env.how = pending
    BY <2>1, <2>3, <2>4
  <2>6. QED
    BY <2>1, <2>3, <2>4, <2>5 DEF x, env, l
<1> HIDE DEF l, i
<1>5. QED
  BY <1>1, <1>2, <1>3, <1>4, FaithfulOn DEF i

LEMMA SetFaithful == ASSUME IInv, Contained, Handled(program), Faithful, SetExcepts PROVE Faithful'
<1>1. inst.op = "excepts" /\ status = "running"
  BY DEF SetExcepts, Running
<1>2. /\ program' = program /\ tests' = tests /\ status' = status /\ excepts' = inst.types
      /\ pending' = pending /\ printed' = printed
  BY DEF SetExcepts, world
<1> DEFINE l == top.locals
           i == top.pc + 1
<1>3. stack' = [stack EXCEPT ![Len(stack)] = FrameTo(top, i, l)]
  BY TopFits, JumpIs DEF SetExcepts, Proceed
<1>4. ASSUME NEW left \in Seq(BOOLEAN), NEW q \in Env, NEW b, NEW M,
             Goes(program, inst, Situation(top, excepts, Now(left, printed, pending), q), b, M)
      PROVE  To(Situation(top, excepts, Now(left, printed, pending), q), l, inst.types, Now(left, printed, pending)) \in b
  <2> DEFINE env == Now(left, printed, pending)
             x == Situation(top, excepts, env, q)
  <2>1. x.l = top.locals /\ x.m = excepts /\ x.env = env
    BY SituationParts
  <2> HIDE DEF x, env, l
  <2>2. To(x, x.l, inst.types, x.env) \in b
    BY <1>1, <1>4 DEF Goes, x, env
  <2>3. QED
    BY <2>1, <2>2 DEF x, env, l
<1> HIDE DEF l, i
<1>5. QED
  BY <1>1, <1>2, <1>3, <1>4, FaithfulOn DEF i

LEMMA RestoreFaithful == ASSUME IInv, Contained, Handled(program), Faithful, RestoreExcepts PROVE Faithful'
<1>1. inst.op = "restore" /\ status = "running"
  BY DEF RestoreExcepts, Running
<1> DEFINE l == top.locals
           i == top.pc + 1
           ex == l[inst.from]
<1>2. /\ program' = program /\ tests' = tests /\ status' = status /\ excepts' = ex
      /\ pending' = pending /\ printed' = printed
  BY DEF RestoreExcepts, world
<1>3. stack' = [stack EXCEPT ![Len(stack)] = FrameTo(top, i, l)]
  BY TopFits, JumpIs DEF RestoreExcepts, Proceed
<1>4. ASSUME NEW left \in Seq(BOOLEAN), NEW q \in Env, NEW b, NEW M,
             Goes(program, inst, Situation(top, excepts, Now(left, printed, pending), q), b, M)
      PROVE  To(Situation(top, excepts, Now(left, printed, pending), q), l, ex, Now(left, printed, pending)) \in b
  <2> DEFINE env == Now(left, printed, pending)
             x == Situation(top, excepts, env, q)
  <2>1. x.l = top.locals /\ x.m = excepts /\ x.env = env
    BY SituationParts
  <2> HIDE DEF x, env, l
  <2>2. To(x, x.l, x.l[inst.from], x.env) \in b
    BY <1>1, <1>4 DEF Goes, x, env
  <2>3. QED
    BY <2>1, <2>2 DEF x, env, l
<1> HIDE DEF l, i, ex
<1>5. QED
  BY <1>1, <1>2, <1>3, <1>4, FaithfulOn DEF i

LEMMA PassFaithful == ASSUME IInv, Contained, Handled(program), Faithful, DoPass PROVE Faithful'
<1>1. inst.op \in {"label", "while", "endif", "iter"} /\ status = "running"
  BY DEF DoPass, Running
<1>2. /\ program' = program /\ tests' = tests /\ status' = status /\ excepts' = excepts
      /\ pending' = pending /\ printed' = printed
  BY DEF DoPass, world
<1> DEFINE l == top.locals
           i == top.pc + 1
<1>3. stack' = [stack EXCEPT ![Len(stack)] = FrameTo(top, i, l)]
  BY TopFits, JumpIs DEF DoPass, Proceed
<1>4. ASSUME NEW left \in Seq(BOOLEAN), NEW q \in Env, NEW b, NEW M,
             Goes(program, inst, Situation(top, excepts, Now(left, printed, pending), q), b, M)
      PROVE  To(Situation(top, excepts, Now(left, printed, pending), q), l, excepts, Now(left, printed, pending)) \in b
  <2> DEFINE env == Now(left, printed, pending)
             x == Situation(top, excepts, env, q)
  <2>1. To(x, l, excepts, env) = x
    BY SituationParts
  <2> HIDE DEF x, env, l
  <2>2. x \in b
    BY <1>1, <1>4 DEF Goes, x, env
  <2>3. QED
    BY <2>1, <2>2 DEF x, env
<1> HIDE DEF l, i
<1>5. QED
  BY <1>1, <1>2, <1>3, <1>4, FaithfulOn DEF i

(* A jump leads to where it is planned for. *)
LEMMA JumpFaithful ==
  ASSUME IInv, Contained, Handled(program), Faithful, status = "running", status' = status, program' = program,
         tests' = tests, excepts' = excepts, pending' = pending, printed' = printed,
         NEW op \in {"label", "while", "endif"}, NEW id, <<op, id>> \in Targets(inst),
         JumpTo(Position(op, id)),
         \A left \in Seq(BOOLEAN) : \A q \in Env : \A b, M :
           LET x == Situation(top, excepts, Now(left, printed, pending), q)
           IN Goes(program, inst, x, b, M) => x \in M[<<op, id>>]
  PROVE  Faithful'
<1> DEFINE l == top.locals
           i == Position(op, id)
           A == Story(program, top.fn)
           c == code[top.fn]
<1>1. /\ i \in DOMAIN c /\ c[i].op = op /\ c[i].id = id
      /\ stack' = [stack EXCEPT ![Len(stack)] = FrameTo(top, i, l)]
  BY Jumping
<1> HIDE DEF i
<1>2. ASSUME NEW left \in Seq(BOOLEAN), NEW q \in Env, NEW b, NEW M,
             Goes(program, inst, Situation(top, excepts, Now(left, printed, pending), q), b, M),
             \A j \in DOMAIN c : Lands(c[j], A[j], A[j + 1], M)
      PROVE  To(Situation(top, excepts, Now(left, printed, pending), q), l, excepts, Now(left, printed, pending)) \in A[i]
  <2> DEFINE env == Now(left, printed, pending)
             x == Situation(top, excepts, env, q)
             m == <<op, id>>
  <2>1. To(x, l, excepts, env) = x
    BY SituationParts
  <2>2. x \in M[m]
    BY <1>2
  <2>3. m = <<c[i].op, c[i].id>>
    BY <1>1
  <2> HIDE DEF x, m, A, l
  <2>4. M[<<c[i].op, c[i].id>>] \subseteq A[i]
    BY <1>1, <1>2 DEF Lands
  <2>5. x \in A[i]
    BY <2>2, <2>3, <2>4
  <2>6. QED
    BY <2>1, <2>5 DEF x
<1>3. status' = "running"
  OBVIOUS
<1> HIDE DEF l
<1>4. QED
  BY <1>1, <1>2, <1>3, FaithfulOn DEF c, A

LEMMA GotoFaithful == ASSUME IInv, Contained, Handled(program), Faithful, DoGoto PROVE Faithful'
<1>1. inst.op = "goto" /\ status = "running"
  BY DEF DoGoto, Running
<1>2. /\ program' = program /\ tests' = tests /\ status' = status /\ excepts' = excepts
      /\ pending' = pending /\ printed' = printed /\ JumpTo(Position("label", inst.id))
  BY DEF DoGoto, world
<1> DEFINE op == "label"
           id == inst.id
<1>3. <<op, id>> \in Targets(inst)
  BY <1>1 DEF Targets
<1>4. ASSUME NEW x, NEW b, NEW M, Goes(program, inst, x, b, M) PROVE x \in M[<<op, id>>]
  BY <1>1, <1>4 DEF Goes
<1>5. op \in {"label", "while", "endif"}
  OBVIOUS
<1>6. JumpTo(Position(op, id))
  BY <1>2
<1> HIDE DEF op, id
<1>7. QED
  BY <1>1, <1>2, <1>3, <1>4, <1>5, <1>6, JumpFaithful

LEMMA RepeatFaithful == ASSUME IInv, Contained, Handled(program), Faithful, DoRepeat PROVE Faithful'
<1>1. inst.op = "endwhile" /\ status = "running"
  BY DEF DoRepeat, Running
<1>2. /\ program' = program /\ tests' = tests /\ status' = status /\ excepts' = excepts
      /\ pending' = pending /\ printed' = printed /\ JumpTo(Position("while", inst.id))
  BY DEF DoRepeat, world
<1> DEFINE op == "while"
           id == inst.id
<1>3. <<op, id>> \in Targets(inst)
  BY <1>1 DEF Targets
<1>4. ASSUME NEW x, NEW b, NEW M, Goes(program, inst, x, b, M) PROVE x \in M[<<op, id>>]
  BY <1>1, <1>4 DEF Goes
<1>5. op \in {"label", "while", "endif"}
  OBVIOUS
<1>6. JumpTo(Position(op, id))
  BY <1>2
<1> HIDE DEF op, id
<1>7. QED
  BY <1>1, <1>2, <1>3, <1>4, <1>5, <1>6, JumpFaithful

LEMMA BreakFaithful == ASSUME IInv, Contained, Handled(program), Faithful, DoBreak PROVE Faithful'
<1>1. inst.op = "break" /\ status = "running"
  BY DEF DoBreak, Running
<1> DEFINE l == top.locals
           p == Position("endwhile", inst.id)
           i == p + 1
           A == Story(program, top.fn)
           c == code[top.fn]
<1>2. /\ program' = program /\ tests' = tests /\ status' = status /\ excepts' = excepts
      /\ pending' = pending /\ printed' = printed /\ JumpTo(i)
  BY DEF DoBreak, world
<1>3. <<"endwhile", inst.id>> \in Targets(inst)
  BY <1>1 DEF Targets
<1>4. p \in DOMAIN c /\ c[p].op = "endwhile" /\ c[p].id = inst.id
  BY <1>3, Jumping
<1> HIDE DEF p
<1>5. stack' = [stack EXCEPT ![Len(stack)] = FrameTo(top, i, l)]
  BY <1>2, TopFits, JumpIs
<1>6. ASSUME NEW left \in Seq(BOOLEAN), NEW q \in Env, NEW b, NEW M,
             Goes(program, inst, Situation(top, excepts, Now(left, printed, pending), q), b, M),
             \A j \in DOMAIN c : Lands(c[j], A[j], A[j + 1], M)
      PROVE  To(Situation(top, excepts, Now(left, printed, pending), q), l, excepts, Now(left, printed, pending)) \in A[i]
  <2> DEFINE env == Now(left, printed, pending)
             x == Situation(top, excepts, env, q)
  <2>1. To(x, l, excepts, env) = x
    BY SituationParts
  <2> HIDE DEF x, A, l
  <2>2. x \in M[<<"endwhile", inst.id>>]
    BY <1>1, <1>6 DEF Goes, x
  <2>3. M[<<"endwhile", inst.id>>] \subseteq A[i]
    BY <1>4, <1>6 DEF Lands
  <2>4. QED
    BY <2>1, <2>2, <2>3 DEF x
<1> HIDE DEF l, i
<1>7. QED
  BY <1>1, <1>2, <1>5, <1>6, FaithfulOn DEF c, A

LEMMA IfFaithful == ASSUME IInv, Contained, Handled(program), Faithful, DoIf PROVE Faithful'
<1>1. inst.op = "if" /\ status = "running"
  BY DEF DoIf, Running
<1>2. /\ program' = program /\ tests' = tests /\ status' = status /\ excepts' = excepts
      /\ pending' = pending /\ printed' = printed
  BY DEF DoIf, world
<1> DEFINE l == top.locals
           i == top.pc + 1
           X(left, q) == Situation(top, excepts, Now(left, printed, pending), q)
<1>3. ASSUME NEW left, NEW q
      PROVE  Met(inst, X(left, q)) <=> (Holds(inst.on) # inst.negate)
  <2> DEFINE env == Now(left, printed, pending)
             x == X(left, q)
  <2>1. x.l = l /\ x.env = env
    BY SituationParts
  <2>2. pending \in Exceptions \cup {NoException}
    BY DEF IInv, Globals
  <2>3. env.how # "normal" <=> pending # NoException
    BY <2>2, NowIs
  <2> HIDE DEF x, env
  <2>4. Met(inst, x) <=> ((IF inst.on = GlobalException THEN env.how # "normal" ELSE l[inst.on]) # inst.negate)
    BY <2>1 DEF Met
  <2>5. (env.how # "normal") = (pending # NoException)
    BY <2>3
  <2>6. (IF inst.on = GlobalException THEN env.how # "normal" ELSE l[inst.on]) = Holds(inst.on)
    BY <2>5 DEF Holds
  <2>7. QED
    BY <2>4, <2>6 DEF x
<1>4. CASE Holds(inst.on) # inst.negate
  <2>1. stack' = [stack EXCEPT ![Len(stack)] = FrameTo(top, i, l)]
    BY <1>4, TopFits, JumpIs DEF DoIf, Proceed
  <2>2. ASSUME NEW left \in Seq(BOOLEAN), NEW q \in Env, NEW b, NEW M, Goes(program, inst, X(left, q), b, M)
        PROVE  To(X(left, q), l, excepts, Now(left, printed, pending)) \in b
    <3> DEFINE env == Now(left, printed, pending)
               x == X(left, q)
    <3>1. To(x, l, excepts, env) = x
      BY SituationParts
    <3>2. Met(inst, x)
      BY <1>3, <1>4
    <3> HIDE DEF x, env, l
    <3>3. x \in b
      BY <1>1, <2>2, <3>2 DEF Goes, x
    <3>4. QED
      BY <3>1, <3>3 DEF x, env
  <2> HIDE DEF l, i
  <2>3. QED
    BY <1>1, <1>2, <2>1, <2>2, FaithfulOn DEF i
<1>5. CASE ~(Holds(inst.on) # inst.negate)
  <2> DEFINE op == "endif"
             id == inst.id
  <2>1. JumpTo(Position(op, id))
    BY <1>5 DEF DoIf
  <2>2. <<op, id>> \in Targets(inst)
    BY <1>1 DEF Targets
  <2>3. op \in {"label", "while", "endif"}
    OBVIOUS
  <2>4. ASSUME NEW left \in Seq(BOOLEAN), NEW q \in Env, NEW b, NEW M, Goes(program, inst, X(left, q), b, M)
        PROVE  X(left, q) \in M[<<op, id>>]
    <3> DEFINE x == X(left, q)
    <3>1. ~Met(inst, x)
      BY <1>3, <1>5
    <3> HIDE DEF x
    <3>2. QED
      BY <1>1, <2>4, <3>1 DEF Goes, x
  <2> HIDE DEF op, id
  <2>5. QED
    BY <1>1, <1>2, <2>1, <2>2, <2>3, <2>4, JumpFaithful
<1>6. QED
  BY <1>4, <1>5

-----------------------------------------------------------------------------
(* Tests, exceptions, calls and returns keep it                            *)

(* A test that comes out, among those still to come. *)
LEMMA TestComes ==
  ASSUME NEW seen \in Seq(BOOLEAN), NEW b \in BOOLEAN, NEW left \in Seq(BOOLEAN)
  PROVE  /\ <<b>> \o left \in Seq(BOOLEAN) /\ <<b>> \o left # <<>>
         /\ Head(<<b>> \o left) = b /\ Tail(<<b>> \o left) = left
         /\ Append(seen, b) \o left = seen \o (<<b>> \o left)
<1> DEFINE e == <<b>>
           t == e \o left
<1>1. e \in Seq(BOOLEAN) /\ Len(e) = 1 /\ e[1] = b
  OBVIOUS
<1>2. Append(seen, b) = seen \o e
  BY AppendIsConcat
<1> HIDE DEF e
<1>3. (seen \o e) \o left = seen \o (e \o left)
  BY <1>1, ConcatAssociative
<1>4. /\ t \in Seq(BOOLEAN) /\ Len(t) = 1 + Len(left)
      /\ \A i \in 1 .. 1 + Len(left) : t[i] = IF i <= 1 THEN e[i] ELSE left[i - 1]
  <2>1. /\ e \o left \in Seq(BOOLEAN) /\ Len(e \o left) = Len(e) + Len(left)
        /\ \A i \in 1 .. Len(e) + Len(left) :
             (e \o left)[i] = IF i <= Len(e) THEN e[i] ELSE left[i - Len(e)]
    BY <1>1, ConcatProperties
  <2> HIDE DEF t
  <2>2. t = e \o left
    BY DEF t
  <2>3. QED
    BY <1>1, <2>1, <2>2
<1> HIDE DEF t
<1>5. Len(left) \in Nat
  OBVIOUS
<1>6. t # <<>>
  BY <1>4, <1>5
<1>7. Head(t) = b
  <2>1. Head(t) = t[1]
    OBVIOUS
  <2>2. 1 \in 1 .. 1 + Len(left)
    BY <1>5
  <2>3. QED
    BY <1>1, <1>4, <2>1, <2>2
<1>8. Tail(t) = left
  <2>1. /\ Tail(t) \in Seq(BOOLEAN) /\ Len(Tail(t)) = Len(t) - 1
        /\ \A i \in 1 .. Len(Tail(t)) : Tail(t)[i] = t[i + 1]
    BY <1>4, <1>6, HeadTailProperties
  <2> DEFINE u == Tail(t)
  <2> HIDE DEF u
  <2>2. u \in Seq(BOOLEAN) /\ Len(u) = Len(left)
    BY <1>4, <1>5, <2>1 DEF u
  <2>3. \A i \in 1 .. Len(u) : u[i] = left[i]
    <3>1. SUFFICES ASSUME NEW i \in 1 .. Len(left) PROVE u[i] = left[i]
      BY <2>2
    <3>2. u[i] = t[i + 1]
      BY <2>1, <2>2, <3>1 DEF u
    <3>3. i + 1 \in 1 .. 1 + Len(left) /\ ~(i + 1 <= 1) /\ (i + 1) - 1 = i
      BY <1>5, <3>1
    <3>4. QED
      BY <1>4, <3>2, <3>3
  <2>4. QED
    BY <2>2, <2>3, SeqEqual DEF u
<1>9. QED
  BY <1>2, <1>3, <1>4, <1>6, <1>7, <1>8 DEF e, t

(* A test comes out as one that is to come does, or FALSE after the last.  *)
LEMMA TestPromised ==
  ASSUME IInv, DoTest
  PROVE  \E b : /\ SetLocal(inst.into, b)
                /\ \A left, r : Promised(left, r)' =>
                     \E all : /\ Promised(all, r) /\ left \in Seq(BOOLEAN)
                              /\ \A out : Evaluate(Test, Now(all, out, NoException))
                                   = [env |-> Now(left, out, NoException), holds |-> b]
<1>1. tests \in Seq(BOOLEAN) /\ Len(tests) \in Nat /\ Len(tests) <= MaxTests /\ MaxTests \in Nat
  BY TestsAssumption DEF IInv, Globals
<1>2. program' = program
  BY DEF DoTest
<1>3. CASE \E b \in BOOLEAN : /\ Len(tests) < MaxTests
                              /\ tests' = Append(tests, b)
                              /\ SetLocal(inst.into, b)
  <2>1. PICK b \in BOOLEAN : tests' = Append(tests, b) /\ SetLocal(inst.into, b)
    BY <1>3
  <2>2. ASSUME NEW left, NEW r, Promised(left, r)'
        PROVE  \E all : /\ Promised(all, r) /\ left \in Seq(BOOLEAN)
                        /\ \A out : Evaluate(Test, Now(all, out, NoException))
                             = [env |-> Now(left, out, NoException), holds |-> b]
    <3> DEFINE all == <<b>> \o left
               seen == tests
    <3>1. /\ left \in Seq(BOOLEAN) /\ Len(tests' \o left) <= MaxTests
          /\ Finishes(program, Do(program["module"]), AtStart(tests' \o left), r)
      BY <1>2, <2>2 DEF Promised
    <3>2. /\ all \in Seq(BOOLEAN) /\ all # <<>> /\ Head(all) = b /\ Tail(all) = left
          /\ Append(tests, b) \o left = tests \o all
      BY <1>1, <3>1, TestComes
    <3> HIDE DEF all
    <3>3. Promised(all, r)
      BY <2>1, <3>1, <3>2 DEF Promised
    <3>4. ASSUME NEW out
          PROVE  Evaluate(Test, Now(all, out, NoException))
                   = [env |-> Now(left, out, NoException), holds |-> b]
      <4> DEFINE env == Now(all, out, NoException)
      <4>1. env.tests = all /\ [env EXCEPT !.tests = left] = Now(left, out, NoException)
        BY NowIs
      <4> HIDE DEF env
      <4>2. [env EXCEPT !.tests = Tail(@)] = [env EXCEPT !.tests = left]
        BY <3>2, <4>1
      <4>3. QED
        BY <3>2, <4>1, <4>2 DEF Evaluate, env
    <3>5. QED
      BY <3>1, <3>3, <3>4
  <2>3. QED
    BY <2>1, <2>2
<1>4. CASE Len(tests) = MaxTests /\ SetLocal(inst.into, FALSE) /\ UNCHANGED tests
  <2>1. ASSUME NEW left, NEW r, Promised(left, r)'
        PROVE  \E all : /\ Promised(all, r) /\ left \in Seq(BOOLEAN)
                        /\ \A out : Evaluate(Test, Now(all, out, NoException))
                             = [env |-> Now(left, out, NoException), holds |-> FALSE]
    <3>1. Promised(left, r) /\ left \in Seq(BOOLEAN) /\ Len(tests \o left) <= MaxTests
      BY <1>2, <1>4, <2>1 DEF Promised
    <3>2. left = <<>>
      <4>1. Len(tests \o left) = Len(tests) + Len(left) /\ Len(left) \in Nat
        BY <1>1, <3>1, ConcatProperties
      <4>2. Len(left) = 0
        BY <1>1, <1>4, <3>1, <4>1
      <4>3. QED
        BY <3>1, <4>2, EmptySeq
    <3>3. ASSUME NEW out
          PROVE  Evaluate(Test, Now(left, out, NoException))
                   = [env |-> Now(left, out, NoException), holds |-> FALSE]
      <4>1. Now(left, out, NoException).tests = left
        BY NowIs
      <4>2. QED
        BY <3>2, <4>1 DEF Evaluate
    <3>4. QED
      BY <3>1, <3>3
  <2>2. QED
    BY <1>4, <2>1
<1>5. QED
  BY <1>3, <1>4 DEF DoTest

LEMMA TestFaithful == ASSUME IInv, Contained, Handled(program), Faithful, DoTest PROVE Faithful'
<1>1. inst.op \in {"test", "next"} /\ status = "running" /\ pending = NoException
  BY NotUrgent DEF DoTest, Running
<1>2. /\ program' = program /\ status' = status /\ excepts' = excepts
      /\ pending' = pending /\ printed' = printed
  BY DEF DoTest
<1>3. PICK b : /\ SetLocal(inst.into, b)
               /\ \A left, r : Promised(left, r)' =>
                    \E all : /\ Promised(all, r) /\ left \in Seq(BOOLEAN)
                             /\ \A out : Evaluate(Test, Now(all, out, NoException))
                                  = [env |-> Now(left, out, NoException), holds |-> b]
  BY TestPromised
<1> DEFINE l == Assigned(top.locals, inst.into, b)
           i == top.pc + 1
           g == FrameTo(top, i, l)
           st == [stack EXCEPT ![Len(stack)] = g]
<1>4. stack' = st /\ g.entered = top.entered
  BY <1>3, TopFits, SetLocalIs, FrameParts
<1>5. ASSUME NEW left, NEW r, Promised(left, r)'
      PROVE  Explained(program, st, excepts, Now(left, printed, NoException), r)
  <2>1. PICK all : /\ Promised(all, r)
                   /\ \A out : Evaluate(Test, Now(all, out, NoException))
                         = [env |-> Now(left, out, NoException), holds |-> b]
    BY <1>3, <1>5
  <2> DEFINE env == Now(all, printed, NoException)
             env2 == Now(left, printed, NoException)
  <2>2. Explained(program, stack, excepts, env, r)
    BY <1>1, <2>1 DEF Faithful
  <2>3. Evaluate(Test, env) = [env |-> env2, holds |-> b]
    BY <2>1
  <2> HIDE DEF env, env2
  <2>4. ASSUME NEW q \in Env, Situation(top, excepts, env, q) \in Told(program, top)
        PROVE  Situation(g, excepts, env2, q) \in Told(program, g)
    <3> DEFINE x == Situation(top, excepts, env, q)
    <3>1. PICK M : Goes(program, inst, x, Story(program, top.fn)[i], M)
      BY <2>4, TopGoes
    <3>2. x.l = top.locals /\ x.m = excepts /\ x.env = env
      BY SituationParts
    <3>3. To(x, l, excepts, env2) = Situation(g, excepts, env2, q)
      BY SituationIs
    <3>4. Told(program, g) = Story(program, top.fn)[i]
      BY ToldIs
    <3> HIDE DEF x, g
    <3> DEFINE c == Evaluate(Test, x.env)
               S == Story(program, top.fn)[i]
    <3> HIDE DEF S
    <3>5. To(x, Assigned(x.l, inst.into, c.holds), x.m, c.env) \in S
      BY <1>1, <3>1 DEF Goes, S
    <3>6. c.holds = b /\ c.env = env2
      BY <2>3, <3>2
    <3> HIDE DEF c
    <3>7. QED
      BY <3>2, <3>3, <3>4, <3>5, <3>6 DEF S
  <2> HIDE DEF g
  <2>5. Explained(program, st, excepts, env2, r)
    BY <1>4, <2>2, <2>4, ExplainedOn
  <2>6. QED
    BY <2>5 DEF env2
<1>6. \A left, r : Explained(program, st, excepts, Now(left, printed, NoException), r)
                     <=> Explained(program', stack', excepts', Now(left, printed', pending'), r)
  BY <1>1, <1>2, <1>4
<1> HIDE DEF st
<1>7. status' = "running"
  BY <1>1, <1>2
<1>8. QED
  BY <1>5, <1>6, <1>7 DEF Faithful

(* The last call, if the program is to end with r. *)
LEMMA TopEnds ==
  ASSUME IInv, Contained, Handled(program), NEW env, NEW r, Explained(program, stack, excepts, env, r)
  PROVE  \E q \in Env : \E M :
           /\ Situation(top, excepts, env, q) \in Config
           /\ Goes(program, inst, Situation(top, excepts, env, q), Story(program, top.fn)[top.pc + 1], M)
           /\ top.entered = {} /\ q.how \in Exceptions => q = r
           /\ Len(stack) = 1 => q = r
<1>1. PICK R : Ends(program, stack, excepts, env, r, R)
  BY DEF Explained
<1>2. Len(stack) \in 1 .. Len(stack)
  BY TopFits
<1> DEFINE q == R[Len(stack)]
<1>3. q \in Env /\ Situation(top, excepts, env, q) \in Told(program, top)
  BY <1>1, <1>2 DEF Ends, top
<1>4. top.entered = {} /\ q.how \in Exceptions => q = r
  BY <1>1, <1>2 DEF Ends, top
<1>5. Len(stack) = 1 => q = r
  BY <1>1 DEF Ends
<1> HIDE DEF q
<1>6. /\ Situation(top, excepts, env, q) \in Config
      /\ \E M : Goes(program, inst, Situation(top, excepts, env, q), Story(program, top.fn)[top.pc + 1], M)
  BY <1>3, TopGoes
<1>7. QED
  BY <1>3, <1>4, <1>5, <1>6

LEMMA RaiseFaithful == ASSUME IInv, Contained, Handled(program), Faithful, SetException PROVE Faithful'
<1>1. inst.op = "raise" /\ status = "running" /\ pending = NoException
  BY NotUrgent DEF SetException, Running
<1>2. /\ program' = program /\ tests' = tests /\ excepts' = excepts /\ printed' = printed
  BY DEF SetException, world
<1> DEFINE X(left, q) == Situation(top, excepts, Now(left, printed, pending), q)
<1>3. ASSUME NEW left, NEW q, NEW b, NEW M, Goes(program, inst, X(left, q), b, M)
      PROVE  /\ inst.exc \in Exceptions
             /\ inst.exc \in excepts
                  => To(X(left, q), top.locals, excepts, Now(left, printed, inst.exc)) \in b
             /\ inst.exc \notin excepts
                  => top.entered = {} /\ q = Now(left, printed, inst.exc)
  <2> DEFINE env == Now(left, printed, pending)
             x == X(left, q)
             r1 == Leaving(env, inst.exc)
  <2>1. x.l = top.locals /\ x.m = excepts /\ x.e = top.entered /\ x.env = env /\ x.r = q
    BY SituationParts
  <2> HIDE DEF x, env
  <2>2. inst.exc \in Exceptions /\ Resumes(x, Leaving(x.env, inst.exc), b)
    BY <1>1, <1>3 DEF Goes, x
  <2>3. r1 = Now(left, printed, inst.exc)
    BY <1>1, <2>2, NowIs DEF env
  <2>4. r1.how = inst.exc
    BY <2>2, <2>3, NowIs, HowsApart
  <2> HIDE DEF r1
  <2>5. Resumes(x, r1, b)
    BY <2>1, <2>2 DEF r1
  <2>6. QED
    BY <2>1, <2>2, <2>3, <2>4, <2>5 DEF Resumes, x
<1>4. CASE /\ inst.exc \in excepts
           /\ pending' = inst.exc
           /\ Proceed
           /\ UNCHANGED status
  <2> DEFINE l == top.locals
             i == top.pc + 1
             exc == inst.exc
  <2>1. stack' = [stack EXCEPT ![Len(stack)] = FrameTo(top, i, l)]
    BY <1>4, TopFits, JumpIs DEF Proceed
  <2>2. ASSUME NEW left \in Seq(BOOLEAN), NEW q \in Env, NEW b, NEW M, Goes(program, inst, X(left, q), b, M)
        PROVE  To(X(left, q), l, excepts, Now(left, printed, exc)) \in b
    BY <1>3, <1>4, <2>2
  <2>3. pending' = exc /\ status' = "running"
    BY <1>1, <1>4
  <2> HIDE DEF l, i, exc
  <2>4. QED
    BY <1>1, <1>2, <2>1, <2>2, <2>3, FaithfulOn DEF i
<1>5. CASE inst.exc \notin excepts /\ status' = "error" /\ UNCHANGED <<pending, stack>>
  <2>1. ASSUME NEW left, NEW r, Promised(left, r)
        PROVE  printed = r.printed /\ r.how \in Exceptions
    <3> DEFINE env == Now(left, printed, pending)
    <3>1. Explained(program, stack, excepts, env, r)
      BY <1>1, <2>1 DEF Faithful
    <3> HIDE DEF env
    <3>2. PICK q \in Env : \E M :
             /\ Goes(program, inst, Situation(top, excepts, env, q), Story(program, top.fn)[top.pc + 1], M)
             /\ top.entered = {} /\ q.how \in Exceptions => q = r
      BY <3>1, TopEnds
    <3>3. inst.exc \in Exceptions /\ top.entered = {} /\ q = Now(left, printed, inst.exc)
      BY <1>3, <1>5, <3>2 DEF env
    <3>4. q.how = inst.exc /\ q.printed = printed
      <4>1. inst.exc # NoException
        BY <3>3, HowsApart
      <4> DEFINE x == inst.exc
      <4>2. Now(left, printed, x).how = x /\ Now(left, printed, x).printed = printed
        <5>1. x \in Exceptions \cup {NoException}
          BY <3>3
        <5> HIDE DEF x
        <5>2. QED
          BY <4>1, <5>1, NowIs DEF x
      <4>3. QED
        BY <3>3, <4>2
    <3>5. q = r
      BY <3>2, <3>3, <3>4
    <3>6. QED
      BY <3>3, <3>4, <3>5
  <2>2. \A left, r : Promised(left, r)' <=> Promised(left, r)
    BY <1>2 DEF Promised
  <2>3. QED
    BY <1>2, <1>5, <2>1, <2>2 DEF Faithful
<1>6. QED
  BY <1>1, <1>4, <1>5 DEF SetException

LEMMA DoneFaithful == ASSUME IInv, Contained, Handled(program), Faithful, ModuleReturns PROVE Faithful'
<1>1. inst.op = "return" /\ status = "running" /\ status' = "done" /\ Len(stack) = 1
  BY DEF ModuleReturns, Running
<1>2. /\ program' = program /\ tests' = tests /\ printed' = printed
  BY DEF ModuleReturns, world
<1>3. top.entered = {}
  BY <1>1 DEF IInv, StackFits, top
<1>4. ASSUME NEW left, NEW r, Promised(left, r)
      PROVE  printed = r.printed /\ r.how \notin Exceptions
  <2> DEFINE env == Now(left, printed, pending)
             x == Situation(top, excepts, env, r)
  <2>1. Explained(program, stack, excepts, env, r)
    BY <1>1, <1>4 DEF Faithful
  <2>2. x.m = excepts /\ x.e = {} /\ x.env = env /\ x.r = r
    BY <1>3, SituationParts
  <2>3. env.printed = printed
    <3>1. pending \in Exceptions \cup {NoException}
      BY DEF IInv, Globals
    <3>2. QED
      BY <3>1, NowIs
  <2> HIDE DEF env
  <2>4. PICK q \in Env : \E M :
           /\ Situation(top, excepts, env, q) \in Config
           /\ Goes(program, inst, Situation(top, excepts, env, q), Story(program, top.fn)[top.pc + 1], M)
           /\ q = r
    BY <1>1, <2>1, TopEnds
  <2>5. x \in Config /\ \E b, M : Goes(program, inst, x, b, M)
    BY <2>4
  <2> HIDE DEF x
  <2>6. /\ x.m = x.e
        /\ x.env.how = "normal" => x.r \in {x.env, Leaving(x.env, "return")}
    BY <1>1, <2>5 DEF Goes
  <2>7. x.env \in Env /\ x.env.how = "normal"
    BY <2>2, <2>5, <2>6, ConfigIs
  <2>8. r \in {env, Leaving(env, "return")} /\ env.how = "normal"
    BY <2>2, <2>6, <2>7
  <2>9. "return" \notin Exceptions /\ "normal" \notin Exceptions
    BY HowsApart
  <2>10. env \in Env /\ "return" \in How
    BY <2>2, <2>7 DEF How, Departures
  <2>11. Leaving(env, "return") = [tests |-> env.tests, printed |-> env.printed, how |-> "return"]
    BY <2>10, LeavingIn
  <2>12. QED
    BY <2>3, <2>8, <2>9, <2>11
<1>5. \A left, r : Promised(left, r)' <=> Promised(left, r)
  BY <1>2 DEF Promised
<1>6. QED
  BY <1>1, <1>2, <1>4, <1>5 DEF Faithful

(* A call begins as its function does, and its caller waits for its end.   *)
LEMMA CallFaithful == ASSUME IInv, Contained, Handled(program), Faithful, DoCall PROVE Faithful'
<1>1. inst.op = "call" /\ status = "running" /\ pending = NoException
  BY NotUrgent DEF DoCall, Running
<1>2. /\ program' = program /\ tests' = tests /\ status' = status /\ excepts' = excepts
      /\ pending' = pending /\ printed' = printed
  BY DEF DoCall, world
<1> DEFINE f == inst.fn
           g == FrameTo(top, top.pc + 1, top.locals)
           st == [stack EXCEPT ![Len(stack)] = g]
           new == [fn |-> f, pc |-> 1, locals |-> <<>>, entered |-> excepts]
           st2 == Append(st, new)
<1>3. g.entered = top.entered
  BY FrameParts
<1>4. stack' = st2
  <2>1. [top EXCEPT !.pc = top.pc + 1] = g
    BY TopFits, FrameJumped
  <2>2. stack' = Append([stack EXCEPT ![Len(stack)] = [top EXCEPT !.pc = top.pc + 1]], new)
    BY DEF DoCall, top, Frame
  <2>3. QED
    BY <2>1, <2>2
<1>5. f \in Functions
  <2>1. PICK V : Carries(inst, Chart(code[top.fn])[top.pc], Chart(code[top.fn])[top.pc + 1], V)
    BY TopFits, PlaceOf DEF inst
  <2>2. QED
    BY <1>1, <2>1 DEF Carries
<1>6. new.entered = excepts
  OBVIOUS
<1>7. /\ Len(stack) \in Nat /\ Len(stack) > 0
      /\ Len(st2) = Len(stack) + 1
      /\ \A k \in 1 .. Len(stack) - 1 : st2[k] = stack[k]
      /\ st2[Len(stack)] = g /\ st2[Len(stack) + 1] = new
  <2> DEFINE n == Len(stack)
             stk == stack
             S == Elements(st) \cup {new}
  <2>1. n \in Nat /\ n > 0
    BY TopFits
  <2>2. /\ Len(st) = n /\ st[n] = g /\ IsCode(st)
        /\ \A k \in 1 .. n - 1 : st[k] = stk[k]
    BY TopReplaced
  <2> HIDE DEF st, new
  <2>3. st \in Seq(S) /\ new \in S
    BY <2>2, CodeOfElements
  <2> HIDE DEF S, n, stk, g
  <2>4. /\ Len(st2) = n + 1 /\ st2[n + 1] = new
        /\ \A k \in 1 .. n : st2[k] = st[k]
    BY <2>2, <2>3, AppendProperties
  <2>5. n \in 1 .. n /\ \A k \in 1 .. n - 1 : k \in 1 .. n
    BY <2>1
  <2> HIDE DEF st2
  <2>6. \A k \in 1 .. n - 1 : st2[k] = stk[k]
    BY <2>2, <2>4, <2>5
  <2>7. QED
    BY <2>1, <2>2, <2>4, <2>5, <2>6 DEF n, stk
<1> HIDE DEF st2, st, g, f
<1>8. ASSUME NEW left, NEW r, Promised(left, r)
      PROVE  Explained(program, st2, excepts, Now(left, printed, pending), r)
  <2> DEFINE env == Now(left, printed, pending)
  <2>1. Explained(program, stack, excepts, env, r)
    BY <1>1, <1>8 DEF Faithful
  <2>2. env.how = "normal"
    BY <1>1, NowIs
  <2> HIDE DEF env
  <2>3. PICK R : Ends(program, stack, excepts, env, r, R)
    BY <2>1 DEF Explained
  <2> DEFINE n == Len(stack)
             q == R[n]
             x == Situation(top, excepts, env, q)
             b == Story(program, top.fn)[top.pc + 1]
  <2>4. n \in 1 .. n
    BY <1>7
  <2>5. q \in Env /\ x \in Told(program, top)
    BY <2>3, <2>4 DEF Ends, top
  <2>6. top.entered = {} /\ q.how \in Exceptions => q = r
    BY <2>3, <2>4 DEF Ends, top
  <2>7. x.l = top.locals /\ x.m = excepts /\ x.e = top.entered /\ x.env = env /\ x.r = q
    BY SituationParts
  <2>8. x \in Config /\ \E M : Goes(program, inst, x, b, M)
    BY <2>5, TopGoes
  <2> HIDE DEF x, b
  <2>9. PICK r1 \in Env : Finishes(program, Do(program[f]), env, r1) /\ Resumes(x, r1, b)
    BY <1>1, <2>7, <2>8 DEF Goes, f
  <2>10. /\ env \in Env /\ excepts \in SUBSET Exceptions
         /\ r1.how \in Exceptions => (r1.how \in excepts \/ excepts = {})
         /\ excepts = {} /\ r1.how \in Exceptions => top.entered = {} /\ q = r1
    <3>1. env \in Env
      BY <2>7, <2>8, ConfigIs
    <3>2. excepts \subseteq Exceptions
      BY TopFits
    <3>3. QED
      BY <2>7, <2>9, <3>1, <3>2 DEF Resumes
  <2>11. excepts = {} /\ r1.how \in Exceptions => r1 = r
    BY <2>6, <2>10
  <2>12. Situation(new, excepts, env, r1) \in Told(program, new)
    <3> DEFINE prog == program
               ex == excepts
               fr == new
    <3>1. prog \in Programs /\ Handled(prog)
      BY DEF IInv, Globals
    <3>2. /\ ex \in SUBSET Exceptions /\ Finishes(prog, Do(prog[f]), env, r1)
          /\ r1.how \in Exceptions => (r1.how \in ex \/ ex = {})
      BY <2>9, <2>10
    <3>3. fr = [fn |-> f, pc |-> 1, locals |-> <<>>, entered |-> ex]
      OBVIOUS
    <3> HIDE DEF prog, ex, fr
    <3>4. Situation(fr, ex, env, r1) \in Told(prog, fr)
      BY <1>5, <2>2, <2>10, <3>1, <3>2, <3>3, BeginsTold
    <3>5. QED
      BY <3>4 DEF prog, ex, fr
  <2>13. Resumes(Situation(g, excepts, r1, q), r1, Told(program, g))
    <3> DEFINE y == Situation(g, excepts, r1, q)
    <3>1. Told(program, g) = b
      BY ToldIs DEF g, b
    <3>2. y.m = x.m /\ y.e = x.e /\ y.r = x.r /\ y.l = x.l
      BY <1>3, <2>7, SituationIs, FrameParts DEF g
    <3>3. \A env2 : To(y, y.l, y.m, env2) = To(x, x.l, x.m, env2)
      BY <3>2 DEF To
    <3> HIDE DEF y
    <3>4. Resumes(y, r1, b)
      BY <2>9, <3>2, <3>3 DEF Resumes
    <3>5. QED
      BY <3>1, <3>4 DEF y
  <2> DEFINE stk == stack
             prog == program
             ex == excepts
  <2>14. Ends(prog, stk, ex, env, r, R) /\ n = Len(stk) /\ n \in Nat /\ n > 0 /\ q = R[n]
    BY <1>7, <2>3
  <2>15. /\ Len(st2) = n + 1 /\ \A k \in 1 .. n - 1 : st2[k] = stk[k]
         /\ st2[n] = g /\ st2[n + 1] = new
    BY <1>7
  <2>16. g.entered = stk[n].entered
    BY <1>3 DEF top
  <2>17. /\ Resumes(Situation(g, ex, r1, q), r1, Told(prog, g))
         /\ Situation(new, ex, env, r1) \in Told(prog, new)
         /\ new.entered = ex
         /\ ex = {} /\ r1.how \in Exceptions => r1 = r
    BY <1>6, <2>11, <2>12, <2>13
  <2> HIDE DEF new, n, q, stk, prog, ex
  <2>18. st2[n].entered = stk[n].entered /\ st2[n + 1].entered = ex
    BY <2>15, <2>16, <2>17
  <2>19. /\ Resumes(Situation(st2[n], st2[n + 1].entered, r1, R[n]), r1, Told(prog, st2[n]))
         /\ Situation(st2[n + 1], ex, env, r1) \in Told(prog, st2[n + 1])
         /\ st2[n + 1].entered = {} /\ r1.how \in Exceptions => r1 = r
    BY <2>14, <2>15, <2>17, <2>18
  <2>20. Explained(prog, st2, ex, env, r)
    BY <2>14, <2>15, <2>18, <2>19, EndsPushed
  <2>21. QED
    BY <2>20 DEF prog, ex, env
<1>9. \A left, r : Promised(left, r)' <=> Promised(left, r)
  BY <1>2 DEF Promised
<1>10. \A left, r : Explained(program, st2, excepts, Now(left, printed, pending), r)
                     <=> Explained(program', stack', excepts', Now(left, printed', pending'), r)
  BY <1>2, <1>4
<1>11. status' = "running"
  BY <1>1, <1>2
<1>12. QED
  BY <1>8, <1>9, <1>10, <1>11 DEF Faithful

(* A call ends as its caller expects. *)
LEMMA ReturnFaithful == ASSUME IInv, Contained, Handled(program), Faithful, DoReturn PROVE Faithful'
<1>1. inst.op = "return" /\ status = "running"
  BY DEF DoReturn, Running
<1>2. /\ program' = program /\ tests' = tests /\ status' = status /\ excepts' = excepts
      /\ pending' = pending /\ printed' = printed
      /\ stack' = Front(stack) /\ Len(stack) > 1
  BY DEF DoReturn, world
<1> DEFINE st2 == Front(stack)
<1>3. /\ Len(stack) \in Nat /\ Len(st2) = Len(stack) - 1
      /\ \A k \in 1 .. Len(stack) - 1 : st2[k] = stack[k]
  <2> DEFINE n == Len(stack)
             m == n - 1
             st == stack
             S == Elements(st)
  <2>1. IsCode(st) /\ n \in Nat /\ n = Len(st)
    BY TopFits
  <2>2. st \in Seq(S)
    BY <2>1, CodeOfElements
  <2>3. st2 = SubSeq(st, 1, m)
    BY DEF Front
  <2> HIDE DEF S, st, st2
  <2>4. n > 1
    BY <1>2
  <2> HIDE DEF n
  <2>5. m \in Int /\ 1 \in Int /\ 1 <= m /\ m - 1 + 1 = m
    BY <2>1, <2>4
  <2>6. \A i \in 1 .. m : i \in 1 .. n /\ st[i] \in S /\ 1 + i - 1 = i
    BY <2>1, <2>2
  <2> HIDE DEF m
  <2>7. /\ Len(SubSeq(st, 1, m)) = IF 1 <= m THEN m - 1 + 1 ELSE 0
        /\ \A i \in 1 .. m - 1 + 1 : SubSeq(st, 1, m)[i] = st[1 + i - 1]
    BY <2>5, <2>6, SubSeqProperties
  <2>8. Len(st2) = m /\ \A i \in 1 .. m : st2[i] = st[i]
    BY <2>3, <2>5, <2>6, <2>7
  <2>9. QED
    BY <2>1, <2>8 DEF m, n, st
<1>4. stack' = st2
  BY <1>2
<1> HIDE DEF st2
<1>5. ASSUME NEW left, NEW r, Promised(left, r)
      PROVE  Explained(program, st2, excepts, Now(left, printed, pending), r)
  <2> DEFINE env == Now(left, printed, pending)
             n == Len(stack)
             stk == stack
             m == n - 1
  <2>1. Explained(program, stack, excepts, env, r)
    BY <1>1, <1>5 DEF Faithful
  <2>2. /\ pending = NoException => env.how = "normal"
        /\ pending # NoException => env.how = pending /\ env.how \in Exceptions /\ env.how # "normal"
        /\ env.how = "normal" => Leaving(env, "normal") = env
    <3>1. pending \in Exceptions \cup {NoException}
      BY DEF IInv, Globals
    <3>2. /\ pending = NoException => env.how = "normal"
          /\ pending # NoException => env.how = pending /\ env.how # "normal"
          /\ Leaving(env, "normal") = Now(left, printed, NoException)
      BY <3>1, NowIs
    <3> HIDE DEF env
    <3>3. pending = NoException => env = Now(left, printed, NoException)
      BY DEF env
    <3>4. QED
      BY <3>1, <3>2, <3>3
  <2> HIDE DEF env
  <2>3. PICK R : Ends(program, stk, excepts, env, r, R)
    BY <2>1 DEF Explained
  <2>4. n \in Nat /\ n > 1 /\ n = Len(stk) /\ n \in 1 .. n /\ m \in 1 .. n - 1 /\ m \in 1 .. n /\ m + 1 = n
    BY <1>2, <1>3
  <2> DEFINE q == R[n]
             x == Situation(top, excepts, env, q)
  <2>5. q \in Env /\ x \in Told(program, top)
    BY <2>3, <2>4 DEF Ends, top
  <2>6. x.m = excepts /\ x.e = top.entered /\ x.env = env /\ x.r = q
    BY SituationParts
  <2>7. x \in Config /\ \E b, M : Goes(program, inst, x, b, M)
    BY <2>5, TopGoes
  <2> HIDE DEF x
  <2>8. /\ x.m = x.e
        /\ x.env.how # "normal" => x.r = x.env
        /\ x.env.how = "normal" => x.r \in {x.env, Leaving(x.env, "return")}
    BY <1>1, <2>7 DEF Goes
  <2>9. /\ env \in Env /\ (env.how = "normal" \/ (env.how \in excepts /\ env.how \in Exceptions))
        /\ top.entered = excepts
    BY <2>6, <2>7, <2>8, ConfigIs
  <2> DEFINE fr == stk[m]
             q0 == R[m]
             y == Situation(fr, excepts, q, q0)
  <2>10. Resumes(y, q, Told(program, fr))
    <3>1. stk[m + 1].entered = excepts /\ R[m + 1] = q
      BY <2>4, <2>9 DEF top
    <3>2. Resumes(Situation(stk[m], stk[m + 1].entered, R[m + 1], R[m]), R[m + 1], Told(program, stk[m]))
      BY <2>3, <2>4 DEF Ends
    <3>3. QED
      BY <3>1, <3>2
  <2>11. \A env2 : To(y, y.l, y.m, env2) = Situation(fr, excepts, env2, q0)
    BY DEF To, Situation
  <2>12. y.m = excepts
    BY SituationIs
  <2> DEFINE tl == Told(program, fr)
  <2> HIDE DEF y, tl, fr, q0
  <2>13. Situation(fr, excepts, env, q0) \in tl
    <3>1. CASE env.how = "normal"
      <4>1. q \in {env, Leaving(env, "return")}
        BY <2>6, <2>8, <3>1
      <4>2. Leaving(q, "normal") = env
        <5>1. env = Leaving(env, "normal")
          BY <2>2, <3>1
        <5>2. "return" \in How /\ "normal" \in How
          BY DEF How, Departures
        <5>3. Leaving(env, "return") \in Env
          BY <2>9, <5>2, LeavingIn
        <5>4. Leaving(Leaving(env, "return"), "normal") = Leaving(env, "normal")
          <6> DEFINE e1 == Leaving(env, "return")
          <6>1. e1 = [tests |-> env.tests, printed |-> env.printed, how |-> "return"]
            BY <2>9, <5>2, LeavingIn
          <6>2. e1 \in Env /\ e1.tests = env.tests /\ e1.printed = env.printed
            BY <5>3, <6>1
          <6> HIDE DEF e1
          <6>3. Leaving(e1, "normal") = [tests |-> e1.tests, printed |-> e1.printed, how |-> "normal"]
            BY <5>2, <6>2, LeavingIn
          <6>4. Leaving(env, "normal") = [tests |-> env.tests, printed |-> env.printed, how |-> "normal"]
            BY <2>9, <5>2, LeavingIn
          <6>5. QED
            BY <6>2, <6>3, <6>4 DEF e1
        <5>5. QED
          BY <4>1, <5>1, <5>4
      <4>3. q.how \notin Exceptions
        <5>1. "return" \in How
          BY DEF How, Departures
        <5>2. Leaving(env, "return").how = "return"
          BY <2>9, <5>1, LeavingIn
        <5>3. QED
          BY <3>1, <4>1, <5>2, HowsApart
      <4>4. To(y, y.l, y.m, env) \in tl
        BY <2>10, <4>2, <4>3 DEF Resumes, tl
      <4>5. QED
        BY <2>11, <4>4
    <3>2. CASE env.how # "normal"
      <4>1. q = env /\ q.how \in excepts /\ q.how \in Exceptions
        BY <2>6, <2>8, <2>9, <3>2
      <4>2. To(y, y.l, y.m, q) \in tl
        BY <2>10, <2>12, <4>1 DEF Resumes, tl
      <4>3. QED
        BY <2>11, <4>1, <4>2
    <3>3. QED
      BY <3>1, <3>2
  <2> DEFINE prog == program
             ex == excepts
  <2>14. Ends(prog, stk, ex, env, r, R) /\ Situation(stk[n - 1], ex, env, R[n - 1]) \in Told(prog, stk[n - 1])
    BY <2>3, <2>13 DEF tl, fr, q0
  <2>15. Len(st2) = n - 1 /\ \A k \in 1 .. n - 1 : st2[k] = stk[k]
    BY <1>3
  <2> HIDE DEF prog, ex, stk, n, m
  <2>16. Explained(prog, st2, ex, env, r)
    BY <2>4, <2>14, <2>15, EndsPopped
  <2>17. QED
    BY <2>16 DEF prog, ex, env
<1>6. \A left, r : Promised(left, r)' <=> Promised(left, r)
  BY <1>2 DEF Promised
<1>7. \A left, r : Explained(program, st2, excepts, Now(left, printed, pending), r)
                     <=> Explained(program', stack', excepts', Now(left, printed', pending'), r)
  BY <1>2, <1>4
<1>8. status' = "running"
  BY <1>1, <1>2
<1>9. QED
  BY <1>5, <1>6, <1>7, <1>8 DEF Faithful

-----------------------------------------------------------------------------
(* The theorem                                                             *)

(* The program begins as Python's does. *)
LEMMA InitFaithful ==
  ASSUME Init, Contained, Handled(program)
  PROVE  Faithful
<1> DEFINE fr == [fn |-> "module", pc |-> 1, locals |-> <<>>, entered |-> {}]
           prog == program
           f == "module"
<1>1. prog \in Programs /\ Handled(prog) /\ f \in Functions
  BY ProgramsAssumption DEF Init
<1>2. /\ stack = <<fr>> /\ excepts = {} /\ pending = NoException /\ status = "running"
      /\ tests = <<>> /\ printed = <<>>
  BY DEF Init
<1>3. fr.entered = {}
  OBVIOUS
<1> DEFINE st == <<fr>>
<1> HIDE DEF fr
<1>4. Len(st) = 1 /\ st[1] = fr
  OBVIOUS
<1> HIDE DEF st
<1>5. ASSUME NEW left, NEW r, Promised(left, r)
      PROVE  Explained(prog, st, {}, Now(left, <<>>, NoException), r)
  <2> DEFINE env == AtStart(left)
             ex == {}
             R == [k \in 1 .. 1 |-> r]
  <2>1. left \in Seq(BOOLEAN) /\ Finishes(prog, Do(prog[f]), AtStart(<<>> \o left), r)
    BY <1>2, <1>5 DEF Promised
  <2>2. <<>> \o left = left
    BY <2>1, ConcatEmptySeq
  <2>3. Finishes(prog, Do(prog[f]), env, r)
    BY <2>1, <2>2
  <2>4. env \in Env /\ env.how = "normal"
    BY <2>1 DEF AtStart, Env, How, Departures
  <2>5. env = Now(left, <<>>, NoException)
    BY DEF AtStart, Now
  <2>6. ex \in SUBSET Exceptions /\ (r.how \in Exceptions => (r.how \in ex \/ ex = {}))
    OBVIOUS
  <2>7. fr = [fn |-> f, pc |-> 1, locals |-> <<>>, entered |-> ex]
    BY DEF fr
  <2>8. r \in Env
    <3>1. prog[f] \in Stmts
      BY <1>1, BodiesIn
    <3>2. Do(prog[f]) \in Task
      BY <3>1, BlockTask
    <3> HIDE DEF prog, f, env
    <3>3. QED
      BY <1>1, <2>3, <2>4, <3>2, FinishesIs
  <2> HIDE DEF prog, f, env, ex
  <2>9. Situation(fr, ex, env, r) \in Told(prog, fr)
    BY <1>1, <2>3, <2>4, <2>6, <2>7, BeginsTold
  <2>10. R \in [1 .. 1 -> Env] /\ R[1] = r
    BY <2>8
  <2> HIDE DEF R
  <2>11. /\ R \in [1 .. Len(st) -> Env]
         /\ Situation(st[Len(st)], ex, env, R[Len(st)]) \in Told(prog, st[Len(st)])
    BY <1>4, <2>9, <2>10
  <2>12. \A k \in 1 .. Len(st) - 1 :
            Resumes(Situation(st[k], st[k + 1].entered, R[k + 1], R[k]), R[k + 1], Told(prog, st[k]))
    BY <1>4
  <2>13. \A k \in 1 .. Len(st) : st[k].entered = {} /\ R[k].how \in Exceptions => R[k] = r
    <3>1. \A k \in 1 .. Len(st) : k = 1
      BY <1>4
    <3>2. QED
      BY <2>10, <3>1
  <2>14. Ends(prog, st, ex, env, r, R)
    BY <2>10, <2>11, <2>12, <2>13 DEF Ends
  <2>15. QED
    BY <2>5, <2>14 DEF Explained, ex
<1>6. \A left, r : Explained(prog, st, {}, Now(left, <<>>, NoException), r)
                     <=> Explained(program, stack, excepts, Now(left, printed, pending), r)
  BY <1>2 DEF st
<1> HIDE DEF prog
<1>7. QED
  BY <1>2, <1>5, <1>6 DEF Faithful

LEMMA NextFaithful ==
  ASSUME IInv, Contained, Handled(program), Faithful, [Next]_vars
  PROVE  Faithful'
<1>1. CASE Next
  BY <1>1, PrintFaithful, TestFaithful, IfFaithful, GotoFaithful, BreakFaithful, RepeatFaithful,
     PassFaithful, RaiseFaithful, CatchFaithful, MatchFaithful, SaveFaithful, SetFaithful,
     RestoreFaithful, CallFaithful, ReturnFaithful, DoneFaithful DEF Next
<1>2. CASE UNCHANGED vars
  <2>1. \A left, r : Promised(left, r)' <=> Promised(left, r)
    BY <1>2 DEF vars, Promised
  <2>2. \A left, r : Explained(program, stack, excepts, Now(left, printed, pending), r)
                       <=> Explained(program', stack', excepts', Now(left, printed', pending'), r)
    BY <1>2 DEF vars
  <2>3. status' = status /\ printed' = printed
    BY <1>2 DEF vars
  <2>4. QED
    BY <2>1, <2>2, <2>3 DEF Faithful
<1>3. QED
  BY <1>1, <1>2

LEMMA ProgramStays == ASSUME IInv, [Next]_vars PROVE Handled(program)' <=> Handled(program)
<1>1. program' = program
  BY DEF Next, vars, DoPrint, DoTest, DoIf, DoGoto, DoBreak, DoRepeat, DoPass, SetException,
     GetException, DoMatch, SaveExcepts, SetExcepts, RestoreExcepts, DoCall, DoReturn,
     ModuleReturns, world
<1>2. QED
  BY <1>1

(* Where a program has ended that Python's does. *)
LEMMA FaithfulMeans ==
  ASSUME IInv, Faithful
  PROVE  MeansTheSame
<1>1. SUFFICES ASSUME status # "running", Finished(program, tests)
               PROVE  [printed |-> printed, ends |-> status] = Meaning(program, tests)
  BY DEF MeansTheSame
<1> DEFINE r == Outcome(program, tests)
           task == Do(program["module"])
           prog == program
<1>2. tests \in Seq(BOOLEAN) /\ Len(tests) <= MaxTests /\ prog \in Programs
  BY DEF IInv, Globals
<1>3. tests \o <<>> = tests
  BY <1>2, ConcatEmptySeq
<1>4. Finishes(prog, task, AtStart(tests), r)
  <2>1. Followed(program)[Patience] \in Deep(program)
    BY PatienceAssumption DEF Deep
  <2>2. r = Followed(program)[Patience][task][AtStart(tests)] /\ r.how # Unfinished
    BY <1>1 DEF Outcome, Finished
  <2>3. QED
    BY <2>1, <2>2 DEF Finishes
<1>5. r \in Env /\ r.how # Unfinished
  <2>1. prog["module"] \in Stmts
    BY <1>2, BodiesIn, ProgramsAssumption
  <2>2. task \in Task
    BY <2>1, BlockTask
  <2> DEFINE env == AtStart(tests)
  <2>3. env \in Env
    BY <1>2 DEF AtStart, Env, How, Departures
  <2> HIDE DEF prog, task, r, env
  <2>4. QED
    BY <1>2, <1>4, <2>2, <2>3, FinishesIs DEF env
<1> HIDE DEF r
<1>6. Raised(r) <=> r.how \in Exceptions
  BY <1>5, RaisedIs
<1> DEFINE left == <<>>
<1>7. Promised(left, r)
  BY <1>2, <1>3, <1>4 DEF Promised
<1> HIDE DEF left
<1>8. /\ status = "done" => printed = r.printed /\ r.how \notin Exceptions
      /\ status = "error" => printed = r.printed /\ r.how \in Exceptions
      /\ status \in {"running", "done", "error"}
  BY <1>7 DEF Faithful, IInv, Globals
<1>9. Meaning(program, tests) = [printed |-> r.printed, ends |-> IF Raised(r) THEN "error" ELSE "done"]
  BY DEF Meaning, r
<1>10. QED
  BY <1>1, <1>6, <1>8, <1>9

(* Where no return, break or continue leaves a try statement, and the try  *)
(* statements of a program have no else block, catch what their bodies     *)
(* raise and raise nothing in their other blocks, the C of the program     *)
(* prints what Python would print and ends as it would end, with an error  *)
(* or without, however its tests come out.                                 *)
THEOREM HandledMeansTheSame ==
  ASSUME Contained
  PROVE  Spec => [](Handled(program) => MeansTheSame)
<1> DEFINE Inv == Handled(program) => Faithful
<1>1. Init => Inv
  BY InitFaithful
<1>2. IInv /\ Inv /\ [Next]_vars => Inv'
  BY NextFaithful, ProgramStays
<1>3. IInv /\ Inv => (Handled(program) => MeansTheSame)
  BY FaithfulMeans
<1> HIDE DEF Inv
<1>4. QED
  BY <1>1, <1>2, <1>3, Invariance, PTL DEF Spec
=============================================================================
