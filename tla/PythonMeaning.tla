--------------------------- MODULE PythonMeaning ---------------------------
(***************************************************************************)
(* What Python means by the statements of module SourceStatements: what a  *)
(* program prints and how it ends, given how its free tests come out.      *)
(* Nothing here knows of labels, jumps or exception masks; module          *)
(* CompiledMeaning compares it with module Statements.                     *)
(*                                                                         *)
(* The meaning of a block is a recursive function of how many steps deep   *)
(* it is followed, so that loops and functions that call themselves have   *)
(* one as well: what is not over by then is unfinished.                    *)
(***************************************************************************)
EXTENDS SourceStatements

CONSTANT Patience  \* bound: how deep the meaning of a program is followed

ASSUME PatienceAssumption == Patience \in Nat

-----------------------------------------------------------------------------
(* A state of affairs: the tests still to come (FALSE when they run out),  *)
(* what was printed, and how control leaves: "normal", "break",            *)
(* "continue", "return", or the name of an exception on its way out.       *)

Event == {s.event : s \in {t \in AnyStatement : t.kind = "print"}}
How == Departures \cup Exceptions \cup {Unfinished}
Env == [tests : Seq(BOOLEAN), printed : Seq(Event), how : How]

Leaving(env, how) == [env EXCEPT !.how = how]
Raised(env) == env.how \notin Departures

(* Evaluating a condition: [env, holds]. *)
Evaluate(c, env) ==
  IF c # Test THEN [env |-> Leaving(env, c), holds |-> FALSE]
  ELSE IF env.tests = <<>> THEN [env |-> env, holds |-> FALSE]
  ELSE [env |-> [env EXCEPT !.tests = Tail(@)], holds |-> Head(env.tests)]

(* What is followed: a block, and what is left of an if statement.         *)
Do(stmts) == [block |-> stmts]
Choice(arms, orelse) == [arms |-> arms, orelse |-> orelse]
Task ==
  [block : Seq(AnyStatement)]
    \cup [arms : Seq([cond : Condition, body : Seq(AnyStatement)]), orelse : Seq(AnyStatement)]

(* In what follows run is what tasks do that are followed one step less.   *)

ExecArms(run, arms, orelse, env) ==
  IF arms = <<>> THEN run[Do(orelse)][env]
  ELSE LET c == Evaluate(Head(arms).cond, env)
       IN IF c.holds \/ Raised(c.env) THEN run[Do(Head(arms).body)][c.env]
          ELSE run[Choice(Tail(arms), orelse)][c.env]

(* A loop whose head is a free test. *)
ExecLoop(run, s, env) ==
  LET c == Evaluate(s.cond, env)
      once == run[Do(s.body)][c.env]
  IN CASE ~c.holds -> c.env
       [] c.holds /\ once.how = "break" -> Leaving(once, "normal")
       [] c.holds /\ once.how \in {"normal", "continue"} ->
            run[Do(<<s>>)][Leaving(once, "normal")]
       [] c.holds /\ once.how \notin {"break", "normal", "continue"} -> once

ExecExcepts(run, s, env) ==
  LET Catches(i) == env.how \in s.excepts[i].types
      first == CHOOSE i \in DOMAIN s.excepts :
                 Catches(i) /\ \A j \in DOMAIN s.excepts : Catches(j) => i <= j
  IN CASE env.how = "normal" -> run[Do(s.orelse)][env]
       [] env.how # "normal" /\ (\E i \in DOMAIN s.excepts : Catches(i)) ->
            run[Do(s.excepts[first].body)][Leaving(env, "normal")]
       [] env.how # "normal" /\ ~(\E i \in DOMAIN s.excepts : Catches(i)) -> env

ExecTry(run, s, env) ==
  LET handled == ExecExcepts(run, s, run[Do(s.body)][env])
      final == run[Do(s.finally)][Leaving(handled, "normal")]
  IN IF final.how = "normal" \/ handled.how = Unfinished THEN Leaving(final, handled.how)
     ELSE final

(* A function that returns or runs off its end is done; an exception goes  *)
(* on to the caller.                                                       *)
ExecCall(prog, run, f, env) ==
  LET r == run[Do(prog[f])][env]
  IN IF Raised(r) THEN r ELSE Leaving(r, "normal")

Exec(prog, run, s, env) ==
  CASE s.kind = "print"  -> [env EXCEPT !.printed = Append(@, s.event)]
    [] s.kind = "raise"  -> Leaving(env, s.exc)
    [] s.kind = "call"   -> ExecCall(prog, run, s.fn, env)
    [] s.kind = "assert" ->
         LET c == Evaluate(s.cond, env)
         IN IF c.holds \/ Raised(c.env) THEN c.env ELSE Leaving(c.env, "AssertionError")
    [] s.kind = "if"     -> run[Choice(s.arms, s.orelse)][env]
    [] s.kind = "while"  -> ExecLoop(run, s, env)
    [] s.kind = "for"    -> (* the iterable is evaluated once, before the loop *)
         IF s.cond # Test THEN Leaving(env, s.cond) ELSE ExecLoop(run, s, env)
    [] s.kind = "try"    -> ExecTry(run, s, env)
    [] s.kind \in {"break", "continue", "return"} -> Leaving(env, s.kind)

ExecBody(prog, run, stmts, env) ==
  IF stmts = <<>> \/ env.how # "normal" THEN env
  ELSE run[Do(Tail(stmts))][Exec(prog, run, Head(stmts), env)]

ExecTask(prog, run, task, env) ==
  IF "block" \in DOMAIN task THEN ExecBody(prog, run, task.block, env)
  ELSE ExecArms(run, task.arms, task.orelse, env)

Followed(prog) ==
  LET Run[n \in Nat] ==
        [task \in Task |-> [env \in Env |->
           IF n = 0 THEN Leaving(env, Unfinished) ELSE ExecTask(prog, Run[n - 1], task, env)]]
  IN Run

(* What a program prints and how it ends, if it does within Patience.      *)
AtStart(tests) == [tests |-> tests, printed |-> <<>>, how |-> "normal"]
Outcome(prog, tests) == Followed(prog)[Patience][Do(prog["module"])][AtStart(tests)]
Finished(prog, tests) == Outcome(prog, tests).how # Unfinished

Meaning(prog, tests) ==
  LET r == Outcome(prog, tests)
  IN [printed |-> r.printed, ends |-> IF Raised(r) THEN "error" ELSE "done"]
=============================================================================
