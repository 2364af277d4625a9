--------------------------- MODULE CompiledMeaning ---------------------------
(***************************************************************************)
(* The C program of module Statements against what Python means by the     *)
(* program it was compiled from.                                           *)
(***************************************************************************)
EXTENDS Statements, PythonMeaning

(* When the compiled program ends, it has printed what Python would have   *)
(* printed, and it ends with an error exactly when Python would: branches, *)
(* elifs, loops, break, continue, calls and handled exceptions compile to  *)
(* C of the same meaning.                                                  *)
MeansTheSame ==
  status # "running" /\ Finished(program, tests)
    => [printed |-> printed, ends |-> status] = Meaning(program, tests)

(* The try statements whose meaning the compiler keeps: they have no else  *)
(* block, what their body raises they catch, and their other blocks raise  *)
(* nothing, started at env and followed n steps deep.                      *)
Handles(prog, s, n, env) ==
  LET run == Followed(prog)[n]
      raised == run[Do(s.body)][env].how
  IN /\ s.orelse = <<>>
     /\ raised \in Exceptions => \E i \in DOMAIN s.excepts : raised \in s.excepts[i].types
     /\ \A i \in DOMAIN s.excepts : run[Do(s.excepts[i].body)][env].how \notin Exceptions
     /\ run[Do(s.finally)][env].how \notin Exceptions

(* S has the statements of a program, and those in them. *)
BuiltOf(prog, S) ==
  /\ \A f \in Functions : prog[f] \in Seq(S)
  /\ \A s \in S : \A block \in Blocks(s) : block \in Seq(S)

Handled(prog) ==
  \E S \in SUBSET AnyStatement :
    /\ BuiltOf(prog, S)
    /\ \A s \in S : s.kind = "try" =>
         \A n \in Nat, env \in Env : env.how = "normal" => Handles(prog, s, n, env)
=============================================================================
