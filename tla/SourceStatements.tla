-------------------------- MODULE SourceStatements --------------------------
(***************************************************************************)
(* The statements of the language (the Statement union of syntax.h), seen  *)
(* as control flow, and the programs that are built of them.               *)
(***************************************************************************)
EXTENDS Naturals, Sequences

CONSTANTS
  Exceptions,   \* the exception types
  Functions,    \* the names of functions, "module" among them
  Statement,    \* the statements that may stand in every place
  Depth,        \* how deep statements are nested in a statement
  Programs      \* programs: from the names of functions to their bodies

NoException == "none"

-----------------------------------------------------------------------------
(* The statements of the source language; Show is a call of print. *)

Show(e) == [kind |-> "print", event |-> e]
Raise(x) == [kind |-> "raise", exc |-> x]
Call(f) == [kind |-> "call", fn |-> f]
AssertThat(c) == [kind |-> "assert", cond |-> c]
If(arms, orelse) == [kind |-> "if", arms |-> arms, orelse |-> orelse]
While(c, body) == [kind |-> "while", cond |-> c, body |-> body]
For(c, body) == [kind |-> "for", cond |-> c, body |-> body]
Try(body, excepts, orelse, finally) ==
  [kind |-> "try", body |-> body, excepts |-> excepts,
   orelse |-> orelse, finally |-> finally]
Break == [kind |-> "break"]
Continue == [kind |-> "continue"]
Return == [kind |-> "return"]

(* An arm of an if statement, an except block of a try statement.          *)
Arm(c, body) == [cond |-> c, body |-> body]
Except(types, body) == [types |-> types, body |-> body]

(* A condition is a free test, or an expression that raises.               *)
Test == "test"
Condition == Exceptions \cup {Test}

(* The blocks of a statement. *)
Blocks(s) ==
  CASE s.kind = "if"  -> {s.arms[i].body : i \in DOMAIN s.arms} \cup {s.orelse}
    [] s.kind \in {"while", "for"} -> {s.body}
    [] s.kind = "try" -> {s.excepts[i].body : i \in DOMAIN s.excepts}
                           \cup {s.body, s.orelse, s.finally}
    [] OTHER -> {}

(* Where a statement stands: in no loop, in a loop that is in the same try *)
(* statement as itself, or in a loop outside of that; in a try statement   *)
(* or not.                                                                 *)
Place == [loop : {"none", "here", "outside"}, inTry : BOOLEAN]

FunctionBody == [loop |-> "none", inTry |-> FALSE]

(* Where the statements of its blocks stand.                               *)
Within(s, place) ==
  CASE s.kind \in {"while", "for"} -> [place EXCEPT !.loop = "here"]
    [] s.kind = "try" -> [loop |-> IF place.loop = "none" THEN "none" ELSE "outside",
                          inTry |-> TRUE]
    [] OTHER -> place

-----------------------------------------------------------------------------
(* Programs                                                                *)

AnyStatement == UNION {Statement[place] : place \in Place}

WellFormed(s) ==
  \/ s.kind \in {"print", "break", "continue", "return"}
  \/ s.kind = "raise" /\ s.exc \in Exceptions
  \/ s.kind = "call" /\ s.fn \in Functions
  \/ s.kind \in {"assert", "while", "for"} /\ s.cond \in Condition
  \/ s.kind = "if" /\ s.arms \in Seq([cond : Condition, body : Seq(AnyStatement)])
  \/ s.kind = "try" /\ s.excepts \in Seq([types : SUBSET Exceptions, body : Seq(AnyStatement)])

(* Programs are built of statements, nested to some depth, in which break  *)
(* and continue stand in loops.                                            *)
ASSUME ProgramsAssumption ==
  /\ Programs \subseteq [Functions -> Seq(Statement[FunctionBody])]
  /\ "module" \in Functions
  /\ Depth \in [AnyStatement -> Nat]
  /\ \A place \in Place : \A s \in Statement[place] :
       /\ WellFormed(s)
       /\ s.kind \in {"break", "continue"} => place.loop # "none"
       /\ \A block \in Blocks(s) :
            /\ block \in Seq(Statement[Within(s, place)])
            /\ \A k \in DOMAIN block : Depth[block[k]] < Depth[s]

(* The names of exceptions are none of the words used here for conditions, *)
(* and for ways to leave a statement.                                      *)
Departures == {"normal", "break", "continue", "return"}
Unfinished == "unfinished"

ASSUME ExceptionsAssumption ==
  /\ "AssertionError" \in Exceptions
  /\ Exceptions \cap (Departures \cup {Unfinished, Test, NoException}) = {}
=============================================================================
