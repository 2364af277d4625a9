----------------------------- MODULE Statements -----------------------------
(***************************************************************************)
(* How the compiler turns statements into C (compile_statement and what it *)
(* calls in compiler.c, write_instruction in c_writer.c), and how that C   *)
(* runs on the exception state of the runtime (not_python.c).              *)
(*                                                                         *)
(* A statement is a record; the C text is a flat sequence of instructions: *)
(* braces are "if"/"endif" and "while"/"endwhile" pairs that share an id.  *)
(* An expression is what it does to control: it prints, it raises, it      *)
(* calls, or it is a condition whose value the environment chooses.        *)
(* The program that runs is any of Programs.                               *)
(*                                                                         *)
(* CheckExceptionsReturning, Unchecked, CompileIfFallingThrough,           *)
(* StopOnContinuing and CompileFunctionOpen are deviations: what the       *)
(* operator below each would be with a bug.  The specification uses none   *)
(* of them; they show what the properties can tell apart.                  *)
(***************************************************************************)
EXTENDS SourceStatements, SequencesExt

CONSTANT
  MaxTests      \* bound: conditions found true or false freely; FALSE after

ASSUME TestsAssumption == MaxTests \in Nat

-----------------------------------------------------------------------------
(* The instructions of the C text, and the blocks the writer makes of them.*)

Id(at, tag) == [at |-> at, tag |-> tag]
GlobalException == Id(<<>>, "global_exception")
Value(at) == Id(at, "value")
After(loop) == Id(loop.at, "after")

Goto(label) == <<[op |-> "goto", id |-> label]>>
Label(label) == <<[op |-> "label", id |-> label]>>

IfBlock(id, on, negate, body) ==
  <<[op |-> "if", id |-> id, on |-> on, negate |-> negate]>> \o body
    \o <<[op |-> "endif", id |-> id]>>

LoopBlock(id, init, before, body) ==
  init \o <<[op |-> "while", id |-> id]>> \o before \o body
    \o Label(After(id)) \o <<[op |-> "endwhile", id |-> id]>>

LeaveLoop(id) == <<[op |-> "break", id |-> id]>>
ReturnInst == <<[op |-> "return"]>>

(* What compile_statement knows of its surroundings: whether the innermost *)
(* try is of this function, its label, and the innermost loop.             *)
Tags == {"global_exception", "value", "after", "print", "raise", "call", "iter", "catch",
         "assert", "if", "exit", "stop", "loop", "excepts", "old", "exception",
         "finally", "unraised", "except", "no try", "no loop"}
IdOf == [at : Seq(Nat), tag : Tags]
Context == [inTry : BOOLEAN, excepts : IdOf, loop : IdOf]
Outside == [inTry |-> FALSE, excepts |-> Id(<<>>, "no try"), loop |-> Id(<<>>, "no loop")]

(* compile_check_exceptions *)
CheckExceptionsReturning(id, ctx) ==
  IfBlock(id, GlobalException, FALSE, ReturnInst)

CheckExceptions(id, ctx) ==
  IfBlock(id, GlobalException, FALSE,
          IF ctx.inTry THEN Goto(ctx.excepts) ELSE ReturnInst)

(* add_instruction of an unsafe instruction. *)
Unchecked(inst, at, ctx) == <<inst>>

Unsafe(inst, at, ctx) == <<inst>> \o CheckExceptions(Id(at, inst.op), ctx)

RaiseInst(x, at, ctx) == Unsafe([op |-> "raise", exc |-> x], at, ctx)

Evaluated(c, at, ctx) ==
  (IF c = Test THEN <<>> ELSE RaiseInst(c, at, ctx))
    \o <<[op |-> "test", into |-> Value(at)]>>

(* What follows takes the code of the statements in its blocks from        *)
(* compiled, by statement, position and context.                           *)
CompileBody(compiled, stmts, at, ctx) ==
  FlattenSeq([k \in DOMAIN stmts |-> compiled[stmts[k]][Append(at, k)][ctx]])

CompileAssert(s, at, ctx) ==
  Evaluated(s.cond, Append(at, 1), ctx)
    \o IfBlock(Id(at, "assert"), Value(Append(at, 1)), TRUE,
               RaiseInst("AssertionError", at, ctx))

CompileIfFallingThrough(compiled, s, at, ctx) ==
  LET Block(i) ==
        LET p == Append(at, i)
        IN Evaluated(s.arms[i].cond, p, ctx)
             \o IfBlock(Id(p, "if"), Value(p), FALSE,
                        CompileBody(compiled, s.arms[i].body, p, ctx))
  IN FlattenSeq([i \in DOMAIN s.arms |-> Block(i)])
       \o CompileBody(compiled, s.orelse, Append(at, 0), ctx)

CompileIf(compiled, s, at, ctx) ==
  LET exit == Id(at, "exit")
      reqGoto == s.orelse # <<>> \/ Len(s.arms) > 1
      Exit(inst) == IF reqGoto THEN inst ELSE <<>>
      Block(i) ==
        LET p == Append(at, i)
        IN Evaluated(s.arms[i].cond, p, ctx)
             \o IfBlock(Id(p, "if"), Value(p), FALSE,
                        CompileBody(compiled, s.arms[i].body, p, ctx) \o Exit(Goto(exit)))
  IN FlattenSeq([i \in DOMAIN s.arms |-> Block(i)])
       \o CompileBody(compiled, s.orelse, Append(at, 0), ctx)
       \o Exit(Label(exit))

(* Both kinds of loop leave at the head of the body, where the condition   *)
(* is false or the iterator has no next value.                             *)
StopOnContinuing(at, negate) ==
  IfBlock(Id(at, "stop"), Value(at), negate, Goto(After(Id(at, "loop"))))

StopOn(at, negate) ==
  IfBlock(Id(at, "stop"), Value(at), negate, LeaveLoop(Id(at, "loop")))

CompileWhile(compiled, s, at, ctx) ==
  LoopBlock(Id(at, "loop"), <<>>,
            Evaluated(s.cond, at, ctx) \o StopOn(at, TRUE),
            CompileBody(compiled, s.body, Append(at, 1), [ctx EXCEPT !.loop = Id(at, "loop")]))

CompileFor(compiled, s, at, ctx) ==
  LoopBlock(Id(at, "loop"),
            (IF s.cond = Test THEN <<>> ELSE RaiseInst(s.cond, at, ctx))
              \o Unsafe([op |-> "iter"], at, ctx),
            <<[op |-> "next", into |-> Value(at)]>> \o StopOn(at, TRUE),
            CompileBody(compiled, s.body, Append(at, 1), [ctx EXCEPT !.loop = Id(at, "loop")]))

(* compile_try: everything but the last instruction.  The else block is    *)
(* not compiled.                                                           *)
TryBlocks(compiled, s, at, ctx) ==
  LET inner == [ctx EXCEPT !.inTry = TRUE, !.excepts = Id(at, "excepts")]
      old == Id(at, "old")
      exc == Id(at, "exception")
      finally == Id(at, "finally")
      types == UNION {s.excepts[i].types : i \in DOMAIN s.excepts}
      Block(i) ==
        LET p == Append(at, i + 1)
        IN <<[op |-> "match", of |-> exc, types |-> s.excepts[i].types, into |-> Value(p)]>>
             \o IfBlock(Id(p, "except"), Value(p), FALSE,
                        CompileBody(compiled, s.excepts[i].body, p, inner) \o Goto(finally))
  IN <<[op |-> "save", into |-> old], [op |-> "excepts", types |-> types]>>
       \o CompileBody(compiled, s.body, Append(at, 1), inner)
       \o IfBlock(Id(at, "unraised"), GlobalException, TRUE, Goto(finally))
       \o Label(inner.excepts)
       \o Unsafe([op |-> "catch", into |-> exc], at, inner)
       \o FlattenSeq([i \in DOMAIN s.excepts |-> Block(i)])
       \o Label(finally)
       \o CompileBody(compiled, s.finally, Append(at, 0), inner)

(* compile_try, which restores the old excepts last. *)
CompileTry(compiled, s, at, ctx) ==
  TryBlocks(compiled, s, at, ctx) \o <<[op |-> "restore", from |-> Id(at, "old")]>>

Compile(compiled, s, at, ctx) ==
  CASE s.kind = "print"    -> Unsafe([op |-> "print", event |-> s.event], at, ctx)
    [] s.kind = "raise"    -> RaiseInst(s.exc, at, ctx)
    [] s.kind = "call"     -> Unsafe([op |-> "call", fn |-> s.fn], at, ctx)
    [] s.kind = "assert"   -> CompileAssert(s, at, ctx)
    [] s.kind = "if"       -> CompileIf(compiled, s, at, ctx)
    [] s.kind = "while"    -> CompileWhile(compiled, s, at, ctx)
    [] s.kind = "for"      -> CompileFor(compiled, s, at, ctx)
    [] s.kind = "try"      -> CompileTry(compiled, s, at, ctx)
    [] s.kind = "break"    -> LeaveLoop(ctx.loop)
    [] s.kind = "continue" -> Goto(After(ctx.loop))
    [] s.kind = "return"   -> ReturnInst

CompileStatement[s \in AnyStatement] ==
  [at \in Seq(Nat) |-> [ctx \in Context |-> Compile(CompileStatement, s, at, ctx)]]

(* compile_function ends a body with a return; the body of the module runs *)
(* off the end of init_module, which main takes for a return.              *)
CompileFunctionOpen(body) == CompileBody(CompileStatement, body, <<>>, Outside)

CompileFunction(body) ==
  CompileBody(CompileStatement, body, <<>>, Outside) \o ReturnInst

-----------------------------------------------------------------------------
(* The C program running. *)

VARIABLES
  program,   \* the source program
  code,      \* its functions as C
  stack,     \* the frames of the calls being run, the last one running
  excepts,   \* current_excepts: the exception types of the try statement
  pending,   \* global_exception
  tests,     \* how the free tests came out so far
  printed,   \* what was printed
  status     \* "running", "done", or "error" (the exit in set_exception)

vars == <<program, code, stack, excepts, pending, tests, printed, status>>
world == <<program, code, tests, printed>>

Frame(fn) == [fn |-> fn, pc |-> 1, locals |-> <<>>, entered |-> excepts]

Init ==
  /\ program \in Programs
  /\ code = [f \in DOMAIN program |-> CompileFunction(program[f])]
  /\ stack = <<[fn |-> "module", pc |-> 1, locals |-> <<>>, entered |-> {}]>>
  /\ excepts = {}
  /\ pending = NoException
  /\ tests = <<>>
  /\ printed = <<>>
  /\ status = "running"

top == stack[Len(stack)]
inst == code[top.fn][top.pc]

Position(op, id) ==
  CHOOSE i \in DOMAIN code[top.fn] :
    /\ code[top.fn][i].op = op
    /\ code[top.fn][i].id = id

Running(ops) == status = "running" /\ inst.op \in ops

JumpTo(i) == stack' = [stack EXCEPT ![Len(stack)].pc = i]
Proceed == JumpTo(top.pc + 1)
Assigned(locals, id, v) ==
  [x \in {id} \cup DOMAIN locals |-> IF x = id THEN v ELSE locals[x]]
SetLocal(id, v) ==
  stack' = [stack EXCEPT ![Len(stack)] =
              [top EXCEPT !.pc = top.pc + 1, !.locals = Assigned(top.locals, id, v)]]

Holds(id) ==
  IF id = GlobalException THEN pending # NoException ELSE top.locals[id]

DoPrint ==
  /\ Running({"print"})
  /\ printed' = Append(printed, inst.event)
  /\ Proceed
  /\ UNCHANGED <<program, code, excepts, pending, tests, status>>

(* A condition, or the next value of an iterator. *)
DoTest ==
  /\ Running({"test", "next"})
  /\ \/ \E b \in BOOLEAN :
          /\ Len(tests) < MaxTests
          /\ tests' = Append(tests, b)
          /\ SetLocal(inst.into, b)
     \/ /\ Len(tests) = MaxTests
        /\ SetLocal(inst.into, FALSE)
        /\ UNCHANGED tests
  /\ UNCHANGED <<program, code, excepts, pending, printed, status>>

DoIf ==
  /\ Running({"if"})
  /\ IF Holds(inst.on) # inst.negate THEN Proceed ELSE JumpTo(Position("endif", inst.id))
  /\ UNCHANGED <<world, excepts, pending, status>>

DoGoto ==
  /\ Running({"goto"})
  /\ JumpTo(Position("label", inst.id))
  /\ UNCHANGED <<world, excepts, pending, status>>

DoBreak ==
  /\ Running({"break"})
  /\ JumpTo(Position("endwhile", inst.id) + 1)
  /\ UNCHANGED <<world, excepts, pending, status>>

DoRepeat ==
  /\ Running({"endwhile"})
  /\ JumpTo(Position("while", inst.id))
  /\ UNCHANGED <<world, excepts, pending, status>>

DoPass ==
  /\ Running({"label", "while", "endif", "iter"})
  /\ Proceed
  /\ UNCHANGED <<world, excepts, pending, status>>

(* set_exceptionf and set_exception: a type outside current_excepts ends   *)
(* the process with an error message.                                      *)
SetException ==
  /\ Running({"raise"})
  /\ \/ /\ pending = NoException
        /\ inst.exc \in excepts
        /\ pending' = inst.exc
        /\ Proceed
        /\ UNCHANGED status
     \/ /\ pending = NoException
        /\ inst.exc \notin excepts
        /\ status' = "error"
        /\ UNCHANGED <<pending, stack>>
     \/ /\ pending # NoException
        /\ Proceed
        /\ UNCHANGED <<pending, status>>
  /\ UNCHANGED <<world, excepts>>

GetException ==
  /\ Running({"catch"})
  /\ SetLocal(inst.into, pending)
  /\ pending' = NoException
  /\ UNCHANGED <<world, excepts, status>>

DoMatch ==
  /\ Running({"match"})
  /\ SetLocal(inst.into, top.locals[inst.of] \in inst.types)
  /\ UNCHANGED <<world, excepts, pending, status>>

SaveExcepts ==
  /\ Running({"save"})
  /\ SetLocal(inst.into, excepts)
  /\ UNCHANGED <<world, excepts, pending, status>>

SetExcepts ==
  /\ Running({"excepts"})
  /\ excepts' = inst.types
  /\ Proceed
  /\ UNCHANGED <<world, pending, status>>

RestoreExcepts ==
  /\ Running({"restore"})
  /\ excepts' = top.locals[inst.from]
  /\ Proceed
  /\ UNCHANGED <<world, pending, status>>

DoCall ==
  /\ Running({"call"})
  /\ stack' = Append([stack EXCEPT ![Len(stack)].pc = @ + 1], Frame(inst.fn))
  /\ UNCHANGED <<world, excepts, pending, status>>

DoReturn ==
  /\ Running({"return"})
  /\ Len(stack) > 1
  /\ stack' = Front(stack)
  /\ UNCHANGED <<world, excepts, pending, status>>

(* main does not look at what init_module returns, and exits with 0.       *)
ModuleReturns ==
  /\ Running({"return"})
  /\ Len(stack) = 1
  /\ status' = "done"
  /\ UNCHANGED <<world, stack, excepts, pending>>

Next ==
  \/ DoPrint
  \/ DoTest
  \/ DoIf
  \/ DoGoto
  \/ DoBreak
  \/ DoRepeat
  \/ DoPass
  \/ SetException
  \/ GetException
  \/ DoMatch
  \/ SaveExcepts
  \/ SetExcepts
  \/ RestoreExcepts
  \/ DoCall
  \/ DoReturn
  \/ ModuleReturns

(* A process that is not blocked on anything keeps running. *)
Spec == Init /\ [][Next]_vars /\ WF_vars(Next)

-----------------------------------------------------------------------------

(* The C program never runs off the end of a function, and its exception   *)
(* state has the types of the runtime's globals.                           *)
TypeOK ==
  /\ \A i \in DOMAIN stack :
       /\ stack[i].fn \in DOMAIN program
       /\ stack[i].pc \in DOMAIN code[stack[i].fn]
  /\ excepts \subseteq Exceptions
  /\ pending \in Exceptions \cup {NoException}
  /\ tests \in Seq(BOOLEAN) /\ Len(tests) <= MaxTests
  /\ status \in {"running", "done", "error"}

(* Once an exception is pending, nothing of the source program runs before *)
(* it is caught: the check add_instruction puts behind every unsafe        *)
(* instruction leaves at once, in this function and in every caller.       *)
CheckedAtOnce ==
  (status = "running" /\ pending # NoException)
    => inst.op \notin {"print", "test", "next", "iter", "call", "raise", "save", "excepts"}

(* A function leaves current_excepts as it found it, as the code that      *)
(* remembers and restores the old excepts is there to ensure.              *)
ExceptsRestored ==
  /\ Running({"return"}) => excepts = top.entered
  /\ status = "done" => excepts = {}

(* A program whose tests come out false in the end comes to an end.        *)
Terminates == <>(status # "running")
=============================================================================
