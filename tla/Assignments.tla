------------------------------ MODULE Assignments ------------------------------
(***************************************************************************)
(* Programs of assignments, annotations and expressions: compiled one      *)
(* statement after the other (compile_assignment, compile_annotation and   *)
(* compile_statement in compiler.c), written as C, which the C compiler    *)
(* may not take, and run one instruction after the other.                  *)
(*                                                                         *)
(* The program text is a constant: one of Programs is compiled.  What the  *)
(* user's functions do is given by Body, for the compiled program and for  *)
(* Python alike.                                                           *)
(*                                                                         *)
(* Untested is a deviation, like those of Types and Rendering.             *)
(***************************************************************************)
EXTENDS Machine

CONSTANTS
  Programs,    \* set of [stmts, outcome, local]: what is compiled, how it
               \* ends, whether it is the body of a function
  Declared,    \* variable -> type, UNTYPED if nothing says it
  Values0,     \* variable -> value, for those that have one
  Heap0

VARIABLES
  program,     \* the program
  phase,       \* "compiling", "refused", "unwritable", "running", "raised", "done"
  stmt,        \* the next statement
  c,           \* the compiler
  pc,          \* the next instruction
  m            \* the machine

vars == <<program, phase, stmt, c, pc, m>>

Python == INSTANCE PythonValues

(* A program means in the end what it does in Python, or is known to       *)
(* differ; the compiler may be stricter than Python; and what it writes    *)
(* may be no C.                                                            *)
Outcomes == {"python", "differs", "strict", "unwritable"}

ASSUME AssignmentsAssumption ==
  /\ \A prog \in Programs : prog.outcome \in Outcomes /\ prog.local \in BOOLEAN
  /\ DOMAIN Values0 \subseteq DOMAIN Declared
  /\ \A x \in DOMAIN Values0 : Python!HasType(Heap0, Values0[x], Declared[x])

Init ==
  /\ program \in Programs
  /\ phase = "compiling" /\ stmt = 1 /\ pc = 1
  /\ c = Compiler(Declared)
  /\ m = Machine(Values0, Heap0)

-----------------------------------------------------------------------------
(* Compiling                                                               *)

Untested(f, object, other) == TRUE

(* The method an object is changed with takes the other value and returns  *)
(* an object of its own class.                                             *)
Changes(f, object, other) ==
  /\ compare_types(other.info, Functions[f].types[1])
  /\ compare_types(object.info, Functions[f].returns)

ObjectChanged(k, object, other, om) ==
  IF HasMethod(object.info.name, om) /\ Changes(Method(object.info.name, om), object, other)
  THEN Then(Bound(k, object, Method(object.info.name, om)),
            LAMBDA b : Write(b, "assign", FALSE, object, CallOf(b.out, <<other>>)))
  ELSE Refuse(k)

compile_object_op_assignment(k, object, other, op) ==
  ObjectChanged(k, object, other, op_assignment_to_object_model(op))

(* The target without its last operation.                                  *)
Container(target) == [target EXCEPT !.operations = Front(@)]
LastOperation(target) == Last(target.operations)
LastOperand(target) == target.operands[LastOperation(target).right]

KeyType(info) == IF info.type = "list" THEN INT_TYPE ELSE Content(info)
ItemType(info) == IF info.type = "list" THEN Content(info) ELSE Value(info)

Indexed(k) == k.out.info.type \in {"list", "dict"}

(* What an assignment to an item or an attribute begins with.              *)
ContainerOf(k, target) == render_expression(k, NullHint, Container(target))

(* The key is rendered as an operand is, and so as an expression of one.   *)
KeyOf(k, target) ==
  IF Indexed(k) THEN render_expression(k, Hint(KeyType(k.out.info)), Single(LastOperand(target)))
  ELSE Refuse(k)

(* The container, the key and then the value.                              *)
AssignItem(k, target, value) ==
  Then(ContainerOf(k, target), LAMBDA object :
    Then(KeyOf(object, target), LAMBDA key :
      Then(render_expression(key, Hint(ItemType(object.out.info)), value), LAMBDA v :
        compile_set_item(v, object.out, key.out, v.out))))

ItemChanged(k, object, key, old, other, op) ==
  IF old.info.type = "object" THEN compile_object_op_assignment(k, old, other, op)
  ELSE Then(render_operation(k, Hint(ItemType(object.info)), OP_ASSIGNMENT_TO_OP_TABLE[op], old, other),
            LAMBDA new : compile_set_item(new, object, key, new.out))

(* The item is read before the value is computed.  An object is changed    *)
(* by its method, and what that returns goes into a temporary.             *)
OpAssignItem(k, target, op, value) ==
  Then(ContainerOf(k, target), LAMBDA object :
    Then(KeyOf(object, target), LAMBDA key :
      Then(render_operation(key, Hint(ItemType(object.out.info)), "getitem", object.out, key.out), LAMBDA old :
        Then(render_expression(old, NullHint, value), LAMBDA other :
          ItemChanged(other, object.out, key.out, old.out, other.out, op)))))

AttributeType(object, attr) ==
  IF object.info.type = "object" THEN ClassMember(object.info.name, attr) ELSE UNTYPED

AttributeAssigned(k, object, attr, info, value) ==
  IF info = UNTYPED THEN Refuse(k)
  ELSE Then(render_expression(k, Hint(info), value), LAMBDA v : Perform(v, SetAttr(object, attr, v.out)))

AssignAttribute(k, target, value) ==
  Then(ContainerOf(k, target), LAMBDA object :
    AttributeAssigned(object, object.out, LastOperand(target).name,
                      AttributeType(object.out, LastOperand(target).name), value))

AttributeChanged(k, object, attr, old, other, op) ==
  IF old.info.type = "object" THEN compile_object_op_assignment(k, old, other, op)
  ELSE Then(render_operation(k, Hint(ClassMember(object.info.name, attr)),
                             OP_ASSIGNMENT_TO_OP_TABLE[op], old, other),
            LAMBDA new : Perform(new, SetAttr(object, attr, new.out)))

(* The value is computed before the member is read.                        *)
AttributeOpAssigned(k, object, attr, info, op, value) ==
  IF info = UNTYPED THEN Refuse(k)
  ELSE Then(render_expression(k, NullHint, value), LAMBDA other :
         Then(MemberOfType(other, Hint(info), object, attr, info), LAMBDA old :
           AttributeChanged(old, object, attr, old.out, other.out, op)))

OpAssignAttribute(k, target, op, value) ==
  Then(ContainerOf(k, target), LAMBDA object :
    AttributeOpAssigned(object, object.out, LastOperand(target).name,
                        AttributeType(object.out, LastOperand(target).name), op, value))

compile_simple_assignment(k, x, value) ==
  IF x \in DOMAIN k.types THEN render_expression(k, Variable(k, x), value) ELSE Refuse(k)

VariableChanged(k, variable, other, op) ==
  IF variable.info.type = "object" THEN compile_object_op_assignment(k, variable, other, op)
  ELSE render_operation(k, variable, OP_ASSIGNMENT_TO_OP_TABLE[op], variable, other)

(* The value is computed before the variable is read.                      *)
compile_simple_op_assignment(k, x, op, value) ==
  IF x \in DOMAIN k.types
  THEN Then(render_expression(k, NullHint, value),
            LAMBDA other : VariableChanged(other, Variable(k, x), other.out, op))
  ELSE Refuse(k)

compile_annotation(k, x, initial) ==
  IF x \in DOMAIN k.types THEN render_expression(k, Variable(k, x), initial) ELSE Refuse(k)

-----------------------------------------------------------------------------
(* One action per kind of statement.                                       *)

Statement == program.stmts[stmt]

(* The statement compiled: on to the next one, unless there was an error.  *)
Compiled ==
  /\ phase' = IF c'.refused THEN "refused" ELSE phase
  /\ stmt' = stmt + 1
  /\ UNCHANGED <<program, pc, m>>

AtStatement(kind) ==
  phase = "compiling" /\ stmt <= Len(program.stmts) /\ kind \in DOMAIN Statement

Target == Flat(Statement.target)
Assigned == Flat(Statement.value)
ToVariable == "name" \in DOMAIN Statement.target
ToItem == "op" \in DOMAIN Statement.target
ToAttribute == "attr" \in DOMAIN Statement.target
Plain == Statement.op = "="

SimpleAssignment ==
  AtStatement("target") /\ ToVariable /\ Plain
  /\ c' = compile_simple_assignment(c, Statement.target.name, Assigned)
  /\ Compiled

SimpleOpAssignment ==
  AtStatement("target") /\ ToVariable /\ ~Plain
  /\ c' = compile_simple_op_assignment(c, Statement.target.name, Statement.op, Assigned)
  /\ Compiled

ItemAssignment ==
  AtStatement("target") /\ ToItem /\ Plain
  /\ c' = AssignItem(c, Target, Assigned)
  /\ Compiled

ItemOpAssignment ==
  AtStatement("target") /\ ToItem /\ ~Plain
  /\ c' = OpAssignItem(c, Target, Statement.op, Assigned)
  /\ Compiled

AttributeAssignment ==
  AtStatement("target") /\ ToAttribute /\ Plain
  /\ c' = AssignAttribute(c, Target, Assigned)
  /\ Compiled

AttributeOpAssignment ==
  AtStatement("target") /\ ToAttribute /\ ~Plain
  /\ c' = OpAssignAttribute(c, Target, Statement.op, Assigned)
  /\ Compiled

Annotation ==
  AtStatement("annotated")
  /\ c' = compile_annotation(c, Statement.annotated, Flat(Statement.initial))
  /\ Compiled

ExpressionStatement ==
  /\ AtStatement("expr")
  /\ c' = render_expression(c, NullHint, Flat(Statement.expr))
  /\ Compiled

DeclaresTemp(inst, t) == inst.decl /\ inst.left.kind = "temp" /\ inst.left.name = t
Used(op) == {op.args[i].name : i \in {j \in DOMAIN op.args : op.args[j].kind = "temp"}}
Mentions(inst) == Used(inst.right) \cup (IF inst.left.kind = "temp" THEN {inst.left.name} ELSE {})

(* In the body of a function the variables with values are its arguments,  *)
(* which no instruction declares, and the others are locals, which are     *)
(* declared before the body.  At the top of a file C lets variables be     *)
(* declared again.                                                         *)
DeclaresLocal(inst) ==
  /\ program.local
  /\ inst.decl /\ inst.left.kind = "var" /\ inst.left.name \notin DOMAIN Values0

(* C takes the operations, every temporary is declared once, before        *)
(* whatever uses it, and no local is declared again.                       *)
CCompiles ==
  \A i \in DOMAIN c.code :
    /\ c.code[i].inst # "declare" => CCompilesOperation(c.code[i].left, c.code[i].right)
    /\ \A t \in Mentions(c.code[i]) :
         Cardinality({j \in 1 .. i : DeclaresTemp(c.code[j], t)}) = 1
    /\ ~DeclaresLocal(c.code[i])

(* The program is written, and the C compiler takes it or not.             *)
WriteProgram ==
  /\ phase = "compiling" /\ stmt > Len(program.stmts)
  /\ phase' = IF CCompiles THEN "running" ELSE "unwritable"
  /\ UNCHANGED <<program, stmt, c, pc, m>>

(* An instruction; what can raise is followed by a look at the exception.  *)
RunInstruction ==
  /\ phase = "running" /\ pc <= Len(c.code)
  /\ m' = write_instruction(m, c.code[pc])
  /\ phase' = IF m'.raised # "" THEN "raised" ELSE phase
  /\ pc' = pc + 1
  /\ UNCHANGED <<program, stmt, c>>

Finish ==
  /\ phase = "running" /\ pc > Len(c.code)
  /\ phase' = "done"
  /\ UNCHANGED <<program, stmt, c, pc, m>>

Next ==
  \/ SimpleAssignment \/ SimpleOpAssignment \/ ItemAssignment \/ ItemOpAssignment
  \/ AttributeAssignment \/ AttributeOpAssignment \/ Annotation \/ ExpressionStatement
  \/ WriteProgram \/ RunInstruction \/ Finish

Spec == Init /\ [][Next]_vars

-----------------------------------------------------------------------------
(* Properties                                                              *)

Ended == phase \in {"raised", "done"}
Expected == program.outcome

Containers(values) == {x \in DOMAIN values : DOMAIN values[x] \cap {"list", "dict", "obj"} # {}}
Shared(values) ==
  {<<x, y>> \in Containers(values) \X Containers(values) : values[x] = values[y]}
Meaning(s) == [x \in DOMAIN s.vars |-> Unfold(s.heap, s.vars[x])]

(* What the program does in Python.                                        *)
ProgramInPython == Python!InPython(Python!PythonState(Values0, Heap0), program.stmts)

(* The program printed, raised and left in its variables what it does in   *)
(* Python, and the same variables share a list, a dict or an object.       *)
AgreesWith(p) ==
  /\ m.printed = p.printed /\ m.raised = p.raised
  /\ Meaning(m) = Meaning(p) /\ Shared(m.vars) = Shared(p.vars)
  /\ \A x \in DOMAIN m.vars : ~IsBeyond(m.vars[x])

AsInPython == AgreesWith(ProgramInPython)

(* C reads the memory behind a value as what the type of the variable      *)
(* says, and nothing tests it: whatever the program does, a variable holds *)
(* a value of the type the compiler knows it by, and so does every place   *)
(* in a list or a dict it leads to.  Not so after an exception and an      *)
(* undefined operation, in programs known to differ.                       *)
TypeOK ==
  /\ stmt \in Nat /\ pc \in Nat
  /\ phase \in {"compiling", "refused", "unwritable", "running", "raised", "done"}
  /\ phase = "running" \/ Ended =>
       \A x \in DOMAIN m.vars :
         Expected # "differs" => Python!HasType(m.heap, m.vars[x], c.types[x])

(* A program that is accepted, compiled and run prints what it would in    *)
(* Python, raises what it would, leaves the same in its variables and lets *)
(* the same variables share their contents: the order of evaluation, the   *)
(* temporaries, conversions and functions of the library add up to the     *)
(* meaning of the program.  The programs whose meaning the compiler is     *)
(* known to change end otherwise.                                          *)
MeansPython == Ended => (AsInPython <=> Expected = "python")

(* A program is refused if it is one Python raises TypeError or NameError  *)
(* for, or one this language is stricter with; and those it is stricter    *)
(* with are refused.                                                       *)
RefusesTypeErrors ==
  /\ phase = "refused" => Expected = "strict" \/ ProgramInPython.raised \in {"TypeError", "NameError"}
  /\ Expected = "strict" => phase \in {"compiling", "refused"}

(* What the compiler writes is C, in which every temporary is declared     *)
(* once before it is used, no local of a function is declared again and    *)
(* every function is one of the library's, but for what it is known to     *)
(* write wrong.                                                            *)
WritesC ==
  /\ phase = "unwritable" => Expected = "unwritable"
  /\ Expected = "unwritable" => ~Ended
=============================================================================
