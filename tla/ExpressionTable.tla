--------------------------- MODULE ExpressionTable ---------------------------
(***************************************************************************)
(* From the tokens of an expression to the order its operations are        *)
(* compiled in: parse_expression pushes operands and operations on the     *)
(* expression table (lexer.c, lexer_helpers.c), et_to_expr sorts the       *)
(* operations by precedence, and render_expression (compiler.c) compiles   *)
(* them one by one, finding the value of an operand in a record of the     *)
(* operations already compiled.                                            *)
(*                                                                         *)
(* A value is the tree of the operations that compute it.  Operands are    *)
(* counted from 1, so that 0 is the operand to the left of the first.  The *)
(* arguments of a call, the index of a subscript and an expression in      *)
(* parentheses are operands: each is an expression of its own.             *)
(*                                                                         *)
(* The array of the record has a cell less than there are operations, and  *)
(* the last value is written behind it: RecordFits does not hold then.     *)
(* What is written there is taken to be what is read back as the result;   *)
(* nothing else is written between the two, but that the cell behind the   *)
(* array is free is up to the layout of the stack.  Apart from TypeOK,     *)
(* everything here is about builds in which it is.                         *)
(*                                                                         *)
(* SortedNotReversingPow, SortedRightToLeft and UpdatedAhead are           *)
(* deviations, what the operator below each would be with a bug; the       *)
(* specification uses none of them.                                        *)
(***************************************************************************)
EXTENDS Naturals, Sequences, SequencesExt

CONSTANTS
  Sources,      \* the expressions, as sequences of tokens
  Containers    \* the operands that are lists or dicts

(* PRECEDENCE_TABLE *)
Precedence ==
  [call |-> 16, getitem |-> 16, getattr |-> 16, pow |-> 14, negative |-> 13, bitnot |-> 13,
   mult |-> 12, div |-> 12, floordiv |-> 12, mod |-> 12, plus |-> 11, minus |-> 11,
   lshift |-> 10, rshift |-> 10, bitand |-> 9, bitxor |-> 8, bitor |-> 7,
   equal |-> 6, less |-> 6, in |-> 6, is |-> 6, not |-> 5, and |-> 4, or |-> 3]

MaxPrecedence == 16
Unary == {"not", "negative", "bitnot"}

Token == [type : {"operand"}, name : STRING]
           \cup [type : {"operator"}, name : DOMAIN Precedence]

(* What parse_expression lets through of Python's expressions: it pushes   *)
(* an operand itself behind the operator of a call, and an operator that   *)
(* is not unary, nor a minus sign, has an operand somewhere before it.     *)
ASSUME SourcesAssumption ==
  \A ts \in Sources :
    /\ ts \in Seq(Token)
    /\ \A k \in DOMAIN ts :
         ts[k].type = "operator" =>
           /\ ts[k].name = "call" => k < Len(ts) /\ ts[k + 1].type = "operand"
           /\ ts[k].name \notin Unary \cup {"minus"} =>
                \E j \in 1 .. k - 1 : ts[j].type = "operand"

(* No operand has the name of an operator. *)
ASSUME ContainersAssumption == Containers \cap DOMAIN Precedence = {}

VARIABLES
  source,      \* the tokens
  read,        \* how many of them were consumed
  operands,    \* the operands pushed
  previous,    \* "none", "operand" or "operation": what was pushed last
  vectors,     \* operation_vectors: the operations of each precedence
  operations,  \* the operations of the expression, sorted
  next,        \* the number of operations compiled
  record,      \* previous_operations: the values computed so far
  lookup,      \* lookup_by_operand_index: a position in record, or 0
  phase        \* "parse", "render", "done", or "rejected" (an error exit)

table == <<operands, previous, vectors>>
vars == <<source, read, table, operations, next, record, lookup, phase>>

-----------------------------------------------------------------------------
(* Parsing. *)

token == source[read + 1]
Reading(type) == phase = "parse" /\ read < Len(source) /\ token.type = type

(* A minus sign with no operand before it negates. *)
OpType ==
  IF token.name = "minus" /\ previous # "operand" THEN "negative" ELSE token.name

PushOperand ==
  /\ Reading("operand")
  /\ operands' = Append(operands, token.name)
  /\ previous' = "operand"
  /\ read' = read + 1
  /\ UNCHANGED <<source, vectors, operations, next, record, lookup, phase>>

PushOperation ==
  /\ Reading("operator")
  /\ LET operation == [op |-> OpType, left |-> Len(operands), right |-> Len(operands) + 1]
     IN vectors' = [vectors EXCEPT ![Precedence[OpType]] = Append(@, operation)]
  /\ previous' = "operation"
  /\ read' = read + 1
  /\ UNCHANGED <<source, operands, operations, next, record, lookup, phase>>

(* Highest precedence first, and in the order of the source but for pow.   *)
SortedNotReversingPow(vecs) ==
  FlattenSeq([k \in 1 .. MaxPrecedence + 1 |-> vecs[MaxPrecedence + 1 - k]])

SortedRightToLeft(vecs) ==
  FlattenSeq([k \in 1 .. MaxPrecedence + 1 |-> Reverse(vecs[MaxPrecedence + 1 - k])])

Sorted(vecs) ==
  FlattenSeq([k \in 1 .. MaxPrecedence + 1 |->
    LET prec == MaxPrecedence + 1 - k
    IN IF prec = Precedence["pow"] THEN Reverse(vecs[prec]) ELSE vecs[prec]])

ToExpr ==
  /\ phase = "parse"
  /\ read = Len(source)
  /\ previous = "operand"
  /\ operations' = Sorted(vectors)
  /\ lookup' = [k \in DOMAIN operands |-> 0]
  /\ phase' = "render"
  /\ UNCHANGED <<source, read, table, next, record>>

(* The assertions of et_to_expr, and a last operation without an operand.  *)
ExpressionEndsOnOperator ==
  /\ phase = "parse"
  /\ read = Len(source)
  /\ previous # "operand"
  /\ phase' = "rejected"
  /\ UNCHANGED <<source, read, table, operations, next, record, lookup>>

-----------------------------------------------------------------------------
(* Compiling. *)

Leaf(name) == [op |-> name, args |-> <<>>]
Node(op, args) == [op |-> op, args |-> args]

(* INIT_EXPRESSION_RECORD: the cells of previous_ops_memory.  An           *)
(* expression of at most one operation (IS_SIMPLE_EXPRESSION) keeps no     *)
(* array: its one value is the result.                                     *)
RecordSize == Len(operations) - 1
KeepsRecord == Len(operations) >= 2

(* The value an operand index stands for: that of the last operation       *)
(* recorded for it, or else the operand itself.                            *)
ValueOf(k) ==
  IF lookup[k] # 0 THEN record[lookup[k]] ELSE Leaf(operands[k])

Computed(operation) ==
  Node(operation.op,
       IF operation.op \in Unary THEN <<ValueOf(operation.right)>>
       ELSE <<ValueOf(operation.left), ValueOf(operation.right)>>)

(* update_expression_record, for a value at position i of the record. *)
UpdatedAhead(table_, operation, i) ==
  [k \in DOMAIN table_ |->
     IF k = operation.right \/ (k = operation.left /\ operation.op \notin Unary)
     THEN i + 1 ELSE table_[k]]

Updated(table_, operation, i) ==
  [k \in DOMAIN table_ |->
     IF k = operation.right \/ (k = operation.left /\ operation.op \notin Unary)
     THEN i ELSE table_[k]]

current == operations[next + 1]
Rendering == phase = "render" /\ next < Len(operations)
OfContainer(operation) ==
  /\ operation.op = "getattr"
  /\ ValueOf(operation.left).op \in Containers

(* Every operation but a method of a list or dict. *)
RenderOperation ==
  /\ Rendering
  /\ ~OfContainer(current)
  /\ record' = Append(record, Computed(current))
  /\ lookup' = Updated(lookup, current, Len(record) + 1)
  /\ next' = next + 1
  /\ UNCHANGED <<source, read, table, operations, phase>>

(* render_list_builtin, render_dict_builtin: the attribute and the call    *)
(* that has to follow it are compiled as one.                              *)
RenderBuiltinMethod ==
  /\ Rendering
  /\ OfContainer(current)
  /\ next + 2 <= Len(operations)
  /\ operations[next + 2].op = "call"
  /\ LET call == operations[next + 2]
         value == Node("call", <<Computed(current), Leaf(operands[call.right])>>)
     IN /\ record' = record \o <<value, value>>
        /\ lookup' = Updated(Updated(lookup, current, Len(record) + 1),
                             call, Len(record) + 2)
  /\ next' = next + 2
  /\ UNCHANGED <<source, read, table, operations, phase>>

(* "builtin dict methods cannot be referenced", "expecting function call". *)
MethodReferenced ==
  /\ Rendering
  /\ OfContainer(current)
  /\ \/ next + 1 = Len(operations)
     \/ next + 2 <= Len(operations) /\ operations[next + 2].op # "call"
  /\ phase' = "rejected"
  /\ UNCHANGED <<source, read, table, operations, next, record, lookup>>

RenderedAll ==
  /\ phase = "render"
  /\ next = Len(operations)
  /\ phase' = "done"
  /\ UNCHANGED <<source, read, table, operations, next, record, lookup>>

(* RETURN_EXPRESSION_RESULT, or the one operand there is. *)
result == IF record = <<>> THEN Leaf(operands[1]) ELSE record[Len(record)]

-----------------------------------------------------------------------------

Init ==
  /\ source \in Sources
  /\ read = 0
  /\ operands = <<>>
  /\ previous = "none"
  /\ vectors = [prec \in 0 .. MaxPrecedence |-> <<>>]
  /\ operations = <<>>
  /\ next = 0
  /\ record = <<>>
  /\ lookup = <<>>
  /\ phase = "parse"

Next ==
  \/ PushOperand
  \/ PushOperation
  \/ ToExpr
  \/ ExpressionEndsOnOperator
  \/ RenderOperation
  \/ RenderBuiltinMethod
  \/ MethodReferenced
  \/ RenderedAll

Spec == Init /\ [][Next]_vars

-----------------------------------------------------------------------------

(* What update_expression_record has written lies in the array declared    *)
(* for it.                                                                 *)
RecordFits == KeepsRecord => Len(record) <= RecordSize

(* Operations name operands there are, and the lookup table names values   *)
(* that were recorded.  Of several operations, the last one is compiled    *)
(* into the cell behind the array, whatever the expression, where          *)
(* RETURN_EXPRESSION_RESULT reads it; nothing else is written or looked up *)
(* there.                                                                  *)
TypeOK ==
  /\ read \in 0 .. Len(source)
  /\ phase \in {"parse", "render", "done", "rejected"}
  /\ next \in 0 .. Len(operations)
  /\ Len(record) = next
  /\ KeepsRecord => (RecordFits <=> next < Len(operations))
  /\ \A k \in DOMAIN lookup :
       /\ lookup[k] \in 0 .. Len(record)
       /\ Rendering => lookup[k] <= RecordSize
  /\ \A i \in DOMAIN operations :
       /\ operations[i].right \in DOMAIN operands
       /\ operations[i].op \notin Unary => operations[i].left \in DOMAIN operands

(* The calls an expression makes are compiled in the order of the source,  *)
(* before any operator is applied to what they return.                     *)
CallsComeInOrder ==
  phase \in {"render", "done"} =>
    \A i, j \in DOMAIN operations :
      operations[j].op = "call" =>
        /\ operations[i].op \notin {"call", "getattr", "getitem"} => j < i
        /\ (operations[i].op = "call" /\ i < j) => operations[i].left < operations[j].left
=============================================================================
