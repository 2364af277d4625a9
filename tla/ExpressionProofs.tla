--------------------------- MODULE ExpressionProofs ---------------------------
(***************************************************************************)
(* Proofs about module ExpressionTable, for every set of expressions, of   *)
(* any length, that satisfies SourcesAssumption.                           *)
(***************************************************************************)
EXTENDS Expressions, SequenceFacts

-----------------------------------------------------------------------------
(* The inductive invariant                                                 *)

Operation == [op : DOMAIN Precedence, left : Nat, right : Nat]

IsSequence(s) == s \in Seq({s[i] : i \in DOMAIN s})

(* The last operation still waits for its right operand. *)
Waiting == IF previous = "operation" THEN 1 ELSE 0

(* What an operation on the table names, given how many operands there are *)
(* with the one it waits for.                                              *)
OperandsNamed(operation, count) ==
  /\ operation.right = operation.left + 1
  /\ operation.right <= count
  /\ operation.op \notin Unary => operation.left # 0

TableTypes ==
  /\ source \in Sources
  /\ read \in 0 .. Len(source)
  /\ operands \in Seq(STRING)
  /\ previous \in {"none", "operand", "operation"}
  /\ vectors \in [0 .. MaxPrecedence -> Seq(Operation)]

(* Every operation stands in the vector of its precedence and names        *)
(* operands that were pushed, or the one to be pushed next.                *)
TableInv ==
  \A prec \in 0 .. MaxPrecedence : \A i \in 1 .. Len(vectors[prec]) :
    /\ Precedence[vectors[prec][i].op] = prec
    /\ OperandsNamed(vectors[prec][i], Len(operands) + Waiting)

OperandsRead ==
  (\/ \E j \in 1 .. read : source[j].type = "operand"
   \/ previous = "operand") => operands # <<>>

(* Calls are pushed from left to right, each before its own arguments.     *)
CallsInv ==
  \A i \in 1 .. Len(vectors[Precedence["call"]]) :
    LET pushed == vectors[Precedence["call"]][i]
    IN pushed.op = "call" =>
         /\ \/ pushed.left < Len(operands)
            \/ /\ pushed.left = Len(operands)
               /\ read # 0
               /\ source[read].type = "operator"
               /\ source[read].name = "call"
         /\ \A j \in 1 .. i - 1 :
              vectors[Precedence["call"]][j].op = "call" =>
                vectors[Precedence["call"]][j].left < pushed.left

Parsing ==
  /\ TableInv
  /\ OperandsRead
  /\ CallsInv
  /\ operations = <<>>
  /\ next = 0
  /\ record = <<>>
  /\ lookup = <<>>

(* The operations are those of the table, sorted. *)
Compiling ==
  /\ operations \in Seq(Operation)
  /\ \A i \in 1 .. Len(operations) :
       /\ operations[i].right \in 1 .. Len(operands)
       /\ operations[i].op \notin Unary => operations[i].left \in 1 .. Len(operands)
  /\ \A i, j \in 1 .. Len(operations) :
       operations[j].op = "call" =>
         /\ operations[i].op \notin {"call", "getattr", "getitem"} => j < i
         /\ (operations[i].op = "call" /\ i < j) => operations[i].left < operations[j].left
  /\ next \in 0 .. Len(operations)
  /\ IsSequence(record)
  /\ Len(record) = next
  /\ \A k \in DOMAIN lookup : lookup[k] \in 0 .. next

IInv ==
  /\ TableTypes
  /\ phase \in {"parse", "render", "done", "rejected"}
  /\ phase = "parse" => Parsing
  /\ phase \in {"render", "done"} => Compiling
  /\ phase = "rejected" => Parsing \/ Compiling

-----------------------------------------------------------------------------
(* Sorting                                                                 *)

LEMMA PrecedenceFacts ==
  /\ Precedence["pow"] = 14
  /\ Precedence["call"] = 16
  /\ \A op \in DOMAIN Precedence :
       /\ Precedence[op] \in 0 .. MaxPrecedence
       /\ Precedence[op] = 16 <=> op \in {"call", "getattr", "getitem"}
  BY DEF Precedence, MaxPrecedence

LEMMA ReverseElements ==
  ASSUME NEW A, NEW s \in Seq(A)
  PROVE  /\ Reverse(s) \in Seq(A)
         /\ Len(Reverse(s)) = Len(s)
         /\ \A i \in 1 .. Len(s) : \E j \in 1 .. Len(s) : Reverse(s)[i] = s[j]
         /\ \A i \in 1 .. Len(s) : Reverse(s)[i] = s[Len(s) - i + 1]
<1>1. Len(s) \in Nat
  OBVIOUS
<1>2. \A i \in 1 .. Len(s) : Len(s) - i + 1 \in 1 .. Len(s)
  BY <1>1
<1>3. \A i \in 1 .. Len(s) : s[Len(s) - i + 1] \in A
  BY <1>2
<1>4. Reverse(s) = [i \in 1 .. Len(s) |-> s[Len(s) - i + 1]]
  BY DEF Reverse
<1> DEFINE r == [i \in 1 .. Len(s) |-> s[Len(s) - i + 1]]
<1>5. r \in [1 .. Len(s) -> A]
  BY <1>3
<1>6. \A i \in 1 .. Len(s) : r[i] = s[Len(s) - i + 1]
  OBVIOUS
<1> HIDE DEF r
<1>7. r \in Seq(A) /\ Len(r) = Len(s)
  BY <1>1, <1>5
<1>8. QED
  BY <1>2, <1>4, <1>6, <1>7 DEF r

(* Every sorted operation is one of the table, and the vectors follow one  *)
(* another from the highest precedence down.                               *)
LEMMA SortedElements ==
  ASSUME NEW A, NEW vecs \in [0 .. MaxPrecedence -> Seq(A)]
  PROVE  /\ Sorted(vecs) \in Seq(A)
         /\ \E start \in [0 .. MaxPrecedence -> Nat] :
              /\ \A x \in 1 .. Len(Sorted(vecs)) : \E prec \in 0 .. MaxPrecedence :
                   /\ x - start[prec] \in 1 .. Len(vecs[prec])
                   /\ \E i \in 1 .. Len(vecs[prec]) : Sorted(vecs)[x] = vecs[prec][i]
                   /\ prec # Precedence["pow"] => Sorted(vecs)[x] = vecs[prec][x - start[prec]]
                   /\ prec = Precedence["pow"] =>
                        Sorted(vecs)[x] = vecs[prec][Len(vecs[prec]) - (x - start[prec]) + 1]
              /\ \A p, q \in 0 .. MaxPrecedence :
                   q < p => start[p] + Len(vecs[p]) <= start[q]
              /\ \A p \in 0 .. MaxPrecedence : start[p] + Len(vecs[p]) <= Len(Sorted(vecs))
<1> DEFINE At(k) == LET prec == MaxPrecedence + 1 - k
                    IN IF prec = Precedence["pow"] THEN Reverse(vecs[prec]) ELSE vecs[prec]
           seqs == [k \in 1 .. MaxPrecedence + 1 |-> At(k)]
           flat == FlattenSeq(seqs)
<1>1. Sorted(vecs) = flat
  BY DEF Sorted
<1>2. MaxPrecedence = 16
  BY DEF MaxPrecedence
<1>3. ASSUME NEW prec \in 0 .. MaxPrecedence
      PROVE  /\ 17 - prec \in 1 .. 17
             /\ seqs[17 - prec] \in Seq(A)
             /\ Len(seqs[17 - prec]) = Len(vecs[prec])
             /\ \A i \in 1 .. Len(vecs[prec]) : \E j \in 1 .. Len(vecs[prec]) :
                  seqs[17 - prec][i] = vecs[prec][j]
             /\ prec # Precedence["pow"] => seqs[17 - prec] = vecs[prec]
             /\ prec = Precedence["pow"] =>
                  \A i \in 1 .. Len(vecs[prec]) :
                    seqs[17 - prec][i] = vecs[prec][Len(vecs[prec]) - i + 1]
  <2> DEFINE v == vecs[prec]
  <2>1. v \in Seq(A)
    OBVIOUS
  <2>2. 17 - prec \in 1 .. 17 /\ 17 - (17 - prec) = prec
    BY <1>2
  <2>3. seqs[17 - prec] = IF prec = Precedence["pow"] THEN Reverse(v) ELSE v
    BY <1>2, <2>2
  <2> HIDE DEF v, seqs
  <2>4. CASE prec = Precedence["pow"]
    <3>1. seqs[17 - prec] = Reverse(v)
      BY <2>3, <2>4
    <3>2. /\ Reverse(v) \in Seq(A) /\ Len(Reverse(v)) = Len(v)
          /\ \A i \in 1 .. Len(v) : \E j \in 1 .. Len(v) : Reverse(v)[i] = v[j]
          /\ \A i \in 1 .. Len(v) : Reverse(v)[i] = v[Len(v) - i + 1]
      BY <2>1, ReverseElements
    <3> DEFINE r == Reverse(v)
    <3>3. seqs[17 - prec] = r
      BY <3>1
    <3>4. /\ r \in Seq(A) /\ Len(r) = Len(v)
          /\ \A i \in 1 .. Len(v) : \E j \in 1 .. Len(v) : r[i] = v[j]
          /\ \A i \in 1 .. Len(v) : r[i] = v[Len(v) - i + 1]
      BY <3>2
    <3> HIDE DEF r
    <3>5. QED
      BY <2>2, <2>4, <3>3, <3>4 DEF v
  <2>5. CASE prec # Precedence["pow"]
    BY <2>1, <2>2, <2>3, <2>5 DEF v
  <2>6. QED
    BY <2>4, <2>5
<1>4. ASSUME NEW k \in 1 .. 17 PROVE seqs[k] \in Seq(A)
  <2> HIDE DEF seqs
  <2>1. PICK prec \in 0 .. MaxPrecedence : 17 - prec = k
    <3>1. 17 - k \in 0 .. MaxPrecedence /\ 17 - (17 - k) = k
      BY <1>2
    <3>2. QED
      BY <3>1
  <2>2. QED
    BY <1>3, <2>1
<1>5. seqs \in [1 .. 17 -> Seq(A)]
  BY <1>2, <1>4
<1> HIDE DEF seqs, flat
<1>6. PICK start \in [1 .. 17 -> Nat] :
        /\ \A x \in 1 .. Len(flat) : \E k \in 1 .. 17 :
             x - start[k] \in 1 .. Len(seqs[k]) /\ flat[x] = seqs[k][x - start[k]]
        /\ \A k, l \in 1 .. 17 : k < l => start[k] + Len(seqs[k]) <= start[l]
        /\ \A k \in 1 .. 17 : start[k] + Len(seqs[k]) <= Len(flat)
  <2>1. PICK n \in Nat \ {0} : n = 17
    OBVIOUS
  <2>2. seqs \in [1 .. n -> Seq(A)]
    BY <1>5, <2>1
  <2>3. \E start \in [1 .. n -> Nat] :
        /\ \A x \in 1 .. Len(FlattenSeq(seqs)) : \E k \in 1 .. n :
             /\ x - start[k] \in 1 .. Len(seqs[k])
             /\ FlattenSeq(seqs)[x] = seqs[k][x - start[k]]
        /\ \A k, l \in 1 .. n : k < l => start[k] + Len(seqs[k]) <= start[l]
        /\ \A k \in 1 .. n : start[k] + Len(seqs[k]) <= Len(FlattenSeq(seqs))
    BY <2>2, FlattenSeqElements
  <2>4. QED
    BY <2>1, <2>3, Zenon DEF flat
<1>7. flat \in Seq(A)
  <2>1. PICK n \in Nat \ {0} : n = 17
    OBVIOUS
  <2>2. seqs \in [1 .. n -> Seq(A)]
    BY <1>5, <2>1
  <2>3. FlattenSeq(seqs) \in Seq(A)
    BY <2>2, FlattenSeqElements
  <2>4. QED
    BY <2>3 DEF flat
<1> DEFINE from == [prec \in 0 .. MaxPrecedence |-> start[17 - prec]]
<1>8. from \in [0 .. MaxPrecedence -> Nat]
  BY <1>3
<1>9. \A prec \in 0 .. MaxPrecedence : from[prec] = start[17 - prec]
  OBVIOUS
<1> HIDE DEF from
<1>10. ASSUME NEW x \in 1 .. Len(flat)
       PROVE  \E prec \in 0 .. MaxPrecedence :
                /\ x - from[prec] \in 1 .. Len(vecs[prec])
                /\ \E i \in 1 .. Len(vecs[prec]) : flat[x] = vecs[prec][i]
                /\ prec # Precedence["pow"] => flat[x] = vecs[prec][x - from[prec]]
                /\ prec = Precedence["pow"] =>
                     flat[x] = vecs[prec][Len(vecs[prec]) - (x - from[prec]) + 1]
  <2>1. PICK k \in 1 .. 17 :
          x - start[k] \in 1 .. Len(seqs[k]) /\ flat[x] = seqs[k][x - start[k]]
    BY <1>6
  <2>2. PICK prec \in 0 .. MaxPrecedence : 17 - prec = k
    <3>1. 17 - k \in 0 .. MaxPrecedence /\ 17 - (17 - k) = k
      BY <1>2
    <3>2. QED
      BY <3>1
  <2>3. from[prec] = start[k]
    BY <1>9, <2>2
  <2>4. x - from[prec] \in 1 .. Len(vecs[prec])
    BY <1>3, <2>1, <2>2, <2>3
  <2>5. flat[x] = seqs[17 - prec][x - from[prec]]
    BY <2>1, <2>2, <2>3
  <2>6. prec # Precedence["pow"] => flat[x] = vecs[prec][x - from[prec]]
    BY <1>3, <2>5
  <2>7. \E i \in 1 .. Len(vecs[prec]) : flat[x] = vecs[prec][i]
    <3> DEFINE i == x - from[prec]
    <3>1. i \in 1 .. Len(vecs[prec]) /\ flat[x] = seqs[17 - prec][i]
      BY <2>4, <2>5
    <3> HIDE DEF i
    <3>2. \E j \in 1 .. Len(vecs[prec]) : seqs[17 - prec][i] = vecs[prec][j]
      BY <1>3, <3>1
    <3>3. QED
      BY <3>1, <3>2
  <2>9. prec = Precedence["pow"] =>
          flat[x] = vecs[prec][Len(vecs[prec]) - (x - from[prec]) + 1]
    <3> DEFINE i == x - from[prec]
    <3>1. i \in 1 .. Len(vecs[prec]) /\ flat[x] = seqs[17 - prec][i]
      BY <2>4, <2>5
    <3> HIDE DEF i
    <3>2. prec = Precedence["pow"] => flat[x] = vecs[prec][Len(vecs[prec]) - i + 1]
      BY <1>3, <3>1
    <3>3. QED
      BY <3>2 DEF i
  <2>8. QED
    BY <2>4, <2>6, <2>7, <2>9
<1>11. ASSUME NEW p \in 0 .. MaxPrecedence, NEW q \in 0 .. MaxPrecedence, q < p
       PROVE  from[p] + Len(vecs[p]) <= from[q]
  <2>1. 17 - p \in 1 .. 17 /\ 17 - q \in 1 .. 17 /\ 17 - p < 17 - q
    <3>1. p \in 0 .. 16 /\ q \in 0 .. 16
      BY <1>2
    <3>2. \A a, b \in 0 .. 16 : b < a => 17 - a < 17 - b
      OBVIOUS
    <3>3. QED
      BY <1>3, <3>1, <3>2, <1>11
  <2>2. start[17 - p] + Len(seqs[17 - p]) <= start[17 - q]
    BY <1>6, <2>1
  <2>3. Len(seqs[17 - p]) = Len(vecs[p])
    BY <1>3
  <2>4. QED
    BY <1>9, <2>2, <2>3
<1>17. ASSUME NEW p \in 0 .. MaxPrecedence PROVE from[p] + Len(vecs[p]) <= Len(flat)
  <2>1. start[17 - p] + Len(seqs[17 - p]) <= Len(flat)
    BY <1>3, <1>6
  <2>2. QED
    BY <1>3, <1>9, <2>1
<1> DEFINE sorted == Sorted(vecs)
<1>12. sorted = flat
  BY <1>1
<1> HIDE DEF sorted
<1>13. /\ sorted \in Seq(A)
       /\ \A x \in 1 .. Len(sorted) : \E prec \in 0 .. MaxPrecedence :
                /\ x - from[prec] \in 1 .. Len(vecs[prec])
                /\ \E i \in 1 .. Len(vecs[prec]) : sorted[x] = vecs[prec][i]
                /\ prec # Precedence["pow"] => sorted[x] = vecs[prec][x - from[prec]]
                /\ prec = Precedence["pow"] =>
                     sorted[x] = vecs[prec][Len(vecs[prec]) - (x - from[prec]) + 1]
       /\ \A p \in 0 .. MaxPrecedence : from[p] + Len(vecs[p]) <= Len(sorted)
  BY <1>7, <1>10, <1>12, <1>17
<1>14. \A p, q \in 0 .. MaxPrecedence : q < p => from[p] + Len(vecs[p]) <= from[q]
  BY <1>11
<1>15. \E starts \in [0 .. MaxPrecedence -> Nat] :
        /\ \A x \in 1 .. Len(sorted) : \E prec \in 0 .. MaxPrecedence :
             /\ x - starts[prec] \in 1 .. Len(vecs[prec])
             /\ \E i \in 1 .. Len(vecs[prec]) : sorted[x] = vecs[prec][i]
             /\ prec # Precedence["pow"] => sorted[x] = vecs[prec][x - starts[prec]]
             /\ prec = Precedence["pow"] =>
                  sorted[x] = vecs[prec][Len(vecs[prec]) - (x - starts[prec]) + 1]
        /\ \A p, q \in 0 .. MaxPrecedence : q < p => starts[p] + Len(vecs[p]) <= starts[q]
        /\ \A p \in 0 .. MaxPrecedence : starts[p] + Len(vecs[p]) <= Len(sorted)
  BY <1>8, <1>13, <1>14, Zenon
<1>16. QED
  BY <1>13, <1>15 DEF sorted

(* What sorting makes of a table that keeps its invariant: operations      *)
(* whose operands there are, and calls first and from left to right.       *)
LEMMA SortedTable ==
  ASSUME TableTypes, TableInv, CallsInv, previous = "operand"
  PROVE  /\ Sorted(vectors) \in Seq(Operation)
         /\ \A x \in 1 .. Len(Sorted(vectors)) :
              /\ Sorted(vectors)[x].right \in 1 .. Len(operands)
              /\ Sorted(vectors)[x].op \notin Unary =>
                   Sorted(vectors)[x].left \in 1 .. Len(operands)
         /\ \A x, y \in 1 .. Len(Sorted(vectors)) :
              Sorted(vectors)[y].op = "call" =>
                /\ Sorted(vectors)[x].op \notin {"call", "getattr", "getitem"} => y < x
                /\ (Sorted(vectors)[x].op = "call" /\ x < y) =>
                     Sorted(vectors)[x].left < Sorted(vectors)[y].left
<1> DEFINE sorted == Sorted(vectors)
<1>1. vectors \in [0 .. MaxPrecedence -> Seq(Operation)]
  BY DEF TableTypes
<1>2. sorted \in Seq(Operation)
  BY <1>1, SortedElements
<1>3. PICK start \in [0 .. MaxPrecedence -> Nat] :
        /\ \A x \in 1 .. Len(sorted) : \E prec \in 0 .. MaxPrecedence :
             /\ x - start[prec] \in 1 .. Len(vectors[prec])
             /\ \E i \in 1 .. Len(vectors[prec]) : sorted[x] = vectors[prec][i]
             /\ prec # Precedence["pow"] => sorted[x] = vectors[prec][x - start[prec]]
        /\ \A p, q \in 0 .. MaxPrecedence :
             q < p => start[p] + Len(vectors[p]) <= start[q]
  BY <1>1, SortedElements
<1> HIDE DEF sorted
<1>4. Len(sorted) \in Nat /\ Len(operands) \in Nat
  BY <1>2 DEF TableTypes
<1>5. \A x \in 1 .. Len(sorted) : sorted[x] \in Operation
  BY <1>2
<1>6. \A prec \in 0 .. MaxPrecedence : Len(vectors[prec]) \in Nat
  BY <1>1
<1>7. MaxPrecedence = 16
  BY DEF MaxPrecedence
<1>8. ASSUME NEW x \in 1 .. Len(sorted)
      PROVE  /\ sorted[x].right \in 1 .. Len(operands)
             /\ sorted[x].op \notin Unary => sorted[x].left \in 1 .. Len(operands)
  <2>1. PICK prec \in 0 .. MaxPrecedence :
          \E i \in 1 .. Len(vectors[prec]) : sorted[x] = vectors[prec][i]
    BY <1>3
  <2>2. OperandsNamed(sorted[x], Len(operands) + Waiting)
    BY <2>1 DEF TableInv
  <2>3. sorted[x].left \in Nat /\ sorted[x].right \in Nat
    BY <1>5 DEF Operation
  <2>4. Waiting = 0
    BY DEF Waiting
  <2>5. QED
    BY <1>4, <2>2, <2>3, <2>4 DEF OperandsNamed
<1>9. ASSUME NEW x \in 1 .. Len(sorted)
      PROVE  \E prec \in 0 .. MaxPrecedence :
               /\ Precedence[sorted[x].op] = prec
               /\ x - start[prec] \in 1 .. Len(vectors[prec])
               /\ prec # 14 => sorted[x] = vectors[prec][x - start[prec]]
  <2>1. PICK prec \in 0 .. MaxPrecedence :
             /\ x - start[prec] \in 1 .. Len(vectors[prec])
             /\ \E i \in 1 .. Len(vectors[prec]) : sorted[x] = vectors[prec][i]
             /\ prec # Precedence["pow"] => sorted[x] = vectors[prec][x - start[prec]]
    BY <1>3
  <2>2. PICK i \in 1 .. Len(vectors[prec]) : sorted[x] = vectors[prec][i]
    BY <2>1
  <2>3. Precedence[sorted[x].op] = prec
    BY <2>2 DEF TableInv
  <2>4. QED
    BY <2>1, <2>3, PrecedenceFacts
<1>10. ASSUME NEW x \in 1 .. Len(sorted), NEW y \in 1 .. Len(sorted), sorted[y].op = "call",
              sorted[x].op \notin {"call", "getattr", "getitem"}
       PROVE  y < x
  <2>1. 16 \in 0 .. MaxPrecedence /\ Precedence[sorted[y].op] = 16
    BY <1>7, <1>10, PrecedenceFacts
  <2>2. y - start[16] \in 1 .. Len(vectors[16])
    BY <1>9, <2>1
  <2>3. sorted[x].op \in DOMAIN Precedence
    BY <1>5 DEF Operation
  <2>4. Precedence[sorted[x].op] # 16
    BY <1>10, <2>3, PrecedenceFacts
  <2>5. PICK prec \in 0 .. MaxPrecedence :
          Precedence[sorted[x].op] = prec /\ x - start[prec] \in 1 .. Len(vectors[prec])
    BY <1>9
  <2>6. prec < 16
    <3>1. prec \in 0 .. 16 /\ prec # 16
      BY <1>7, <2>4, <2>5
    <3>2. QED
      BY <3>1
  <2>7. start[16] + Len(vectors[16]) <= start[prec]
    BY <1>3, <2>1, <2>6
  <2>8. start[16] \in Nat /\ start[prec] \in Nat /\ Len(vectors[16]) \in Nat
        /\ Len(vectors[prec]) \in Nat
    BY <1>6, <2>1
  <2>9. \A a, b, m, n \in Nat : \A v, w \in Int :
          (v - a \in 1 .. m /\ w - b \in 1 .. n /\ a + m <= b) => v < w
    OBVIOUS
  <2>10. x \in Int /\ y \in Int
    BY <1>4
  <2>11. QED
    BY <2>2, <2>5, <2>7, <2>8, <2>9, <2>10
<1>11. ASSUME NEW x \in 1 .. Len(sorted), NEW y \in 1 .. Len(sorted), sorted[y].op = "call",
              sorted[x].op = "call", x < y
       PROVE  sorted[x].left < sorted[y].left
  <2>1. Precedence["call"] = 16 /\ 16 # 14
    BY PrecedenceFacts
  <2>2. x - start[16] \in 1 .. Len(vectors[16]) /\ sorted[x] = vectors[16][x - start[16]]
    BY <1>9, <1>11, <2>1
  <2>3. y - start[16] \in 1 .. Len(vectors[16]) /\ sorted[y] = vectors[16][y - start[16]]
    BY <1>9, <1>11, <2>1
  <2>4. start[16] \in Nat /\ x \in Int /\ y \in Int /\ Len(vectors[16]) \in Nat
    <3>1. 16 \in 0 .. MaxPrecedence
      BY <1>7
    <3>2. QED
      BY <1>4, <1>6, <3>1
  <2>5. x - start[16] \in 1 .. (y - start[16]) - 1
    <3>1. \A a, m \in Nat : \A v, w \in Int :
            (v - a \in 1 .. m /\ v < w) => v - a \in 1 .. (w - a) - 1
      OBVIOUS
    <3>2. QED
      BY <1>11, <2>2, <2>4, <3>1
  <2>6. QED
    BY <1>11, <2>1, <2>2, <2>3, <2>5 DEF CallsInv
<1>12. QED
  BY <1>2, <1>8, <1>10, <1>11 DEF sorted

-----------------------------------------------------------------------------
(* Parsing                                                                 *)

LEMMA InitialTable ==
  ASSUME Init
  PROVE  IInv
<1>1. /\ source \in Sources /\ read = 0 /\ operands = <<>> /\ previous = "none"
      /\ vectors = [prec \in 0 .. MaxPrecedence |-> <<>>]
      /\ operations = <<>> /\ next = 0 /\ record = <<>> /\ lookup = <<>> /\ phase = "parse"
  BY DEF Init
<1>2. source \in Seq(Token)
  BY <1>1, SourcesAssumption
<1>3. TableTypes
  BY <1>1, <1>2 DEF TableTypes
<1>4. \A prec \in 0 .. MaxPrecedence : vectors[prec] = <<>>
  BY <1>1
<1>5. TableInv
  BY <1>4 DEF TableInv
<1>6. CallsInv
  <2>1. Precedence["call"] \in 0 .. MaxPrecedence
    BY PrecedenceFacts DEF MaxPrecedence
  <2>2. QED
    BY <1>4, <2>1 DEF CallsInv
<1>7. OperandsRead
  BY <1>1 DEF OperandsRead
<1>8. Parsing
  BY <1>1, <1>5, <1>6, <1>7 DEF Parsing
<1>9. QED
  BY <1>1, <1>3, <1>8 DEF IInv

(* What the token read next is. *)
LEMMA TokenFacts ==
  ASSUME TableTypes, read < Len(source)
  PROVE  /\ read + 1 \in DOMAIN source
         /\ read + 1 \in 0 .. Len(source)
         /\ token \in Token
         /\ read \in Nat
<1>1. source \in Seq(Token)
  BY SourcesAssumption DEF TableTypes
<1>2. DOMAIN source = 1 .. Len(source) /\ Len(source) \in Nat
  BY <1>1
<1>3. read \in Nat
  BY <1>2 DEF TableTypes
<1>4. read + 1 \in 1 .. Len(source)
  BY <1>2, <1>3
<1>5. QED
  BY <1>1, <1>2, <1>3, <1>4 DEF token

LEMMA OperandPushed ==
  ASSUME IInv, PushOperand
  PROVE  IInv'
<1>1. /\ phase = "parse" /\ read < Len(source) /\ token.type = "operand"
      /\ operands' = Append(operands, token.name)
      /\ previous' = "operand"
      /\ read' = read + 1
      /\ UNCHANGED <<source, vectors, operations, next, record, lookup, phase>>
  BY DEF PushOperand, Reading
<1>2. TableTypes /\ Parsing
  BY <1>1 DEF IInv
<1>3. read + 1 \in 0 .. Len(source) /\ token \in Token /\ read \in Nat
  BY <1>1, <1>2, TokenFacts
<1>4. token.name \in STRING
  BY <1>1, <1>3 DEF Token
<1>5. operands \in Seq(STRING)
  BY <1>2 DEF TableTypes
<1>6. /\ operands' \in Seq(STRING)
      /\ Len(operands') = Len(operands) + 1
      /\ Len(operands) \in Nat
  BY <1>1, <1>4, <1>5
<1>7. TableTypes'
  BY <1>1, <1>2, <1>3, <1>6 DEF TableTypes
<1>8. vectors \in [0 .. MaxPrecedence -> Seq(Operation)]
  BY <1>2 DEF TableTypes
<1>9. ASSUME NEW prec \in 0 .. MaxPrecedence, NEW i \in 1 .. Len(vectors[prec])
      PROVE  OperandsNamed(vectors[prec][i], Len(operands'))
  <2> DEFINE o == vectors[prec][i]
  <2>1. OperandsNamed(o, Len(operands) + Waiting)
    BY <1>2, <1>9 DEF Parsing, TableInv
  <2>2. o \in Operation
    BY <1>8, <1>9
  <2>3. Waiting \in 0 .. 1
    BY DEF Waiting
  <2>4. o.right \in Nat
    BY <2>2 DEF Operation
  <2> HIDE DEF o
  <2>5. \A a, b \in Nat : \A c \in 0 .. 1 : a <= b + c => a <= b + 1
    OBVIOUS
  <2>6. QED
    BY <1>6, <2>1, <2>3, <2>4, <2>5 DEF OperandsNamed, o
<1>10. TableInv'
  <2>1. Waiting' = 0 /\ Len(operands') + 0 = Len(operands')
    BY <1>1, <1>6 DEF Waiting
  <2>2. UNCHANGED vectors
    BY <1>1
  <2>3. QED
    BY <1>2, <1>9, <2>1, <2>2 DEF Parsing, TableInv
<1>11. OperandsRead'
  BY <1>6 DEF OperandsRead
<1>12. CallsInv'
  <2>1. SUFFICES ASSUME NEW i \in 1 .. Len(vectors[Precedence["call"]]),
                        vectors[Precedence["call"]][i].op = "call"
                 PROVE  /\ vectors[Precedence["call"]][i].left < Len(operands')
                        /\ \A j \in 1 .. i - 1 :
                             vectors[Precedence["call"]][j].op = "call" =>
                               vectors[Precedence["call"]][j].left
                                 < vectors[Precedence["call"]][i].left
    BY <1>1 DEF CallsInv
  <2> DEFINE o == vectors[Precedence["call"]][i]
  <2>2. o \in Operation
    <3>1. Precedence["call"] \in 0 .. MaxPrecedence
      BY PrecedenceFacts DEF MaxPrecedence
    <3>2. vectors[Precedence["call"]] \in Seq(Operation)
      BY <1>8, <3>1
    <3>3. QED
      BY <2>1, <3>2
  <2>3. o.left \in Nat /\ (o.left < Len(operands) \/ o.left = Len(operands))
    BY <1>2, <2>1, <2>2 DEF Parsing, CallsInv, Operation
  <2>4. o.left < Len(operands')
    <3> HIDE DEF o
    <3>1. QED
      BY <1>6, <2>3
  <2>5. QED
    BY <1>2, <2>1, <2>4 DEF Parsing, CallsInv
<1>13. Parsing'
  BY <1>1, <1>2, <1>10, <1>11, <1>12 DEF Parsing
<1>14. QED
  BY <1>1, <1>7, <1>13 DEF IInv

(* The operator pushed has a left operand unless it is unary.              *)
LEMMA LeftOperand ==
  ASSUME IInv, PushOperation
  PROVE  /\ OpType \in DOMAIN Precedence
         /\ OpType \notin Unary => Len(operands) # 0
<1>1. phase = "parse" /\ read < Len(source) /\ token.type = "operator"
  BY DEF PushOperation, Reading
<1>2. TableTypes /\ OperandsRead
  BY <1>1 DEF IInv, Parsing
<1>3. read + 1 \in DOMAIN source /\ token \in Token /\ read \in Nat
  BY <1>1, <1>2, TokenFacts
<1>4. token.name \in DOMAIN Precedence
  BY <1>1, <1>3 DEF Token
<1>5. "negative" \in DOMAIN Precedence /\ "negative" \in Unary
  BY DEF Precedence, Unary
<1>6. OpType \in DOMAIN Precedence
  BY <1>4, <1>5 DEF OpType
<1>7. operands # <<>> => Len(operands) # 0
  BY <1>2 DEF TableTypes
<1>8. ASSUME OpType \notin Unary PROVE operands # <<>>
  <2>1. CASE token.name = "minus"
    <3>1. previous = "operand"
      BY <1>5, <1>8, <2>1 DEF OpType
    <3>2. QED
      BY <1>2, <3>1 DEF OperandsRead
  <2>2. CASE token.name # "minus"
    <3>1. token.name \notin Unary \cup {"minus"}
      BY <1>8, <2>2 DEF OpType
    <3>2. \E j \in 1 .. (read + 1) - 1 : source[j].type = "operand"
      BY <1>1, <1>2, <1>3, <3>1, SourcesAssumption DEF TableTypes, token
    <3>3. (read + 1) - 1 = read
      BY <1>3
    <3>4. QED
      BY <1>2, <3>2, <3>3 DEF OperandsRead
  <2>3. QED
    BY <2>1, <2>2
<1>9. QED
  BY <1>6, <1>7, <1>8

(* When an operator is read no call waits for its arguments.               *)
LEMMA CallsHaveArguments ==
  ASSUME TableTypes, CallsInv, read < Len(source), token.type = "operator",
         NEW i \in 1 .. Len(vectors[Precedence["call"]]),
         vectors[Precedence["call"]][i].op = "call"
  PROVE  vectors[Precedence["call"]][i].left < Len(operands)
<1> DEFINE o == vectors[Precedence["call"]][i]
<1>1. SUFFICES ASSUME /\ read # 0
                      /\ source[read].type = "operator"
                      /\ source[read].name = "call"
               PROVE  FALSE
  BY DEF CallsInv
<1>2. read + 1 \in DOMAIN source /\ read \in Nat
  BY TokenFacts
<1>3. source \in Sources /\ source \in Seq(Token)
  BY SourcesAssumption DEF TableTypes
<1>4. read \in DOMAIN source
  BY <1>1, <1>2, <1>3
<1>5. source[read + 1].type = "operand"
  BY <1>1, <1>3, <1>4, SourcesAssumption
<1>6. QED
  BY <1>5 DEF token

LEMMA OperationPushed ==
  ASSUME IInv, PushOperation
  PROVE  IInv'
<1> DEFINE o == [op |-> OpType, left |-> Len(operands), right |-> Len(operands) + 1]
           p == Precedence[OpType]
           calls == vectors[Precedence["call"]]
<1>1. /\ phase = "parse" /\ read < Len(source) /\ token.type = "operator"
      /\ vectors' = [vectors EXCEPT ![p] = Append(@, o)]
      /\ previous' = "operation"
      /\ read' = read + 1
      /\ UNCHANGED <<source, operands, operations, next, record, lookup, phase>>
  BY DEF PushOperation, Reading
<1>2. TableTypes /\ Parsing
  BY <1>1 DEF IInv
<1>3. /\ read + 1 \in 0 .. Len(source) /\ token \in Token /\ read \in Nat
      /\ read + 1 \in DOMAIN source
  BY <1>1, <1>2, TokenFacts
<1>4. OpType \in DOMAIN Precedence /\ (OpType \notin Unary => Len(operands) # 0)
  BY LeftOperand
<1>5. p \in 0 .. MaxPrecedence
  BY <1>4, PrecedenceFacts
<1>6. Len(operands) \in Nat
  BY <1>2 DEF TableTypes
<1>7. o \in Operation
  BY <1>4, <1>6 DEF Operation
<1>8. /\ o.op = OpType /\ o.left = Len(operands) /\ o.right = Len(operands) + 1
  OBVIOUS
<1>9. vectors \in [0 .. MaxPrecedence -> Seq(Operation)]
  BY <1>2 DEF TableTypes
<1> HIDE DEF o, p
<1>10. /\ vectors[p] \in Seq(Operation)
       /\ vectors'[p] = Append(vectors[p], o)
       /\ Len(vectors'[p]) = Len(vectors[p]) + 1
       /\ vectors'[p][Len(vectors[p]) + 1] = o
       /\ \A i \in 1 .. Len(vectors[p]) : vectors'[p][i] = vectors[p][i]
       /\ Len(vectors[p]) \in Nat
  BY <1>1, <1>5, <1>7, <1>9
<1>11. \A prec \in 0 .. MaxPrecedence : prec # p => vectors'[prec] = vectors[prec]
  BY <1>1, <1>9
<1>12. vectors' \in [0 .. MaxPrecedence -> Seq(Operation)]
  BY <1>1, <1>5, <1>7, <1>9, <1>10
<1>13. TableTypes'
  BY <1>1, <1>2, <1>3, <1>12 DEF TableTypes
<1>14. Waiting' = 1 /\ Waiting \in 0 .. 1
  BY <1>1 DEF Waiting
<1>15. OperandsNamed(o, Len(operands) + 1)
  BY <1>4, <1>6, <1>8 DEF OperandsNamed
<1>16. ASSUME NEW q \in Operation, OperandsNamed(q, Len(operands) + Waiting)
       PROVE  OperandsNamed(q, Len(operands) + 1)
  <2>1. \A a, b \in Nat : \A c \in 0 .. 1 : a <= b + c => a <= b + 1
    OBVIOUS
  <2>2. q.right \in Nat
    BY DEF Operation
  <2>3. QED
    BY <1>6, <1>14, <1>16, <2>1, <2>2 DEF OperandsNamed
<1>17. TableInv'
  <2>1. SUFFICES ASSUME NEW prec \in 0 .. MaxPrecedence, NEW i \in 1 .. Len(vectors'[prec])
                 PROVE  /\ Precedence[vectors'[prec][i].op] = prec
                        /\ OperandsNamed(vectors'[prec][i], Len(operands) + 1)
    BY <1>1, <1>14 DEF TableInv
  <2>2. CASE vectors'[prec][i] = o /\ prec = p
    BY <1>8, <1>15, <2>2 DEF p
  <2>3. CASE i \in 1 .. Len(vectors[prec]) /\ vectors'[prec][i] = vectors[prec][i]
    <3>1. /\ Precedence[vectors[prec][i].op] = prec
          /\ OperandsNamed(vectors[prec][i], Len(operands) + Waiting)
      BY <1>2, <2>3 DEF Parsing, TableInv
    <3>2. vectors[prec][i] \in Operation
      BY <1>9, <2>3
    <3>3. OperandsNamed(vectors[prec][i], Len(operands) + 1)
      BY <1>16, <3>1, <3>2
    <3>4. QED
      BY <2>3, <3>1, <3>3
  <2>4. QED
    <3>1. CASE prec # p
      BY <1>11, <2>1, <2>3, <3>1
    <3>2. CASE prec = p
      <4>1. i = Len(vectors[p]) + 1 \/ i \in 1 .. Len(vectors[p])
        BY <1>10, <2>1, <3>2
      <4>2. QED
        BY <1>10, <2>2, <2>3, <3>2, <4>1
    <3>3. QED
      BY <3>1, <3>2
<1>18. OperandsRead'
  <2>1. SUFFICES ASSUME NEW j \in 1 .. read + 1, source[j].type = "operand"
                 PROVE  operands # <<>>
    BY <1>1 DEF OperandsRead
  <2>2. source[read + 1].type = "operator"
    BY <1>1 DEF token
  <2>3. j \in 1 .. read
    BY <1>3, <2>1, <2>2
  <2>4. QED
    BY <1>2, <2>1, <2>3 DEF Parsing, OperandsRead
<1>19. CallsInv'
  <2> DEFINE c == Precedence["call"]
  <2>1. c \in 0 .. MaxPrecedence
    BY PrecedenceFacts DEF MaxPrecedence
  <2>2. \A i \in 1 .. Len(vectors[c]) :
          vectors[c][i].op = "call" => vectors[c][i].left < Len(operands)
    BY <1>1, <1>2, CallsHaveArguments DEF Parsing
  <2>3. SUFFICES ASSUME NEW i \in 1 .. Len(vectors'[c]), vectors'[c][i].op = "call"
                 PROVE  /\ \/ vectors'[c][i].left < Len(operands)
                           \/ /\ vectors'[c][i].left = Len(operands)
                              /\ read + 1 # 0
                              /\ source[read + 1].type = "operator"
                              /\ source[read + 1].name = "call"
                        /\ \A j \in 1 .. i - 1 :
                             vectors'[c][j].op = "call" =>
                               vectors'[c][j].left < vectors'[c][i].left
    BY <1>1 DEF CallsInv
  <2>4. CASE i \in 1 .. Len(vectors[c]) /\ \A j \in 1 .. i : vectors'[c][j] = vectors[c][j]
    <3>1. vectors'[c][i] = vectors[c][i]
      BY <2>4
    <3>2. \A j \in 1 .. i - 1 : vectors'[c][j] = vectors[c][j]
      BY <2>4
    <3>3. \A j \in 1 .. i - 1 :
            vectors[c][j].op = "call" => vectors[c][j].left < vectors[c][i].left
      BY <1>2, <2>3, <2>4, <3>1 DEF Parsing, CallsInv
    <3>4. QED
      BY <2>2, <2>3, <2>4, <3>1, <3>2, <3>3
  <2>5. CASE c = p /\ i = Len(vectors[p]) + 1
    <3>1. vectors'[c][i] = o
      BY <1>10, <2>5
    <3>2. o.op = "call"
      BY <2>3, <3>1
    <3>3. token.name = "call"
      BY <1>8, <3>2 DEF OpType
    <3>4. \A j \in 1 .. i - 1 : j \in 1 .. Len(vectors[p]) /\ vectors'[c][j] = vectors[c][j]
      BY <1>10, <2>5
    <3>5. QED
      BY <1>1, <1>3, <1>8, <2>2, <2>5, <3>1, <3>3, <3>4 DEF token
  <2>6. QED
    <3>1. CASE c # p
      <4>1. vectors'[c] = vectors[c]
        BY <1>11, <2>1, <3>1
      <4>2. QED
        BY <2>3, <2>4, <4>1
    <3>2. CASE c = p
      <4>1. i = Len(vectors[p]) + 1 \/ i \in 1 .. Len(vectors[p])
        BY <1>10, <2>3, <3>2
      <4>2. CASE i \in 1 .. Len(vectors[p])
        <5>1. \A j \in 1 .. i : j \in 1 .. Len(vectors[p])
          BY <1>10, <4>2
        <5>2. QED
          BY <1>10, <2>4, <3>2, <4>2, <5>1
      <4>3. QED
        BY <2>5, <3>2, <4>1, <4>2
    <3>3. QED
      BY <3>1, <3>2
<1>20. Parsing'
  BY <1>1, <1>2, <1>17, <1>18, <1>19 DEF Parsing
<1>21. QED
  BY <1>1, <1>13, <1>20 DEF IInv

LEMMA TableSorted ==
  ASSUME IInv, ToExpr
  PROVE  IInv'
<1>1. /\ phase = "parse" /\ previous = "operand"
      /\ operations' = Sorted(vectors)
      /\ lookup' = [k \in DOMAIN operands |-> 0]
      /\ phase' = "render"
      /\ UNCHANGED <<source, read, operands, previous, vectors, next, record>>
  BY DEF ToExpr, table
<1>2. TableTypes /\ Parsing
  BY <1>1 DEF IInv
<1>3. TableTypes'
  BY <1>1, <1>2 DEF TableTypes
<1>4. TableInv /\ CallsInv /\ next = 0 /\ record = <<>>
  BY <1>2 DEF Parsing
<1> DEFINE sorted == Sorted(vectors)
<1>5. /\ sorted \in Seq(Operation)
      /\ \A x \in 1 .. Len(sorted) :
           /\ sorted[x].right \in 1 .. Len(operands)
           /\ sorted[x].op \notin Unary => sorted[x].left \in 1 .. Len(operands)
      /\ \A x, y \in 1 .. Len(sorted) :
           sorted[y].op = "call" =>
             /\ sorted[x].op \notin {"call", "getattr", "getitem"} => y < x
             /\ (sorted[x].op = "call" /\ x < y) => sorted[x].left < sorted[y].left
  BY <1>1, <1>2, <1>4, SortedTable
<1>6. operations' = sorted
  BY <1>1
<1> HIDE DEF sorted
<1>7. next' = 0 /\ record' = <<>> /\ IsSequence(record') /\ Len(record') = 0
  BY <1>1, <1>4 DEF IsSequence
<1>8. \A k \in DOMAIN lookup' : lookup'[k] \in 0 .. 0
  BY <1>1
<1>9. 0 \in 0 .. Len(sorted)
  BY <1>5
<1>10. Compiling'
  BY <1>1, <1>5, <1>6, <1>7, <1>8, <1>9 DEF Compiling
<1>11. QED
  BY <1>1, <1>3, <1>10 DEF IInv

LEMMA TableRejected ==
  ASSUME IInv, ExpressionEndsOnOperator
  PROVE  IInv'
<1>1. /\ phase = "parse" /\ phase' = "rejected"
      /\ UNCHANGED <<source, read, operands, previous, vectors, operations, next, record, lookup>>
  BY DEF ExpressionEndsOnOperator, table
<1>2. TableTypes /\ Parsing
  BY <1>1 DEF IInv
<1>3. TableTypes' /\ Parsing'
  BY <1>1, <1>2
     DEF TableTypes, Parsing, TableInv, OperandsNamed, OperandsRead, CallsInv, Waiting
<1>4. QED
  BY <1>1, <1>3 DEF IInv

-----------------------------------------------------------------------------
(* Compiling                                                               *)

LEMMA ElementsOfSequence ==
  ASSUME NEW A, NEW s \in Seq(A)
  PROVE  IsSequence(s)
<1>1. s \in [1 .. Len(s) -> A] /\ Len(s) \in Nat
  OBVIOUS
<1>2. s \in [1 .. Len(s) -> {s[i] : i \in DOMAIN s}]
  BY <1>1
<1>3. QED
  BY <1>1, <1>2 DEF IsSequence

LEMMA RecordGrows ==
  ASSUME NEW s, IsSequence(s), NEW v
  PROVE  /\ IsSequence(Append(s, v)) /\ Len(Append(s, v)) = Len(s) + 1
         /\ IsSequence(s \o <<v, v>>) /\ Len(s \o <<v, v>>) = Len(s) + 2
         /\ Len(s) \in Nat
<1> DEFINE A == {s[i] : i \in DOMAIN s} \cup {v}
           two == <<v, v>>
<1>1. s \in Seq({s[i] : i \in DOMAIN s})
  BY DEF IsSequence
<1>2. s \in Seq(A) /\ Len(s) \in Nat
  BY <1>1
<1>3. two \in Seq(A) /\ Len(two) = 2
  OBVIOUS
<1>4. v \in A
  OBVIOUS
<1> HIDE DEF A, two
<1>5. Append(s, v) \in Seq(A) /\ Len(Append(s, v)) = Len(s) + 1
  BY <1>2, <1>4
<1>6. s \o two \in Seq(A) /\ Len(s \o two) = Len(s) + 2
  <2>1. two \in Seq(A)
    BY <1>3
  <2>2. s \o two \in Seq(A) /\ Len(s \o two) = Len(s) + Len(two)
    BY <1>2, <2>1, ConcatProperties
  <2>3. QED
    BY <1>3, <2>2
<1>7. IsSequence(Append(s, v)) /\ IsSequence(s \o two)
  BY <1>5, <1>6, ElementsOfSequence
<1>8. QED
  BY <1>2, <1>5, <1>6, <1>7 DEF two

LEMMA LookupUpdated ==
  ASSUME NEW t, NEW n \in Nat, NEW m \in Nat, n <= m,
         \A k \in DOMAIN t : t[k] \in 0 .. n,
         NEW o, NEW i \in 0 .. m
  PROVE  \A k \in DOMAIN Updated(t, o, i) : Updated(t, o, i)[k] \in 0 .. m
<1>1. \A k \in DOMAIN t : t[k] \in 0 .. m
  OBVIOUS
<1>2. QED
  BY <1>1 DEF Updated

(* An operation that is compiled leaves everything but the record alone.   *)
LEMMA CompiledOn ==
  ASSUME IInv, Rendering,
         UNCHANGED <<source, read, operands, previous, vectors, operations, phase>>,
         next' \in 0 .. Len(operations), IsSequence(record'), Len(record') = next',
         \A k \in DOMAIN lookup' : lookup'[k] \in 0 .. next'
  PROVE  IInv'
<1>1. TableTypes /\ Compiling /\ phase = "render"
  BY DEF IInv, Rendering
<1>2. TableTypes'
  BY <1>1 DEF TableTypes
<1>3. Compiling'
  BY <1>1 DEF Compiling
<1>4. QED
  BY <1>1, <1>2, <1>3 DEF IInv

LEMMA OperationCompiled ==
  ASSUME IInv, RenderOperation
  PROVE  IInv'
<1>1. /\ Rendering
      /\ record' = Append(record, Computed(current))
      /\ lookup' = Updated(lookup, current, Len(record) + 1)
      /\ next' = next + 1
      /\ UNCHANGED <<source, read, operands, previous, vectors, operations, phase>>
  BY DEF RenderOperation, table
<1>2. /\ IsSequence(record) /\ Len(record) = next /\ next \in 0 .. Len(operations)
      /\ next < Len(operations) /\ operations \in Seq(Operation)
      /\ \A k \in DOMAIN lookup : lookup[k] \in 0 .. next
  BY <1>1 DEF IInv, Compiling, Rendering
<1>3. next \in Nat /\ next + 1 \in 0 .. Len(operations) /\ next + 1 \in Nat /\ next <= next + 1
      /\ next + 1 \in 0 .. next + 1
  BY <1>2
<1>4. IsSequence(record') /\ Len(record') = next'
  BY <1>1, <1>2, RecordGrows
<1>5. \A k \in DOMAIN lookup' : lookup'[k] \in 0 .. next'
  BY <1>1, <1>2, <1>3, LookupUpdated
<1>6. QED
  BY <1>1, <1>3, <1>4, <1>5, CompiledOn

LEMMA MethodCompiled ==
  ASSUME IInv, RenderBuiltinMethod
  PROVE  IInv'
<1> DEFINE call == operations[next + 2]
           value == Node("call", <<Computed(current), Leaf(operands[call.right])>>)
           first == Updated(lookup, current, Len(record) + 1)
<1>1. /\ Rendering
      /\ next + 2 <= Len(operations)
      /\ record' = record \o <<value, value>>
      /\ lookup' = Updated(first, call, Len(record) + 2)
      /\ next' = next + 2
      /\ UNCHANGED <<source, read, operands, previous, vectors, operations, phase>>
  BY DEF RenderBuiltinMethod, table
<1> HIDE DEF call, value
<1>2. /\ IsSequence(record) /\ Len(record) = next /\ next \in 0 .. Len(operations)
      /\ operations \in Seq(Operation)
      /\ \A k \in DOMAIN lookup : lookup[k] \in 0 .. next
  BY <1>1 DEF IInv, Compiling, Rendering
<1>3. /\ next \in Nat /\ next + 2 \in 0 .. Len(operations) /\ next + 1 \in Nat
      /\ next + 2 \in Nat /\ next <= next + 1 /\ next + 1 <= next + 2
      /\ next + 1 \in 0 .. next + 1 /\ next + 2 \in 0 .. next + 2
  BY <1>1, <1>2
<1>4. IsSequence(record') /\ Len(record') = next'
  BY <1>1, <1>2, RecordGrows
<1>5. \A k \in DOMAIN first : first[k] \in 0 .. next + 1
  BY <1>2, <1>3, LookupUpdated
<1> HIDE DEF first
<1>6. \A k \in DOMAIN lookup' : lookup'[k] \in 0 .. next'
  BY <1>1, <1>2, <1>3, <1>5, LookupUpdated
<1>7. QED
  BY <1>1, <1>3, <1>4, <1>6, CompiledOn

LEMMA CompilingEnds ==
  ASSUME IInv, MethodReferenced \/ RenderedAll
  PROVE  IInv'
<1>1. /\ phase = "render" /\ phase' \in {"done", "rejected"}
      /\ UNCHANGED <<source, read, operands, previous, vectors, operations, next, record, lookup>>
  BY DEF MethodReferenced, RenderedAll, Rendering, table
<1>2. TableTypes /\ Compiling
  BY <1>1 DEF IInv
<1>3. TableTypes' /\ Compiling'
  BY <1>1, <1>2 DEF TableTypes, Compiling
<1>4. QED
  BY <1>1, <1>3 DEF IInv

LEMMA NothingHappens ==
  ASSUME IInv, UNCHANGED vars
  PROVE  IInv'
<1>1. UNCHANGED <<source, read, operands, previous, vectors, operations, next, record, lookup, phase>>
  BY DEF vars, table
<1>2. (TableTypes' <=> TableTypes) /\ (Compiling' <=> Compiling)
  BY <1>1 DEF TableTypes, Compiling
<1>3. Parsing' <=> Parsing
  BY <1>1 DEF Parsing, TableInv, OperandsNamed, OperandsRead, CallsInv, Waiting
<1>4. QED
  BY <1>1, <1>2, <1>3 DEF IInv

-----------------------------------------------------------------------------
(* Types, and the order of calls                                           *)

(* The inductive invariant: while an expression is parsed every operation  *)
(* stands in the vector of its precedence and names operands that were     *)
(* pushed or the one to come; while it is compiled the operations are      *)
(* those of the table, sorted, and the record has one value for each that  *)
(* was compiled.                                                           *)
THEOREM ExpressionInvariant == Spec => []IInv
<1>1. Init => IInv
  BY InitialTable
<1>2. IInv /\ [Next]_vars => IInv'
  BY OperandPushed, OperationPushed, TableSorted, TableRejected, OperationCompiled,
     MethodCompiled, CompilingEnds, NothingHappens DEF Next
<1>3. QED
  BY <1>1, <1>2, PTL DEF Spec

(* Every operation et_to_expr hands to the compiler names operands there   *)
(* are, and update_expression_record points operands at values that were   *)
(* recorded.  As long as operations are left to look them up, these lie in *)
(* the array of the record, which has a cell less than there are           *)
(* operations; the last value, and no other, is written behind it.         *)
THEOREM ExpressionTypes == Spec => []TypeOK
<1>1. ASSUME IInv PROVE TypeOK
  <2>1. read \in 0 .. Len(source) /\ phase \in {"parse", "render", "done", "rejected"}
        /\ operands \in Seq(STRING)
    BY <1>1 DEF IInv, TableTypes
  <2>2. DOMAIN operands = 1 .. Len(operands)
    BY <2>1
  <2>3. CASE Parsing
    <3>1. operations = <<>> /\ next = 0 /\ record = <<>> /\ lookup = <<>>
      BY <2>3 DEF Parsing
    <3>2. Len(operations) = 0 /\ Len(record) = 0 /\ DOMAIN operations = {} /\ DOMAIN lookup = {}
      BY <3>1
    <3>3. QED
      BY <2>1, <3>1, <3>2 DEF TypeOK, KeepsRecord
  <2>4. CASE Compiling
    <3>1. DOMAIN operations = 1 .. Len(operations) /\ Len(operations) \in Nat
      BY <2>4 DEF Compiling
    <3>2. KeepsRecord => (RecordFits <=> next < Len(operations))
      BY <2>4, <3>1 DEF Compiling, KeepsRecord, RecordSize, RecordFits
    <3>3. \A k \in DOMAIN lookup : Rendering => lookup[k] <= RecordSize
      BY <2>4, <3>1 DEF Compiling, Rendering, RecordSize
    <3>4. QED
      BY <2>1, <2>2, <2>4, <3>1, <3>2, <3>3 DEF Compiling, TypeOK
  <2>5. QED
    BY <1>1, <2>3, <2>4 DEF IInv
<1>2. QED
  BY <1>1, ExpressionInvariant, PTL

(* The calls of an expression are compiled from left to right and before   *)
(* every operator that binds looser, whatever the expression.              *)
THEOREM CallsStayInOrder == Spec => []CallsComeInOrder
<1>1. ASSUME IInv PROVE CallsComeInOrder
  <2>1. SUFFICES ASSUME Compiling PROVE CallsComeInOrder
    BY <1>1 DEF IInv, CallsComeInOrder
  <2>2. DOMAIN operations = 1 .. Len(operations)
    BY <2>1 DEF Compiling
  <2>3. QED
    BY <2>1, <2>2 DEF Compiling, CallsComeInOrder
<1>2. QED
  BY <1>1, ExpressionInvariant, PTL

-----------------------------------------------------------------------------
(* The tokens of an expression                                             *)

(* What the lemmas below are about: an expression of Python's grammar that *)
(* parse_expression lets through.                                          *)
Expression(ts) ==
  /\ ts \in Seq(Token)
  /\ Grammatical(ts)
  /\ \A k \in 1 .. Len(ts) :
       (IsOperator(ts, k) /\ ts[k].name = "call") => k < Len(ts) /\ IsOperand(ts, k + 1)

LEMMA OperatorFacts ==
  /\ Unary = {"not", "negative", "bitnot"}
  /\ Unary \subseteq DOMAIN Precedence
  /\ {"pow", "call", "getattr"} \subseteq DOMAIN Precedence
  /\ \A op \in DOMAIN Precedence :
       /\ Precedence[op] \in 0 .. 16
       /\ Precedence[op] = 16 <=> op \in {"call", "getattr", "getitem"}
       /\ Precedence[op] = 14 <=> op = "pow"
       /\ Precedence[op] = 13 <=> op \in Arithmetic
       /\ Precedence[op] = 5 <=> op = "not"
       /\ op \in Unary <=> Precedence[op] \in {5, 13}
  BY DEF Precedence, Unary, Arithmetic

(* A token is an operand or an operator, and an operator has an operand    *)
(* somewhere behind it.                                                    *)
LEMMA TokenKinds ==
  ASSUME NEW ts, Expression(ts), NEW k \in 1 .. Len(ts)
  PROVE  /\ IsOperator(ts, k) <=> ~IsOperand(ts, k)
         /\ PrefixAt(ts, k) <=> IsOperator(ts, k) /\ (k = 1 \/ IsOperator(ts, k - 1))
         /\ InfixAt(ts, k) <=> IsOperator(ts, k) /\ ~PrefixAt(ts, k)
         /\ InfixAt(ts, k) => k - 1 \in 1 .. Len(ts) /\ IsOperand(ts, k - 1)
         /\ (k > 1 /\ IsOperand(ts, k - 1) /\ IsOperator(ts, k)) => InfixAt(ts, k)
         /\ (IsOperand(ts, k) /\ k < Len(ts)) => InfixAt(ts, k + 1)
         /\ IsOperator(ts, k) => k < Len(ts)
         /\ IsOperand(ts, k) => ts[k].name \in STRING
         /\ IsOperator(ts, k) =>
              /\ OperatorAt(ts, k) \in DOMAIN Precedence
              /\ Binding(ts, k) \in 0 .. 16
         /\ PrefixAt(ts, k) => OperatorAt(ts, k) \in Unary
         /\ InfixAt(ts, k) => OperatorAt(ts, k) \notin Unary
         /\ (PrefixAt(ts, k) /\ k > 1) => MayFollow(ts, k)
<1>1. ts \in Seq(Token) /\ Grammatical(ts)
  BY DEF Expression
<1>2. /\ DOMAIN ts = 1 .. Len(ts) /\ Len(ts) \in Nat
      /\ ts # <<>>
      /\ IsOperand(ts, Len(ts))
      /\ \A m \in 1 .. Len(ts) - 1 : IsOperand(ts, m) => IsOperator(ts, m + 1)
      /\ \A m \in DOMAIN ts :
           /\ PrefixAt(ts, m) => OperatorAt(ts, m) \in Unary /\ (m > 1 => MayFollow(ts, m))
           /\ InfixAt(ts, m) => OperatorAt(ts, m) \notin Unary
  BY <1>1 DEF Grammatical
<1>3. ASSUME NEW m \in 1 .. Len(ts)
      PROVE  /\ IsOperator(ts, m) <=> ~IsOperand(ts, m)
             /\ IsOperator(ts, m) => ts[m].name \in DOMAIN Precedence
             /\ IsOperand(ts, m) => ts[m].name \in STRING
  <2>1. ts[m] \in Token
    BY <1>1
  <2>2. QED
    BY <2>1 DEF Token, IsOperand, IsOperator
<1>4. \A m \in 1 .. Len(ts) :
        /\ PrefixAt(ts, m) <=> IsOperator(ts, m) /\ (m = 1 \/ IsOperator(ts, m - 1))
        /\ InfixAt(ts, m) <=> IsOperator(ts, m) /\ ~PrefixAt(ts, m)
  BY DEF PrefixAt, InfixAt
<1>5. InfixAt(ts, k) => k - 1 \in 1 .. Len(ts) /\ IsOperand(ts, k - 1)
  <2>1. SUFFICES ASSUME InfixAt(ts, k) PROVE k - 1 \in 1 .. Len(ts) /\ IsOperand(ts, k - 1)
    OBVIOUS
  <2>2. k # 1 /\ ~IsOperator(ts, k - 1)
    BY <1>4, <2>1
  <2>3. k - 1 \in 1 .. Len(ts)
    BY <1>2, <2>2
  <2>4. QED
    BY <1>3, <2>2, <2>3
<1>6. (k > 1 /\ IsOperand(ts, k - 1) /\ IsOperator(ts, k)) => InfixAt(ts, k)
  <2>1. SUFFICES ASSUME k > 1, IsOperand(ts, k - 1), IsOperator(ts, k) PROVE InfixAt(ts, k)
    OBVIOUS
  <2>2. k - 1 \in 1 .. Len(ts) /\ k # 1
    BY <1>2, <2>1
  <2>3. QED
    BY <1>3, <1>4, <2>1, <2>2
<1>7. (IsOperand(ts, k) /\ k < Len(ts)) => InfixAt(ts, k + 1)
  <2>1. SUFFICES ASSUME IsOperand(ts, k), k < Len(ts) PROVE InfixAt(ts, k + 1)
    OBVIOUS
  <2>2. k + 1 \in 1 .. Len(ts) /\ k \in 1 .. Len(ts) - 1 /\ k + 1 # 1 /\ (k + 1) - 1 = k
    BY <1>2, <2>1
  <2>3. IsOperator(ts, k + 1)
    BY <1>2, <2>1, <2>2
  <2>4. ~IsOperator(ts, (k + 1) - 1)
    BY <1>3, <2>1, <2>2
  <2>5. QED
    BY <1>4, <2>2, <2>3, <2>4
<1>8. IsOperator(ts, k) => k < Len(ts)
  BY <1>2, <1>3
<1>9. IsOperator(ts, k) => OperatorAt(ts, k) \in DOMAIN Precedence
  BY <1>3, OperatorFacts DEF OperatorAt, PrefixOf, Unary
<1>10. QED
  BY <1>2, <1>3, <1>4, <1>5, <1>6, <1>7, <1>8, <1>9, OperatorFacts DEF Binding

-----------------------------------------------------------------------------
(* The parts of an expression                                              *)

(* Of some operators there is one that is applied after all others.        *)
LEMMA LastApplied ==
  ASSUME NEW n \in Nat, NEW b \in [1 .. n -> Nat], NEW C \in SUBSET (1 .. n), C # {}
  PROVE  \E k \in C : \A l \in C \ {k} :
           b[k] < b[l] \/ (b[k] = b[l] /\ (IF b[k] = 14 THEN k < l ELSE k > l))
<1> DEFINE bs == {b[c] : c \in C}
<1>1. bs \in SUBSET Nat /\ bs # {}
  OBVIOUS
<1>2. PICK w \in bs : \A x \in bs : w <= x
  <2> HIDE DEF bs
  <2>1. QED
    BY <1>1, LeastNumber
<1> DEFINE D == {c \in C : b[c] = w}
<1>3. w \in Nat /\ \A c \in C : b[c] \in Nat /\ w <= b[c]
  BY <1>2
<1>4. \A c \in C : c \in D \/ w < b[c]
  BY <1>3
<1>5. \A c \in D : c \in C /\ c \in 1 .. n /\ b[c] = w
  OBVIOUS
<1>9. D # {}
  OBVIOUS
<1> HIDE DEF bs, D
<1>10. D \in SUBSET Nat
  BY <1>5
<1>6. CASE w = 14
  <2>1. PICK k \in D : \A l \in D : k <= l
    BY <1>9, <1>10, LeastNumber
  <2>2. \A l \in C \ {k} : b[k] < b[l] \/ (b[k] = b[l] /\ k < l)
    BY <1>4, <1>5, <2>1
  <2>3. b[k] = 14 /\ k \in C
    BY <1>5, <1>6, <2>1
  <2>4. QED
    BY <2>2, <2>3
<1>7. CASE w # 14
  <2> DEFINE E == {n - c : c \in D}
  <2>1. E \in SUBSET Nat /\ E # {}
    BY <1>5, <1>9
  <2>2. PICK e \in E : \A f \in E : e <= f
    <3> HIDE DEF E
    <3>1. QED
      BY <2>1, LeastNumber
  <2>3. PICK k \in D : e = n - k
    OBVIOUS
  <2>4. \A l \in D : n - k <= n - l
    BY <2>2, <2>3
  <2>5. \A l \in D : l <= k
    BY <1>5, <2>4
  <2>6. \A l \in C \ {k} : b[k] < b[l] \/ (b[k] = b[l] /\ k > l)
    BY <1>4, <1>5, <2>5
  <2>7. b[k] # 14 /\ k \in C
    BY <1>5, <1>7, <2>3
  <2>8. QED
    BY <2>6, <2>7
<1>8. QED
  BY <1>6, <1>7

(* A part of an expression, by its ends.                                   *)
Part(ts, i, j) == <<i, j>> \in Parts(ts)

LEMMA PartIs ==
  ASSUME NEW ts, NEW i, NEW j
  PROVE  Part(ts, i, j) <=>
           /\ i \in 1 .. Len(ts) /\ j \in 1 .. Len(ts) /\ i <= j
           /\ IsOperand(ts, i) \/ PrefixAt(ts, i)
           /\ IsOperand(ts, j)
  BY DEF Part, Parts

(* What stands in the middle of a part: operators with operands between,   *)
(* and the root is one.                                                    *)
LEMMA RootIs ==
  ASSUME NEW ts, Expression(ts), NEW i, NEW j, Part(ts, i, j), i # j
  PROVE  /\ Root(ts, i, j) \in Candidates(ts, i, j)
         /\ \A l \in Candidates(ts, i, j) \ {Root(ts, i, j)} : AppliedAfter(ts, Root(ts, i, j), l)
<1>1. /\ i \in 1 .. Len(ts) /\ j \in 1 .. Len(ts) /\ i <= j
      /\ IsOperand(ts, i) \/ PrefixAt(ts, i)
      /\ IsOperand(ts, j)
  BY PartIs
<1>2. Len(ts) \in Nat
  BY DEF Expression
<1> DEFINE C == Candidates(ts, i, j)
           b == [k \in 1 .. Len(ts) |-> IF IsOperator(ts, k) THEN Binding(ts, k) ELSE 0]
<1>3. C \in SUBSET (1 .. Len(ts))
  BY <1>1, <1>2 DEF Candidates
<1>4. C # {}
  <2>1. CASE PrefixAt(ts, i)
    <3>1. i \in C
      BY <1>1, <2>1 DEF Candidates
    <3>2. QED
      BY <3>1
  <2>2. CASE IsOperand(ts, i)
    <3>1. i < Len(ts) /\ i + 1 \in i .. j
      BY <1>1, <1>2
    <3>2. InfixAt(ts, i + 1)
      BY <1>1, <2>2, <3>1, TokenKinds
    <3>3. i + 1 \in C
      BY <3>1, <3>2 DEF Candidates
    <3>4. QED
      BY <3>3
  <2>3. QED
    BY <1>1, <2>1, <2>2
<1>5. \A k \in C : k \in 1 .. Len(ts) /\ IsOperator(ts, k)
  BY <1>3 DEF Candidates, InfixAt, PrefixAt
<1>6. \A k \in C : b[k] = Binding(ts, k) /\ (b[k] = 14 <=> OperatorAt(ts, k) = "pow")
  BY <1>5, TokenKinds, OperatorFacts DEF Binding
<1>7. b \in [1 .. Len(ts) -> Nat]
  BY TokenKinds
<1> HIDE DEF C, b
<1>8. PICK k \in C : \A l \in C \ {k} :
           b[k] < b[l] \/ (b[k] = b[l] /\ (IF b[k] = 14 THEN k < l ELSE k > l))
  BY <1>2, <1>3, <1>4, <1>7, LastApplied
<1>9. \A l \in C \ {k} : AppliedAfter(ts, k, l)
  BY <1>6, <1>8 DEF AppliedAfter
<1>10. QED
  BY <1>9 DEF Root, C

(* The root of a part is an operator in it, and what stands on each side   *)
(* of it is a part again.                                                  *)
LEMMA RootSplits ==
  ASSUME NEW ts, Expression(ts), NEW i, NEW j, Part(ts, i, j), i # j,
         NEW r, r = Root(ts, i, j)
  PROVE  /\ r \in i .. j /\ r < j
         /\ IsOperator(ts, r)
         /\ Part(ts, r + 1, j)
         /\ r = i => PrefixAt(ts, r)
         /\ r # i => InfixAt(ts, r) /\ Part(ts, i, r - 1)
         /\ OperatorAt(ts, r) \in Unary <=> r = i
<1>1. /\ i \in 1 .. Len(ts) /\ j \in 1 .. Len(ts) /\ i <= j
      /\ IsOperand(ts, i) \/ PrefixAt(ts, i)
      /\ IsOperand(ts, j)
  BY PartIs
<1>2. Len(ts) \in Nat
  BY DEF Expression
<1>3. r \in Candidates(ts, i, j)
  BY RootIs
<1>4. r \in i .. j /\ (InfixAt(ts, r) \/ (r = i /\ PrefixAt(ts, r)))
  BY <1>3 DEF Candidates
<1>5. r \in 1 .. Len(ts) /\ IsOperator(ts, r)
  BY <1>1, <1>2, <1>4, TokenKinds
<1>6. r # j
  BY <1>1, <1>5, TokenKinds
<1>7. r < j /\ r < Len(ts) /\ r + 1 \in 1 .. Len(ts) /\ r + 1 <= j /\ r + 1 # 1 /\ (r + 1) - 1 = r
  BY <1>1, <1>2, <1>4, <1>5, <1>6
<1>8. IsOperand(ts, r + 1) \/ PrefixAt(ts, r + 1)
  BY <1>5, <1>7, TokenKinds
<1>9. Part(ts, r + 1, j)
  BY <1>1, <1>7, <1>8, PartIs
<1>10. r = i => PrefixAt(ts, r)
  BY <1>1, <1>5, TokenKinds
<1>11. ASSUME r # i PROVE InfixAt(ts, r) /\ Part(ts, i, r - 1)
  <2>1. InfixAt(ts, r)
    BY <1>4, <1>11
  <2>2. r - 1 \in 1 .. Len(ts) /\ IsOperand(ts, r - 1)
    BY <1>5, <2>1, TokenKinds
  <2>3. i <= r - 1
    BY <1>1, <1>4, <1>11
  <2>4. QED
    BY <1>1, <2>1, <2>2, <2>3, PartIs
<1>12. OperatorAt(ts, r) \in Unary <=> r = i
  BY <1>5, <1>10, <1>11, TokenKinds
<1>13. QED
  BY <1>4, <1>5, <1>7, <1>9, <1>10, <1>11, <1>12

-----------------------------------------------------------------------------
(* Trees(ts) and AdjoiningParts(ts) are the functions their equations      *)
(* define: there is one for the parts of every size.                       *)

Sized(ts, n) == {part \in Parts(ts) : part[2] - part[1] <= n}

TreesUpTo(f, ts, n) ==
  f = [part \in Sized(ts, n) |-> TreeFrom(f, ts, part[1], part[2])]

AdjoinsUpTo(f, ts, n) ==
  f = [part \in Sized(ts, n) |-> AdjoinsFrom(f, ts, part[1], part[2])]

LEMMA PartsArePairs ==
  ASSUME NEW ts, NEW part \in Parts(ts)
  PROVE  /\ part = <<part[1], part[2]>>
         /\ Part(ts, part[1], part[2])
         /\ part[2] - part[1] \in Nat
         /\ part[1] \in Nat /\ part[2] \in Nat
<1>1. /\ part = <<part[1], part[2]>>
      /\ part[1] \in 1 .. Len(ts) /\ part[2] \in 1 .. Len(ts) /\ part[1] <= part[2]
  BY DEF Parts
<1>2. Part(ts, part[1], part[2])
  BY <1>1 DEF Part
<1>3. QED
  BY <1>1, <1>2

(* The parts beside a root are smaller. *)
LEMMA SmallerParts ==
  ASSUME NEW ts, Expression(ts), NEW n \in Nat, NEW i, NEW j, <<i, j>> \in Sized(ts, n + 1),
         i # j
  PROVE  /\ <<Root(ts, i, j) + 1, j>> \in Sized(ts, n)
         /\ Root(ts, i, j) # i => <<i, Root(ts, i, j) - 1>> \in Sized(ts, n)
<1> DEFINE r == Root(ts, i, j)
<1>1. Part(ts, i, j) /\ j - i <= n + 1
  BY DEF Sized, Part
<1>2. i \in 1 .. Len(ts) /\ j \in 1 .. Len(ts)
  BY <1>1, PartIs
<1>3. /\ r \in i .. j /\ r < j /\ Part(ts, r + 1, j)
      /\ r # i => Part(ts, i, r - 1)
  BY <1>1, RootSplits
<1> HIDE DEF r
<1>4. r \in Int /\ i \in Int /\ j \in Int /\ i <= r
  BY <1>2, <1>3
<1>5. j - (r + 1) <= n
  BY <1>1, <1>4
<1>6. r # i => (r - 1) - i <= n
  BY <1>1, <1>3, <1>4
<1>7. QED
  BY <1>3, <1>5, <1>6 DEF Sized, Part, r

(* From the trees of the parts of a size those of the parts one larger.    *)
LEMMA TreesOneMore ==
  ASSUME NEW ts, Expression(ts), NEW n \in Nat, NEW f, TreesUpTo(f, ts, n)
  PROVE  \E g : TreesUpTo(g, ts, n + 1)
<1> DEFINE g == [part \in Sized(ts, n + 1) |-> TreeFrom(f, ts, part[1], part[2])]
<1>1. ASSUME NEW part \in Sized(ts, n) PROVE part \in Sized(ts, n + 1) /\ g[part] = f[part]
  <2>1. part \in Sized(ts, n + 1)
    BY PartsArePairs DEF Sized
  <2>2. g[part] = TreeFrom(f, ts, part[1], part[2])
    BY <2>1
  <2>3. f[part] = TreeFrom(f, ts, part[1], part[2])
    <3> DEFINE e == [p \in Sized(ts, n) |-> TreeFrom(f, ts, p[1], p[2])]
    <3>1. f = e
      BY DEF TreesUpTo
    <3>2. e[part] = TreeFrom(f, ts, part[1], part[2])
      OBVIOUS
    <3> HIDE DEF e
    <3>3. QED
      BY <3>1, <3>2
  <2>4. QED
    BY <2>1, <2>2, <2>3
<1>2. ASSUME NEW part \in Sized(ts, n + 1)
      PROVE  TreeFrom(f, ts, part[1], part[2]) = TreeFrom(g, ts, part[1], part[2])
  <2> DEFINE i == part[1]
             j == part[2]
             r == Root(ts, i, j)
  <2>1. <<i, j>> \in Sized(ts, n + 1)
    BY PartsArePairs DEF Sized
  <2>2. i # j => /\ g[<<r + 1, j>>] = f[<<r + 1, j>>]
                 /\ r # i => g[<<i, r - 1>>] = f[<<i, r - 1>>]
    <3> HIDE DEF i, j, g
    <3>1. QED
      BY <1>1, <2>1, SmallerParts
  <2> HIDE DEF i, j, g
  <2>3. TreeFrom(f, ts, i, j) = TreeFrom(g, ts, i, j)
    BY <2>2 DEF TreeFrom
  <2>4. QED
    BY <2>3 DEF i, j
<1>3. g = [part \in Sized(ts, n + 1) |-> TreeFrom(g, ts, part[1], part[2])]
  <2> HIDE DEF g
  <2>1. [part \in Sized(ts, n + 1) |-> TreeFrom(f, ts, part[1], part[2])]
          = [part \in Sized(ts, n + 1) |-> TreeFrom(g, ts, part[1], part[2])]
    BY <1>2
  <2>2. QED
    BY <2>1 DEF g
<1> HIDE DEF g
<1>4. QED
  BY <1>3 DEF TreesUpTo

LEMMA AdjoinsOneMore ==
  ASSUME NEW ts, Expression(ts), NEW n \in Nat, NEW f, AdjoinsUpTo(f, ts, n)
  PROVE  \E g : AdjoinsUpTo(g, ts, n + 1)
<1> DEFINE g == [part \in Sized(ts, n + 1) |-> AdjoinsFrom(f, ts, part[1], part[2])]
<1>1. ASSUME NEW part \in Sized(ts, n) PROVE part \in Sized(ts, n + 1) /\ g[part] = f[part]
  <2>1. part \in Sized(ts, n + 1)
    BY PartsArePairs DEF Sized
  <2>2. g[part] = AdjoinsFrom(f, ts, part[1], part[2])
    BY <2>1
  <2>3. f[part] = AdjoinsFrom(f, ts, part[1], part[2])
    <3> DEFINE e == [p \in Sized(ts, n) |-> AdjoinsFrom(f, ts, p[1], p[2])]
    <3>1. f = e
      BY DEF AdjoinsUpTo
    <3>2. e[part] = AdjoinsFrom(f, ts, part[1], part[2])
      OBVIOUS
    <3> HIDE DEF e
    <3>3. QED
      BY <3>1, <3>2
  <2>4. QED
    BY <2>1, <2>2, <2>3
<1>2. ASSUME NEW part \in Sized(ts, n + 1)
      PROVE  AdjoinsFrom(f, ts, part[1], part[2]) = AdjoinsFrom(g, ts, part[1], part[2])
  <2> DEFINE i == part[1]
             j == part[2]
             r == Root(ts, i, j)
  <2>1. <<i, j>> \in Sized(ts, n + 1)
    BY PartsArePairs DEF Sized
  <2>2. i # j => /\ g[<<r + 1, j>>] = f[<<r + 1, j>>]
                 /\ r # i => g[<<i, r - 1>>] = f[<<i, r - 1>>]
    <3> HIDE DEF i, j, g
    <3>1. QED
      BY <1>1, <2>1, SmallerParts
  <2> HIDE DEF i, j, g
  <2>3. AdjoinsFrom(f, ts, i, j) = AdjoinsFrom(g, ts, i, j)
    BY <2>2 DEF AdjoinsFrom
  <2>4. QED
    BY <2>3 DEF i, j
<1>3. g = [part \in Sized(ts, n + 1) |-> AdjoinsFrom(g, ts, part[1], part[2])]
  <2> HIDE DEF g
  <2>1. [part \in Sized(ts, n + 1) |-> AdjoinsFrom(f, ts, part[1], part[2])]
          = [part \in Sized(ts, n + 1) |-> AdjoinsFrom(g, ts, part[1], part[2])]
    BY <1>2
  <2>2. QED
    BY <2>1 DEF g
<1> HIDE DEF g
<1>4. QED
  BY <1>3 DEF AdjoinsUpTo

LEMMA AllSized ==
  ASSUME NEW ts, Expression(ts)
  PROVE  Len(ts) \in Nat /\ Sized(ts, Len(ts)) = Parts(ts) /\ Sized(ts, 0) \subseteq Parts(ts)
         /\ \A part \in Sized(ts, 0) : part[1] = part[2]
<1>1. Len(ts) \in Nat
  BY DEF Expression
<1>2. \A part \in Parts(ts) : part[2] - part[1] <= Len(ts)
  <2>1. SUFFICES ASSUME NEW part \in Parts(ts) PROVE part[2] - part[1] <= Len(ts)
    OBVIOUS
  <2>2. part[1] \in 1 .. Len(ts) /\ part[2] \in 1 .. Len(ts)
    BY DEF Parts
  <2>3. QED
    BY <1>1, <2>2
<1>3. \A part \in Sized(ts, 0) : part[1] = part[2]
  <2>1. SUFFICES ASSUME NEW part \in Sized(ts, 0) PROVE part[1] = part[2]
    OBVIOUS
  <2>2. part \in Parts(ts) /\ part[2] - part[1] <= 0
    BY DEF Sized
  <2>3. part[1] \in Nat /\ part[2] \in Nat /\ part[2] - part[1] \in Nat
    BY <2>2, PartsArePairs
  <2>4. QED
    BY <2>2, <2>3
<1>4. QED
  BY <1>1, <1>2, <1>3 DEF Sized

LEMMA TreesExist ==
  ASSUME NEW ts, Expression(ts)
  PROVE  \A n \in Nat : \E f : TreesUpTo(f, ts, n)
<1> DEFINE S == {n \in Nat : \E f : TreesUpTo(f, ts, n)}
<1>1. 0 \in S
  <2> DEFINE f == [part \in Sized(ts, 0) |-> Leaf(ts[part[1]].name)]
  <2>1. \A part \in Sized(ts, 0) : TreeFrom(f, ts, part[1], part[2]) = Leaf(ts[part[1]].name)
    BY AllSized DEF TreeFrom
  <2>2. f = [part \in Sized(ts, 0) |-> TreeFrom(f, ts, part[1], part[2])]
    <3> HIDE DEF f
    <3>1. [part \in Sized(ts, 0) |-> Leaf(ts[part[1]].name)]
            = [part \in Sized(ts, 0) |-> TreeFrom(f, ts, part[1], part[2])]
      BY <2>1
    <3>2. QED
      BY <3>1 DEF f
  <2> HIDE DEF f
  <2>3. TreesUpTo(f, ts, 0)
    BY <2>2 DEF TreesUpTo
  <2>4. QED
    BY <2>3
<1>2. \A n \in Nat : n \in S => n + 1 \in S
  BY TreesOneMore
<1> HIDE DEF S
<1>3. \A n \in Nat : n \in S
  BY <1>1, <1>2, InductionOnNat
<1>4. QED
  BY <1>3 DEF S

LEMMA AdjoinsExist ==
  ASSUME NEW ts, Expression(ts)
  PROVE  \A n \in Nat : \E f : AdjoinsUpTo(f, ts, n)
<1> DEFINE S == {n \in Nat : \E f : AdjoinsUpTo(f, ts, n)}
<1>1. 0 \in S
  <2> DEFINE f == [part \in Sized(ts, 0) |-> TRUE]
  <2>1. \A part \in Sized(ts, 0) : AdjoinsFrom(f, ts, part[1], part[2]) = TRUE
    BY AllSized DEF AdjoinsFrom
  <2>2. f = [part \in Sized(ts, 0) |-> AdjoinsFrom(f, ts, part[1], part[2])]
    <3> HIDE DEF f
    <3>1. [part \in Sized(ts, 0) |-> TRUE]
            = [part \in Sized(ts, 0) |-> AdjoinsFrom(f, ts, part[1], part[2])]
      BY <2>1
    <3>2. QED
      BY <3>1 DEF f
  <2> HIDE DEF f
  <2>3. AdjoinsUpTo(f, ts, 0)
    BY <2>2 DEF AdjoinsUpTo
  <2>4. QED
    BY <2>3
<1>2. \A n \in Nat : n \in S => n + 1 \in S
  BY AdjoinsOneMore
<1> HIDE DEF S
<1>3. \A n \in Nat : n \in S
  BY <1>1, <1>2, InductionOnNat
<1>4. QED
  BY <1>3 DEF S

(* Trees is what its definition says: the tree of a part is made of those  *)
(* beside its root.                                                        *)
LEMMA TreesAt ==
  ASSUME NEW ts, Expression(ts), NEW i, NEW j, Part(ts, i, j)
  PROVE  Trees(ts)[<<i, j>>] = TreeFrom(Trees(ts), ts, i, j)
<1> DEFINE f == CHOOSE tree : tree =
                  [part \in Parts(ts) |-> TreeFrom(tree, ts, part[1], part[2])]
<1>1. Trees(ts) = f
  BY DEF Trees
<1>2. \E g : g = [part \in Parts(ts) |-> TreeFrom(g, ts, part[1], part[2])]
  BY AllSized, TreesExist DEF TreesUpTo
<1>3. f = [part \in Parts(ts) |-> TreeFrom(f, ts, part[1], part[2])]
  BY <1>2
<1> HIDE DEF f
<1>4. f[<<i, j>>] = TreeFrom(f, ts, i, j)
  <2> DEFINE e == [part \in Parts(ts) |-> TreeFrom(f, ts, part[1], part[2])]
  <2>1. e[<<i, j>>] = TreeFrom(f, ts, i, j)
    BY DEF Part
  <2>2. f = e
    BY <1>3
  <2> HIDE DEF e
  <2>3. QED
    BY <2>1, <2>2
<1>5. QED
  BY <1>1, <1>4

(* And so is AdjoiningParts.                                               *)
LEMMA AdjoiningAt ==
  ASSUME NEW ts, Expression(ts), NEW i, NEW j, Part(ts, i, j)
  PROVE  AdjoiningParts(ts)[<<i, j>>] = AdjoinsFrom(AdjoiningParts(ts), ts, i, j)
<1> DEFINE f == CHOOSE adjoins : adjoins =
                  [part \in Parts(ts) |-> AdjoinsFrom(adjoins, ts, part[1], part[2])]
<1>1. AdjoiningParts(ts) = f
  BY DEF AdjoiningParts
<1>2. \E g : g = [part \in Parts(ts) |-> AdjoinsFrom(g, ts, part[1], part[2])]
  BY AllSized, AdjoinsExist DEF AdjoinsUpTo
<1>3. f = [part \in Parts(ts) |-> AdjoinsFrom(f, ts, part[1], part[2])]
  BY <1>2
<1> HIDE DEF f
<1>4. f[<<i, j>>] = AdjoinsFrom(f, ts, i, j)
  <2> DEFINE e == [part \in Parts(ts) |-> AdjoinsFrom(f, ts, part[1], part[2])]
  <2>1. e[<<i, j>>] = AdjoinsFrom(f, ts, i, j)
    BY DEF Part
  <2>2. f = e
    BY <1>3
  <2> HIDE DEF e
  <2>3. QED
    BY <2>1, <2>2
<1>5. QED
  BY <1>1, <1>4

-----------------------------------------------------------------------------
(* Expressions whose operations adjoin their operands                      *)

(* The tree of a part with an operator in it. *)
TreeOver(ts, i, j, r) ==
  Node(OperatorAt(ts, r),
       IF r = i THEN <<Trees(ts)[<<r + 1, j>>]>>
       ELSE <<Trees(ts)[<<i, r - 1>>], Trees(ts)[<<r + 1, j>>]>>)

LEMMA TreeShape ==
  ASSUME NEW ts, Expression(ts), NEW i, NEW j, Part(ts, i, j)
  PROVE  /\ i = j => Trees(ts)[<<i, j>>] = Leaf(ts[i].name)
         /\ i # j => Trees(ts)[<<i, j>>] = TreeOver(ts, i, j, Root(ts, i, j))
         /\ Trees(ts)[<<i, j>>].args = <<>> <=> i = j
<1>1. Trees(ts)[<<i, j>>] = TreeFrom(Trees(ts), ts, i, j)
  BY TreesAt
<1>2. i = j => Trees(ts)[<<i, j>>] = Leaf(ts[i].name)
  BY <1>1 DEF TreeFrom
<1>3. i # j => Trees(ts)[<<i, j>>] = TreeOver(ts, i, j, Root(ts, i, j))
  BY <1>1 DEF TreeFrom, TreeOver
<1>4. i = j => Trees(ts)[<<i, j>>].args = <<>>
  BY <1>2 DEF Leaf
<1>5. i # j => Trees(ts)[<<i, j>>].args # <<>>
  BY <1>3 DEF Node, TreeOver
<1>6. QED
  BY <1>2, <1>3, <1>4, <1>5

(* A part in which every operation adjoins its operands.                   *)
Adjoins(ts, i, j) == AdjoiningParts(ts)[<<i, j>>]

BeginsAtIts(ts, i, j) == i # j => Root(ts, i, j) = i \/ Root(ts, i, j) - 1 = i
EndsAtIts(ts, i, j) == i # j => Root(ts, i, j) + 1 = j
IsArithmetic(ts, i, j) == i # j /\ OperatorAt(ts, Root(ts, i, j)) \in Arithmetic

(* Where a tree begins or ends at its root the root stands beside the      *)
(* operand at that end.                                                    *)
LEMMA BeginsAndEnds ==
  ASSUME NEW ts, Expression(ts), NEW i, NEW j, Part(ts, i, j),
         NEW tree, tree = Trees(ts)[<<i, j>>]
  PROVE  /\ i # j /\ BeginsAtRoot(tree) => BeginsAtIts(ts, i, j)
         /\ EndsAtRoot(tree) => EndsAtIts(ts, i, j)
         /\ i # j => tree.op = OperatorAt(ts, Root(ts, i, j))
<1> DEFINE r == Root(ts, i, j)
<1>1. CASE i = j
  BY <1>1 DEF BeginsAtIts, EndsAtIts
<1>2. CASE i # j
  <2>1. /\ Part(ts, r + 1, j)
        /\ r # i => Part(ts, i, r - 1)
        /\ OperatorAt(ts, r) \in Unary <=> r = i
    BY <1>2, RootSplits
  <2> DEFINE right == Trees(ts)[<<r + 1, j>>]
             left == Trees(ts)[<<i, r - 1>>]
  <2>2. tree = Node(OperatorAt(ts, r), IF r = i THEN <<right>> ELSE <<left, right>>)
    BY <1>2, TreeShape DEF TreeOver
  <2>9. right = Trees(ts)[<<r + 1, j>>] /\ left = Trees(ts)[<<i, r - 1>>]
    OBVIOUS
  <2> HIDE DEF left, right, r
  <2>3. right.args = <<>> <=> r + 1 = j
    BY <2>1, <2>9, TreeShape
  <2>4. r # i => (left.args = <<>> <=> i = r - 1)
    BY <2>1, <2>9, TreeShape
  <2>5. tree.op = OperatorAt(ts, r) /\ tree.args = IF r = i THEN <<right>> ELSE <<left, right>>
    BY <2>2 DEF Node
  <2>6. BeginsAtRoot(tree) => r = i \/ r - 1 = i
    <3>1. SUFFICES ASSUME BeginsAtRoot(tree), r # i PROVE r - 1 = i
      OBVIOUS
    <3>2. tree.args = <<left, right>> /\ tree.op \notin Unary
      BY <2>1, <2>5, <3>1
    <3>3. tree.args # <<>> /\ tree.args[1] = left
      BY <3>2
    <3>4. left.args = <<>>
      BY <3>1, <3>2, <3>3 DEF BeginsAtRoot
    <3>5. QED
      BY <2>4, <3>1, <3>4
  <2>7. EndsAtRoot(tree) => r + 1 = j
    <3>1. SUFFICES ASSUME EndsAtRoot(tree) PROVE r + 1 = j
      OBVIOUS
    <3>2. tree.args # <<>> /\ tree.args[Len(tree.args)] = right
      <4>1. CASE r = i
        <5>1. tree.args = <<right>>
          BY <2>5, <4>1
        <5>2. QED
          BY <5>1
      <4>2. CASE r # i
        <5>1. tree.args = <<left, right>>
          BY <2>5, <4>2
        <5>2. QED
          BY <5>1
      <4>3. QED
        BY <4>1, <4>2
    <3>3. right.args = <<>>
      BY <3>1, <3>2 DEF EndsAtRoot
    <3>4. QED
      BY <2>3, <3>3
  <2>8. QED
    BY <2>5, <2>6, <2>7 DEF BeginsAtIts, EndsAtIts, r
<1>3. QED
  BY <1>1, <1>2

(* What adjoining says of the parts beside a root.                         *)
LEMMA AdjoinsMeans ==
  ASSUME NEW ts, Expression(ts), NEW i, NEW j, Part(ts, i, j), i # j, Adjoins(ts, i, j),
         NEW r, r = Root(ts, i, j)
  PROVE  /\ Adjoins(ts, r + 1, j)
         /\ BeginsAtIts(ts, r + 1, j)
         /\ r # i => Adjoins(ts, i, r - 1) /\ EndsAtIts(ts, i, r - 1)
         /\ OperatorAt(ts, r) \in {"pow"} \cup Arithmetic => ~IsArithmetic(ts, r + 1, j)
<1> DEFINE tree == Trees(ts)[<<i, j>>]
           right == Trees(ts)[<<r + 1, j>>]
           left == Trees(ts)[<<i, r - 1>>]
<1>1. AdjoinsFrom(AdjoiningParts(ts), ts, i, j)
  BY AdjoiningAt DEF Adjoins
<1>2. AdjoinsArguments(tree) /\ Adjoins(ts, r + 1, j) /\ (r # i => Adjoins(ts, i, r - 1))
  BY <1>1 DEF AdjoinsFrom, Adjoins
<1>3. /\ Part(ts, r + 1, j)
      /\ r # i => Part(ts, i, r - 1)
      /\ OperatorAt(ts, r) \in Unary <=> r = i
  BY RootSplits
<1>4. tree = Node(OperatorAt(ts, r), IF r = i THEN <<right>> ELSE <<left, right>>)
  BY TreeShape DEF TreeOver
<1>5. /\ BeginsAtRoot(right) => BeginsAtIts(ts, r + 1, j)
      /\ r + 1 # j => right.op = OperatorAt(ts, Root(ts, r + 1, j))
  BY <1>3, BeginsAndEnds DEF BeginsAtIts
<1>6. r # i => (EndsAtRoot(left) => EndsAtIts(ts, i, r - 1))
  BY <1>3, BeginsAndEnds
<1> HIDE DEF tree, left, right
<1>7. tree.op = OperatorAt(ts, r) /\ tree.args = IF r = i THEN <<right>> ELSE <<left, right>>
  BY <1>4 DEF Node
<1>8. CASE r = i
  <2>1. tree.args = <<right>>
    BY <1>7, <1>8
  <2>2. Len(tree.args) = 1 /\ tree.args[1] = right
    BY <2>1
  <2>3. BeginsAtRoot(right) /\ (tree.op \in Arithmetic => right.op \notin Arithmetic)
    BY <1>2, <2>2 DEF AdjoinsArguments
  <2>4. OperatorAt(ts, r) # "pow"
    BY <1>3, <1>8, OperatorFacts
  <2>5. QED
    BY <1>2, <1>5, <1>7, <1>8, <2>3, <2>4 DEF IsArithmetic
<1>9. CASE r # i
  <2>1. tree.args = <<left, right>>
    BY <1>7, <1>9
  <2>2. Len(tree.args) = 2 /\ tree.args[1] = left /\ tree.args[2] = right
    BY <2>1
  <2>3. EndsAtRoot(left) /\ BeginsAtRoot(right) /\ (tree.op = "pow" => right.op \notin Arithmetic)
    BY <1>2, <2>2 DEF AdjoinsArguments
  <2>4. OperatorAt(ts, r) \notin Arithmetic
    BY <1>3, <1>9 DEF Arithmetic, Unary
  <2>5. QED
    BY <1>2, <1>5, <1>6, <1>7, <1>9, <2>3, <2>4 DEF IsArithmetic
<1>10. QED
  BY <1>8, <1>9

(* Where operations adjoin their operands a prefix operator binds tighter  *)
(* than the operator it follows; only not may follow not.                  *)
Tighter(ts, t) ==
  (IsOperator(ts, t - 1) /\ IsOperator(ts, t)) =>
    Binding(ts, t - 1) < Binding(ts, t) \/ (Binding(ts, t - 1) = 5 /\ Binding(ts, t) = 5)

Tight(ts, i, j) == \A t \in i + 1 .. j : Tighter(ts, t)

(* The grammar lets a prefix operator follow one that binds as tight or    *)
(* tighter only behind pow and arithmetic.                                 *)
LEMMA LooseOnes ==
  ASSUME NEW ts, Expression(ts), NEW t \in 2 .. Len(ts), ~Tighter(ts, t)
  PROVE  /\ PrefixAt(ts, t) /\ IsOperator(ts, t - 1)
         /\ OperatorAt(ts, t - 1) \in {"pow"} \cup Arithmetic
         /\ OperatorAt(ts, t) \in Arithmetic
         /\ Binding(ts, t - 1) \in {13, 14} /\ Binding(ts, t) = 13
<1>1. IsOperator(ts, t - 1) /\ IsOperator(ts, t)
      /\ ~(Binding(ts, t - 1) < Binding(ts, t))
      /\ ~(Binding(ts, t - 1) = 5 /\ Binding(ts, t) = 5)
  BY DEF Tighter
<1>2. t \in 1 .. Len(ts) /\ t - 1 \in 1 .. Len(ts) /\ t > 1
  BY DEF Expression
<1>3. PrefixAt(ts, t) /\ MayFollow(ts, t)
  BY <1>1, <1>2, TokenKinds
<1>4. OperatorAt(ts, t) \in DOMAIN Precedence /\ OperatorAt(ts, t - 1) \in DOMAIN Precedence
  BY <1>1, <1>2, TokenKinds
<1>5. CASE OperatorAt(ts, t - 1) = "pow" /\ OperatorAt(ts, t) \in Arithmetic
  BY <1>1, <1>3, <1>4, <1>5, OperatorFacts DEF Binding
<1>6. CASE PrefixAt(ts, t - 1) /\ Binding(ts, t - 1) = Binding(ts, t)
  <2>1. OperatorAt(ts, t - 1) \in Unary
    BY <1>2, <1>6, TokenKinds
  <2>2. Binding(ts, t - 1) \in {5, 13}
    BY <1>4, <2>1, OperatorFacts DEF Binding
  <2>3. Binding(ts, t - 1) = 13 /\ Binding(ts, t) = 13
    BY <1>1, <1>6, <2>2
  <2>4. QED
    BY <1>1, <1>3, <1>4, <2>3, OperatorFacts DEF Binding
<1>7. QED
  BY <1>1, <1>3, <1>5, <1>6 DEF MayFollow

(* Such a pair stands in one of the parts beside the root.                 *)
LEMMA AdjoinsTighter ==
  ASSUME NEW ts, Expression(ts), NEW i, NEW j, Part(ts, i, j), i # j, Adjoins(ts, i, j),
         NEW t \in i + 1 .. j, ~Tighter(ts, t)
  PROVE  /\ Root(ts, i, j) # t - 1
         /\ t - 1 < Root(ts, i, j) => t <= Root(ts, i, j) - 1
<1> DEFINE r == Root(ts, i, j)
<1>1. i \in 1 .. Len(ts) /\ j \in 1 .. Len(ts) /\ Len(ts) \in Nat
  BY PartIs DEF Expression
<1>2. /\ r \in i .. j /\ r < j /\ Part(ts, r + 1, j)
      /\ r # i => InfixAt(ts, r)
      /\ \A l \in Candidates(ts, i, j) \ {r} : AppliedAfter(ts, r, l)
  BY RootSplits, RootIs
<1>3. t \in 2 .. Len(ts) /\ t \in 1 .. Len(ts) /\ t # i /\ t - 1 \in 1 .. Len(ts)
  BY <1>1
<1>4. /\ PrefixAt(ts, t) /\ IsOperator(ts, t - 1)
      /\ OperatorAt(ts, t - 1) \in {"pow"} \cup Arithmetic
      /\ OperatorAt(ts, t) \in Arithmetic
      /\ Binding(ts, t - 1) \in {13, 14} /\ Binding(ts, t) = 13
  BY <1>3, LooseOnes
<1>5. ASSUME r = t - 1 PROVE FALSE
  <2>1. r + 1 = t /\ Part(ts, t, j)
    BY <1>1, <1>2, <1>3, <1>5
  <2>2. ~IsArithmetic(ts, t, j)
    BY <1>4, <1>5, <2>1, AdjoinsMeans
  <2>3. t # j
    BY <1>3, <1>4, <2>1, PartIs, TokenKinds
  <2> DEFINE q == Root(ts, t, j)
  <2>4. q \in Candidates(ts, t, j) /\ \A l \in Candidates(ts, t, j) \ {q} : AppliedAfter(ts, q, l)
    BY <2>1, <2>3, RootIs
  <2>5. t \in Candidates(ts, t, j)
    BY <1>1, <1>4, <2>1 DEF Candidates
  <2>6. q \in t .. j /\ (q = t \/ InfixAt(ts, q))
    BY <2>4 DEF Candidates
  <2>7. q \in 1 .. Len(ts) /\ q \in i .. j /\ q # r
    BY <1>1, <1>3, <1>5, <2>6
  <2>8. SUFFICES ASSUME q # t PROVE FALSE
    BY <1>4, <2>2, <2>3 DEF IsArithmetic
  <2>9. InfixAt(ts, q)
    BY <2>6, <2>8
  <2>10. q \in Candidates(ts, i, j)
    BY <2>7, <2>9 DEF Candidates
  <2> HIDE DEF q, r
  <2>11. AppliedAfter(ts, r, q) /\ AppliedAfter(ts, q, t)
    BY <1>2, <2>4, <2>5, <2>7, <2>8, <2>10
  <2>12. IsOperator(ts, q)
    BY <2>7, <2>9, TokenKinds
  <2>13. Binding(ts, q) \in 0 .. 16 /\ OperatorAt(ts, q) \in DOMAIN Precedence
         /\ OperatorAt(ts, q) \notin Unary
    BY <2>7, <2>9, <2>12, TokenKinds
  <2>14. Binding(ts, r) \in {13, 14} /\ Binding(ts, t) = 13
    BY <1>4, <1>5
  <2>15. Binding(ts, r) <= Binding(ts, q) /\ Binding(ts, q) <= Binding(ts, t)
    BY <2>11, <2>13, <2>14 DEF AppliedAfter
  <2>16. Binding(ts, q) = 13
    BY <2>13, <2>14, <2>15
  <2>17. QED
    BY <2>13, <2>16, OperatorFacts DEF Binding
<1>6. ASSUME t - 1 < r PROVE t <= r - 1
  <2>1. r # i
    BY <1>1, <1>2, <1>6
  <2>2. r \in 1 .. Len(ts) /\ InfixAt(ts, r)
    BY <1>1, <1>2, <2>1
  <2>3. r # t
    BY <1>3, <1>4, <2>2, TokenKinds
  <2>4. QED
    BY <1>1, <1>2, <1>6, <2>3
<1>7. QED
  BY <1>5, <1>6

AllTight(ts, n) ==
  \A part \in Sized(ts, n) :
    Adjoins(ts, part[1], part[2]) => Tight(ts, part[1], part[2])

(* So there is none where operations adjoin their operands.                *)
LEMMA AdjoinsTightly ==
  ASSUME NEW ts, Expression(ts), NEW i, NEW j, Part(ts, i, j), Adjoins(ts, i, j)
  PROVE  Tight(ts, i, j)
<1> DEFINE S == {n \in Nat : AllTight(ts, n)}
<1>1. 0 \in S
  <2>1. SUFFICES ASSUME NEW part \in Sized(ts, 0) PROVE Tight(ts, part[1], part[2])
    BY DEF AllTight
  <2>2. part[1] = part[2] /\ part[1] \in Nat
    BY AllSized, PartsArePairs
  <2>3. QED
    BY <2>2 DEF Tight
<1>2. ASSUME NEW n \in Nat, n \in S PROVE n + 1 \in S
  <2>1. SUFFICES ASSUME NEW part \in Sized(ts, n + 1), Adjoins(ts, part[1], part[2])
                 PROVE  Tight(ts, part[1], part[2])
    BY DEF AllTight
  <2> DEFINE a == part[1]
             b == part[2]
             r == Root(ts, a, b)
  <2>2. <<a, b>> \in Sized(ts, n + 1) /\ Part(ts, a, b) /\ Adjoins(ts, a, b)
    BY <2>1, PartsArePairs DEF Sized
  <2> HIDE DEF a, b
  <2>3. SUFFICES ASSUME NEW t \in a + 1 .. b, ~Tighter(ts, t) PROVE FALSE
    BY DEF Tight, a, b
  <2>4. a \in 1 .. Len(ts) /\ b \in 1 .. Len(ts) /\ a # b
    BY <2>2, <2>3, PartIs
  <2>5. /\ r # t - 1
        /\ t - 1 < r => t <= r - 1
    BY <2>2, <2>3, <2>4, AdjoinsTighter
  <2>6. r \in a .. b /\ Adjoins(ts, r + 1, b) /\ (r # a => Adjoins(ts, a, r - 1))
    BY <2>2, <2>4, RootSplits, AdjoinsMeans
  <2>7. <<r + 1, b>> \in Sized(ts, n) /\ (r # a => <<a, r - 1>> \in Sized(ts, n))
    BY <2>2, <2>4, SmallerParts
  <2> HIDE DEF r
  <2>8. Tight(ts, r + 1, b) /\ (r # a => Tight(ts, a, r - 1))
    <3>1. \A c, d : (<<c, d>> \in Sized(ts, n) /\ Adjoins(ts, c, d)) => Tight(ts, c, d)
      BY <1>2 DEF AllTight
    <3>2. QED
      BY <2>6, <2>7, <3>1
  <2>9. CASE t - 1 < r
    <3>1. t \in a + 1 .. r - 1 /\ r # a
      BY <2>4, <2>5, <2>6, <2>9
    <3>2. QED
      BY <2>3, <2>8, <3>1 DEF Tight
  <2>10. CASE t - 1 > r
    <3>1. t \in (r + 1) + 1 .. b
      BY <2>4, <2>6, <2>10
    <3>2. QED
      BY <2>3, <2>8, <3>1 DEF Tight
  <2>11. QED
    BY <2>4, <2>5, <2>6, <2>9, <2>10
<1> HIDE DEF S
<1>3. \A n \in Nat : n \in S
  BY <1>1, <1>2, InductionOnNat
<1>4. Len(ts) \in S /\ <<i, j>> \in Sized(ts, Len(ts))
  BY <1>3, AllSized DEF Part
<1>5. AllTight(ts, Len(ts))
  BY <1>4 DEF S
<1>6. QED
  BY <1>4, <1>5 DEF AllTight

-----------------------------------------------------------------------------
(* The order operations are compiled in                                    *)

(* Whatever the order of other nots, one behind another is compiled first: *)
(* which of the two is taken for which makes no difference.                *)
Sooner(ts, s, t) ==
  \/ Binding(ts, s) > Binding(ts, t)
  \/ /\ Binding(ts, s) = Binding(ts, t)
     /\ \/ Binding(ts, s) = 14 /\ s > t
        \/ Binding(ts, s) \notin {5, 14} /\ s < t
        \/ Binding(ts, s) = 5 /\ s > t /\ \A m \in t .. s : IsOperator(ts, m)

(* Between an operator of a part and the candidate before it every         *)
(* operator binds tighter, if they are not all nots.                       *)
BindsFrom(ts, c, t) ==
  \/ c = t
  \/ Binding(ts, c) < Binding(ts, t)
  \/ Binding(ts, c) = 5 /\ Binding(ts, t) = 5

(* Along operators one behind another each binds tighter than the first.   *)
LEMMA ChainBinds ==
  ASSUME NEW ts, Expression(ts), NEW c \in 1 .. Len(ts), NEW t \in c .. Len(ts),
         \A m \in c .. t : IsOperator(ts, m),
         \A m \in c + 1 .. t : Tighter(ts, m)
  PROVE  BindsFrom(ts, c, t)
<1> DEFINE T == {d \in c .. t : ~BindsFrom(ts, c, d)}
<1>1. Len(ts) \in Nat /\ c \in Nat /\ t \in Nat
  BY DEF Expression
<1>2. SUFFICES ASSUME T # {} PROVE FALSE
  BY <1>1
<1>3. T \in SUBSET Nat
  BY <1>1
<1>4. PICK d \in T : \A e \in T : d <= e
  <2> HIDE DEF T
  <2>1. QED
    BY <1>2, <1>3, LeastNumber
<1>5. d \in c .. t /\ ~BindsFrom(ts, c, d)
  OBVIOUS
<1>6. d # c
  BY <1>5 DEF BindsFrom
<1>7. d - 1 \in c .. t /\ d \in c + 1 .. t /\ d - 1 < d
  BY <1>1, <1>5, <1>6
<1>8. BindsFrom(ts, c, d - 1)
  BY <1>4, <1>7
<1>9. Binding(ts, d - 1) < Binding(ts, d) \/ (Binding(ts, d - 1) = 5 /\ Binding(ts, d) = 5)
  BY <1>5, <1>7 DEF Tighter
<1>10. Binding(ts, c) \in 0 .. 16 /\ Binding(ts, d) \in 0 .. 16 /\ Binding(ts, d - 1) \in 0 .. 16
  <2>1. \A m \in c .. t : m \in 1 .. Len(ts) /\ IsOperator(ts, m)
    BY <1>1
  <2>2. c \in c .. t
    BY <1>1
  <2>3. QED
    BY <1>5, <1>7, <2>1, <2>2, TokenKinds
<1>11. PICK p : p = d - 1
  OBVIOUS
<1>12. \A x, y, z \in 0 .. 16 :
         (x < y \/ (x = 5 /\ y = 5) \/ x = y) /\ (y < z \/ (y = 5 /\ z = 5)) =>
           x < z \/ (x = 5 /\ z = 5)
  OBVIOUS
<1>13. Binding(ts, c) < Binding(ts, d) \/ (Binding(ts, c) = 5 /\ Binding(ts, d) = 5)
  <2>1. c = p \/ Binding(ts, c) < Binding(ts, p) \/ (Binding(ts, c) = 5 /\ Binding(ts, p) = 5)
    BY <1>8, <1>11 DEF BindsFrom
  <2>2. /\ Binding(ts, p) < Binding(ts, d) \/ (Binding(ts, p) = 5 /\ Binding(ts, d) = 5)
        /\ Binding(ts, p) \in 0 .. 16
    BY <1>9, <1>10, <1>11
  <2>3. QED
    BY <1>10, <1>12, <2>1, <2>2
<1>14. QED
  BY <1>5, <1>13 DEF BindsFrom

(* Every operator of a part is a candidate or stands in such a row behind  *)
(* one.                                                                    *)
LEMMA CandidateBefore ==
  ASSUME NEW ts, Expression(ts), NEW i, NEW j, Part(ts, i, j), Tight(ts, i, j),
         NEW t \in i .. j, IsOperator(ts, t)
  PROVE  \E c \in Candidates(ts, i, j) :
           c <= t /\ BindsFrom(ts, c, t) /\ \A m \in c .. t : IsOperator(ts, m)
<1>1. i \in 1 .. Len(ts) /\ j \in 1 .. Len(ts) /\ Len(ts) \in Nat
      /\ (IsOperand(ts, i) \/ PrefixAt(ts, i))
  BY PartIs DEF Expression
<1> DEFINE T == {c \in i .. t : \A m \in c .. t : IsOperator(ts, m)}
<1>2. T \in SUBSET Nat /\ t \in T
  BY <1>1
<1>3. PICK c \in T : \A e \in T : c <= e
  <2> HIDE DEF T
  <2>1. QED
    BY <1>2, LeastNumber
<1>4. c \in i .. t /\ \A m \in c .. t : IsOperator(ts, m)
  OBVIOUS
<1>5. c \in 1 .. Len(ts) /\ c \in i .. j /\ IsOperator(ts, c) /\ c <= t /\ t \in c .. Len(ts)
  BY <1>1, <1>4
<1>6. c \in Candidates(ts, i, j)
  <2>1. CASE c = i
    <3>1. PrefixAt(ts, i)
      BY <1>1, <1>5, <2>1, TokenKinds
    <3>2. QED
      BY <1>5, <2>1, <3>1 DEF Candidates
  <2>2. CASE c # i
    <3>1. c - 1 \in i .. t /\ c - 1 \in 1 .. Len(ts) /\ c > 1 /\ ~(c <= c - 1)
      BY <1>1, <1>4, <2>2
    <3>2. c - 1 \notin T
      BY <1>3, <3>1
    <3>3. ~IsOperator(ts, c - 1)
      <4>1. SUFFICES ASSUME IsOperator(ts, c - 1) PROVE c - 1 \in T
        BY <3>2
      <4>2. \A m \in c - 1 .. t : m = c - 1 \/ m \in c .. t
        BY <1>1, <1>4
      <4>3. QED
        BY <1>4, <3>1, <4>1, <4>2
    <3>4. IsOperand(ts, c - 1)
      BY <3>1, <3>3, TokenKinds
    <3>5. InfixAt(ts, c)
      BY <1>5, <3>1, <3>4, TokenKinds
    <3>6. QED
      BY <1>5, <3>5 DEF Candidates
  <2>3. QED
    BY <2>1, <2>2
<1>7. BindsFrom(ts, c, t)
  <2>1. \A m \in c + 1 .. t : Tighter(ts, m)
    BY <1>1, <1>5 DEF Tight
  <2>2. QED
    BY <1>4, <1>5, <2>1, ChainBinds
<1>8. QED
  BY <1>4, <1>5, <1>6, <1>7

(* The root is compiled after every other operator of its part.            *)
LEMMA RootIsLast ==
  ASSUME NEW ts, Expression(ts), NEW i, NEW j, Part(ts, i, j), i # j, Tight(ts, i, j),
         NEW t \in i .. j, IsOperator(ts, t), t # Root(ts, i, j)
  PROVE  Sooner(ts, t, Root(ts, i, j))
<1> DEFINE r == Root(ts, i, j)
<1>1. i \in 1 .. Len(ts) /\ j \in 1 .. Len(ts) /\ Len(ts) \in Nat
  BY PartIs DEF Expression
<1>2. /\ r \in i .. j /\ IsOperator(ts, r)
      /\ r = i => PrefixAt(ts, r)
      /\ r # i => InfixAt(ts, r)
      /\ \A l \in Candidates(ts, i, j) \ {r} : AppliedAfter(ts, r, l)
  BY RootSplits, RootIs
<1> HIDE DEF r
<1>3. PICK c \in Candidates(ts, i, j) :
        c <= t /\ BindsFrom(ts, c, t) /\ \A m \in c .. t : IsOperator(ts, m)
  BY CandidateBefore
<1>4. c \in i .. j /\ (InfixAt(ts, c) \/ (c = i /\ PrefixAt(ts, c))) /\ c \in 1 .. Len(ts)
      /\ r \in 1 .. Len(ts) /\ t \in 1 .. Len(ts)
  BY <1>1, <1>2, <1>3 DEF Candidates
<1>5. IsOperator(ts, c)
  BY <1>1, <1>3, <1>4
<1>6. /\ Binding(ts, c) \in 0 .. 16 /\ Binding(ts, t) \in 0 .. 16 /\ Binding(ts, r) \in 0 .. 16
      /\ OperatorAt(ts, r) \in DOMAIN Precedence /\ OperatorAt(ts, c) \in DOMAIN Precedence
  BY <1>2, <1>4, <1>5, TokenKinds
<1>7. c # r => AppliedAfter(ts, r, c)
  BY <1>2, <1>3
<1>8. Binding(ts, r) = 14 <=> OperatorAt(ts, r) = "pow"
  BY <1>6, OperatorFacts DEF Binding
(* The candidates that are nots are the operator in front.                 *)
<1>9. /\ Binding(ts, c) = 5 => c = i
      /\ Binding(ts, r) = 5 => r = i
  <2>1. ASSUME NEW k \in {c, r}, Binding(ts, k) = 5 PROVE k = i
    <3>1. k \in 1 .. Len(ts) /\ (InfixAt(ts, k) \/ k = i) /\ OperatorAt(ts, k) \in DOMAIN Precedence
      BY <1>2, <1>4, <1>6
    <3>2. OperatorAt(ts, k) \in Unary
      BY <2>1, <3>1, OperatorFacts DEF Binding
    <3>3. ~InfixAt(ts, k)
      BY <3>1, <3>2, TokenKinds
    <3>4. QED
      BY <3>1, <3>3
  <2>2. QED
    BY <2>1
<1>10. CASE c = t
  <2>1. AppliedAfter(ts, r, t)
    BY <1>7, <1>10 DEF r
  <2>2. Binding(ts, t) = Binding(ts, r) => Binding(ts, t) # 5
    BY <1>9, <1>10 DEF r
  <2>3. QED
    BY <1>4, <1>6, <1>8, <2>1, <2>2 DEF AppliedAfter, Sooner, r
<1>11. CASE Binding(ts, c) < Binding(ts, t)
  <2>1. c # r => Binding(ts, r) <= Binding(ts, c)
    BY <1>6, <1>7 DEF AppliedAfter
  <2>2. Binding(ts, r) <= Binding(ts, c)
    BY <1>6, <2>1
  <2>3. Binding(ts, r) < Binding(ts, t)
    BY <1>6, <1>11, <2>2
  <2>4. QED
    BY <1>6, <2>3 DEF Sooner, r
<1>12. CASE c # t /\ Binding(ts, c) = 5 /\ Binding(ts, t) = 5
  <2>1. c = i
    BY <1>9, <1>12
  <2>2. Binding(ts, r) <= 5
    BY <1>6, <1>7, <1>12 DEF AppliedAfter
  <2>3. CASE Binding(ts, r) = 5
    <3>1. r = c /\ r < t
      BY <1>3, <1>4, <1>9, <1>12, <2>1, <2>3
    <3>2. QED
      BY <1>3, <1>12, <2>3, <3>1 DEF Sooner, r
  <2>4. CASE Binding(ts, r) # 5
    BY <1>6, <1>12, <2>2, <2>4 DEF Sooner, r
  <2>5. QED
    BY <2>3, <2>4
<1>13. QED
  BY <1>3, <1>10, <1>11, <1>12 DEF BindsFrom

-----------------------------------------------------------------------------
(* The table and the tokens it was made of                                 *)

(* at are the places of the operands among the first n tokens, in order.   *)
ReadsOperands(ts, n, names, at) ==
  /\ at \in Seq(Nat)
  /\ Len(at) = Len(names)
  /\ \A k \in 1 .. Len(at) :
       /\ at[k] \in 1 .. n
       /\ IsOperand(ts, at[k])
       /\ names[k] = ts[at[k]].name
  /\ \A k, l \in 1 .. Len(at) : k < l => at[k] < at[l]
  /\ \A m \in 1 .. n : IsOperand(ts, m) => \E k \in 1 .. Len(at) : at[k] = m

(* The operation that stands for the operator at t: its operands are the   *)
(* one before and the one behind it.                                       *)
Stands(ts, at, t, o) ==
  /\ o.op = OperatorAt(ts, t)
  /\ o.right = o.left + 1
  /\ o.left \in 0 .. Len(at)
  /\ \A k \in 1 .. Len(at) : at[k] < t <=> k <= o.left

(* from[prec] are the places of the operators of a precedence, in order.   *)
ReadsOperations(ts, n, vecs, at, from) ==
  /\ from \in [0 .. MaxPrecedence -> Seq(Nat)]
  /\ \A prec \in 0 .. MaxPrecedence :
       /\ Len(from[prec]) = Len(vecs[prec])
       /\ \A i \in 1 .. Len(from[prec]) :
            /\ from[prec][i] \in 1 .. n
            /\ IsOperator(ts, from[prec][i])
            /\ Binding(ts, from[prec][i]) = prec
            /\ Stands(ts, at, from[prec][i], vecs[prec][i])
       /\ \A i, k \in 1 .. Len(from[prec]) : i < k => from[prec][i] < from[prec][k]
  /\ \A t \in 1 .. n : IsOperator(ts, t) =>
       \E i \in 1 .. Len(from[Binding(ts, t)]) : from[Binding(ts, t)][i] = t

PreviousRead(ts, n, prev) == prev = "operand" <=> n > 0 /\ IsOperand(ts, n)

(* Everything on the table comes from the tokens read.                     *)
ReadFrom(at, from) ==
  /\ ReadsOperands(source, read, operands, at)
  /\ ReadsOperations(source, read, vectors, at, from)
  /\ PreviousRead(source, read, previous)

LEMMA SourceTokens ==
  ASSUME TableTypes
  PROVE  /\ Len(source) \in Nat /\ read \in Nat
         /\ \A k \in 1 .. Len(source) :
              /\ IsOperator(source, k) <=> ~IsOperand(source, k)
              /\ IsOperator(source, k) =>
                   /\ OperatorAt(source, k) \in DOMAIN Precedence
                   /\ Binding(source, k) \in 0 .. MaxPrecedence
<1>1. source \in Seq(Token) /\ read \in 0 .. Len(source)
  BY SourcesAssumption DEF TableTypes
<1>2. Len(source) \in Nat /\ read \in Nat
  BY <1>1
<1>3. ASSUME NEW k \in 1 .. Len(source)
      PROVE  /\ IsOperator(source, k) <=> ~IsOperand(source, k)
             /\ IsOperator(source, k) =>
                  /\ OperatorAt(source, k) \in DOMAIN Precedence
                  /\ Binding(source, k) \in 0 .. MaxPrecedence
  <2>1. source[k] \in Token
    BY <1>1
  <2>2. IsOperator(source, k) <=> ~IsOperand(source, k)
    BY <2>1 DEF Token, IsOperator, IsOperand
  <2>3. IsOperator(source, k) => source[k].name \in DOMAIN Precedence
    BY <2>1 DEF Token, IsOperator
  <2>4. IsOperator(source, k) => OperatorAt(source, k) \in DOMAIN Precedence
    BY <2>3, OperatorFacts DEF OperatorAt, PrefixOf, Unary
  <2>5. QED
    BY <2>2, <2>4, PrecedenceFacts DEF Binding
<1>4. QED
  BY <1>2, <1>3

LEMMA NothingRead ==
  ASSUME Init
  PROVE  ReadFrom(<<>>, [prec \in 0 .. MaxPrecedence |-> <<>>])
<1>1. /\ read = 0 /\ operands = <<>> /\ previous = "none"
      /\ vectors = [prec \in 0 .. MaxPrecedence |-> <<>>]
  BY DEF Init
<1> DEFINE from == [prec \in 0 .. MaxPrecedence |-> <<>>]
<1>2. \A prec \in 0 .. MaxPrecedence : from[prec] = <<>> /\ vectors[prec] = <<>>
  BY <1>1
<1>3. from \in [0 .. MaxPrecedence -> Seq(Nat)]
  OBVIOUS
<1>4. 1 .. read = {} /\ 1 .. Len(<<>>) = {}
  BY <1>1
<1> HIDE DEF from
<1>5. ReadsOperations(source, read, vectors, <<>>, from)
  BY <1>2, <1>3, <1>4 DEF ReadsOperations
<1>6. ReadsOperands(source, read, operands, <<>>) /\ PreviousRead(source, read, previous)
  BY <1>1, <1>4 DEF ReadsOperands, PreviousRead
<1>7. QED
  BY <1>5, <1>6 DEF from, ReadFrom

LEMMA StandsOn ==
  ASSUME NEW at \in Seq(Nat), NEW t \in Nat, NEW o, NEW ts, Stands(ts, at, t, o), NEW m \in Nat, t <= m
  PROVE  Stands(ts, Append(at, m), t, o)
<1>1. Len(Append(at, m)) = Len(at) + 1 /\ Len(at) \in Nat
  OBVIOUS
<1>2. \A k \in 1 .. Len(at) : Append(at, m)[k] = at[k]
  OBVIOUS
<1>3. Append(at, m)[Len(at) + 1] = m
  OBVIOUS
<1> DEFINE new == Append(at, m)
<1> HIDE DEF new
<1>4. \A k \in 1 .. Len(new) : new[k] < t <=> k <= o.left
  <2>1. SUFFICES ASSUME NEW k \in 1 .. Len(new) PROVE new[k] < t <=> k <= o.left
    OBVIOUS
  <2>2. o.left \in 0 .. Len(at)
    BY DEF Stands
  <2>3. CASE k \in 1 .. Len(at)
    <3>1. new[k] = at[k]
      BY <1>2, <2>3 DEF new
    <3>2. QED
      BY <2>3, <3>1 DEF Stands
  <2>4. CASE k = Len(at) + 1
    BY <1>1, <1>3, <2>2, <2>4 DEF new
  <2>5. QED
    BY <1>1, <2>3, <2>4 DEF new
<1>5. QED
  BY <1>1, <1>4 DEF Stands, new

(* Pushing an operand keeps the table what was read.                       *)
LEMMA OperandRead ==
  ASSUME IInv, PushOperand, NEW at, NEW from, ReadFrom(at, from)
  PROVE  \E new : ReadFrom(new, from)'
<1>1. /\ phase = "parse" /\ read < Len(source) /\ token.type = "operand"
      /\ operands' = Append(operands, token.name)
      /\ previous' = "operand"
      /\ read' = read + 1
      /\ UNCHANGED <<source, vectors>>
  BY DEF PushOperand, Reading
<1>2. TableTypes
  BY DEF IInv
<1>3. read \in Nat /\ Len(source) \in Nat /\ read + 1 \in 1 .. Len(source)
  BY <1>1, <1>2, SourceTokens
<1>4. IsOperand(source, read + 1) /\ ~IsOperator(source, read + 1)
  BY <1>1, <1>2, <1>3, SourceTokens DEF token, IsOperand
<1>14. /\ ReadsOperands(source, read, operands, at)
       /\ ReadsOperations(source, read, vectors, at, from)
  BY DEF ReadFrom
<1>5. PreviousRead(source, read + 1, "operand")
  BY <1>3, <1>4 DEF PreviousRead
<1>17. PICK new : new = Append(at, read + 1)
  OBVIOUS
<1>6. /\ at \in Seq(Nat) /\ Len(at) = Len(operands) /\ Len(at) \in Nat
      /\ new \in Seq(Nat) /\ Len(new) = Len(at) + 1
      /\ new[Len(at) + 1] = read + 1
      /\ \A k \in 1 .. Len(at) : new[k] = at[k]
  BY <1>3, <1>14, <1>17 DEF ReadsOperands
<1> DEFINE names == Append(operands, token.name)
<1>7. /\ Len(names) = Len(operands) + 1
      /\ names[Len(operands) + 1] = source[read + 1].name
      /\ \A k \in 1 .. Len(operands) : names[k] = operands[k]
      /\ names = operands'
  BY <1>1, <1>2 DEF TableTypes, token
<1>8. \A k \in 1 .. Len(new) : k \in 1 .. Len(at) \/ k = Len(at) + 1
  BY <1>6
<1>9. \A k \in 1 .. Len(at) : at[k] \in 1 .. read
  BY <1>14 DEF ReadsOperands
<1>10. ASSUME NEW t \in 1 .. read, NEW o, Stands(source, at, t, o)
       PROVE  Stands(source, new, t, o)
  <2>1. t \in Nat /\ t <= read + 1 /\ read + 1 \in Nat
    BY <1>3
  <2>2. QED
    BY <1>6, <1>10, <1>17, <2>1, StandsOn
<1> HIDE DEF names
<1>11. ReadsOperands(source, read + 1, names, new)
  <2>1. \A k \in 1 .. Len(new) :
          /\ new[k] \in 1 .. read + 1
          /\ IsOperand(source, new[k])
          /\ names[k] = source[new[k]].name
    <3>1. SUFFICES ASSUME NEW k \in 1 .. Len(new)
                   PROVE  /\ new[k] \in 1 .. read + 1
                          /\ IsOperand(source, new[k])
                          /\ names[k] = source[new[k]].name
      OBVIOUS
    <3>2. CASE k \in 1 .. Len(at)
      <4>1. new[k] = at[k] /\ names[k] = operands[k]
        BY <1>6, <1>7, <3>2
      <4>2. at[k] \in 1 .. read /\ IsOperand(source, at[k]) /\ operands[k] = source[at[k]].name
        BY <1>14, <3>2 DEF ReadsOperands
      <4>3. QED
        BY <1>3, <4>1, <4>2
    <3>3. CASE k = Len(at) + 1
      BY <1>3, <1>4, <1>6, <1>7, <3>3 DEF token
    <3>4. QED
      BY <1>8, <3>2, <3>3
  <2>2. \A k, l \in 1 .. Len(new) : k < l => new[k] < new[l]
    <3>1. SUFFICES ASSUME NEW k \in 1 .. Len(new), NEW l \in 1 .. Len(new), k < l
                   PROVE  new[k] < new[l]
      OBVIOUS
    <3>2. k \in 1 .. Len(at)
      BY <1>6, <1>8, <3>1
    <3>3. CASE l \in 1 .. Len(at)
      BY <1>14, <1>6, <3>1, <3>2, <3>3 DEF ReadsOperands
    <3>4. CASE l = Len(at) + 1
      BY <1>3, <1>6, <1>9, <3>2, <3>4
    <3>5. QED
      BY <1>8, <3>3, <3>4
  <2>3. \A m \in 1 .. read + 1 : IsOperand(source, m) => \E k \in 1 .. Len(new) : new[k] = m
    <3>1. SUFFICES ASSUME NEW m \in 1 .. read + 1, IsOperand(source, m)
                   PROVE  \E k \in 1 .. Len(new) : new[k] = m
      OBVIOUS
    <3>2. CASE m \in 1 .. read
      <4>1. PICK k \in 1 .. Len(at) : at[k] = m
        BY <1>14, <3>1, <3>2 DEF ReadsOperands
      <4>2. k \in 1 .. Len(new) /\ new[k] = m
        BY <1>6, <4>1
      <4>3. QED
        BY <4>2
    <3>3. CASE m = read + 1
      <4>1. Len(at) + 1 \in 1 .. Len(new)
        BY <1>6
      <4>2. QED
        BY <1>6, <3>3, <4>1
    <3>4. QED
      BY <1>3, <3>2, <3>3
  <2>4. QED
    BY <1>6, <1>7, <2>1, <2>2, <2>3 DEF ReadsOperands
<1>12. ReadsOperations(source, read + 1, vectors, new, from)
  <2>1. /\ from \in [0 .. MaxPrecedence -> Seq(Nat)]
        /\ \A prec \in 0 .. MaxPrecedence :
             /\ Len(from[prec]) = Len(vectors[prec])
             /\ \A i, k \in 1 .. Len(from[prec]) : i < k => from[prec][i] < from[prec][k]
    BY <1>14 DEF ReadsOperations
  <2>2. \A prec \in 0 .. MaxPrecedence : \A i \in 1 .. Len(from[prec]) :
            /\ from[prec][i] \in 1 .. read + 1
            /\ IsOperator(source, from[prec][i])
            /\ Binding(source, from[prec][i]) = prec
            /\ Stands(source, new, from[prec][i], vectors[prec][i])
    BY <1>14, <1>3, <1>10 DEF ReadsOperations
  <2>3. \A t \in 1 .. read + 1 : IsOperator(source, t) =>
          \E i \in 1 .. Len(from[Binding(source, t)]) : from[Binding(source, t)][i] = t
    BY <1>14, <1>3, <1>4 DEF ReadsOperations
  <2>4. QED
    BY <2>1, <2>2, <2>3 DEF ReadsOperations
<1>13. /\ source' = source /\ vectors' = vectors /\ read' = read + 1 /\ previous' = "operand"
       /\ operands' = names
  BY <1>1, <1>7
<1>15. ReadFrom(new, from)'
  BY <1>5, <1>11, <1>12, <1>13 DEF ReadFrom
<1>16. QED
  BY <1>15

(* And so does pushing an operation.                                       *)
LEMMA OperationRead ==
  ASSUME IInv, PushOperation, NEW at, NEW from, ReadFrom(at, from)
  PROVE  \E new : ReadFrom(at, new)'
<1>1. /\ phase = "parse" /\ read < Len(source) /\ token.type = "operator"
      /\ vectors' = [vectors EXCEPT ![Precedence[OpType]] =
                       Append(@, [op |-> OpType, left |-> Len(operands),
                                  right |-> Len(operands) + 1])]
      /\ previous' = "operation"
      /\ read' = read + 1
      /\ source' = source /\ operands' = operands
  BY DEF PushOperation, Reading
<1>2. TableTypes
  BY DEF IInv
<1>3. read \in Nat /\ Len(source) \in Nat /\ read + 1 \in 1 .. Len(source)
  BY <1>1, <1>2, SourceTokens
<1>4. IsOperator(source, read + 1) /\ ~IsOperand(source, read + 1)
  BY <1>1, <1>2, <1>3, SourceTokens DEF token, IsOperator
<1>5. /\ ReadsOperands(source, read, operands, at)
      /\ ReadsOperations(source, read, vectors, at, from)
      /\ PreviousRead(source, read, previous)
  BY DEF ReadFrom
<1>6. OpType = OperatorAt(source, read + 1)
  <2>1. CASE read = 0
    BY <1>4, <1>5, <2>1 DEF PreviousRead, OpType, OperatorAt, PrefixOf, PrefixAt, token
  <2>2. CASE read # 0
    <3>1. read \in 1 .. Len(source) /\ (read + 1) - 1 = read /\ read + 1 # 1 /\ read > 0
      BY <1>3, <2>2
    <3>2. previous = "operand" <=> ~IsOperator(source, read)
      BY <1>2, <1>5, <3>1, SourceTokens DEF PreviousRead
    <3>3. PrefixAt(source, read + 1) <=> previous # "operand"
      BY <1>4, <3>1, <3>2 DEF PrefixAt
    <3>4. QED
      BY <3>3 DEF OpType, OperatorAt, PrefixOf, token
  <2>3. QED
    BY <2>1, <2>2
<1>7. PICK t : t = read + 1
  OBVIOUS
<1>8. PICK p : p = Binding(source, t)
  OBVIOUS
<1>9. PICK o : o = [op |-> OperatorAt(source, t), left |-> Len(operands),
                    right |-> Len(operands) + 1]
  OBVIOUS
<1>10. p \in 0 .. MaxPrecedence
  BY <1>2, <1>3, <1>4, <1>7, <1>8, SourceTokens
<1>11. PICK vecs : vecs = [vectors EXCEPT ![p] = Append(@, o)]
  OBVIOUS
<1>12. vectors' = vecs
  BY <1>1, <1>6, <1>7, <1>8, <1>9, <1>11 DEF Binding
<1>13. /\ Len(at) = Len(operands) /\ Len(at) \in Nat
       /\ \A k \in 1 .. Len(at) : at[k] \in 1 .. read
  BY <1>5 DEF ReadsOperands
<1>14. Stands(source, at, t, o)
  <2>1. \A k \in 1 .. Len(at) : at[k] < t /\ k <= Len(at)
    BY <1>3, <1>7, <1>13
  <2>2. o.op = OperatorAt(source, t) /\ o.left = Len(at) /\ o.right = o.left + 1
    BY <1>9, <1>13
  <2>3. QED
    BY <1>13, <2>1, <2>2 DEF Stands
<1>15. PICK new : new = [from EXCEPT ![p] = Append(@, t)]
  OBVIOUS
<1>16. from \in [0 .. MaxPrecedence -> Seq(Nat)] /\ Len(from[p]) = Len(vectors[p])
       /\ Len(from[p]) \in Nat /\ from[p] \in Seq(Nat)
  BY <1>5, <1>10 DEF ReadsOperations
<1>17. vectors[p] \in Seq(Operation) /\ vectors \in [0 .. MaxPrecedence -> Seq(Operation)]
  BY <1>2, <1>10 DEF TableTypes
<1>18. /\ new \in [0 .. MaxPrecedence -> Seq(Nat)]
       /\ \A q \in 0 .. MaxPrecedence : q # p => new[q] = from[q] /\ vecs[q] = vectors[q]
       /\ new[p] = Append(from[p], t)
       /\ vecs[p] = Append(vectors[p], o)
  <2>1. t \in Nat
    BY <1>3, <1>7
  <2>2. QED
    BY <1>10, <1>11, <1>15, <1>16, <1>17, <2>1
<1>19. /\ Len(new[p]) = Len(from[p]) + 1 /\ new[p][Len(from[p]) + 1] = t
       /\ \A i \in 1 .. Len(from[p]) : new[p][i] = from[p][i]
  <2>1. t \in Nat
    BY <1>3, <1>7
  <2>2. QED
    BY <1>16, <1>18, <2>1
<1>20. /\ Len(vecs[p]) = Len(vectors[p]) + 1 /\ vecs[p][Len(vectors[p]) + 1] = o
       /\ \A i \in 1 .. Len(vectors[p]) : vecs[p][i] = vectors[p][i]
  BY <1>17, <1>18
<1>21. \A q \in 0 .. MaxPrecedence :
         /\ Len(from[q]) = Len(vectors[q])
         /\ \A i \in 1 .. Len(from[q]) :
              /\ from[q][i] \in 1 .. read
              /\ IsOperator(source, from[q][i])
              /\ Binding(source, from[q][i]) = q
              /\ Stands(source, at, from[q][i], vectors[q][i])
         /\ \A i, k \in 1 .. Len(from[q]) : i < k => from[q][i] < from[q][k]
  BY <1>5 DEF ReadsOperations
<1>22. ASSUME NEW q \in 0 .. MaxPrecedence
       PROVE  /\ Len(new[q]) = Len(vecs[q])
              /\ \A i \in 1 .. Len(new[q]) :
                   /\ new[q][i] \in 1 .. read + 1
                   /\ IsOperator(source, new[q][i])
                   /\ Binding(source, new[q][i]) = q
                   /\ Stands(source, at, new[q][i], vecs[q][i])
              /\ \A i, k \in 1 .. Len(new[q]) : i < k => new[q][i] < new[q][k]
  <2>1. CASE q # p
    <3>1. new[q] = from[q] /\ vecs[q] = vectors[q]
      BY <1>18, <2>1
    <3>2. \A x \in 1 .. read : x \in 1 .. read + 1
      BY <1>3
    <3>3. QED
      BY <1>21, <3>1, <3>2
  <2>2. CASE q = p
    <3>1. Len(new[p]) = Len(vecs[p])
      BY <1>16, <1>19, <1>20
    <3>2. ASSUME NEW i \in 1 .. Len(new[p])
          PROVE  /\ new[p][i] \in 1 .. read + 1
                 /\ IsOperator(source, new[p][i])
                 /\ Binding(source, new[p][i]) = p
                 /\ Stands(source, at, new[p][i], vecs[p][i])
                 /\ i = Len(from[p]) + 1 \/ (i \in 1 .. Len(from[p]) /\ new[p][i] < t)
      <4>1. CASE i = Len(from[p]) + 1
        <5>1. new[p][i] = t /\ vecs[p][i] = o
          BY <1>16, <1>19, <1>20, <4>1
        <5>2. t \in 1 .. read + 1
          BY <1>3, <1>7
        <5>3. QED
          BY <1>4, <1>7, <1>8, <1>14, <4>1, <5>1, <5>2
      <4>2. CASE i \in 1 .. Len(from[p])
        <5>1. new[p][i] = from[p][i] /\ vecs[p][i] = vectors[p][i]
          BY <1>16, <1>19, <1>20, <4>2
        <5>2. from[p][i] \in 1 .. read /\ IsOperator(source, from[p][i])
              /\ Binding(source, from[p][i]) = p /\ Stands(source, at, from[p][i], vectors[p][i])
          BY <1>10, <1>21, <4>2
        <5>3. from[p][i] \in 1 .. read + 1 /\ from[p][i] < t
          BY <1>3, <1>7, <5>2
        <5>4. QED
          BY <4>2, <5>1, <5>2, <5>3
      <4>3. QED
        BY <1>16, <1>19, <4>1, <4>2
    <3>3. ASSUME NEW i \in 1 .. Len(new[p]), NEW k \in 1 .. Len(new[p]), i < k
          PROVE  new[p][i] < new[p][k]
      <4>1. i \in 1 .. Len(from[p]) /\ (k = Len(from[p]) + 1 \/ k \in 1 .. Len(from[p]))
        BY <1>16, <1>19, <3>3
      <4>2. CASE k = Len(from[p]) + 1
        BY <1>16, <1>19, <3>2, <4>1, <4>2
      <4>3. CASE k \in 1 .. Len(from[p])
        BY <1>10, <1>19, <1>21, <3>3, <4>1, <4>3
      <4>4. QED
        BY <4>1, <4>2, <4>3
    <3>4. QED
      BY <2>2, <3>1, <3>2, <3>3
  <2>3. QED
    BY <2>1, <2>2
<1>23. ASSUME NEW s \in 1 .. read + 1, IsOperator(source, s)
       PROVE  \E i \in 1 .. Len(new[Binding(source, s)]) : new[Binding(source, s)][i] = s
  <2>1. CASE s = t
    <3>1. Len(from[p]) + 1 \in 1 .. Len(new[p])
      BY <1>16, <1>19
    <3>2. QED
      BY <1>8, <1>19, <2>1, <3>1
  <2>2. CASE s \in 1 .. read
    <3>1. s \in 1 .. Len(source)
      BY <1>3, <2>2
    <3>2. PICK q \in 0 .. MaxPrecedence : q = Binding(source, s)
      BY <1>2, <1>23, <3>1, SourceTokens
    <3>3. PICK i \in 1 .. Len(from[q]) : from[q][i] = s
      BY <1>5, <1>23, <2>2, <3>2 DEF ReadsOperations
    <3>4. CASE q # p
      BY <1>18, <3>2, <3>3, <3>4
    <3>5. CASE q = p
      <4>1. i \in 1 .. Len(new[p]) /\ new[p][i] = s
        BY <1>16, <1>19, <3>3, <3>5
      <4>2. QED
        BY <3>2, <3>5, <4>1
    <3>6. QED
      BY <3>4, <3>5
  <2>3. QED
    BY <1>3, <1>7, <2>1, <2>2
<1>24. ReadsOperations(source, read + 1, vecs, at, new)
  BY <1>18, <1>22, <1>23 DEF ReadsOperations
<1>25. ReadsOperands(source, read + 1, operands, at)
  <2>1. \A k \in 1 .. Len(at) :
          /\ at[k] \in 1 .. read + 1
          /\ IsOperand(source, at[k])
          /\ operands[k] = source[at[k]].name
    BY <1>3, <1>5 DEF ReadsOperands
  <2>2. \A m \in 1 .. read + 1 : IsOperand(source, m) => m \in 1 .. read
    BY <1>3, <1>4
  <2>3. \A m \in 1 .. read + 1 : IsOperand(source, m) => \E k \in 1 .. Len(at) : at[k] = m
    BY <1>5, <2>2 DEF ReadsOperands
  <2>4. QED
    BY <1>5, <2>1, <2>3 DEF ReadsOperands
<1>26. PreviousRead(source, read + 1, "operation")
  BY <1>4 DEF PreviousRead
<1>27. ReadFrom(at, new)'
  <2>1. source' = source /\ vectors' = vecs /\ read' = read + 1 /\ previous' = "operation"
        /\ operands' = operands
    BY <1>1, <1>12
  <2>2. QED
    BY <1>24, <1>25, <1>26, <2>1 DEF ReadFrom
<1>28. QED
  BY <1>27

-----------------------------------------------------------------------------
(* The operations in the order they are sorted in                          *)

(* start[prec] is where the operations of a precedence begin in a sorted   *)
(* table; those of pow follow in reverse.                                  *)
SortedBehind(vecs, sorted, start) ==
  \A p \in 0 .. MaxPrecedence : \A i \in 1 .. Len(vecs[p]) :
    /\ start[p] + i \in 1 .. Len(sorted)
    /\ sorted[start[p] + i] = vecs[p][IF p = 14 THEN Len(vecs[p]) - i + 1 ELSE i]

(* Where the operations of every precedence stand once they are sorted.    *)
LEMMA SortedAt ==
  ASSUME NEW A, NEW vecs \in [0 .. MaxPrecedence -> Seq(A)], NEW sorted, sorted = Sorted(vecs)
  PROVE  /\ sorted \in Seq(A)
         /\ \E start \in [0 .. MaxPrecedence -> Nat] :
              /\ SortedBehind(vecs, sorted, start)
              /\ \A x \in 1 .. Len(sorted) : \E p \in 0 .. MaxPrecedence :
                   x - start[p] \in 1 .. Len(vecs[p])
              /\ \A p, q \in 0 .. MaxPrecedence : q < p => start[p] + Len(vecs[p]) <= start[q]
<1>1. sorted \in Seq(A) /\ Len(sorted) \in Nat
  BY SortedElements
<1>2. PICK start \in [0 .. MaxPrecedence -> Nat] :
        /\ \A x \in 1 .. Len(sorted) : \E prec \in 0 .. MaxPrecedence :
             /\ x - start[prec] \in 1 .. Len(vecs[prec])
             /\ \E i \in 1 .. Len(vecs[prec]) : sorted[x] = vecs[prec][i]
             /\ prec # Precedence["pow"] => sorted[x] = vecs[prec][x - start[prec]]
             /\ prec = Precedence["pow"] =>
                  sorted[x] = vecs[prec][Len(vecs[prec]) - (x - start[prec]) + 1]
        /\ \A p, q \in 0 .. MaxPrecedence : q < p => start[p] + Len(vecs[p]) <= start[q]
        /\ \A p \in 0 .. MaxPrecedence : start[p] + Len(vecs[p]) <= Len(sorted)
  BY SortedElements, Zenon
<1>7. Precedence["pow"] = 14
  BY PrecedenceFacts
<1>3. ASSUME NEW p \in 0 .. MaxPrecedence, NEW i \in 1 .. Len(vecs[p])
      PROVE  /\ start[p] + i \in 1 .. Len(sorted)
             /\ sorted[start[p] + i] = vecs[p][IF p = 14 THEN Len(vecs[p]) - i + 1 ELSE i]
  <2>1. PICK x : x = start[p] + i
    OBVIOUS
  <2>2. Len(vecs[p]) \in Nat /\ start[p] \in Nat /\ x \in Nat /\ x - start[p] = i
    BY <2>1
  <2>3. x \in 1 .. Len(sorted)
    BY <1>1, <1>2, <2>1, <2>2
  <2>4. PICK q \in 0 .. MaxPrecedence :
             /\ x - start[q] \in 1 .. Len(vecs[q])
             /\ q # 14 => sorted[x] = vecs[q][x - start[q]]
             /\ q = 14 => sorted[x] = vecs[q][Len(vecs[q]) - (x - start[q]) + 1]
    BY <1>2, <1>7, <2>3
  <2>5. start[q] \in Nat /\ Len(vecs[q]) \in Nat /\ p \in Nat /\ q \in Nat
    <3>1. start[q] \in Nat /\ Len(vecs[q]) \in Nat
      OBVIOUS
    <3>2. p \in 0 .. 16 /\ q \in 0 .. 16
      BY DEF MaxPrecedence
    <3>3. QED
      BY <3>1, <3>2
  <2>6. \A a, b, m, n \in Nat : \A y \in Nat :
          ~(y - a \in 1 .. m /\ y - b \in 1 .. n /\ a + m <= b)
    OBVIOUS
  <2>7. ~(q < p) /\ ~(p < q)
    <3>1. x - start[p] \in 1 .. Len(vecs[p])
      BY <2>2
    <3>2. ~(start[p] + Len(vecs[p]) <= start[q]) /\ ~(start[q] + Len(vecs[q]) <= start[p])
      BY <2>2, <2>4, <2>5, <2>6, <3>1
    <3>3. QED
      BY <1>2, <3>2
  <2>8. q = p
    BY <2>5, <2>7
  <2>9. QED
    BY <2>1, <2>2, <2>3, <2>4, <2>8
<1>4. SortedBehind(vecs, sorted, start)
  BY <1>3 DEF SortedBehind
<1>5. \A x \in 1 .. Len(sorted) : \E p \in 0 .. MaxPrecedence : x - start[p] \in 1 .. Len(vecs[p])
  BY <1>2
<1>6. QED
  BY <1>1, <1>2, <1>4, <1>5

Operators(ts) == {k \in 1 .. Len(ts) : IsOperator(ts, k)}

(* The order of et_to_expr: by precedence, and then as in the source but   *)
(* for pow.                                                                *)
SourceSooner(ts, s, t) ==
  \/ Binding(ts, s) > Binding(ts, t)
  \/ Binding(ts, s) = Binding(ts, t) /\ (IF Binding(ts, s) = 14 THEN s > t ELSE s < t)

(* pos[t] is the place of the operator at t among the sorted operations.   *)
SortedFrom(ts, names, ops, at, pos) ==
  /\ ReadsOperands(ts, Len(ts), names, at)
  /\ pos \in [Operators(ts) -> 1 .. Len(ops)]
  /\ \A x \in 1 .. Len(ops) : \E t \in Operators(ts) : pos[t] = x
  /\ \A t \in Operators(ts) : Stands(ts, at, t, ops[pos[t]])
  /\ \A s, t \in Operators(ts) : SourceSooner(ts, s, t) => pos[s] < pos[t]

(* et_to_expr gives the operations an order that is that of their          *)
(* operators.                                                              *)
LEMMA SortedPlaces ==
  ASSUME TableTypes, NEW at, NEW from, ReadFrom(at, from), read = Len(source)
  PROVE  \E pos : SortedFrom(source, operands, Sorted(vectors), at, pos)
<1>1. PICK sorted : sorted = Sorted(vectors)
  OBVIOUS
<1>2. vectors \in [0 .. MaxPrecedence -> Seq(Operation)]
  BY DEF TableTypes
<1>3. /\ sorted \in Seq(Operation)
      /\ \E start \in [0 .. MaxPrecedence -> Nat] :
              /\ SortedBehind(vectors, sorted, start)
              /\ \A x \in 1 .. Len(sorted) : \E p \in 0 .. MaxPrecedence :
                   x - start[p] \in 1 .. Len(vectors[p])
              /\ \A p, q \in 0 .. MaxPrecedence : q < p => start[p] + Len(vectors[p]) <= start[q]
  BY <1>1, <1>2, SortedAt
<1>4. PICK start \in [0 .. MaxPrecedence -> Nat] :
              /\ SortedBehind(vectors, sorted, start)
              /\ \A x \in 1 .. Len(sorted) : \E p \in 0 .. MaxPrecedence :
                   x - start[p] \in 1 .. Len(vectors[p])
              /\ \A p, q \in 0 .. MaxPrecedence : q < p => start[p] + Len(vectors[p]) <= start[q]
  BY <1>3
<1>5. /\ ReadsOperands(source, Len(source), operands, at)
      /\ ReadsOperations(source, Len(source), vectors, at, from)
  BY DEF ReadFrom
<1>6. \A p \in 0 .. MaxPrecedence :
         /\ Len(from[p]) = Len(vectors[p])
         /\ Len(from[p]) \in Nat
         /\ \A i \in 1 .. Len(from[p]) :
              /\ from[p][i] \in Operators(source)
              /\ Binding(source, from[p][i]) = p
              /\ Stands(source, at, from[p][i], vectors[p][i])
         /\ \A i, k \in 1 .. Len(from[p]) : i < k => from[p][i] < from[p][k]
  BY <1>5 DEF ReadsOperations, Operators
<1>7. \A t \in Operators(source) :
        /\ Binding(source, t) \in 0 .. MaxPrecedence
        /\ t \in Nat
        /\ \E i \in 1 .. Len(from[Binding(source, t)]) : from[Binding(source, t)][i] = t
  BY <1>5, SourceTokens DEF ReadsOperations, Operators
<1> DEFINE index(t) == CHOOSE i \in 1 .. Len(from[Binding(source, t)]) :
                       from[Binding(source, t)][i] = t
           turned(p, i) == IF p = 14 THEN Len(vectors[p]) - i + 1 ELSE i
           pos == [t \in Operators(source) |->
                     start[Binding(source, t)] + turned(Binding(source, t), index(t))]
<1>8. ASSUME NEW t \in Operators(source)
      PROVE  /\ index(t) \in 1 .. Len(from[Binding(source, t)])
             /\ from[Binding(source, t)][index(t)] = t
             /\ pos[t] = start[Binding(source, t)] + turned(Binding(source, t), index(t))
  BY <1>7
<1> HIDE DEF index, pos
<1>9. ASSUME NEW p \in 0 .. MaxPrecedence, NEW i \in 1 .. Len(vectors[p])
      PROVE  turned(p, i) \in 1 .. Len(vectors[p]) /\ turned(p, turned(p, i)) = i
  <2>1. Len(vectors[p]) \in Nat
    BY <1>6
  <2>2. QED
    BY <2>1
<1>10. ASSUME NEW p \in 0 .. MaxPrecedence, NEW i \in 1 .. Len(vectors[p])
       PROVE  /\ start[p] + i \in 1 .. Len(sorted)
              /\ sorted[start[p] + i] = vectors[p][turned(p, i)]
  BY <1>4 DEF SortedBehind
<1>11. ASSUME NEW p \in 0 .. MaxPrecedence, NEW i \in 1 .. Len(from[p])
       PROVE  index(from[p][i]) = i
  <2>1. PICK t : t = from[p][i]
    OBVIOUS
  <2>2. t \in Operators(source) /\ Binding(source, t) = p
    BY <1>6, <2>1
  <2>3. index(t) \in 1 .. Len(from[p]) /\ from[p][index(t)] = t
    BY <1>8, <2>2
  <2>4. t \in Nat /\ Len(from[p]) \in Nat
    BY <1>6, <1>7, <2>2
  <2>5. ~(index(t) < i) /\ ~(i < index(t))
    BY <1>6, <2>1, <2>3, <2>4
  <2>6. QED
    BY <2>1, <2>3, <2>4, <2>5
<1>12. pos \in [Operators(source) -> 1 .. Len(sorted)]
  <2>1. ASSUME NEW t \in Operators(source) PROVE pos[t] \in 1 .. Len(sorted)
    <3>1. PICK p \in 0 .. MaxPrecedence : p = Binding(source, t)
      BY <1>7
    <3>2. PICK i : i = index(t)
      OBVIOUS
    <3>3. i \in 1 .. Len(vectors[p]) /\ pos[t] = start[p] + turned(p, i)
      BY <1>6, <1>8, <3>1, <3>2
    <3>4. turned(p, i) \in 1 .. Len(vectors[p])
      BY <1>9, <3>3
    <3> HIDE DEF turned
    <3>5. QED
      BY <1>10, <3>3, <3>4
  <2>2. QED
    BY <2>1 DEF pos
<1>13. ASSUME NEW x \in 1 .. Len(sorted) PROVE \E t \in Operators(source) : pos[t] = x
  <2>1. PICK p \in 0 .. MaxPrecedence : x - start[p] \in 1 .. Len(vectors[p])
    BY <1>4
  <2>2. PICK i : i = x - start[p]
    OBVIOUS
  <2>3. PICK k : k = turned(p, i)
    OBVIOUS
  <2>4. k \in 1 .. Len(from[p]) /\ turned(p, k) = i
    BY <1>6, <1>9, <2>1, <2>2, <2>3
  <2>5. PICK t : t = from[p][k]
    OBVIOUS
  <2>6. t \in Operators(source) /\ Binding(source, t) = p /\ index(t) = k
    BY <1>6, <1>11, <2>4, <2>5
  <2>7. pos[t] = start[p] + i
    BY <1>8, <2>4, <2>6
  <2>8. start[p] + i = x
    <3>1. Len(sorted) \in Nat
      BY <1>3
    <3>2. start[p] \in Nat /\ x \in Nat
      BY <3>1
    <3>3. QED
      BY <2>2, <3>2
  <2>9. QED
    BY <2>6, <2>7, <2>8
<1>14. ASSUME NEW t \in Operators(source) PROVE Stands(source, at, t, sorted[pos[t]])
  <2>1. PICK p \in 0 .. MaxPrecedence : p = Binding(source, t)
    BY <1>7
  <2>2. PICK i : i = index(t)
    OBVIOUS
  <2>3. i \in 1 .. Len(vectors[p]) /\ from[p][i] = t /\ pos[t] = start[p] + turned(p, i)
    BY <1>6, <1>8, <2>1, <2>2
  <2>4. sorted[pos[t]] = vectors[p][i]
    BY <1>9, <1>10, <2>3
  <2>5. QED
    BY <1>6, <2>3, <2>4
<1>15. ASSUME NEW s \in Operators(source), NEW t \in Operators(source), SourceSooner(source, s, t)
       PROVE  pos[s] < pos[t]
  <2>1. PICK p \in 0 .. MaxPrecedence : p = Binding(source, s)
    BY <1>7
  <2>2. PICK q \in 0 .. MaxPrecedence : q = Binding(source, t)
    BY <1>7
  <2>3. PICK i : i = index(s)
    OBVIOUS
  <2>4. PICK k : k = index(t)
    OBVIOUS
  <2>5. /\ i \in 1 .. Len(vectors[p]) /\ from[p][i] = s /\ pos[s] = start[p] + turned(p, i)
        /\ k \in 1 .. Len(vectors[q]) /\ from[q][k] = t /\ pos[t] = start[q] + turned(q, k)
    BY <1>6, <1>8, <2>1, <2>2, <2>3, <2>4
  <2>6. /\ start[p] \in Nat /\ start[q] \in Nat /\ s \in Nat /\ t \in Nat
        /\ Len(vectors[p]) \in Nat /\ Len(vectors[q]) \in Nat /\ p \in Nat /\ q \in Nat
    <3>1. p \in 0 .. 16 /\ q \in 0 .. 16
      BY DEF MaxPrecedence
    <3>2. start[p] \in Nat /\ start[q] \in Nat
      OBVIOUS
    <3>3. s \in Nat /\ t \in Nat
      BY <1>7
    <3>4. Len(vectors[p]) \in Nat /\ Len(vectors[q]) \in Nat
      BY <1>6
    <3>5. QED
      BY <3>1, <3>2, <3>3, <3>4
  <2>7. turned(p, i) \in 1 .. Len(vectors[p]) /\ turned(q, k) \in 1 .. Len(vectors[q])
    BY <1>9, <2>5
  <2>8. CASE q < p
    <3>1. start[p] + Len(vectors[p]) <= start[q]
      BY <1>4, <2>8
    <3> HIDE DEF turned
    <3>2. QED
      BY <2>5, <2>6, <2>7, <3>1
  <2>9. CASE q = p
    <3>1. IF p = 14 THEN s > t ELSE s < t
      BY <1>15, <2>1, <2>2, <2>6, <2>9 DEF SourceSooner
    <3>2. i < k => s < t
      BY <1>6, <2>5, <2>9
    <3>3. k < i => t < s
      BY <1>6, <2>5, <2>9
    <3>4. IF p = 14 THEN k < i ELSE i < k
      BY <2>5, <2>6, <2>9, <3>1, <3>2, <3>3
    <3>5. turned(p, i) < turned(p, k)
      BY <2>5, <2>6, <2>9, <3>4
    <3> HIDE DEF turned
    <3>6. turned(p, i) \in Nat /\ turned(p, k) \in Nat
      BY <2>6, <2>7, <2>9
    <3>7. QED
      BY <2>5, <2>6, <2>9, <3>5, <3>6
  <2>10. QED
    BY <1>15, <2>1, <2>2, <2>6, <2>8, <2>9 DEF SourceSooner
<1>16. SortedFrom(source, operands, sorted, at, pos)
  BY <1>5, <1>12, <1>13, <1>14, <1>15 DEF SortedFrom
<1>17. QED
  BY <1>1, <1>16

-----------------------------------------------------------------------------
(* Nots behind nots                                                        *)

(* The same operations, with the nots of a chain taken in reverse: as each *)
(* of them is the same operation, the last may stand for the first.        *)
PlacedFrom(ts, names, ops, at, place) ==
  /\ ReadsOperands(ts, Len(ts), names, at)
  /\ place \in [Operators(ts) -> 1 .. Len(ops)]
  /\ \A x \in 1 .. Len(ops) : \E t \in Operators(ts) : place[t] = x
  /\ \A t \in Operators(ts) : Stands(ts, at, t, ops[place[t]])
  /\ \A s, t \in Operators(ts) : Sooner(ts, s, t) => place[s] < place[t]

Nots(ts) == {t \in Operators(ts) : Binding(ts, t) = 5}

(* A chain of nots, from one that follows no other to one no other follows. *)
Chain(ts, a, b) == a .. b \subseteq Nots(ts) /\ a - 1 \notin Nots(ts) /\ b + 1 \notin Nots(ts)

(* Every not stands in a chain of nots.                                    *)
LEMMA ChainExists ==
  ASSUME NEW ts, Len(ts) \in Nat, NEW t \in Nots(ts)
  PROVE  \E a, b \in Nat : t \in a .. b /\ Chain(ts, a, b)
<1>1. \A m \in Nots(ts) : m \in 1 .. Len(ts)
  BY DEF Nots, Operators
<1>2. t \in Nat /\ t \in t .. t /\ t .. t = {t}
  BY <1>1
<1> DEFINE N == Nots(ts)
           A == {a \in 1 .. t : a .. t \subseteq N}
           B == {n \in Nat : n <= Len(ts) /\ t <= Len(ts) - n /\ t .. Len(ts) - n \subseteq N}
<1>3. t \in A /\ A \in SUBSET Nat
  BY <1>1, <1>2
<1>4. PICK a \in A : \A x \in A : a <= x
  <2> HIDE DEF A
  <2>1. QED
    BY <1>3, LeastNumber
<1>5. Len(ts) - t \in B
  <2>1. Len(ts) - (Len(ts) - t) = t /\ Len(ts) - t \in Nat /\ Len(ts) - t <= Len(ts)
    BY <1>1, <1>2
  <2>2. QED
    BY <1>2, <2>1
<1>6. PICK n \in B : \A x \in B : n <= x
  <2>1. B \in SUBSET Nat
    OBVIOUS
  <2> HIDE DEF B
  <2>2. QED
    BY <1>5, <2>1, LeastNumber
<1>7. PICK b : b = Len(ts) - n
  OBVIOUS
<1>8. /\ n \in Nat /\ n <= Len(ts) /\ t <= b /\ t .. b \subseteq N /\ b \in Nat /\ b <= Len(ts)
      /\ a \in 1 .. t /\ a .. t \subseteq N /\ a \in Nat
  BY <1>2, <1>7
<1>9. a .. b \subseteq N
  <2> HIDE DEF N
  <2>1. \A m \in a .. b : m \in a .. t \/ m \in t .. b
    BY <1>2, <1>8
  <2>2. QED
    BY <1>8, <2>1
<1>10. a - 1 \notin N
  <2>1. SUFFICES ASSUME a - 1 \in N PROVE FALSE
    OBVIOUS
  <2>2. a - 1 \in 1 .. t
    BY <1>1, <1>2, <1>8, <2>1
  <2>3. \A m \in a - 1 .. t : m = a - 1 \/ m \in a .. t
    BY <1>2, <1>8
  <2>4. a - 1 .. t \subseteq N
    <3> HIDE DEF N
    <3>1. QED
      BY <1>8, <2>1, <2>3
  <2>5. a - 1 \in A
    BY <2>2, <2>4
  <2> HIDE DEF A, N
  <2>6. a <= a - 1
    BY <1>4, <2>5
  <2>7. QED
    BY <1>8, <2>6
<1>11. b + 1 \notin N
  <2>1. SUFFICES ASSUME b + 1 \in N PROVE FALSE
    OBVIOUS
  <2>2. b + 1 <= Len(ts)
    BY <1>1, <1>8, <2>1
  <2>3. n - 1 \in Nat /\ Len(ts) - (n - 1) = b + 1 /\ n - 1 <= Len(ts) /\ t <= b + 1
    BY <1>2, <1>7, <1>8, <2>2
  <2>4. \A m \in t .. b + 1 : m = b + 1 \/ m \in t .. b
    BY <1>2, <1>8
  <2>5. t .. b + 1 \subseteq N
    <3> HIDE DEF N
    <3>1. QED
      BY <1>8, <2>1, <2>4
  <2>6. n - 1 \in B
    BY <2>3, <2>5
  <2> HIDE DEF B, N
  <2>7. n <= n - 1
    BY <1>6, <2>6
  <2>8. QED
    BY <1>8, <2>7
<1>12. t \in a .. b
  BY <1>2, <1>8
<1>13. QED
  BY <1>8, <1>9, <1>10, <1>11, <1>12 DEF Chain

(* And in one only.                                                        *)
LEMMA OneChain ==
  ASSUME NEW ts, NEW a \in Nat, NEW b \in Nat, NEW c \in Nat, NEW d \in Nat,
         Chain(ts, a, b), Chain(ts, c, d), NEW s \in Nat, s \in a .. b, s \in c .. d
  PROVE  a = c /\ b = d
<1>1. a .. b \subseteq Nots(ts) /\ a - 1 \notin Nots(ts) /\ b + 1 \notin Nots(ts)
      /\ c .. d \subseteq Nots(ts) /\ c - 1 \notin Nots(ts) /\ d + 1 \notin Nots(ts)
  BY DEF Chain
<1>2. ~(a < c)
  <2>1. a < c => c - 1 \in a .. b
    OBVIOUS
  <2>2. QED
    BY <1>1, <2>1
<1>3. ~(c < a)
  <2>1. c < a => a - 1 \in c .. d
    OBVIOUS
  <2>2. QED
    BY <1>1, <2>1
<1>4. ~(b < d)
  <2>1. b < d => b + 1 \in c .. d
    OBVIOUS
  <2>2. QED
    BY <1>1, <2>1
<1>5. ~(d < b)
  <2>1. d < b => d + 1 \in a .. b
    OBVIOUS
  <2>2. QED
    BY <1>1, <2>1
<1>6. QED
  BY <1>2, <1>3, <1>4, <1>5

(* Operators between two nots with no operand between them are nots.       *)
LEMMA NotsBetween ==
  ASSUME NEW ts, Expression(ts), NEW t \in Nots(ts), NEW s \in Nots(ts), t < s,
         \A m \in t .. s : IsOperator(ts, m)
  PROVE  t .. s \subseteq Nots(ts)
<1>1. Len(ts) \in Nat /\ t \in 1 .. Len(ts) /\ s \in 1 .. Len(ts) /\ t \in Nat /\ s \in Nat
      /\ Binding(ts, s) = 5 /\ Binding(ts, t) = 5
  BY DEF Expression, Nots, Operators
<1>2. \A m \in t .. s : m \in 1 .. Len(ts)
  BY <1>1
<1> DEFINE T == {n \in Nat : s - n \in t .. s /\ Binding(ts, s - n) # 5}
<1>3. SUFFICES ASSUME NEW m \in t .. s, Binding(ts, m) # 5 PROVE FALSE
  BY <1>1, <1>2 DEF Nots, Operators
<1>4. s - m \in T
  <2>1. s - (s - m) = m /\ s - m \in Nat
    BY <1>1
  <2>2. QED
    BY <1>3, <2>1
<1>5. PICK n \in T : \A x \in T : n <= x
  <2>1. T \in SUBSET Nat
    OBVIOUS
  <2> HIDE DEF T
  <2>2. QED
    BY <1>4, <2>1, LeastNumber
<1>6. PICK d : d = s - n
  OBVIOUS
<1>7. d \in t .. s /\ Binding(ts, d) # 5 /\ n \in Nat
  BY <1>6
<1>8. d # s /\ d # t /\ d + 1 \in t .. s /\ d - 1 \in t .. s /\ d > t
  BY <1>1, <1>7
<1>9. n - 1 \in Nat /\ s - (n - 1) = d + 1
  BY <1>1, <1>6, <1>7, <1>8
<1>10. Binding(ts, d + 1) = 5
  <2>1. n - 1 \notin T
    <3> HIDE DEF T
    <3>1. ~(n <= n - 1)
      BY <1>7
    <3>2. QED
      BY <1>5, <3>1
  <2>2. QED
    BY <1>8, <1>9, <2>1
<1>11. PrefixAt(ts, d) /\ PrefixAt(ts, d + 1)
  <2>1. IsOperator(ts, d) /\ IsOperator(ts, d - 1) /\ IsOperator(ts, d + 1)
    BY <1>7, <1>8
  <2>2. (d + 1) - 1 = d
    BY <1>7
  <2>3. QED
    BY <2>1, <2>2 DEF PrefixAt
<1>12. d \in 1 .. Len(ts) /\ d + 1 \in 1 .. Len(ts) /\ d + 1 > 1 /\ (d + 1) - 1 = d
  BY <1>1, <1>2, <1>7, <1>8
<1>13. MayFollow(ts, d + 1) /\ OperatorAt(ts, d) \in Unary /\ OperatorAt(ts, d) \in DOMAIN Precedence
  BY <1>11, <1>12, TokenKinds DEF PrefixAt
<1>14. Binding(ts, d) = 13 /\ OperatorAt(ts, d) # "pow"
  BY <1>7, <1>13, OperatorFacts DEF Binding
<1>15. QED
  BY <1>10, <1>12, <1>13, <1>14 DEF MayFollow

(* The operations of a chain have the same operands.                       *)
LEMMA StandsMoved ==
  ASSUME NEW ts, Expression(ts), NEW names, NEW at, ReadsOperands(ts, Len(ts), names, at),
         NEW a \in Nat, NEW b \in Nat, a .. b \subseteq Nots(ts),
         NEW s \in a .. b, NEW t \in a .. b, NEW o, Stands(ts, at, s, o)
  PROVE  Stands(ts, at, t, o)
<1>1. \A m \in a .. b : OperatorAt(ts, m) = "not" /\ ~IsOperand(ts, m)
  <2>1. SUFFICES ASSUME NEW m \in a .. b
                 PROVE  OperatorAt(ts, m) = "not" /\ ~IsOperand(ts, m)
    OBVIOUS
  <2>2. m \in 1 .. Len(ts) /\ IsOperator(ts, m) /\ Binding(ts, m) = 5
    BY DEF Nots, Operators
  <2>3. QED
    BY <2>2, TokenKinds, OperatorFacts DEF Binding
<1>2. /\ o.op = OperatorAt(ts, s)
      /\ o.right = o.left + 1
      /\ o.left \in 0 .. Len(at)
      /\ \A k \in 1 .. Len(at) : at[k] < s <=> k <= o.left
  BY DEF Stands
<1>3. \A k \in 1 .. Len(at) : at[k] < s <=> at[k] < t
  <2>1. SUFFICES ASSUME NEW k \in 1 .. Len(at) PROVE at[k] < s <=> at[k] < t
    OBVIOUS
  <2>2. IsOperand(ts, at[k]) /\ at[k] \in 1 .. Len(ts) /\ Len(ts) \in Nat
    BY DEF ReadsOperands, Expression
  <2>3. at[k] \notin a .. b /\ at[k] \in Nat
    BY <1>1, <2>2
  <2>4. QED
    BY <2>3
<1>4. QED
  BY <1>1, <1>2, <1>3 DEF Stands

(* Every chain of nots in reverse. *)
Mirrors(ts, mirror) ==
  /\ mirror \in [Operators(ts) -> Operators(ts)]
  /\ \A t \in Operators(ts) \ Nots(ts) : mirror[t] = t
  /\ \A a, b \in Nat : Chain(ts, a, b) => \A t \in a .. b : mirror[t] = a + b - t

LEMMA MirrorExists ==
  ASSUME NEW ts, Expression(ts)
  PROVE  \E mirror : Mirrors(ts, mirror)
<1>1. Len(ts) \in Nat /\ Nots(ts) \subseteq Operators(ts)
  BY DEF Expression, Nots
<1> DEFINE End(t, m) == \E a, b \in Nat : Chain(ts, a, b) /\ t \in a .. b /\ m = a + b - t
           mirror == [t \in Operators(ts) |-> IF t \in Nots(ts) THEN CHOOSE m : End(t, m) ELSE t]
<1>2. \A a, b \in Nat : Chain(ts, a, b) => \A t \in a .. b : mirror[t] = a + b - t
  <2>1. SUFFICES ASSUME NEW a \in Nat, NEW b \in Nat, Chain(ts, a, b), NEW t \in a .. b
                 PROVE  mirror[t] = a + b - t
    OBVIOUS
  <2>2. t \in Nots(ts) /\ t \in Operators(ts) /\ t \in Nat
    BY <1>1, <2>1 DEF Chain
  <2>3. End(t, a + b - t)
    BY <2>1
  <2>4. ASSUME NEW m, End(t, m) PROVE m = a + b - t
    <3>1. PICK c, d \in Nat : Chain(ts, c, d) /\ t \in c .. d /\ m = c + d - t
      BY <2>4
    <3>2. a = c /\ b = d
      BY <2>1, <2>2, <3>1, OneChain
    <3>3. QED
      BY <3>1, <3>2
  <2> HIDE DEF End
  <2>5. End(t, CHOOSE m : End(t, m))
    BY <2>3
  <2>6. (CHOOSE m : End(t, m)) = a + b - t
    BY <2>4, <2>5
  <2>7. QED
    BY <2>2, <2>6
<1>3. \A t \in Operators(ts) \ Nots(ts) : mirror[t] = t
  OBVIOUS
<1>4. ASSUME NEW t \in Operators(ts) PROVE mirror[t] \in Operators(ts)
  <2>1. CASE t \in Nots(ts)
    <3>1. PICK a, b \in Nat : t \in a .. b /\ Chain(ts, a, b)
      BY <1>1, <2>1, ChainExists
    <3>2. mirror[t] = a + b - t
      BY <1>2, <3>1
    <3>3. a + b - t \in a .. b
      BY <3>1
    <3>4. QED
      BY <1>1, <3>1, <3>2, <3>3 DEF Chain
  <2>2. CASE t \notin Nots(ts)
    BY <2>2
  <2>3. QED
    BY <2>1, <2>2
<1>5. mirror \in [Operators(ts) -> Operators(ts)]
  <2> HIDE DEF End
  <2>1. QED
    BY <1>4
<1> HIDE DEF mirror
<1>6. QED
  BY <1>2, <1>3, <1>5 DEF Mirrors

(* A mirrored operator is the same operator, standing in the same place    *)
(* among the operands.                                                     *)
LEMMA Mirrored ==
  ASSUME NEW ts, Expression(ts), NEW mirror, Mirrors(ts, mirror), NEW t \in Operators(ts)
  PROVE  /\ mirror[t] \in Operators(ts)
         /\ mirror[mirror[t]] = t
         /\ Binding(ts, mirror[t]) = Binding(ts, t)
         /\ \A names, at, o : ReadsOperands(ts, Len(ts), names, at) /\ Stands(ts, at, mirror[t], o) =>
              Stands(ts, at, t, o)
<1>1. Len(ts) \in Nat /\ Nots(ts) \subseteq Operators(ts) /\ mirror[t] \in Operators(ts)
  BY DEF Expression, Nots, Mirrors
<1>2. CASE t \notin Nots(ts)
  <2>1. mirror[t] = t
    BY <1>2 DEF Mirrors
  <2>2. QED
    BY <1>1, <2>1
<1>3. CASE t \in Nots(ts)
  <2>1. PICK a, b \in Nat : t \in a .. b /\ Chain(ts, a, b)
    BY <1>1, <1>3, ChainExists
  <2>2. mirror[t] = a + b - t
    BY <2>1 DEF Mirrors
  <2>3. mirror[t] \in a .. b /\ a + b - mirror[t] = t
    BY <2>1, <2>2
  <2>4. mirror[mirror[t]] = t
    BY <2>1, <2>3 DEF Mirrors
  <2>5. a .. b \subseteq Nots(ts)
    BY <2>1 DEF Chain
  <2>6. Binding(ts, mirror[t]) = Binding(ts, t)
    BY <2>1, <2>3, <2>5 DEF Nots
  <2>7. ASSUME NEW names, NEW at, NEW o, ReadsOperands(ts, Len(ts), names, at),
               Stands(ts, at, mirror[t], o)
        PROVE  Stands(ts, at, t, o)
    BY <2>1, <2>3, <2>5, <2>7, StandsMoved
  <2>8. QED
    BY <1>1, <2>4, <2>6, <2>7
<1>4. QED
  BY <1>2, <1>3

(* With its chains in reverse a source names its operations in the order   *)
(* in which Python applies them.                                           *)
LEMMA MirroredSooner ==
  ASSUME NEW ts, Expression(ts), NEW mirror, Mirrors(ts, mirror),
         NEW s \in Operators(ts), NEW t \in Operators(ts), Sooner(ts, s, t)
  PROVE  SourceSooner(ts, mirror[s], mirror[t])
<1>1. Binding(ts, mirror[s]) = Binding(ts, s) /\ Binding(ts, mirror[t]) = Binding(ts, t)
  BY Mirrored
<1>2. s \in 1 .. Len(ts) /\ t \in 1 .. Len(ts) /\ Len(ts) \in Nat
  BY DEF Operators, Expression
<1>3. CASE Binding(ts, s) > Binding(ts, t)
  BY <1>1, <1>3 DEF SourceSooner
<1>4. CASE Binding(ts, s) = Binding(ts, t) /\ Binding(ts, s) # 5
  <2>1. mirror[s] = s /\ mirror[t] = t
    BY <1>4 DEF Mirrors, Nots
  <2>2. IF Binding(ts, s) = 14 THEN s > t ELSE s < t
    <3>1. Binding(ts, s) \in 0 .. 16
      BY <1>2, TokenKinds DEF Operators
    <3>2. QED
      BY <1>4, <3>1 DEF Sooner
  <2>3. QED
    BY <1>4, <2>1, <2>2 DEF SourceSooner
<1>5. CASE Binding(ts, s) = 5 /\ Binding(ts, t) = 5
  <2>1. s > t /\ \A m \in t .. s : IsOperator(ts, m)
    BY <1>5 DEF Sooner
  <2>2. s \in Nots(ts) /\ t \in Nots(ts)
    BY <1>5 DEF Nots
  <2>3. t .. s \subseteq Nots(ts)
    BY <1>2, <2>1, <2>2, NotsBetween
  <2>4. PICK a, b \in Nat : t \in a .. b /\ Chain(ts, a, b)
    BY <1>2, <2>2, ChainExists
  <2>5. s <= b
    <3>1. b + 1 \notin t .. s
      BY <2>3, <2>4 DEF Chain
    <3>2. QED
      BY <1>2, <2>4, <3>1
  <2>6. s \in a .. b
    BY <1>2, <2>1, <2>4, <2>5
  <2>7. mirror[s] = a + b - s /\ mirror[t] = a + b - t
    BY <2>4, <2>6 DEF Mirrors
  <2>8. mirror[s] < mirror[t]
    BY <1>2, <2>1, <2>4, <2>7
  <2>9. QED
    BY <1>1, <1>5, <2>8 DEF SourceSooner
<1>6. QED
  BY <1>3, <1>4, <1>5 DEF Sooner

(* So the sorted operations are placed as Python applies them.             *)
LEMMA Placed ==
  ASSUME NEW ts, Expression(ts), NEW names, NEW ops, NEW at, NEW pos,
         SortedFrom(ts, names, ops, at, pos)
  PROVE  \E place : PlacedFrom(ts, names, ops, at, place)
<1>1. PICK mirror : Mirrors(ts, mirror)
  BY MirrorExists
<1> DEFINE place == [t \in Operators(ts) |-> pos[mirror[t]]]
<1>2. \A t \in Operators(ts) : mirror[t] \in Operators(ts) /\ mirror[mirror[t]] = t
  BY <1>1, Mirrored
<1>3. place \in [Operators(ts) -> 1 .. Len(ops)]
  BY <1>2 DEF SortedFrom
<1>4. ASSUME NEW x \in 1 .. Len(ops) PROVE \E t \in Operators(ts) : place[t] = x
  <2>1. PICK t \in Operators(ts) : pos[t] = x
    BY DEF SortedFrom
  <2>2. place[mirror[t]] = x /\ mirror[t] \in Operators(ts)
    BY <1>2, <2>1
  <2>3. QED
    BY <2>2
<1>5. ASSUME NEW t \in Operators(ts) PROVE Stands(ts, at, t, ops[place[t]])
  <2>1. Stands(ts, at, mirror[t], ops[pos[mirror[t]]])
    BY <1>2 DEF SortedFrom
  <2>2. ReadsOperands(ts, Len(ts), names, at)
    BY DEF SortedFrom
  <2>3. Stands(ts, at, t, ops[pos[mirror[t]]])
    BY <1>1, <2>1, <2>2, Mirrored
  <2>4. QED
    BY <2>3
<1>6. ASSUME NEW s \in Operators(ts), NEW t \in Operators(ts), Sooner(ts, s, t)
      PROVE  place[s] < place[t]
  <2>1. SourceSooner(ts, mirror[s], mirror[t])
    BY <1>1, <1>6, MirroredSooner
  <2>2. pos[mirror[s]] < pos[mirror[t]]
    BY <1>2, <2>1 DEF SortedFrom
  <2>3. QED
    BY <2>2
<1>7. ReadsOperands(ts, Len(ts), names, at)
  BY DEF SortedFrom
<1> HIDE DEF place
<1>8. QED
  BY <1>3, <1>4, <1>5, <1>6, <1>7 DEF PlacedFrom

-----------------------------------------------------------------------------
(* The operations an operand is looked up for                              *)

(* An operation is recorded for the operands it has. *)
Touches(operation, k) ==
  k = operation.right \/ (k = operation.left /\ operation.op \notin Unary)

(* The last of the first m operations recorded for an operand, or 0. *)
IsLast(ops, k, m, i) ==
  /\ i \in 0 .. m
  /\ i # 0 => Touches(ops[i], k)
  /\ \A l \in i + 1 .. m : ~Touches(ops[l], k)

(* The operator at t has the operand at p beside it, or behind prefixes. *)
Beside(ts, t, p) ==
  \/ t < p /\ \A m \in t .. p - 1 : IsOperator(ts, m)
  \/ InfixAt(ts, t) /\ t = p + 1

(* An operation is recorded for the operands beside its operator.          *)
LEMMA TouchesBeside ==
  ASSUME NEW ts, Expression(ts), NEW names, NEW at, ReadsOperands(ts, Len(ts), names, at),
         NEW t \in Operators(ts), NEW o, Stands(ts, at, t, o), NEW k \in 1 .. Len(at)
  PROVE  Touches(o, k) <=> Beside(ts, t, at[k])
<1>1. /\ o.op = OperatorAt(ts, t)
      /\ o.right = o.left + 1
      /\ o.left \in 0 .. Len(at)
      /\ \A l \in 1 .. Len(at) : at[l] < t <=> l <= o.left
  BY DEF Stands
<1>2. /\ at \in Seq(Nat) /\ Len(at) \in Nat
      /\ \A l \in 1 .. Len(at) : at[l] \in 1 .. Len(ts) /\ IsOperand(ts, at[l])
      /\ \A l, m \in 1 .. Len(at) : l < m => at[l] < at[m]
      /\ \A m \in 1 .. Len(ts) : IsOperand(ts, m) => \E l \in 1 .. Len(at) : at[l] = m
  BY DEF ReadsOperands
<1>3. t \in 1 .. Len(ts) /\ IsOperator(ts, t) /\ Len(ts) \in Nat
  BY DEF Operators, Expression
<1>4. \A l \in 1 .. Len(at) : at[l] # t /\ ~IsOperator(ts, at[l])
  BY <1>2, <1>3, TokenKinds
<1>5. InfixAt(ts, t) <=> o.op \notin Unary
  BY <1>1, <1>3, TokenKinds
<1>6. ASSUME k = o.right PROVE Beside(ts, t, at[k])
  <2>1. ~(k <= o.left)
    BY <1>1, <1>6
  <2>2. t < at[k]
    BY <1>1, <1>2, <1>3, <1>4, <2>1
  <2>3. ASSUME NEW m \in t .. at[k] - 1, ~IsOperator(ts, m) PROVE FALSE
    <3>1. m \in 1 .. Len(ts) /\ m < at[k] /\ t <= m
      BY <1>2, <1>3
    <3>2. PICK l \in 1 .. Len(at) : at[l] = m
      BY <1>2, <2>3, <3>1, TokenKinds
    <3>3. ~(k < l) /\ k # l
      BY <1>2, <3>1, <3>2
    <3>4. l <= o.left
      BY <1>1, <1>2, <1>6, <3>3
    <3>5. at[l] < t
      BY <1>1, <3>4
    <3>6. QED
      BY <1>2, <1>3, <3>1, <3>2, <3>5
  <2>4. QED
    BY <2>2, <2>3 DEF Beside
<1>7. ASSUME k = o.left, InfixAt(ts, t) PROVE Beside(ts, t, at[k])
  <2>1. t - 1 \in 1 .. Len(ts) /\ IsOperand(ts, t - 1)
    BY <1>3, <1>7, TokenKinds
  <2>2. PICK l \in 1 .. Len(at) : at[l] = t - 1
    BY <1>2, <2>1
  <2>3. l <= o.left /\ at[k] < t
    BY <1>1, <1>3, <1>7, <2>2
  <2>4. l < k \/ l = k
    BY <1>1, <1>7, <2>3
  <2>5. at[k] \in Nat
    BY <1>2
  <2>6. t = at[k] + 1
    BY <1>2, <1>3, <2>2, <2>3, <2>4, <2>5
  <2>7. QED
    BY <1>7, <2>6 DEF Beside
<1>8. ASSUME t < at[k], \A m \in t .. at[k] - 1 : IsOperator(ts, m) PROVE k = o.right
  <2>1. ~(k <= o.left)
    <3>1. ~(at[k] < t)
      BY <1>2, <1>3, <1>8
    <3>2. QED
      BY <1>1, <3>1
  <2>2. o.left + 1 \in 1 .. Len(at) /\ ~(o.left + 1 <= o.left)
    BY <1>1, <1>2, <2>1
  <2>3. ~(at[o.left + 1] < t)
    BY <1>1, <2>2
  <2>4. ~(o.left + 1 < k)
    <3>1. SUFFICES ASSUME o.left + 1 < k PROVE FALSE
      OBVIOUS
    <3>2. at[o.left + 1] < at[k] /\ at[o.left + 1] \in Nat /\ at[k] \in Nat
      BY <1>2, <2>2, <3>1
    <3>3. at[o.left + 1] \in t .. at[k] - 1
      BY <1>3, <2>3, <3>2
    <3>4. QED
      BY <1>4, <1>8, <2>2, <3>3
  <2>5. QED
    BY <1>1, <1>2, <2>1, <2>4
<1>9. ASSUME t = at[k] + 1 PROVE k = o.left
  <2>1. at[k] < t /\ at[k] \in Nat
    BY <1>2, <1>9
  <2>2. k <= o.left
    BY <1>1, <2>1
  <2>3. ~(k < o.left)
    <3>1. SUFFICES ASSUME k < o.left PROVE FALSE
      OBVIOUS
    <3>2. o.left \in 1 .. Len(at)
      BY <1>1, <3>1
    <3>3. at[k] < at[o.left] /\ at[o.left] < t /\ at[o.left] \in Nat
      BY <1>1, <1>2, <3>1, <3>2
    <3>4. QED
      BY <1>9, <2>1, <3>3
  <2>4. QED
    BY <1>1, <2>2, <2>3
<1>10. QED
  BY <1>5, <1>6, <1>7, <1>8, <1>9 DEF Touches, Beside

(* The last operation recorded for an operand that has at most one of the  *)
(* first m beside it that no other follows.                                *)
LEMMA LastBeside ==
  ASSUME NEW ts, Expression(ts), NEW names, NEW ops, NEW at, NEW place,
         PlacedFrom(ts, names, ops, at, place), Len(ops) \in Nat,
         NEW k \in 1 .. Len(at), NEW m \in 0 .. Len(ops)
  PROVE  /\ (\A t \in Operators(ts) : Beside(ts, t, at[k]) => place[t] > m) =>
              IsLast(ops, k, m, 0)
         /\ \A q \in Operators(ts) :
              /\ Beside(ts, q, at[k])
              /\ place[q] <= m
              /\ \A t \in Operators(ts) : Beside(ts, t, at[k]) => place[t] > m \/ place[t] <= place[q]
              => IsLast(ops, k, m, place[q])
<1>1. /\ ReadsOperands(ts, Len(ts), names, at)
      /\ place \in [Operators(ts) -> 1 .. Len(ops)]
      /\ \A x \in 1 .. Len(ops) : \E t \in Operators(ts) : place[t] = x
      /\ \A t \in Operators(ts) : Stands(ts, at, t, ops[place[t]])
  BY DEF PlacedFrom
<1>2. ASSUME NEW t \in Operators(ts) PROVE Touches(ops[place[t]], k) <=> Beside(ts, t, at[k])
  <2>1. Stands(ts, at, t, ops[place[t]])
    BY <1>1
  <2>2. QED
    BY <1>1, <2>1, TouchesBeside
<1>3. \A x \in 1 .. Len(ops) : Touches(ops[x], k) =>
        \E t \in Operators(ts) : place[t] = x /\ Beside(ts, t, at[k])
  BY <1>1, <1>2
<1>4. ASSUME \A t \in Operators(ts) : Beside(ts, t, at[k]) => place[t] > m
      PROVE  IsLast(ops, k, m, 0)
  <2>1. ASSUME NEW l \in 0 + 1 .. m, Touches(ops[l], k) PROVE FALSE
    <3>1. l \in 1 .. Len(ops) /\ ~(l > m)
      OBVIOUS
    <3>2. QED
      BY <1>3, <1>4, <2>1, <3>1
  <2>2. 0 \in 0 .. m
    OBVIOUS
  <2>3. QED
    BY <2>1, <2>2 DEF IsLast
<1>5. ASSUME NEW q \in Operators(ts), Beside(ts, q, at[k]), place[q] <= m,
             \A t \in Operators(ts) : Beside(ts, t, at[k]) => place[t] > m \/ place[t] <= place[q]
      PROVE  IsLast(ops, k, m, place[q])
  <2>1. place[q] \in 1 .. Len(ops)
    BY <1>1
  <2>2. ASSUME NEW l \in place[q] + 1 .. m, Touches(ops[l], k) PROVE FALSE
    <3>1. l \in 1 .. Len(ops) /\ ~(l > m) /\ ~(l <= place[q])
      BY <2>1
    <3>2. QED
      BY <1>3, <1>5, <2>2, <3>1
  <2>3. place[q] \in 0 .. m
    BY <1>5, <2>1
  <2>4. Touches(ops[place[q]], k)
    BY <1>2, <1>5
  <2>5. QED
    BY <2>2, <2>3, <2>4 DEF IsLast
<1>6. QED
  BY <1>4, <1>5

-----------------------------------------------------------------------------
(* What a part computes is not used before it is complete                  *)

(* An operation outside that has an operand of the part beside it is       *)
(* compiled after the operations of the part.                              *)
Closed(ts, place, i, j) ==
  \A t \in Operators(ts) \ (i .. j) : \A p \in i .. j :
    (IsOperand(ts, p) /\ Beside(ts, t, p)) =>
      \A s \in Operators(ts) \cap (i .. j) : place[s] < place[t]

(* Beside an operand next to a root stands nothing but the root, or an     *)
(* operator outside of the part.                                           *)
LEMMA OthersBeside ==
  ASSUME NEW ts, Expression(ts), NEW i, NEW j, Part(ts, i, j), i # j,
         NEW r, r = Root(ts, i, j), NEW t \in Operators(ts), NEW p, Beside(ts, t, p),
         \/ p \in r + 1 .. j /\ t \notin r + 1 .. j
         \/ r # i /\ p \in i .. r - 1 /\ t \notin i .. r - 1
  PROVE  t = r \/ t \notin i .. j
<1>1. /\ Len(ts) \in Nat
      /\ i \in 1 .. Len(ts) /\ j \in 1 .. Len(ts)
      /\ t \in 1 .. Len(ts)
      /\ r \in i .. j /\ r < j
      /\ r # i => r - 1 \in 1 .. Len(ts) /\ IsOperand(ts, r - 1)
  <2>1. r \in i .. j /\ r < j /\ (r # i => InfixAt(ts, r))
    BY RootSplits
  <2>2. i \in 1 .. Len(ts) /\ j \in 1 .. Len(ts) /\ t \in 1 .. Len(ts) /\ Len(ts) \in Nat
    BY PartIs DEF Operators, Expression
  <2>3. QED
    BY <2>1, <2>2, TokenKinds
<1>2. SUFFICES ASSUME t # r, t \in i .. j PROVE FALSE
  OBVIOUS
<1>3. CASE p \in r + 1 .. j /\ t \notin r + 1 .. j
  <2>1. t < r /\ r # i /\ t < p /\ t # p + 1 /\ r - 1 \in t .. p - 1
    BY <1>1, <1>2, <1>3
  <2>2. IsOperator(ts, r - 1)
    BY <2>1 DEF Beside
  <2>3. QED
    BY <1>1, <2>1, <2>2, TokenKinds
<1>4. CASE r # i /\ p \in i .. r - 1 /\ t \notin i .. r - 1
  <2>1. t > r /\ ~(t < p) /\ t # p + 1
    BY <1>1, <1>2, <1>4
  <2>2. QED
    BY <2>1 DEF Beside
<1>5. QED
  BY <1>3, <1>4

(* The operation of a root is compiled after the others of its part.       *)
LEMMA RootPlacedLast ==
  ASSUME NEW ts, Expression(ts), NEW names, NEW ops, NEW at, NEW place,
         PlacedFrom(ts, names, ops, at, place),
         NEW i, NEW j, Part(ts, i, j), i # j, Tight(ts, i, j),
         NEW t \in Operators(ts) \cap (i .. j), t # Root(ts, i, j)
  PROVE  place[t] < place[Root(ts, i, j)]
<1>1. Root(ts, i, j) \in Operators(ts)
  <2>1. Root(ts, i, j) \in i .. j /\ IsOperator(ts, Root(ts, i, j))
    BY RootSplits
  <2>2. i \in 1 .. Len(ts) /\ j \in 1 .. Len(ts) /\ Len(ts) \in Nat
    BY PartIs DEF Expression
  <2>3. QED
    BY <2>1, <2>2 DEF Operators
<1>2. Sooner(ts, t, Root(ts, i, j))
  BY RootIsLast DEF Operators
<1>3. QED
  BY <1>1, <1>2 DEF PlacedFrom

(* The parts beside the root of a closed part. *)
LEMMA ClosedBeside ==
  ASSUME NEW ts, Expression(ts), NEW names, NEW ops, NEW at, NEW place,
         PlacedFrom(ts, names, ops, at, place), Len(ops) \in Nat,
         NEW i, NEW j, Part(ts, i, j), i # j, Tight(ts, i, j), Closed(ts, place, i, j),
         NEW r, r = Root(ts, i, j),
         NEW a, NEW b, (a = r + 1 /\ b = j) \/ (r # i /\ a = i /\ b = r - 1)
  PROVE  /\ Closed(ts, place, a, b)
         /\ \A s \in Operators(ts) \cap (a .. b) : place[s] < place[r]
         /\ \A t \in Operators(ts) \ (a .. b) : \A p \in a .. b :
              (IsOperand(ts, p) /\ Beside(ts, t, p)) => place[r] <= place[t]
<1>1. /\ Len(ts) \in Nat
      /\ i \in 1 .. Len(ts) /\ j \in 1 .. Len(ts)
      /\ r \in i .. j /\ r < j
      /\ r \in Operators(ts)
  <2>1. r \in i .. j /\ r < j /\ IsOperator(ts, r)
    BY RootSplits
  <2>2. i \in 1 .. Len(ts) /\ j \in 1 .. Len(ts) /\ Len(ts) \in Nat
    BY PartIs DEF Expression
  <2>3. QED
    BY <2>1, <2>2 DEF Operators
<1>2. \A m \in a .. b : m \in i .. j /\ m # r
  BY <1>1
<1>3. \A t \in Operators(ts) : place[t] \in 1 .. Len(ops)
  BY DEF PlacedFrom
<1>4. ASSUME NEW s \in Operators(ts) \cap (a .. b) PROVE place[s] < place[r]
  <2>1. s \in Operators(ts) \cap (i .. j) /\ s # r
    BY <1>2
  <2>2. QED
    BY <2>1, RootPlacedLast
<1>5. ASSUME NEW t \in Operators(ts) \ (a .. b), NEW p \in a .. b,
             IsOperand(ts, p), Beside(ts, t, p)
      PROVE  t = r \/ (t # r /\ place[r] < place[t])
  <2>1. t = r \/ t \notin i .. j
    BY <1>5, OthersBeside
  <2>2. t \notin i .. j => place[r] < place[t]
    <3>1. p \in i .. j /\ r \in Operators(ts) \cap (i .. j)
      BY <1>1, <1>2
    <3>2. QED
      BY <1>5, <3>1 DEF Closed
  <2>3. QED
    BY <1>1, <2>1, <2>2
<1>6. Closed(ts, place, a, b)
  <2>1. ASSUME NEW t \in Operators(ts) \ (a .. b), NEW p \in a .. b,
               IsOperand(ts, p), Beside(ts, t, p), NEW s \in Operators(ts) \cap (a .. b)
        PROVE  place[s] < place[t]
    <3>1. place[s] < place[r]
      BY <1>4
    <3>2. t = r \/ place[r] < place[t]
      BY <1>5, <2>1
    <3>3. place[s] \in Nat /\ place[r] \in Nat /\ place[t] \in Nat
      BY <1>1, <1>3
    <3>4. QED
      BY <3>1, <3>2, <3>3
  <2>2. QED
    BY <2>1 DEF Closed
<1>7. ASSUME NEW t \in Operators(ts) \ (a .. b), NEW p \in a .. b,
             IsOperand(ts, p), Beside(ts, t, p)
      PROVE  place[r] <= place[t]
  <2>1. t = r \/ place[r] < place[t]
    BY <1>5, <1>7
  <2>2. place[r] \in Nat /\ place[t] \in Nat
    BY <1>1, <1>3
  <2>3. QED
    BY <2>1, <2>2
<1>8. QED
  BY <1>4, <1>6, <1>7

(* The value an operand of a part has when the operation at m, the first   *)
(* to use the part, is compiled.                                           *)
LEMMA LookedUp ==
  ASSUME NEW ts, Expression(ts), NEW names, NEW ops, NEW at, NEW place,
         PlacedFrom(ts, names, ops, at, place), Len(ops) \in Nat,
         NEW a, NEW b, Part(ts, a, b), Tight(ts, a, b),
         NEW m \in 1 .. Len(ops), NEW k \in 1 .. Len(at), at[k] \in a .. b,
         \A s \in Operators(ts) \cap (a .. b) : place[s] < m,
         \A t \in Operators(ts) \ (a .. b) : \A p \in a .. b :
           (IsOperand(ts, p) /\ Beside(ts, t, p)) => m <= place[t],
         a # b => Beside(ts, Root(ts, a, b), at[k])
  PROVE  IsLast(ops, k, m - 1, IF a = b THEN 0 ELSE place[Root(ts, a, b)])
<1>1. /\ Len(ts) \in Nat
      /\ a \in 1 .. Len(ts) /\ b \in 1 .. Len(ts)
      /\ IsOperand(ts, at[k])
      /\ IsOperand(ts, b)
      /\ \A t \in Operators(ts) : place[t] \in 1 .. Len(ops)
  BY PartIs DEF Expression, PlacedFrom, ReadsOperands
<1>2. m - 1 \in 0 .. Len(ops)
  OBVIOUS
<1>3. ASSUME NEW t \in Operators(ts) \ (a .. b), Beside(ts, t, at[k]) PROVE place[t] > m - 1
  <2>1. m <= place[t] /\ place[t] \in Nat
    BY <1>1, <1>3
  <2>2. QED
    BY <2>1
<1>4. CASE a = b
  <2>1. \A t \in Operators(ts) : t \notin a .. b
    BY <1>1, <1>4, TokenKinds DEF Operators
  <2>2. IsLast(ops, k, m - 1, 0)
    BY <1>2, <1>3, <2>1, LastBeside
  <2>3. QED
    BY <1>4, <2>2
<1>5. CASE a # b
  <2>1. PICK q : q = Root(ts, a, b)
    OBVIOUS
  <2>2. q \in a .. b /\ IsOperator(ts, q)
    BY <1>5, <2>1, RootSplits
  <2>3. q \in Operators(ts)
    BY <1>1, <2>2 DEF Operators
  <2>4. place[q] < m /\ place[q] \in 1 .. Len(ops) /\ place[q] <= m - 1
    BY <1>1, <2>2, <2>3
  <2>5. ASSUME NEW t \in Operators(ts), Beside(ts, t, at[k])
        PROVE  place[t] > m - 1 \/ place[t] <= place[q]
    <3>1. CASE t \notin a .. b
      BY <1>3, <2>5, <3>1
    <3>2. CASE t \in a .. b
      <4>1. t = q \/ place[t] < place[q]
        BY <1>5, <2>1, <3>2, RootPlacedLast
      <4>2. place[t] \in Nat /\ place[q] \in Nat
        BY <1>1, <2>3
      <4>3. QED
        BY <4>1, <4>2
    <3>3. QED
      BY <3>1, <3>2
  <2>6. IsLast(ops, k, m - 1, place[q])
    BY <1>2, <1>5, <2>1, <2>3, <2>4, <2>5, LastBeside
  <2>7. QED
    BY <1>5, <2>1, <2>6
<1>6. QED
  BY <1>4, <1>5

(* The operands of the operator at r: the one before it and the next one   *)
(* behind it.                                                              *)
LEMMA OperandsOf ==
  ASSUME NEW ts, Expression(ts), NEW names, NEW at, ReadsOperands(ts, Len(ts), names, at),
         NEW r \in Operators(ts), NEW o, Stands(ts, at, r, o)
  PROVE  /\ o.right \in 1 .. Len(at)
         /\ at[o.right] \in r + 1 .. Len(ts)
         /\ IsOperand(ts, at[o.right])
         /\ \A p \in r + 1 .. Len(ts) : IsOperand(ts, p) => at[o.right] <= p
         /\ InfixAt(ts, r) => o.left \in 1 .. Len(at) /\ at[o.left] = r - 1
<1>1. /\ o.right = o.left + 1
      /\ o.left \in 0 .. Len(at)
      /\ \A k \in 1 .. Len(at) : at[k] < r <=> k <= o.left
  BY DEF Stands
<1>2. /\ Len(at) \in Nat
      /\ \A k \in 1 .. Len(at) : at[k] \in 1 .. Len(ts) /\ IsOperand(ts, at[k])
      /\ \A k, l \in 1 .. Len(at) : k < l => at[k] < at[l]
      /\ \A m \in 1 .. Len(ts) : IsOperand(ts, m) => \E k \in 1 .. Len(at) : at[k] = m
  BY DEF ReadsOperands
<1>3. r \in 1 .. Len(ts) /\ IsOperator(ts, r) /\ Len(ts) \in Nat
  BY DEF Operators, Expression
<1>4. ASSUME NEW p \in r + 1 .. Len(ts), IsOperand(ts, p)
      PROVE  o.right \in 1 .. Len(at) /\ at[o.right] <= p
  <2>1. p \in 1 .. Len(ts) /\ ~(p < r)
    BY <1>3
  <2>2. PICK k \in 1 .. Len(at) : at[k] = p
    BY <1>2, <1>4, <2>1
  <2>3. ~(k <= o.left)
    BY <1>1, <2>1, <2>2
  <2>4. o.right \in 1 .. Len(at) /\ (o.right = k \/ o.right < k)
    BY <1>1, <1>2, <2>3
  <2>5. QED
    BY <1>2, <2>2, <2>4
<1>5. IsOperand(ts, Len(ts)) /\ Len(ts) \in r + 1 .. Len(ts)
  <2>1. IsOperand(ts, Len(ts))
    BY DEF Expression, Grammatical
  <2>2. r < Len(ts)
    BY <1>3, TokenKinds
  <2>3. QED
    BY <1>3, <2>1, <2>2
<1>6. o.right \in 1 .. Len(at)
  BY <1>4, <1>5
<1>7. at[o.right] \in r + 1 .. Len(ts)
  <2>1. ~(at[o.right] < r)
    <3>1. ~(o.right <= o.left)
      BY <1>1
    <3>2. QED
      BY <1>1, <1>6, <3>1
  <2>2. at[o.right] # r
    BY <1>2, <1>3, <1>6, TokenKinds
  <2>3. QED
    BY <1>2, <1>3, <1>6, <2>1, <2>2
<1>8. ASSUME InfixAt(ts, r) PROVE o.left \in 1 .. Len(at) /\ at[o.left] = r - 1
  <2>1. r - 1 \in 1 .. Len(ts) /\ IsOperand(ts, r - 1) /\ r - 1 < r
    BY <1>3, <1>8, TokenKinds
  <2>2. PICK k \in 1 .. Len(at) : at[k] = r - 1
    BY <1>2, <2>1
  <2>3. k <= o.left
    BY <1>1, <2>1, <2>2
  <2>4. o.left \in 1 .. Len(at) /\ at[o.left] < r
    BY <1>1, <1>2, <2>3
  <2>5. k = o.left
    <3>1. ~(k < o.left)
      <4>1. k < o.left => at[k] < at[o.left]
        BY <1>2, <2>4
      <4>2. QED
        BY <1>2, <1>3, <2>2, <2>4, <4>1
    <3>2. QED
      BY <1>1, <2>3, <3>1
  <2>6. QED
    BY <2>2, <2>4, <2>5
<1>9. QED
  BY <1>2, <1>4, <1>6, <1>7, <1>8

(* The root of the part on the right has its first operand beside it, the  *)
(* one on the left its last.                                               *)
LEMMA EdgeBeside ==
  ASSUME NEW ts, Expression(ts), NEW a, NEW b, Part(ts, a, b), a # b
  PROVE  /\ EndsAtIts(ts, a, b) => Beside(ts, Root(ts, a, b), b)
         /\ BeginsAtIts(ts, a, b) =>
              \A p \in a .. b :
                (IsOperand(ts, p) /\ \A m \in a .. b : IsOperand(ts, m) => p <= m) =>
                  Beside(ts, Root(ts, a, b), p)
<1>1. PICK q : q = Root(ts, a, b)
  OBVIOUS
<1>2. /\ q \in a .. b /\ q < b /\ IsOperator(ts, q) /\ (q # a => InfixAt(ts, q))
      /\ a \in 1 .. Len(ts) /\ b \in 1 .. Len(ts) /\ Len(ts) \in Nat
  <2>1. q \in a .. b /\ q < b /\ IsOperator(ts, q) /\ (q # a => InfixAt(ts, q))
    BY <1>1, RootSplits
  <2>2. a \in 1 .. Len(ts) /\ b \in 1 .. Len(ts) /\ Len(ts) \in Nat
    BY PartIs DEF Expression
  <2>3. QED
    BY <2>1, <2>2
<1>3. ASSUME EndsAtIts(ts, a, b) PROVE Beside(ts, q, b)
  <2>1. q + 1 = b
    BY <1>1, <1>3 DEF EndsAtIts
  <2>2. \A m \in q .. b - 1 : m = q
    BY <1>2, <2>1
  <2>3. QED
    BY <1>2, <2>2 DEF Beside
<1>4. ASSUME BeginsAtIts(ts, a, b), NEW p \in a .. b, IsOperand(ts, p),
             \A m \in a .. b : IsOperand(ts, m) => p <= m
      PROVE  Beside(ts, q, p)
  <2>1. q = a \/ q - 1 = a
    BY <1>1, <1>4 DEF BeginsAtIts
  <2>2. CASE q = a
    <3>1. p # q
      BY <1>2, <1>4, TokenKinds
    <3>2. q < p
      BY <1>2, <2>2, <3>1
    <3>3. ASSUME NEW m \in q .. p - 1 PROVE IsOperator(ts, m)
      <4>1. m \in a .. b /\ m \in 1 .. Len(ts) /\ ~(p <= m)
        BY <1>2, <2>2
      <4>2. QED
        BY <1>4, <4>1, TokenKinds
    <3>4. QED
      BY <3>2, <3>3 DEF Beside
  <2>3. CASE q - 1 = a
    <3>1. q # a /\ a \in a .. b
      BY <1>2, <2>3
    <3>2. InfixAt(ts, q) /\ IsOperand(ts, a)
      BY <1>2, <2>3, <3>1, TokenKinds
    <3>3. p <= a
      BY <1>4, <3>1, <3>2
    <3>4. q = p + 1
      BY <1>2, <2>3, <3>3
    <3>5. QED
      BY <3>2, <3>4 DEF Beside
  <2>4. QED
    BY <2>1, <2>2, <2>3
<1>5. QED
  BY <1>1, <1>3, <1>4

(* What the operation of a root finds in the lookup table for its          *)
(* operands: the roots of the parts beside it.                             *)
LEMMA ArgumentsLookedUp ==
  ASSUME NEW ts, Expression(ts), NEW names, NEW ops, NEW at, NEW place,
         PlacedFrom(ts, names, ops, at, place), Len(ops) \in Nat,
         NEW i, NEW j, Part(ts, i, j), i # j, Adjoins(ts, i, j), Closed(ts, place, i, j),
         NEW r, r = Root(ts, i, j), NEW o, o = ops[place[r]]
  PROVE  /\ o.right \in 1 .. Len(at)
         /\ r + 1 = j => at[o.right] = j
         /\ IsLast(ops, o.right, place[r] - 1,
                   IF r + 1 = j THEN 0 ELSE place[Root(ts, r + 1, j)])
         /\ r # i =>
              /\ o.left \in 1 .. Len(at)
              /\ at[o.left] = r - 1
              /\ IsLast(ops, o.left, place[r] - 1,
                        IF i = r - 1 THEN 0 ELSE place[Root(ts, i, r - 1)])
<1>1. /\ r \in i .. j /\ r < j /\ IsOperator(ts, r)
      /\ Part(ts, r + 1, j)
      /\ r # i => InfixAt(ts, r) /\ Part(ts, i, r - 1)
  BY RootSplits
<1>2. /\ i \in 1 .. Len(ts) /\ j \in 1 .. Len(ts) /\ Len(ts) \in Nat
      /\ IsOperand(ts, j)
  BY PartIs DEF Expression
<1>3. r \in Operators(ts)
  BY <1>1, <1>2 DEF Operators
<1>4. /\ ReadsOperands(ts, Len(ts), names, at)
      /\ place[r] \in 1 .. Len(ops)
      /\ Stands(ts, at, r, o)
  BY <1>3 DEF PlacedFrom
<1>5. /\ o.right \in 1 .. Len(at)
      /\ at[o.right] \in r + 1 .. Len(ts)
      /\ IsOperand(ts, at[o.right])
      /\ \A p \in r + 1 .. Len(ts) : IsOperand(ts, p) => at[o.right] <= p
      /\ InfixAt(ts, r) => o.left \in 1 .. Len(at) /\ at[o.left] = r - 1
  BY <1>3, <1>4, OperandsOf
<1>6. Tight(ts, i, j)
  BY AdjoinsTightly
<1>7. /\ Adjoins(ts, r + 1, j)
      /\ BeginsAtIts(ts, r + 1, j)
      /\ r # i => Adjoins(ts, i, r - 1) /\ EndsAtIts(ts, i, r - 1)
  BY AdjoinsMeans
<1>8. at[o.right] \in r + 1 .. j /\ (r + 1 = j => at[o.right] = j)
  <2>1. j \in r + 1 .. Len(ts)
    BY <1>1, <1>2
  <2>2. at[o.right] <= j
    BY <1>2, <1>5, <2>1
  <2>3. QED
    BY <1>1, <1>2, <1>5, <2>2
<1>9. IsLast(ops, o.right, place[r] - 1, IF r + 1 = j THEN 0 ELSE place[Root(ts, r + 1, j)])
  <2>1. PICK a : a = r + 1
    OBVIOUS
  <2>2. Part(ts, a, j) /\ Tight(ts, a, j)
    BY <1>1, <1>7, <2>1, AdjoinsTightly
  <2>3. /\ \A s \in Operators(ts) \cap (a .. j) : place[s] < place[r]
        /\ \A t \in Operators(ts) \ (a .. j) : \A p \in a .. j :
              (IsOperand(ts, p) /\ Beside(ts, t, p)) => place[r] <= place[t]
    BY <1>6, <2>1, ClosedBeside
  <2>4. a # j => Beside(ts, Root(ts, a, j), at[o.right])
    <3>1. \A m \in a .. j : IsOperand(ts, m) => at[o.right] <= m
      BY <1>2, <1>5, <2>1
    <3>2. QED
      BY <1>5, <1>7, <1>8, <2>1, <2>2, <3>1, EdgeBeside
  <2>5. QED
    BY <1>4, <1>5, <1>8, <2>1, <2>2, <2>3, <2>4, LookedUp
<1>10. ASSUME r # i
       PROVE  /\ o.left \in 1 .. Len(at)
              /\ at[o.left] = r - 1
              /\ IsLast(ops, o.left, place[r] - 1,
                        IF i = r - 1 THEN 0 ELSE place[Root(ts, i, r - 1)])
  <2>1. PICK b : b = r - 1
    OBVIOUS
  <2>2. Part(ts, i, b) /\ Tight(ts, i, b) /\ o.left \in 1 .. Len(at) /\ at[o.left] = b
    BY <1>1, <1>5, <1>7, <1>10, <2>1, AdjoinsTightly
  <2>3. /\ \A s \in Operators(ts) \cap (i .. b) : place[s] < place[r]
        /\ \A t \in Operators(ts) \ (i .. b) : \A p \in i .. b :
              (IsOperand(ts, p) /\ Beside(ts, t, p)) => place[r] <= place[t]
    <3>1. PICK a : a = i
      OBVIOUS
    <3>2. /\ \A s \in Operators(ts) \cap (a .. b) : place[s] < place[r]
          /\ \A t \in Operators(ts) \ (a .. b) : \A p \in a .. b :
                (IsOperand(ts, p) /\ Beside(ts, t, p)) => place[r] <= place[t]
      BY <1>6, <1>10, <2>1, <3>1, ClosedBeside
    <3>3. QED
      BY <3>1, <3>2
  <2>4. i # b => Beside(ts, Root(ts, i, b), at[o.left])
    BY <1>7, <1>10, <2>1, <2>2, EdgeBeside
  <2>5. at[o.left] \in i .. b
    BY <1>1, <1>2, <1>10, <2>1, <2>2
  <2>6. IsLast(ops, o.left, place[r] - 1, IF i = b THEN 0 ELSE place[Root(ts, i, b)])
    BY <1>4, <2>2, <2>3, <2>4, <2>5, LookedUp
  <2>7. QED
    BY <2>1, <2>2, <2>6
<1>11. QED
  BY <1>5, <1>8, <1>9, <1>10

-----------------------------------------------------------------------------
(* What the record holds                                                   *)

LastTouch(ops, k, m) == CHOOSE i : IsLast(ops, k, m, i)

(* The value of an operand once the first m operations are compiled. *)
Value(names, ops, rec, k, m) ==
  IF LastTouch(ops, k, m) = 0 THEN Leaf(names[k]) ELSE rec[LastTouch(ops, k, m)]

Arguments(names, ops, rec, m) ==
  IF ops[m].op \in Unary THEN <<Value(names, ops, rec, ops[m].right, m - 1)>>
  ELSE <<Value(names, ops, rec, ops[m].left, m - 1),
         Value(names, ops, rec, ops[m].right, m - 1)>>

(* The operation at m names a method of a container. *)
Method(names, ops, m) ==
  /\ ops[m].op = "getattr"
  /\ names[ops[m].left] \in Containers
  /\ IsLast(ops, ops[m].left, m - 1, 0)

(* A method and its call are kept as one value, every other operation as   *)
(* its own.                                                                *)
Kept(names, ops, rec, m) ==
  /\ rec[m].op \in DOMAIN Precedence
  /\ Method(names, ops, m) =>
       /\ m + 1 <= Len(rec)
       /\ ops[m + 1].op = "call"
       /\ rec[m + 1] = Node("call", <<Node(ops[m].op, Arguments(names, ops, rec, m)),
                                      Leaf(names[ops[m + 1].right])>>)
  /\ (~Method(names, ops, m) /\ ~(m > 1 /\ Method(names, ops, m - 1))) =>
       rec[m] = Node(ops[m].op, Arguments(names, ops, rec, m))

LEMMA OneLast ==
  ASSUME NEW ops, NEW k, NEW m \in Nat, NEW i, NEW l, IsLast(ops, k, m, i), IsLast(ops, k, m, l)
  PROVE  i = l
<1>1. /\ i \in 0 .. m /\ l \in 0 .. m
      /\ i # 0 => Touches(ops[i], k)
      /\ l # 0 => Touches(ops[l], k)
      /\ \A n \in i + 1 .. m : ~Touches(ops[n], k)
      /\ \A n \in l + 1 .. m : ~Touches(ops[n], k)
  BY DEF IsLast
<1>2. ~(i < l)
  <2>1. i < l => l \in i + 1 .. m /\ l # 0
    BY <1>1
  <2>2. QED
    BY <1>1, <2>1
<1>3. ~(l < i)
  <2>1. l < i => i \in l + 1 .. m /\ i # 0
    BY <1>1
  <2>2. QED
    BY <1>1, <2>1
<1>4. QED
  BY <1>1, <1>2, <1>3

LEMMA LastTouchIs ==
  ASSUME NEW ops, NEW k, NEW m \in Nat, NEW i, IsLast(ops, k, m, i)
  PROVE  LastTouch(ops, k, m) = i
<1>1. IsLast(ops, k, m, LastTouch(ops, k, m))
  BY DEF LastTouch
<1>2. QED
  BY <1>1, OneLast

-----------------------------------------------------------------------------
(* What a complete record holds for the parts of an expression             *)

(* The expression ts, with its operations ops and the record of them. *)
Compiled(ts, names, ops, at, place, rec) ==
  /\ Expression(ts)
  /\ MethodsCalled(ts)
  /\ PlacedFrom(ts, names, ops, at, place)
  /\ Len(ops) \in Nat
  /\ Len(rec) = Len(ops)
  /\ \A m \in 1 .. Len(ops) : Kept(names, ops, rec, m)

(* A part that names a method, which is compiled with the call behind it.  *)
Pending(ts, i, j) ==
  /\ i # j
  /\ Root(ts, i, j) = i + 1
  /\ OperatorAt(ts, i + 1) = "getattr"
  /\ ts[i].name \in Containers

Computes(ts, place, rec, i, j) ==
  i = j \/ Pending(ts, i, j) \/ rec[place[Root(ts, i, j)]] = Trees(ts)[<<i, j>>]

(* A part in which operations adjoin their operands, and that is complete  *)
(* before it is used.                                                      *)
Separate(ts, place, i, j) ==
  /\ Part(ts, i, j)
  /\ Adjoins(ts, i, j)
  /\ Closed(ts, place, i, j)

(* The parts beside the root of such a part are such parts.                *)
LEMMA SeparateBeside ==
  ASSUME NEW ts, NEW names, NEW ops, NEW at, NEW place, NEW rec,
         Compiled(ts, names, ops, at, place, rec),
         NEW i, NEW j, i # j, Separate(ts, place, i, j), NEW r, r = Root(ts, i, j)
  PROVE  /\ Separate(ts, place, r + 1, j)
         /\ r # i => Separate(ts, place, i, r - 1)
         /\ r \in Operators(ts) /\ r \in 1 .. Len(ts) /\ IsOperator(ts, r)
         /\ place[r] \in 1 .. Len(ops) /\ Len(ops) \in Nat
         /\ ops[place[r]].op = OperatorAt(ts, r)
         /\ i \in 1 .. Len(ts) /\ j \in 1 .. Len(ts) /\ Len(ts) \in Nat
         /\ r \in i .. j /\ r < j
         /\ OperatorAt(ts, r) \in Unary <=> r = i
         /\ r # i => InfixAt(ts, r) /\ IsOperand(ts, r - 1)
<1>1. /\ Expression(ts)
      /\ PlacedFrom(ts, names, ops, at, place)
      /\ Len(ops) \in Nat
      /\ Part(ts, i, j) /\ Adjoins(ts, i, j) /\ Closed(ts, place, i, j)
  BY DEF Compiled, Separate
<1>2. /\ r \in i .. j /\ r < j /\ IsOperator(ts, r)
      /\ Part(ts, r + 1, j)
      /\ r # i => InfixAt(ts, r) /\ Part(ts, i, r - 1)
      /\ OperatorAt(ts, r) \in Unary <=> r = i
  BY <1>1, RootSplits
<1>3. i \in 1 .. Len(ts) /\ j \in 1 .. Len(ts) /\ Len(ts) \in Nat
  BY <1>1, PartIs DEF Expression
<1>4. r \in Operators(ts) /\ r \in 1 .. Len(ts)
  BY <1>2, <1>3 DEF Operators
<1>5. place[r] \in 1 .. Len(ops) /\ ops[place[r]].op = OperatorAt(ts, r)
  BY <1>1, <1>4 DEF PlacedFrom, Stands
<1>6. Tight(ts, i, j)
  BY <1>1, AdjoinsTightly
<1>7. Closed(ts, place, r + 1, j)
  <2>1. PICK a : a = r + 1
    OBVIOUS
  <2>2. Closed(ts, place, a, j)
    BY <1>1, <1>6, <2>1, ClosedBeside
  <2>3. QED
    BY <2>1, <2>2
<1>8. r # i => Closed(ts, place, i, r - 1)
  <2>1. PICK a, b : a = i /\ b = r - 1
    OBVIOUS
  <2>2. r # i => Closed(ts, place, a, b)
    BY <1>1, <1>6, <2>1, ClosedBeside
  <2>3. QED
    BY <2>1, <2>2
<1>9. Adjoins(ts, r + 1, j) /\ (r # i => Adjoins(ts, i, r - 1))
  BY <1>1, AdjoinsMeans
<1>10. r # i => IsOperand(ts, r - 1)
  BY <1>1, <1>2, <1>4, TokenKinds
<1>11. QED
  BY <1>1, <1>2, <1>3, <1>4, <1>5, <1>7, <1>8, <1>9, <1>10 DEF Separate

(* The operations that name a method are the roots of pending parts. *)
LEMMA RootMethod ==
  ASSUME NEW ts, NEW names, NEW ops, NEW at, NEW place, NEW rec,
         Compiled(ts, names, ops, at, place, rec),
         NEW i, NEW j, i # j, Separate(ts, place, i, j), NEW r, r = Root(ts, i, j)
  PROVE  Method(names, ops, place[r]) <=> Pending(ts, i, j)
<1>1. PICK o : o = ops[place[r]]
  OBVIOUS
<1>2. /\ r \in Operators(ts) /\ r \in 1 .. Len(ts) /\ IsOperator(ts, r)
      /\ place[r] \in 1 .. Len(ops) /\ Len(ops) \in Nat
      /\ o.op = OperatorAt(ts, r)
      /\ i \in 1 .. Len(ts) /\ Len(ts) \in Nat
      /\ r # i => Separate(ts, place, i, r - 1)
      /\ OperatorAt(ts, r) \in Unary <=> r = i
  BY <1>1, SeparateBeside
<1>3. /\ Expression(ts)
      /\ PlacedFrom(ts, names, ops, at, place)
      /\ Part(ts, i, j) /\ Adjoins(ts, i, j) /\ Closed(ts, place, i, j)
      /\ ReadsOperands(ts, Len(ts), names, at)
  BY DEF Compiled, Separate, PlacedFrom
<1>4. r # i =>
        /\ o.left \in 1 .. Len(at)
        /\ at[o.left] = r - 1
        /\ IsLast(ops, o.left, place[r] - 1, IF i = r - 1 THEN 0 ELSE place[Root(ts, i, r - 1)])
  BY <1>1, <1>2, <1>3, ArgumentsLookedUp
<1>5. r # i => names[o.left] = ts[r - 1].name
  BY <1>3, <1>4 DEF ReadsOperands
<1>6. OperatorAt(ts, r) = "getattr" => r # i
  BY <1>2 DEF Unary
<1>7. place[r] - 1 \in Nat
  BY <1>2
<1>8. ASSUME Method(names, ops, place[r]) PROVE Pending(ts, i, j)
  <2>1. OperatorAt(ts, r) = "getattr" /\ names[o.left] \in Containers
        /\ IsLast(ops, o.left, place[r] - 1, 0)
    BY <1>1, <1>2, <1>8 DEF Method
  <2>2. i = r - 1
    <3>1. SUFFICES ASSUME i # r - 1 PROVE FALSE
      OBVIOUS
    <3>2. IsLast(ops, o.left, place[r] - 1, place[Root(ts, i, r - 1)])
      BY <1>4, <1>6, <2>1, <3>1
    <3>3. place[Root(ts, i, r - 1)] = 0
      BY <1>7, <2>1, <3>2, OneLast
    <3>4. PICK b : b = r - 1
      OBVIOUS
    <3>5. place[Root(ts, i, b)] \in 1 .. Len(ops)
      BY <1>2, <1>6, <2>1, <3>1, <3>4, SeparateBeside
    <3>6. QED
      BY <3>3, <3>4, <3>5
  <2>3. r = i + 1
    BY <1>2, <2>2
  <2>4. QED
    BY <1>5, <1>6, <2>1, <2>2, <2>3 DEF Pending
<1>9. ASSUME Pending(ts, i, j) PROVE Method(names, ops, place[r])
  <2>1. r = i + 1 /\ OperatorAt(ts, r) = "getattr" /\ ts[i].name \in Containers
    BY <1>9 DEF Pending
  <2>2. i = r - 1
    BY <1>2, <2>1
  <2>3. IsLast(ops, o.left, place[r] - 1, 0)
    BY <1>4, <1>6, <2>1, <2>2
  <2>4. names[o.left] \in Containers
    BY <1>5, <1>6, <2>1, <2>2
  <2>5. QED
    BY <1>1, <1>2, <2>1, <2>3, <2>4 DEF Method
<1>10. QED
  BY <1>8, <1>9

(* The call of a method stands behind the name of the method.              *)
LEMMA MethodCalled ==
  ASSUME NEW ts, Expression(ts), MethodsCalled(ts), NEW q \in 1 .. Len(ts), IsOperator(ts, q),
         OperatorAt(ts, q) = "getattr", ts[q - 1].name \in Containers
  PROVE  /\ InfixAt(ts, q)
         /\ q + 2 \in 1 .. Len(ts)
         /\ InfixAt(ts, q + 2)
         /\ ts[q + 2].name = "call"
         /\ OperatorAt(ts, q + 2) = "call"
         /\ Binding(ts, q) = 16 /\ Binding(ts, q + 2) = 16
         /\ IsOperand(ts, q + 1)
<1>1. Len(ts) \in Nat /\ q \in Nat
  BY DEF Expression
<1>2. InfixAt(ts, q)
  BY TokenKinds DEF Unary
<1>3. ts[q].name = "getattr" /\ q \in 2 .. Len(ts)
  <2>1. ~PrefixAt(ts, q) /\ q - 1 \in 1 .. Len(ts)
    BY <1>2, TokenKinds
  <2>2. QED
    BY <1>1, <2>1 DEF OperatorAt
<1>4. q + 2 <= Len(ts) /\ IsOperator(ts, q + 2) /\ ts[q + 2].name = "call"
  BY <1>2, <1>3 DEF MethodsCalled
<1>5. PICK t : t = q + 2
  OBVIOUS
<1>6. t \in 1 .. Len(ts) /\ IsOperator(ts, t) /\ ts[t].name = "call" /\ t - 1 = q + 1
  BY <1>1, <1>4, <1>5
<1>7. OperatorAt(ts, t) = "call"
  BY <1>6 DEF OperatorAt, PrefixOf
<1>8. InfixAt(ts, t)
  BY <1>6, <1>7, TokenKinds DEF Unary
<1>9. IsOperand(ts, q + 1)
  BY <1>6, <1>8, TokenKinds
<1>10. Binding(ts, q) = 16 /\ Binding(ts, t) = 16
  BY <1>7, OperatorFacts DEF Binding
<1>11. QED
  BY <1>2, <1>5, <1>6, <1>7, <1>8, <1>9, <1>10

(* Calls, subscripts and attributes are compiled in the order of the       *)
(* source.                                                                 *)
LEMMA TightestInOrder ==
  ASSUME NEW ts, NEW names, NEW ops, NEW at, NEW place, PlacedFrom(ts, names, ops, at, place),
         NEW s \in Operators(ts), NEW t \in Operators(ts),
         Binding(ts, s) = 16, Binding(ts, t) = 16, s < t
  PROVE  place[s] < place[t]
<1>1. Sooner(ts, s, t)
  BY DEF Sooner
<1>2. QED
  BY <1>1 DEF PlacedFrom

(* A root is applied after the other candidates. *)
LEMMA NotTightest ==
  ASSUME NEW ts, Expression(ts), NEW i, NEW j, Part(ts, i, j), i # j,
         NEW r, r = Root(ts, i, j),
         NEW t \in i .. j, InfixAt(ts, t), Binding(ts, t) = 16, r < t
  PROVE  Binding(ts, r) \in 0 .. 15
<1>1. AppliedAfter(ts, r, t) /\ r \in i .. j /\ IsOperator(ts, r)
  <2>1. r \in i .. j /\ IsOperator(ts, r)
    BY RootSplits
  <2>2. i \in 1 .. Len(ts) /\ j \in 1 .. Len(ts) /\ Len(ts) \in Nat
    BY PartIs DEF Expression
  <2>3. t \in Candidates(ts, i, j) \ {r}
    BY <2>1, <2>2 DEF Candidates
  <2>4. QED
    BY <2>1, <2>3, RootIs
<1>2. i \in 1 .. Len(ts) /\ j \in 1 .. Len(ts) /\ Len(ts) \in Nat
  BY PartIs DEF Expression
<1>3. r \in 1 .. Len(ts) /\ t \in 1 .. Len(ts)
  BY <1>1, <1>2
<1>4. Binding(ts, r) \in 0 .. 16 /\ OperatorAt(ts, r) \in DOMAIN Precedence
  BY <1>1, <1>3, TokenKinds
<1>5. OperatorAt(ts, r) = "pow" => Binding(ts, r) = 14
  BY <1>4, OperatorFacts DEF Binding
<1>6. QED
  BY <1>1, <1>3, <1>4, <1>5 DEF AppliedAfter

(* A method is not the right operand of an operation: its call binds       *)
(* tighter and would need the method before the operation is compiled.     *)
LEMMA RightNotPending ==
  ASSUME NEW ts, NEW names, NEW ops, NEW at, NEW place, NEW rec,
         Compiled(ts, names, ops, at, place, rec),
         NEW i, NEW j, i # j, Separate(ts, place, i, j), NEW r, r = Root(ts, i, j)
  PROVE  ~Pending(ts, r + 1, j)
<1>1. SUFFICES ASSUME Pending(ts, r + 1, j) PROVE FALSE
  OBVIOUS
<1>2. /\ Expression(ts) /\ MethodsCalled(ts)
      /\ PlacedFrom(ts, names, ops, at, place)
      /\ Closed(ts, place, i, j) /\ Part(ts, i, j)
  BY DEF Compiled, Separate
<1>3. /\ r \in Operators(ts) /\ r \in 1 .. Len(ts)
      /\ place[r] \in 1 .. Len(ops) /\ Len(ops) \in Nat
      /\ i \in 1 .. Len(ts) /\ j \in 1 .. Len(ts) /\ Len(ts) \in Nat
      /\ r \in i .. j /\ r < j
      /\ Separate(ts, place, r + 1, j)
  BY SeparateBeside
<1>4. PICK a, q, t : a = r + 1 /\ q = a + 1 /\ t = q + 2
  OBVIOUS
<1>5. /\ a # j
      /\ Root(ts, a, j) = q
      /\ OperatorAt(ts, q) = "getattr"
      /\ ts[q - 1].name \in Containers
      /\ Separate(ts, place, a, j) /\ Part(ts, a, j)
  BY <1>1, <1>3, <1>4 DEF Pending, Separate
<1>6. q \in a .. j /\ q < j /\ q \in 1 .. Len(ts) /\ IsOperator(ts, q)
  BY <1>5, SeparateBeside
<1>7. /\ InfixAt(ts, q)
      /\ t \in 1 .. Len(ts)
      /\ InfixAt(ts, t)
      /\ Binding(ts, q) = 16 /\ Binding(ts, t) = 16
      /\ IsOperand(ts, t - 1)
  <2>1. t - 1 = q + 1
    BY <1>3, <1>4
  <2>2. QED
    BY <1>2, <1>4, <1>5, <1>6, <2>1, MethodCalled
<1>8. t \notin a .. j
  <2>1. SUFFICES ASSUME t \in a .. j PROVE FALSE
    OBVIOUS
  <2>2. q < t
    BY <1>4, <1>6
  <2>3. Binding(ts, q) \in 0 .. 15
    BY <1>2, <1>5, <1>7, <2>1, <2>2, NotTightest
  <2>4. QED
    BY <1>7, <2>3
<1>9. t = j + 1
  BY <1>3, <1>4, <1>6, <1>8
<1>10. t \in Operators(ts) /\ place[t] \in 1 .. Len(ops)
  <2>1. t \in Operators(ts)
    BY <1>7 DEF Operators, InfixAt
  <2>2. QED
    BY <1>2, <2>1 DEF PlacedFrom
<1>11. place[r] < place[t]
  <2>1. Beside(ts, t, j) /\ t \notin i .. j /\ j \in i .. j /\ IsOperand(ts, j)
    <3>1. t - 1 = j
      BY <1>3, <1>9
    <3>2. QED
      BY <1>3, <1>7, <1>9, <3>1 DEF Beside
  <2>2. r \in Operators(ts) \cap (i .. j)
    BY <1>3
  <2>3. QED
    BY <1>2, <1>10, <2>1, <2>2 DEF Closed
<1>12. place[t] < place[r]
  <2>1. Binding(ts, r) \in 0 .. 15
    <3>1. q \in i .. j /\ r < q
      BY <1>3, <1>4, <1>6
    <3>2. i # j
      OBVIOUS
    <3>3. QED
      BY <1>2, <1>7, <3>1, <3>2, NotTightest
  <2>2. Sooner(ts, t, r)
    BY <1>7, <2>1 DEF Sooner
  <2>3. QED
    BY <1>2, <1>3, <1>10, <2>2 DEF PlacedFrom
<1>13. QED
  BY <1>3, <1>10, <1>11, <1>12

(* A method on the left of an operation is called by it, with one operand. *)
LEMMA CallsMethod ==
  ASSUME NEW ts, NEW names, NEW ops, NEW at, NEW place, NEW rec,
         Compiled(ts, names, ops, at, place, rec),
         NEW i, NEW j, i # j, Separate(ts, place, i, j), NEW r, r = Root(ts, i, j),
         r # i, Pending(ts, i, r - 1), NEW q, q = i + 1
  PROVE  /\ q = Root(ts, i, r - 1)
         /\ q + 1 = r - 1
         /\ OperatorAt(ts, r) = "call"
         /\ j = r + 1
         /\ Method(names, ops, place[q])
         /\ place[r] = place[q] + 1
<1>1. /\ Expression(ts) /\ MethodsCalled(ts)
      /\ PlacedFrom(ts, names, ops, at, place)
      /\ Part(ts, i, j) /\ Adjoins(ts, i, j)
      /\ Len(rec) = Len(ops)
      /\ \A m \in 1 .. Len(ops) : Kept(names, ops, rec, m)
  BY DEF Compiled, Separate
<1>2. /\ r \in Operators(ts) /\ r \in 1 .. Len(ts) /\ IsOperator(ts, r)
      /\ place[r] \in 1 .. Len(ops) /\ Len(ops) \in Nat
      /\ i \in 1 .. Len(ts) /\ j \in 1 .. Len(ts) /\ Len(ts) \in Nat
      /\ r \in i .. j /\ r < j
      /\ Separate(ts, place, i, r - 1)
      /\ IsOperand(ts, r - 1)
  BY SeparateBeside
<1>3. PICK b : b = r - 1
  OBVIOUS
<1>4. /\ i # b /\ Root(ts, i, b) = q
      /\ OperatorAt(ts, q) = "getattr"
      /\ ts[i].name \in Containers
      /\ Separate(ts, place, i, b)
      /\ i = q - 1
  BY <1>2, <1>3 DEF Pending
<1>5. q \in Operators(ts) /\ q \in 1 .. Len(ts) /\ IsOperator(ts, q) /\ place[q] \in 1 .. Len(ops)
  BY <1>4, SeparateBeside
<1>6. Method(names, ops, place[q])
  BY <1>3, <1>4, RootMethod
<1>7. q + 1 = b
  <2>1. EndsAtIts(ts, i, b)
    BY <1>1, <1>3, AdjoinsMeans
  <2>2. QED
    BY <1>4, <2>1 DEF EndsAtIts
<1>8. r = q + 2
  BY <1>2, <1>3, <1>7
<1>9. /\ OperatorAt(ts, r) = "call" /\ ts[r].name = "call"
      /\ Binding(ts, q) = 16 /\ Binding(ts, r) = 16
  BY <1>1, <1>4, <1>5, <1>8, MethodCalled
<1>10. r + 1 <= Len(ts) /\ IsOperand(ts, r + 1)
  BY <1>1, <1>2, <1>9 DEF Expression
<1>11. j = r + 1
  <2>1. SUFFICES ASSUME r + 1 # j PROVE FALSE
    OBVIOUS
  <2>2. PICK a, u : a = r + 1 /\ u = Root(ts, a, j)
    OBVIOUS
  <2>3. Separate(ts, place, a, j) /\ BeginsAtIts(ts, a, j)
    BY <1>1, <2>2, AdjoinsMeans, SeparateBeside
  <2>4. u = a \/ u - 1 = a
    BY <2>1, <2>2, <2>3 DEF BeginsAtIts
  <2>5. u \in a .. j /\ u \in 1 .. Len(ts) /\ IsOperator(ts, u) /\ (u # a => InfixAt(ts, u))
    BY <2>1, <2>2, <2>3, SeparateBeside
  <2>6. u # a
    BY <1>10, <2>2, <2>5, TokenKinds, <1>1
  <2>7. u = r + 2 /\ InfixAt(ts, u) /\ u \in i .. j /\ r < u
    BY <1>2, <2>2, <2>4, <2>5, <2>6
  <2>8. AppliedAfter(ts, r, u)
    <3>1. u \in Candidates(ts, i, j) \ {r}
      BY <1>2, <2>7 DEF Candidates
    <3>2. i # j
      OBVIOUS
    <3>3. QED
      BY <1>1, <3>1, <3>2, RootIs
  <2>9. Binding(ts, u) \in 0 .. 16
    BY <1>1, <2>5, TokenKinds
  <2>10. ~(Binding(ts, r) < Binding(ts, u)) /\ ~(r > u)
    <3>1. ~(Binding(ts, r) < Binding(ts, u))
      <4>1. \A x \in 0 .. 16 : ~(16 < x)
        OBVIOUS
      <4>2. QED
        BY <1>9, <2>9, <4>1
    <3>2. ~(r > u)
      BY <1>2, <2>5, <2>7
    <3>3. QED
      BY <3>1, <3>2
  <2>11. Binding(ts, r) = Binding(ts, u) /\ (IF OperatorAt(ts, r) = "pow" THEN r < u ELSE r > u)
    BY <2>8, <2>10 DEF AppliedAfter
  <2>12. QED
    BY <1>9, <2>10, <2>11
<1>12. place[q] + 1 \in 1 .. Len(ops) /\ ops[place[q] + 1].op = "call"
  <2>1. Kept(names, ops, rec, place[q])
    BY <1>1, <1>5
  <2>2. place[q] + 1 <= Len(rec) /\ ops[place[q] + 1].op = "call"
    BY <1>6, <2>1 DEF Kept
  <2>3. QED
    BY <1>1, <1>2, <1>5, <2>2
<1>13. PICK t \in Operators(ts) : place[t] = place[q] + 1
  BY <1>1, <1>12 DEF PlacedFrom
<1>14. OperatorAt(ts, t) = "call" /\ Binding(ts, t) = 16 /\ t \in 1 .. Len(ts) /\ IsOperator(ts, t)
  <2>1. OperatorAt(ts, t) = "call"
    BY <1>1, <1>12, <1>13 DEF PlacedFrom, Stands
  <2>2. QED
    BY <2>1, OperatorFacts DEF Binding, Operators
<1>15. t = r
  <2>1. t # q
    BY <1>5, <1>13
  <2>2. ~(t < q)
    <3>1. t < q => place[t] < place[q]
      BY <1>1, <1>5, <1>9, <1>14, TightestInOrder
    <3>2. QED
      BY <1>5, <1>13, <3>1
  <2>3. place[q] < place[r]
    BY <1>1, <1>2, <1>5, <1>8, <1>9, TightestInOrder
  <2>4. ~(r < t)
    <3>1. r < t => place[r] < place[t]
      BY <1>1, <1>2, <1>9, <1>14, TightestInOrder
    <3>2. QED
      BY <1>2, <1>5, <1>13, <2>3, <3>1
  <2>5. t # q + 1
    <3>1. q + 1 = r - 1
      BY <1>3, <1>7
    <3>2. QED
      BY <1>1, <1>2, <1>14, <3>1, TokenKinds
  <2>6. QED
    BY <1>2, <1>5, <1>8, <1>14, <2>1, <2>2, <2>4, <2>5
<1>16. QED
  BY <1>3, <1>4, <1>6, <1>7, <1>9, <1>11, <1>13, <1>15

(* The operation compiled with a method calls it. *)
LEMMA AfterMethod ==
  ASSUME NEW ts, NEW names, NEW ops, NEW at, NEW place, NEW rec,
         Compiled(ts, names, ops, at, place, rec),
         NEW i, NEW j, i # j, Separate(ts, place, i, j), NEW r, r = Root(ts, i, j),
         place[r] > 1, Method(names, ops, place[r] - 1)
  PROVE  r # i /\ Pending(ts, i, r - 1)
<1>1. /\ Expression(ts) /\ MethodsCalled(ts)
      /\ PlacedFrom(ts, names, ops, at, place)
      /\ ReadsOperands(ts, Len(ts), names, at)
      /\ Part(ts, i, j) /\ Adjoins(ts, i, j) /\ Closed(ts, place, i, j)
      /\ \A m \in 1 .. Len(ops) : Kept(names, ops, rec, m)
      /\ \A t \in Operators(ts) : place[t] \in 1 .. Len(ops)
  BY DEF Compiled, Separate, PlacedFrom
<1>2. /\ r \in Operators(ts) /\ r \in 1 .. Len(ts) /\ IsOperator(ts, r)
      /\ place[r] \in 1 .. Len(ops) /\ Len(ops) \in Nat
      /\ ops[place[r]].op = OperatorAt(ts, r)
      /\ i \in 1 .. Len(ts) /\ j \in 1 .. Len(ts) /\ Len(ts) \in Nat
      /\ r \in i .. j /\ r < j
      /\ r # i => Separate(ts, place, i, r - 1)
      /\ OperatorAt(ts, r) \in Unary <=> r = i
  BY SeparateBeside
<1>3. place[r] - 1 \in 1 .. Len(ops) /\ (place[r] - 1) + 1 = place[r]
  BY <1>2
<1>4. OperatorAt(ts, r) = "call" /\ r # i /\ Binding(ts, r) = 16
  <2>1. ops[(place[r] - 1) + 1].op = "call"
    BY <1>1, <1>3 DEF Kept
  <2>2. OperatorAt(ts, r) = "call"
    BY <1>2, <1>3, <2>1
  <2>3. QED
    BY <1>2, <2>2, OperatorFacts DEF Binding
<1>5. PICK s \in Operators(ts) : place[s] = place[r] - 1
  BY <1>1, <1>3 DEF PlacedFrom
<1>6. PICK o : o = ops[place[s]]
  OBVIOUS
<1>7. Stands(ts, at, s, o) /\ o.op = OperatorAt(ts, s) /\ s \in 1 .. Len(ts) /\ IsOperator(ts, s)
  BY <1>1, <1>6 DEF PlacedFrom, Stands, Operators
<1>8. /\ OperatorAt(ts, s) = "getattr"
      /\ names[o.left] \in Containers
  BY <1>5, <1>6, <1>7 DEF Method
<1>9. InfixAt(ts, s)
  BY <1>1, <1>7, <1>8, TokenKinds DEF Unary
<1>10. o.left \in 1 .. Len(at) /\ at[o.left] = s - 1
  BY <1>1, <1>7, <1>9, OperandsOf
<1>11. ts[s - 1].name \in Containers
  BY <1>1, <1>8, <1>10 DEF ReadsOperands
<1>12. PICK t : t = s + 2
  OBVIOUS
<1>13. /\ t \in 1 .. Len(ts)
       /\ InfixAt(ts, t)
       /\ Binding(ts, s) = 16 /\ Binding(ts, t) = 16
       /\ IsOperand(ts, s + 1)
  BY <1>1, <1>7, <1>8, <1>11, <1>12, MethodCalled
<1>14. t \in Operators(ts) /\ place[t] \in 1 .. Len(ops) /\ place[s] \in 1 .. Len(ops)
  BY <1>1, <1>13 DEF Operators, InfixAt
<1>15. t = r
  <2>1. ~(t < r)
    <3>1. place[s] < place[t]
      BY <1>1, <1>7, <1>12, <1>13, <1>14, TightestInOrder
    <3>2. t < r => place[t] < place[r]
      BY <1>1, <1>2, <1>4, <1>13, <1>14, TightestInOrder
    <3>3. QED
      BY <1>2, <1>5, <1>14, <3>1, <3>2
  <2>2. ~(r < s)
    <3>1. r < s => place[r] < place[s]
      BY <1>1, <1>2, <1>4, <1>13, TightestInOrder
    <3>2. QED
      BY <1>2, <1>5, <3>1
  <2>3. r # s
    BY <1>2, <1>5
  <2>4. r # s + 1
    BY <1>1, <1>2, <1>13, TokenKinds
  <2>5. QED
    BY <1>2, <1>7, <1>12, <1>13, <2>1, <2>2, <2>3, <2>4
<1>16. PICK b : b = r - 1
  OBVIOUS
<1>17. b = s + 1
  BY <1>7, <1>12, <1>15, <1>16
<1>18. i # b
  <2>1. SUFFICES ASSUME i = b PROVE FALSE
    OBVIOUS
  <2>2. s \notin i .. j /\ i \in i .. j /\ s < i /\ \A m \in s .. i - 1 : m = s
    BY <1>2, <1>7, <1>17, <2>1
  <2>3. Beside(ts, s, i) /\ IsOperand(ts, i)
    BY <1>7, <1>13, <1>17, <2>1, <2>2 DEF Beside
  <2>4. place[r] < place[s]
    BY <1>1, <1>2, <2>2, <2>3 DEF Closed
  <2>5. QED
    BY <1>2, <1>5, <2>4
<1>19. Root(ts, i, b) = s
  <2>1. EndsAtIts(ts, i, b)
    BY <1>1, <1>4, <1>16, AdjoinsMeans
  <2>2. Root(ts, i, b) + 1 = b
    BY <1>18, <2>1 DEF EndsAtIts
  <2>3. Root(ts, i, b) \in 1 .. Len(ts)
    BY <1>2, <1>4, <1>16, <1>18, SeparateBeside
  <2>4. QED
    BY <1>7, <1>17, <2>2, <2>3
<1>20. Pending(ts, i, b)
  BY <1>2, <1>4, <1>5, <1>16, <1>18, <1>19, RootMethod
<1>21. QED
  BY <1>4, <1>16, <1>20

(* The value an operand is looked up with is the tree of the part it       *)
(* stands for.                                                             *)
LEMMA ValueOfPart ==
  ASSUME NEW ts, NEW names, NEW ops, NEW at, NEW place, NEW rec,
         Compiled(ts, names, ops, at, place, rec),
         NEW a, NEW b, Separate(ts, place, a, b), Computes(ts, place, rec, a, b),
         ~Pending(ts, a, b),
         NEW k \in 1 .. Len(at), a = b => at[k] = b, NEW m \in Nat,
         IsLast(ops, k, m, IF a = b THEN 0 ELSE place[Root(ts, a, b)])
  PROVE  Value(names, ops, rec, k, m) = Trees(ts)[<<a, b>>]
<1>1. /\ Expression(ts) /\ Part(ts, a, b)
      /\ names[k] = ts[at[k]].name
  BY DEF Compiled, Separate, PlacedFrom, ReadsOperands
<1>2. CASE a = b
  <2>1. LastTouch(ops, k, m) = 0
    BY <1>2, LastTouchIs
  <2>2. Trees(ts)[<<a, b>>] = Leaf(ts[a].name)
    BY <1>1, <1>2, TreeShape
  <2>3. QED
    BY <1>1, <1>2, <2>1, <2>2 DEF Value
<1>3. CASE a # b
  <2>1. LastTouch(ops, k, m) = place[Root(ts, a, b)]
    BY <1>3, LastTouchIs
  <2>2. PICK q : q = Root(ts, a, b)
    OBVIOUS
  <2>3. place[q] \in 1 .. Len(ops) /\ Len(ops) \in Nat
    BY <1>3, <2>2, SeparateBeside
  <2>4. rec[place[q]] = Trees(ts)[<<a, b>>]
    BY <1>3, <2>2 DEF Computes
  <2>5. QED
    BY <2>1, <2>2, <2>3, <2>4 DEF Value
<1>4. QED
  BY <1>2, <1>3

(* An operation on the values of the parts beside it computes its part.    *)
LEMMA ArgumentsOf ==
  ASSUME NEW ts, NEW names, NEW ops, NEW at, NEW place, NEW rec,
         Compiled(ts, names, ops, at, place, rec),
         NEW i, NEW j, i # j, Separate(ts, place, i, j), NEW r, r = Root(ts, i, j),
         Computes(ts, place, rec, r + 1, j),
         r # i => Computes(ts, place, rec, i, r - 1) /\ ~Pending(ts, i, r - 1)
  PROVE  Node(ops[place[r]].op, Arguments(names, ops, rec, place[r])) = Trees(ts)[<<i, j>>]
<1>1. PICK o, m : o = ops[place[r]] /\ m = place[r] - 1
  OBVIOUS
<1>2. /\ Expression(ts)
      /\ PlacedFrom(ts, names, ops, at, place)
      /\ Part(ts, i, j) /\ Adjoins(ts, i, j) /\ Closed(ts, place, i, j)
  BY DEF Compiled, Separate
<1>3. /\ Separate(ts, place, r + 1, j)
      /\ r # i => Separate(ts, place, i, r - 1)
      /\ place[r] \in 1 .. Len(ops) /\ Len(ops) \in Nat
      /\ o.op = OperatorAt(ts, r)
      /\ OperatorAt(ts, r) \in Unary <=> r = i
  BY <1>1, SeparateBeside
<1>4. m \in Nat
  BY <1>1, <1>3
<1>5. /\ o.right \in 1 .. Len(at)
      /\ r + 1 = j => at[o.right] = j
      /\ IsLast(ops, o.right, m, IF r + 1 = j THEN 0 ELSE place[Root(ts, r + 1, j)])
      /\ r # i =>
           /\ o.left \in 1 .. Len(at)
           /\ at[o.left] = r - 1
           /\ IsLast(ops, o.left, m, IF i = r - 1 THEN 0 ELSE place[Root(ts, i, r - 1)])
  BY <1>1, <1>2, <1>3, ArgumentsLookedUp
<1>6. Value(names, ops, rec, o.right, m) = Trees(ts)[<<r + 1, j>>]
  <2>1. ~Pending(ts, r + 1, j)
    BY RightNotPending
  <2>2. PICK a : a = r + 1
    OBVIOUS
  <2>3. Separate(ts, place, a, j) /\ Computes(ts, place, rec, a, j) /\ ~Pending(ts, a, j)
        /\ IsLast(ops, o.right, m, IF a = j THEN 0 ELSE place[Root(ts, a, j)])
        /\ (a = j => at[o.right] = j)
    BY <1>3, <1>5, <2>1, <2>2
  <2>4. Value(names, ops, rec, o.right, m) = Trees(ts)[<<a, j>>]
    BY <1>4, <1>5, <2>3, ValueOfPart
  <2>5. QED
    BY <2>2, <2>4
<1>7. r # i => Value(names, ops, rec, o.left, m) = Trees(ts)[<<i, r - 1>>]
  <2>1. SUFFICES ASSUME r # i PROVE Value(names, ops, rec, o.left, m) = Trees(ts)[<<i, r - 1>>]
    OBVIOUS
  <2>2. PICK b : b = r - 1
    OBVIOUS
  <2>3. Separate(ts, place, i, b) /\ Computes(ts, place, rec, i, b) /\ ~Pending(ts, i, b)
        /\ IsLast(ops, o.left, m, IF i = b THEN 0 ELSE place[Root(ts, i, b)])
        /\ o.left \in 1 .. Len(at) /\ at[o.left] = b
    BY <1>3, <1>5, <2>1, <2>2
  <2>4. Value(names, ops, rec, o.left, m) = Trees(ts)[<<i, b>>]
    BY <1>4, <2>3, ValueOfPart
  <2>5. QED
    BY <2>2, <2>4
<1>8. Arguments(names, ops, rec, place[r]) =
        IF r = i THEN <<Trees(ts)[<<r + 1, j>>]>>
        ELSE <<Trees(ts)[<<i, r - 1>>], Trees(ts)[<<r + 1, j>>]>>
  BY <1>1, <1>3, <1>6, <1>7 DEF Arguments
<1>9. Trees(ts)[<<i, j>>] = TreeOver(ts, i, j, r)
  BY <1>2, TreeShape
<1>10. QED
  BY <1>1, <1>3, <1>8, <1>9 DEF TreeOver

(* An operation computes its part when those before it computed the parts  *)
(* beside it.                                                              *)
LEMMA PartComputed ==
  ASSUME NEW ts, NEW names, NEW ops, NEW at, NEW place, NEW rec,
         Compiled(ts, names, ops, at, place, rec),
         NEW i, NEW j, i # j, Separate(ts, place, i, j), NEW r, r = Root(ts, i, j),
         Computes(ts, place, rec, r + 1, j),
         r # i => Computes(ts, place, rec, i, r - 1)
  PROVE  Computes(ts, place, rec, i, j)
<1>1. SUFFICES ASSUME ~Pending(ts, i, j) PROVE rec[place[r]] = Trees(ts)[<<i, j>>]
  BY DEF Computes
<1>2. /\ Expression(ts)
      /\ PlacedFrom(ts, names, ops, at, place)
      /\ Part(ts, i, j) /\ Adjoins(ts, i, j) /\ Closed(ts, place, i, j)
      /\ \A m \in 1 .. Len(ops) : Kept(names, ops, rec, m)
  BY DEF Compiled, Separate
<1>3. /\ Separate(ts, place, r + 1, j)
      /\ r # i => Separate(ts, place, i, r - 1)
      /\ place[r] \in 1 .. Len(ops) /\ Len(ops) \in Nat
      /\ i \in 1 .. Len(ts) /\ j \in 1 .. Len(ts) /\ Len(ts) \in Nat
      /\ r \in i .. j
  BY SeparateBeside
<1>4. CASE r # i /\ Pending(ts, i, r - 1)
  <2>1. PICK q, b : q = i + 1 /\ b = r - 1
    OBVIOUS
  <2>2. /\ q = Root(ts, i, b)
        /\ q + 1 = b
        /\ OperatorAt(ts, r) = "call"
        /\ j = r + 1
        /\ Method(names, ops, place[q])
        /\ place[r] = place[q] + 1
    BY <1>4, <2>1, CallsMethod
  <2>3. i # b /\ Separate(ts, place, i, b) /\ i = q - 1 /\ q # i /\ b = q + 1
    BY <1>3, <1>4, <2>1, <2>2 DEF Pending
  <2>4. place[q] \in 1 .. Len(ops)
    BY <2>2, <2>3, SeparateBeside
  <2>5. rec[place[r]] =
          Node("call", <<Node(ops[place[q]].op, Arguments(names, ops, rec, place[q])),
                         Leaf(names[ops[place[r]].right])>>)
    <3>1. Kept(names, ops, rec, place[q])
      BY <1>2, <2>4
    <3>2. QED
      BY <2>2, <3>1 DEF Kept
  <2>6. Node(ops[place[q]].op, Arguments(names, ops, rec, place[q])) = Trees(ts)[<<i, b>>]
    <3>1. Computes(ts, place, rec, q + 1, b) /\ Computes(ts, place, rec, i, q - 1)
          /\ ~Pending(ts, i, q - 1)
      BY <2>2, <2>3 DEF Computes, Pending
    <3>2. QED
      BY <2>2, <2>3, <3>1, ArgumentsOf
  <2>7. Leaf(names[ops[place[r]].right]) = Trees(ts)[<<j, j>>]
    <3>1. PICK o : o = ops[place[r]]
      OBVIOUS
    <3>2. o.right \in 1 .. Len(at) /\ at[o.right] = j
      <4>1. o.right \in 1 .. Len(at) /\ (r + 1 = j => at[o.right] = j)
        BY <1>2, <1>3, <3>1, ArgumentsLookedUp
      <4>2. QED
        BY <2>2, <4>1
    <3>3. names[o.right] = ts[j].name
      BY <1>2, <3>2 DEF PlacedFrom, ReadsOperands
    <3>4. Part(ts, j, j)
      BY <1>3, <2>2 DEF Separate
    <3>5. QED
      BY <1>2, <3>1, <3>3, <3>4, TreeShape
  <2>8. Trees(ts)[<<i, j>>] = TreeOver(ts, i, j, r)
    BY <1>2, TreeShape
  <2>9. TreeOver(ts, i, j, r) = Node("call", <<Trees(ts)[<<i, b>>], Trees(ts)[<<j, j>>]>>)
    BY <1>4, <2>1, <2>2 DEF TreeOver
  <2>10. QED
    BY <2>5, <2>6, <2>7, <2>8, <2>9
<1>5. CASE ~(r # i /\ Pending(ts, i, r - 1))
  <2>1. ~Method(names, ops, place[r])
    BY <1>1, RootMethod
  <2>2. ~(place[r] > 1 /\ Method(names, ops, place[r] - 1))
    BY <1>5, AfterMethod
  <2>3. Kept(names, ops, rec, place[r])
    BY <1>2, <1>3
  <2>4. rec[place[r]] = Node(ops[place[r]].op, Arguments(names, ops, rec, place[r]))
    BY <2>1, <2>2, <2>3 DEF Kept
  <2>5. r # i => Computes(ts, place, rec, i, r - 1) /\ ~Pending(ts, i, r - 1)
    BY <1>5
  <2>6. Node(ops[place[r]].op, Arguments(names, ops, rec, place[r])) = Trees(ts)[<<i, j>>]
    BY <2>5, ArgumentsOf
  <2>7. QED
    BY <2>4, <2>6
<1>6. QED
  BY <1>4, <1>5

AllComputed(ts, place, rec, n) ==
  \A part \in Sized(ts, n) :
    Separate(ts, place, part[1], part[2]) => Computes(ts, place, rec, part[1], part[2])

(* So every part is computed, whatever its size.                           *)
LEMMA PartsComputed ==
  ASSUME NEW ts, NEW names, NEW ops, NEW at, NEW place, NEW rec,
         Compiled(ts, names, ops, at, place, rec)
  PROVE  \A n \in Nat : AllComputed(ts, place, rec, n)
<1>1. Expression(ts)
  BY DEF Compiled
<1> DEFINE S == {n \in Nat : AllComputed(ts, place, rec, n)}
<1>2. 0 \in S
  <2>1. ASSUME NEW part \in Sized(ts, 0) PROVE Computes(ts, place, rec, part[1], part[2])
    <3>1. part[1] = part[2]
      BY <1>1, AllSized
    <3>2. QED
      BY <3>1 DEF Computes
  <2>2. QED
    BY <2>1 DEF AllComputed
<1>3. ASSUME NEW n \in Nat, AllComputed(ts, place, rec, n)
      PROVE  AllComputed(ts, place, rec, n + 1)
  <2>1. SUFFICES ASSUME NEW part \in Sized(ts, n + 1), Separate(ts, place, part[1], part[2])
                 PROVE  Computes(ts, place, rec, part[1], part[2])
    BY DEF AllComputed
  <2>2. PICK i, j : i = part[1] /\ j = part[2]
    OBVIOUS
  <2>3. part = <<i, j>>
    BY <2>2, PartsArePairs DEF Sized
  <2>4. CASE i = j
    BY <2>2, <2>4 DEF Computes
  <2>5. CASE i # j
    <3>1. PICK r : r = Root(ts, i, j)
      OBVIOUS
    <3>2. Separate(ts, place, i, j)
      BY <2>1, <2>2
    <3>3. Separate(ts, place, r + 1, j) /\ (r # i => Separate(ts, place, i, r - 1))
      BY <2>5, <3>1, <3>2, SeparateBeside
    <3>4. <<r + 1, j>> \in Sized(ts, n) /\ (r # i => <<i, r - 1>> \in Sized(ts, n))
      BY <1>1, <2>1, <2>3, <2>5, <3>1, SmallerParts
    <3>5. Computes(ts, place, rec, r + 1, j)
      <4>1. PICK x : x = <<r + 1, j>>
        OBVIOUS
      <4>2. x \in Sized(ts, n) /\ x[1] = r + 1 /\ x[2] = j
        BY <3>4, <4>1
      <4>3. QED
        BY <1>3, <3>3, <4>2 DEF AllComputed
    <3>6. r # i => Computes(ts, place, rec, i, r - 1)
      <4>1. PICK x : x = <<i, r - 1>>
        OBVIOUS
      <4>2. x[1] = i /\ x[2] = r - 1 /\ (r # i => x \in Sized(ts, n))
        BY <3>4, <4>1
      <4>3. QED
        BY <1>3, <3>3, <4>2 DEF AllComputed
    <3>7. Computes(ts, place, rec, i, j)
      BY <2>5, <3>1, <3>2, <3>5, <3>6, PartComputed
    <3>8. QED
      BY <2>2, <3>7
  <2>6. QED
    BY <2>4, <2>5
<1>4. \A n \in Nat : n \in S => n + 1 \in S
  BY <1>3
<1>5. \A n \in Nat : n \in S
  <2> HIDE DEF S
  <2>1. QED
    BY <1>2, <1>4, InductionOnNat
<1>6. QED
  BY <1>5

(* The last operation computes the expression. *)
LEMMA WholeComputed ==
  ASSUME NEW ts, NEW names, NEW ops, NEW at, NEW place, NEW rec,
         Compiled(ts, names, ops, at, place, rec), Adjoining(ts)
  PROVE  (IF Len(ops) = 0 THEN Leaf(names[1]) ELSE rec[Len(ops)]) = PythonTree(ts)
<1>1. PICK n : n = Len(ts)
  OBVIOUS
<1>2. /\ Expression(ts) /\ MethodsCalled(ts)
      /\ PlacedFrom(ts, names, ops, at, place)
      /\ ReadsOperands(ts, n, names, at)
      /\ Len(ops) \in Nat
  BY <1>1 DEF Compiled, PlacedFrom
<1>3. n \in Nat \ {0} /\ IsOperand(ts, n)
  BY <1>1, <1>2 DEF Expression, Grammatical
<1>4. Part(ts, 1, n)
  <2>1. 1 \in 1 .. n /\ n \in 1 .. n /\ 1 <= n
    BY <1>3
  <2>2. IsOperand(ts, 1) \/ PrefixAt(ts, 1)
    BY <1>1, <1>2, <2>1, TokenKinds
  <2>3. QED
    BY <1>1, <1>3, <2>1, <2>2, PartIs
<1>5. Separate(ts, place, 1, n)
  <2>1. Adjoins(ts, 1, n)
    BY <1>1 DEF Adjoining, Adjoins
  <2>2. Closed(ts, place, 1, n)
    BY <1>1 DEF Closed, Operators
  <2>3. QED
    BY <1>4, <2>1, <2>2 DEF Separate
<1>6. CASE n = 1
  <2>1. Len(ops) = 0
    <3>1. SUFFICES ASSUME Len(ops) # 0 PROVE FALSE
      OBVIOUS
    <3>2. 1 \in 1 .. Len(ops)
      BY <1>2, <3>1
    <3>3. PICK t \in Operators(ts) : place[t] = 1
      BY <1>2, <3>2 DEF PlacedFrom
    <3>4. t = n /\ t \in 1 .. Len(ts) /\ IsOperator(ts, t)
      BY <1>1, <1>6 DEF Operators
    <3>5. QED
      BY <1>2, <1>3, <3>4, TokenKinds
  <2>2. PICK k \in 1 .. Len(at) : at[k] = 1
    BY <1>2, <1>3, <1>6 DEF ReadsOperands
  <2>3. 1 \in 1 .. Len(at)
    BY <1>2 DEF ReadsOperands
  <2>4. at[1] \in 1 .. n /\ names[1] = ts[at[1]].name
    BY <1>2, <2>3 DEF ReadsOperands
  <2>5. at[1] = 1
    BY <1>6, <2>4
  <2>6. Trees(ts)[<<1, n>>] = Leaf(ts[1].name)
    BY <1>2, <1>4, <1>6, TreeShape
  <2>7. QED
    BY <1>1, <2>1, <2>4, <2>5, <2>6 DEF PythonTree
<1>7. CASE n # 1
  <2>1. PICK r : r = Root(ts, 1, n)
    OBVIOUS
  <2>2. /\ r \in Operators(ts) /\ r \in 1 .. Len(ts) /\ IsOperator(ts, r)
        /\ place[r] \in 1 .. Len(ops)
    BY <1>5, <1>7, <2>1, SeparateBeside
  <2>3. Computes(ts, place, rec, 1, n)
    <3>1. PICK part : part = <<1, n>>
      OBVIOUS
    <3>2. part \in Sized(ts, n) /\ part[1] = 1 /\ part[2] = n
      BY <1>1, <1>2, <1>4, <3>1, AllSized DEF Part
    <3>3. AllComputed(ts, place, rec, n)
      BY <1>3, PartsComputed
    <3>4. QED
      BY <1>5, <3>2, <3>3 DEF AllComputed
  <2>4. ~Pending(ts, 1, n)
    <3>1. SUFFICES ASSUME Pending(ts, 1, n) PROVE FALSE
      OBVIOUS
    <3>2. r = 2 /\ OperatorAt(ts, r) = "getattr" /\ ts[r - 1].name \in Containers
      BY <2>1, <3>1 DEF Pending
    <3>3. PICK t : t = r + 2
      OBVIOUS
    <3>4. t \in 1 .. n /\ InfixAt(ts, t) /\ Binding(ts, t) = 16 /\ Binding(ts, r) = 16
      BY <1>1, <1>2, <2>2, <3>2, <3>3, MethodCalled
    <3>5. r < t
      BY <3>2, <3>3
    <3>6. Binding(ts, r) \in 0 .. 15
      BY <1>2, <1>4, <1>7, <2>1, <3>4, <3>5, NotTightest
    <3>7. QED
      BY <3>4, <3>6
  <2>5. rec[place[r]] = Trees(ts)[<<1, n>>]
    BY <1>7, <2>1, <2>3, <2>4 DEF Computes
  <2>6. place[r] = Len(ops)
    <3>1. Len(ops) \in 1 .. Len(ops)
      BY <1>2, <2>2
    <3>2. PICK t \in Operators(ts) : place[t] = Len(ops)
      BY <1>2, <3>1 DEF PlacedFrom
    <3>3. t \in 1 .. n
      BY <1>1 DEF Operators
    <3>4. Tight(ts, 1, n)
      BY <1>2, <1>4, <1>5, AdjoinsTightly DEF Separate
    <3>5. t # r => place[t] < place[r]
      BY <1>2, <1>4, <1>7, <2>1, <3>3, <3>4, RootPlacedLast
    <3>6. QED
      BY <1>2, <2>2, <3>2, <3>5
  <2>7. QED
    BY <1>1, <1>2, <2>2, <2>5, <2>6 DEF PythonTree
<1>8. QED
  BY <1>6, <1>7

-----------------------------------------------------------------------------
(* The record as it grows                                                  *)

LEMMA LastExists ==
  ASSUME NEW ops, NEW k, NEW m \in Nat
  PROVE  IsLast(ops, k, m, LastTouch(ops, k, m))
<1> DEFINE S == {n \in Nat : \E i : IsLast(ops, k, n, i)}
<1>1. IsLast(ops, k, 0, 0)
  BY DEF IsLast
<1>2. 0 \in S
  BY <1>1
<1>3. ASSUME NEW n \in Nat, NEW i, IsLast(ops, k, n, i) PROVE \E l : IsLast(ops, k, n + 1, l)
  <2>1. CASE Touches(ops[n + 1], k)
    <3>1. IsLast(ops, k, n + 1, n + 1)
      BY <2>1 DEF IsLast
    <3>2. QED
      BY <3>1
  <2>2. CASE ~Touches(ops[n + 1], k)
    <3>1. IsLast(ops, k, n + 1, i)
      <4>1. \A l \in i + 1 .. n + 1 : l \in i + 1 .. n \/ l = n + 1
        BY <1>3 DEF IsLast
      <4>2. QED
        BY <1>3, <2>2, <4>1 DEF IsLast
    <3>2. QED
      BY <3>1
  <2>3. QED
    BY <2>1, <2>2
<1>4. \A n \in Nat : n \in S => n + 1 \in S
  BY <1>3
<1>5. \A n \in Nat : n \in S
  <2> HIDE DEF S
  <2>1. QED
    BY <1>2, <1>4, InductionOnNat
<1>6. \E i : IsLast(ops, k, m, i)
  BY <1>5
<1>7. QED
  BY <1>6 DEF LastTouch

(* update_expression_record keeps the last operation of every operand. *)
LEMMA TableUpdated ==
  ASSUME NEW ops, NEW n, NEW m \in Nat, NEW t, DOMAIN t = 1 .. n,
         \A k \in 1 .. n : IsLast(ops, k, m, t[k]),
         NEW new, new = Updated(t, ops[m + 1], m + 1)
  PROVE  /\ DOMAIN new = 1 .. n
         /\ \A k \in 1 .. n : IsLast(ops, k, m + 1, new[k])
<1>1. /\ DOMAIN new = 1 .. n
      /\ \A k \in 1 .. n : new[k] = IF Touches(ops[m + 1], k) THEN m + 1 ELSE t[k]
  BY DEF Updated, Touches
<1>2. ASSUME NEW k \in 1 .. n PROVE IsLast(ops, k, m + 1, new[k])
  <2>1. CASE Touches(ops[m + 1], k)
    <3>1. IsLast(ops, k, m + 1, m + 1)
      BY <2>1 DEF IsLast
    <3>2. QED
      BY <1>1, <2>1, <3>1
  <2>2. CASE ~Touches(ops[m + 1], k)
    <3>1. PICK i : i = t[k]
      OBVIOUS
    <3>2. IsLast(ops, k, m, i)
      BY <3>1
    <3>3. \A l \in i + 1 .. m + 1 : l \in i + 1 .. m \/ l = m + 1
      BY <3>2 DEF IsLast
    <3>4. IsLast(ops, k, m + 1, i)
      BY <2>2, <3>2, <3>3 DEF IsLast
    <3>5. QED
      BY <1>1, <2>2, <3>1, <3>4
  <2>3. QED
    BY <2>1, <2>2
<1>3. QED
  BY <1>1, <1>2

(* What was recorded stays as it is when the record grows.                 *)
LEMMA ValueOn ==
  ASSUME NEW names, NEW ops, NEW rec, NEW more, NEW k, NEW m \in Nat,
         \A i \in 1 .. m : more[i] = rec[i]
  PROVE  Value(names, ops, more, k, m) = Value(names, ops, rec, k, m)
<1>1. LastTouch(ops, k, m) \in 0 .. m
  BY LastExists DEF IsLast
<1>2. QED
  BY <1>1 DEF Value

LEMMA KeptOn ==
  ASSUME NEW names, NEW ops, NEW rec, NEW more, Len(rec) \in Nat, Len(more) \in Nat,
         Len(rec) <= Len(more), \A i \in 1 .. Len(rec) : more[i] = rec[i],
         NEW m \in 1 .. Len(rec), Kept(names, ops, rec, m)
  PROVE  Kept(names, ops, more, m)
<1>1. m - 1 \in Nat /\ \A i \in 1 .. m - 1 : more[i] = rec[i]
  OBVIOUS
<1>2. Arguments(names, ops, more, m) = Arguments(names, ops, rec, m)
  <2>1. \A k : Value(names, ops, more, k, m - 1) = Value(names, ops, rec, k, m - 1)
    BY <1>1, ValueOn
  <2>2. QED
    BY <2>1 DEF Arguments
<1>3. more[m] = rec[m]
  OBVIOUS
<1>4. m + 1 <= Len(rec) => more[m + 1] = rec[m + 1] /\ m + 1 <= Len(more)
  OBVIOUS
<1>5. QED
  BY <1>2, <1>3, <1>4 DEF Kept

(* What render_expression keeps while it compiles the operations.          *)
Recorded ==
  /\ read = Len(source)
  /\ \E at, pos : SortedFrom(source, operands, operations, at, pos)
  /\ DOMAIN lookup = 1 .. Len(operands)
  /\ \A k \in 1 .. Len(operands) : IsLast(operations, k, next, lookup[k])
  /\ \A m \in 1 .. next : Kept(operands, operations, record, m)

(* What render_expression reads when it compiles the next operation.       *)
LEMMA CurrentOperation ==
  ASSUME IInv, Recorded, Rendering
  PROVE  /\ next \in Nat /\ next + 1 \in 1 .. Len(operations) /\ Len(operations) \in Nat
         /\ Len(record) = next /\ IsSequence(record)
         /\ current.op \in DOMAIN Precedence
         /\ \A k \in 1 .. Len(operands) :
              ValueOf(k) = Value(operands, operations, record, k, next)
         /\ Computed(current) =
              Node(current.op, Arguments(operands, operations, record, next + 1))
         /\ OfContainer(current) <=> Method(operands, operations, next + 1)
<1>1. TableTypes /\ Compiling /\ next < Len(operations)
  BY DEF IInv, Rendering
<1>2. /\ operations \in Seq(Operation)
      /\ \A i \in 1 .. Len(operations) :
           /\ operations[i].right \in 1 .. Len(operands)
           /\ operations[i].op \notin Unary => operations[i].left \in 1 .. Len(operands)
      /\ next \in 0 .. Len(operations)
      /\ Len(record) = next /\ IsSequence(record)
      /\ operands \in Seq(STRING)
  BY <1>1 DEF Compiling, TableTypes
<1>3. next \in Nat /\ next + 1 \in 1 .. Len(operations) /\ Len(operations) \in Nat
      /\ (next + 1) - 1 = next
  BY <1>1, <1>2
<1>4. current \in Operation
  BY <1>2, <1>3 DEF current
<1>5. current.op \in DOMAIN Precedence
  BY <1>4 DEF Operation
<1>6. ASSUME NEW k \in 1 .. Len(operands)
      PROVE  /\ ValueOf(k) = Value(operands, operations, record, k, next)
             /\ LastTouch(operations, k, next) = lookup[k]
             /\ IsLast(operations, k, next, lookup[k])
             /\ ValueOf(k).op \in Containers <=> lookup[k] = 0 /\ operands[k] \in Containers
  <2>1. IsLast(operations, k, next, lookup[k])
    BY DEF Recorded
  <2>2. LastTouch(operations, k, next) = lookup[k]
    BY <1>3, <2>1, LastTouchIs
  <2>3. ValueOf(k) = Value(operands, operations, record, k, next)
    BY <2>2 DEF ValueOf, Value
  <2>4. CASE lookup[k] = 0
    <3>1. ValueOf(k) = Leaf(operands[k])
      BY <2>4 DEF ValueOf
    <3>2. ValueOf(k).op = operands[k]
      BY <3>1 DEF Leaf
    <3>3. QED
      BY <2>1, <2>2, <2>3, <2>4, <3>2
  <2>5. CASE lookup[k] # 0
    <3>1. PICK i : i = lookup[k]
      OBVIOUS
    <3>2. i \in 1 .. next
      BY <1>3, <2>1, <2>5, <3>1 DEF IsLast
    <3>3. record[i].op \in DOMAIN Precedence
      BY <3>2 DEF Recorded, Kept
    <3>4. ValueOf(k) = record[i]
      BY <2>5, <3>1 DEF ValueOf
    <3>5. ValueOf(k).op \notin Containers
      BY <3>3, <3>4, ContainersAssumption
    <3>6. QED
      BY <2>1, <2>2, <2>3, <2>5, <3>5
  <2>6. QED
    BY <2>4, <2>5
<1>7. current = operations[next + 1]
  BY DEF current
<1>8. Computed(current) = Node(current.op, Arguments(operands, operations, record, next + 1))
  BY <1>2, <1>3, <1>6, <1>7 DEF Computed, Arguments
<1>9. OfContainer(current) <=> Method(operands, operations, next + 1)
  <2>1. CASE current.op # "getattr"
    BY <1>7, <2>1 DEF OfContainer, Method
  <2>2. CASE current.op = "getattr"
    <3>1. PICK k : k = current.left
      OBVIOUS
    <3>2. k \in 1 .. Len(operands)
      BY <1>2, <1>3, <1>7, <2>2, <3>1 DEF Unary
    <3>3. OfContainer(current) <=> ValueOf(k).op \in Containers
      BY <2>2, <3>1 DEF OfContainer
    <3>4. Method(operands, operations, next + 1) <=>
            operands[k] \in Containers /\ IsLast(operations, k, next, 0)
      BY <1>3, <1>7, <2>2, <3>1 DEF Method
    <3>5. IsLast(operations, k, next, 0) <=> lookup[k] = 0
      BY <1>3, <1>6, <3>2, OneLast
    <3>6. QED
      BY <1>6, <3>2, <3>3, <3>4, <3>5
  <2>3. QED
    BY <2>1, <2>2
<1>10. QED
  BY <1>2, <1>3, <1>5, <1>6, <1>8, <1>9

LEMMA AppendedAt ==
  ASSUME NEW s, IsSequence(s), NEW v
  PROVE  /\ \A i \in 1 .. Len(s) : Append(s, v)[i] = s[i] /\ (s \o <<v, v>>)[i] = s[i]
         /\ Append(s, v)[Len(s) + 1] = v
         /\ (s \o <<v, v>>)[Len(s) + 1] = v
         /\ (s \o <<v, v>>)[Len(s) + 2] = v
<1> DEFINE A == {s[i] : i \in DOMAIN s} \cup {v}
           two == <<v, v>>
<1>1. s \in Seq({s[i] : i \in DOMAIN s})
  BY DEF IsSequence
<1>2. s \in Seq(A) /\ Len(s) \in Nat /\ v \in A
  BY <1>1
<1>3. two \in Seq(A) /\ Len(two) = 2 /\ two[1] = v /\ two[2] = v
  OBVIOUS
<1> HIDE DEF A, two
<1>4. (\A i \in 1 .. Len(s) : Append(s, v)[i] = s[i]) /\ Append(s, v)[Len(s) + 1] = v
  BY <1>2
<1>5. /\ \A i \in 1 .. Len(s) : (s \o two)[i] = s[i]
      /\ (s \o two)[Len(s) + 1] = two[1]
      /\ (s \o two)[Len(s) + 2] = two[2]
  <2>1. \A i \in 1 .. Len(s) + Len(two) :
          (s \o two)[i] = IF i <= Len(s) THEN s[i] ELSE two[i - Len(s)]
    BY <1>2, <1>3, ConcatProperties
  <2>2. /\ Len(s) + 1 \in 1 .. Len(s) + Len(two) /\ (Len(s) + 1) - Len(s) = 1
        /\ Len(s) + 2 \in 1 .. Len(s) + Len(two) /\ (Len(s) + 2) - Len(s) = 2
        /\ ~(Len(s) + 1 <= Len(s)) /\ ~(Len(s) + 2 <= Len(s))
        /\ \A i \in 1 .. Len(s) : i \in 1 .. Len(s) + Len(two) /\ i <= Len(s)
    BY <1>2, <1>3
  <2>3. QED
    BY <2>1, <2>2
<1>6. QED
  BY <1>3, <1>4, <1>5 DEF two

(* Compiling an operation keeps the record.                                *)
LEMMA OperationRecorded ==
  ASSUME IInv, Recorded, RenderOperation
  PROVE  Recorded'
<1>1. /\ Rendering /\ ~OfContainer(current)
      /\ record' = Append(record, Computed(current))
      /\ lookup' = Updated(lookup, current, Len(record) + 1)
      /\ next' = next + 1
      /\ UNCHANGED <<source, read, operands, operations>>
  BY DEF RenderOperation, table
<1>2. /\ next \in Nat /\ next + 1 \in 1 .. Len(operations) /\ Len(operations) \in Nat
      /\ Len(record) = next /\ IsSequence(record)
      /\ current.op \in DOMAIN Precedence
      /\ Computed(current) = Node(current.op, Arguments(operands, operations, record, next + 1))
      /\ ~Method(operands, operations, next + 1)
      /\ current = operations[next + 1]
  BY <1>1, CurrentOperation DEF current
<1>3. /\ DOMAIN lookup' = 1 .. Len(operands)
      /\ \A k \in 1 .. Len(operands) : IsLast(operations, k, next + 1, lookup'[k])
  <2>1. lookup' = Updated(lookup, operations[next + 1], next + 1)
    BY <1>1, <1>2
  <2>2. DOMAIN lookup = 1 .. Len(operands)
        /\ \A k \in 1 .. Len(operands) : IsLast(operations, k, next, lookup[k])
    BY DEF Recorded
  <2>3. QED
    BY <1>2, <2>1, <2>2, TableUpdated
<1>4. PICK more : more = record'
  OBVIOUS
<1>5. /\ \A i \in 1 .. next : more[i] = record[i]
      /\ more[next + 1] = Node(current.op, Arguments(operands, operations, record, next + 1))
      /\ Len(more) = next + 1
  BY <1>1, <1>2, <1>4, AppendedAt, RecordGrows
<1>6. ASSUME NEW m \in 1 .. next + 1 PROVE Kept(operands, operations, more, m)
  <2>1. CASE m \in 1 .. next
    <3>1. Kept(operands, operations, record, m)
      BY <2>1 DEF Recorded
    <3>2. QED
      BY <1>2, <1>5, <2>1, <3>1, KeptOn
  <2>2. CASE m = next + 1
    <3>1. m - 1 = next
      BY <1>2, <2>2
    <3>2. Arguments(operands, operations, more, m) = Arguments(operands, operations, record, m)
      <4>1. \A k : Value(operands, operations, more, k, next)
                     = Value(operands, operations, record, k, next)
        BY <1>2, <1>5, ValueOn
      <4>2. QED
        BY <3>1, <4>1 DEF Arguments
    <3>3. more[m] = Node(operations[m].op, Arguments(operands, operations, more, m))
      BY <1>2, <1>5, <2>2, <3>2
    <3>4. more[m].op \in DOMAIN Precedence
      BY <1>2, <2>2, <3>3 DEF Node
    <3>5. QED
      BY <1>2, <2>2, <3>3, <3>4 DEF Kept
  <2>3. QED
    BY <1>2, <2>1, <2>2
<1>7. read = Len(source) /\ \E at, pos : SortedFrom(source, operands, operations, at, pos)
  BY DEF Recorded
<1>8. QED
  BY <1>1, <1>3, <1>4, <1>6, <1>7 DEF Recorded

(* And so does compiling a method with its call.                           *)
LEMMA MethodRecorded ==
  ASSUME IInv, Recorded, RenderBuiltinMethod
  PROVE  Recorded'
<1> DEFINE call == operations[next + 2]
           value == Node("call", <<Computed(current), Leaf(operands[call.right])>>)
           first == Updated(lookup, current, Len(record) + 1)
<1>1. /\ Rendering /\ OfContainer(current)
      /\ next + 2 <= Len(operations)
      /\ call.op = "call"
      /\ record' = record \o <<value, value>>
      /\ lookup' = Updated(first, call, Len(record) + 2)
      /\ next' = next + 2
      /\ UNCHANGED <<source, read, operands, operations>>
  BY DEF RenderBuiltinMethod, table
<1>2. /\ next \in Nat /\ next + 1 \in 1 .. Len(operations) /\ Len(operations) \in Nat
      /\ Len(record) = next /\ IsSequence(record)
      /\ Computed(current) = Node(current.op, Arguments(operands, operations, record, next + 1))
      /\ Method(operands, operations, next + 1)
      /\ current = operations[next + 1]
  BY <1>1, CurrentOperation DEF current
<1>3. /\ next + 2 = (next + 1) + 1 /\ (next + 2) - 1 = next + 1 /\ next + 1 \in Nat
      /\ next + 2 \in Nat /\ next + 2 > 1
  BY <1>2
<1>4. /\ DOMAIN lookup' = 1 .. Len(operands)
      /\ \A k \in 1 .. Len(operands) : IsLast(operations, k, next + 2, lookup'[k])
  <2>1. DOMAIN lookup = 1 .. Len(operands)
        /\ \A k \in 1 .. Len(operands) : IsLast(operations, k, next, lookup[k])
    BY DEF Recorded
  <2>2. first = Updated(lookup, operations[next + 1], next + 1)
    BY <1>2
  <2>3. lookup' = Updated(first, operations[(next + 1) + 1], (next + 1) + 1)
    BY <1>1, <1>2, <1>3
  <2> HIDE DEF first
  <2>4. DOMAIN first = 1 .. Len(operands)
        /\ \A k \in 1 .. Len(operands) : IsLast(operations, k, next + 1, first[k])
    BY <1>2, <2>1, <2>2, TableUpdated
  <2>5. PICK last : last = lookup'
    OBVIOUS
  <2>6. DOMAIN last = 1 .. Len(operands)
        /\ \A k \in 1 .. Len(operands) : IsLast(operations, k, (next + 1) + 1, last[k])
    <3>1. PICK n, t : n = next + 1 /\ t = first
      OBVIOUS
    <3>2. last = Updated(t, operations[n + 1], n + 1) /\ n \in Nat
      BY <1>3, <2>3, <2>5, <3>1
    <3>3. DOMAIN t = 1 .. Len(operands)
          /\ \A k \in 1 .. Len(operands) : IsLast(operations, k, n, t[k])
      BY <2>4, <3>1
    <3>4. DOMAIN last = 1 .. Len(operands)
          /\ \A k \in 1 .. Len(operands) : IsLast(operations, k, n + 1, last[k])
      BY <3>2, <3>3, TableUpdated
    <3>5. QED
      BY <3>1, <3>4
  <2>7. QED
    BY <1>3, <2>5, <2>6
<1>5. PICK more : more = record'
  OBVIOUS
<1>6. /\ \A i \in 1 .. next : more[i] = record[i]
      /\ more[next + 1] = value
      /\ more[next + 2] = value
      /\ Len(more) = next + 2
  <2>1. PICK v : v = value
    OBVIOUS
  <2>2. more = record \o <<v, v>>
    BY <1>1, <1>5, <2>1
  <2>3. /\ \A i \in 1 .. Len(record) : more[i] = record[i]
        /\ more[Len(record) + 1] = v
        /\ more[Len(record) + 2] = v
        /\ Len(more) = Len(record) + 2
    <3>1. PICK s : s = record
      OBVIOUS
    <3>2. IsSequence(s) /\ more = s \o <<v, v>>
      BY <1>2, <2>2, <3>1
    <3>3. /\ \A i \in 1 .. Len(s) : more[i] = s[i]
          /\ more[Len(s) + 1] = v
          /\ more[Len(s) + 2] = v
      BY <3>2, AppendedAt
    <3>4. Len(more) = Len(s) + 2
      BY <3>2, RecordGrows
    <3>5. QED
      BY <3>1, <3>3, <3>4
  <2> HIDE DEF value
  <2>4. QED
    BY <1>2, <2>1, <2>3
<1>7. Arguments(operands, operations, more, next + 1)
        = Arguments(operands, operations, record, next + 1)
  <2>1. (next + 1) - 1 = next
    BY <1>2
  <2>2. \A k : Value(operands, operations, more, k, next)
                 = Value(operands, operations, record, k, next)
    BY <1>2, <1>6, ValueOn
  <2>3. QED
    BY <2>1, <2>2 DEF Arguments
<1>8. value.op = "call" /\ value.op \in DOMAIN Precedence
  BY OperatorFacts DEF Node
<1>9. value = Node("call", <<Node(operations[next + 1].op,
                                  Arguments(operands, operations, more, next + 1)),
                             Leaf(operands[operations[next + 2].right])>>)
  BY <1>2, <1>7
<1> HIDE DEF value
<1>10. Kept(operands, operations, more, next + 1)
  BY <1>1, <1>2, <1>3, <1>6, <1>8, <1>9 DEF Kept
<1>11. Kept(operands, operations, more, next + 2)
  <2>1. ~Method(operands, operations, next + 2)
    BY <1>1 DEF Method
  <2>2. QED
    BY <1>2, <1>3, <1>6, <1>8, <2>1 DEF Kept
<1>12. ASSUME NEW m \in 1 .. next + 2 PROVE Kept(operands, operations, more, m)
  <2>1. CASE m \in 1 .. next
    <3>1. Kept(operands, operations, record, m)
      BY <2>1 DEF Recorded
    <3>2. QED
      BY <1>2, <1>3, <1>6, <2>1, <3>1, KeptOn
  <2>2. m \in 1 .. next \/ m = next + 1 \/ m = next + 2
    BY <1>2
  <2>3. QED
    BY <1>10, <1>11, <2>1, <2>2
<1>13. read = Len(source) /\ \E at, pos : SortedFrom(source, operands, operations, at, pos)
  BY DEF Recorded
<1>14. QED
  BY <1>1, <1>4, <1>5, <1>12, <1>13 DEF Recorded

(* An expression begins with its operations sorted and an empty record.    *)
LEMMA NothingRecorded ==
  ASSUME IInv, ToExpr, NEW at, NEW from, ReadFrom(at, from)
  PROVE  Recorded'
<1>1. /\ phase = "parse"
      /\ read = Len(source)
      /\ operations' = Sorted(vectors)
      /\ lookup' = [k \in DOMAIN operands |-> 0]
      /\ UNCHANGED <<source, read, operands, next, record>>
  BY DEF ToExpr, table
<1>2. TableTypes /\ next = 0 /\ record = <<>>
  BY <1>1 DEF IInv, Parsing
<1>3. PICK pos : SortedFrom(source, operands, Sorted(vectors), at, pos)
  BY <1>1, <1>2, SortedPlaces
<1>4. DOMAIN operands = 1 .. Len(operands)
  BY <1>2 DEF TableTypes
<1>5. DOMAIN lookup' = 1 .. Len(operands) /\ \A k \in 1 .. Len(operands) : lookup'[k] = 0
  BY <1>1, <1>4
<1>6. \A ops, k : IsLast(ops, k, 0, 0)
  BY DEF IsLast
<1>7. SortedFrom(source, operands, operations', at, pos)
  BY <1>1, <1>3
<1>8. QED
  BY <1>1, <1>2, <1>5, <1>6, <1>7 DEF Recorded

-----------------------------------------------------------------------------
(* What an expression means                                                *)

(* While an expression is parsed the table holds what was read of it, and  *)
(* while it is compiled the record holds the value of every operation.     *)
MeaningInv ==
  /\ IInv
  /\ phase = "parse" => \E at, from : ReadFrom(at, from)
  /\ phase \in {"render", "done"} => Recorded
  /\ phase = "done" => next = Len(operations)

(* No step of the parser or the compiler loses what an expression means.   *)
LEMMA MeaningKept ==
  ASSUME MeaningInv, IInv', [Next]_vars
  PROVE  MeaningInv'
<1>1. IInv
  BY DEF MeaningInv
<1>2. CASE PushOperand
  <2>1. phase = "parse" /\ phase' = "parse"
    BY <1>2 DEF PushOperand, Reading
  <2>2. PICK at, from : ReadFrom(at, from)
    BY <2>1 DEF MeaningInv
  <2>3. \E new : ReadFrom(new, from)'
    BY <1>1, <1>2, <2>2, OperandRead
  <2>4. QED
    BY <2>1, <2>3 DEF MeaningInv
<1>3. CASE PushOperation
  <2>1. phase = "parse" /\ phase' = "parse"
    BY <1>3 DEF PushOperation, Reading
  <2>2. PICK at, from : ReadFrom(at, from)
    BY <2>1 DEF MeaningInv
  <2>3. \E new : ReadFrom(at, new)'
    BY <1>1, <1>3, <2>2, OperationRead
  <2>4. QED
    BY <2>1, <2>3 DEF MeaningInv
<1>4. CASE ToExpr
  <2>1. phase = "parse" /\ phase' = "render"
    BY <1>4 DEF ToExpr
  <2>2. PICK at, from : ReadFrom(at, from)
    BY <2>1 DEF MeaningInv
  <2>3. Recorded'
    BY <1>1, <1>4, <2>2, NothingRecorded
  <2>4. QED
    BY <2>1, <2>3 DEF MeaningInv
<1>5. CASE ExpressionEndsOnOperator \/ MethodReferenced
  <2>1. phase' = "rejected"
    BY <1>5 DEF ExpressionEndsOnOperator, MethodReferenced
  <2>2. QED
    BY <2>1 DEF MeaningInv
<1>6. CASE RenderOperation
  <2>1. phase = "render" /\ phase' = "render"
    BY <1>6 DEF RenderOperation, Rendering
  <2>2. Recorded'
    BY <1>1, <1>6, <2>1, OperationRecorded DEF MeaningInv
  <2>3. QED
    BY <2>1, <2>2 DEF MeaningInv
<1>7. CASE RenderBuiltinMethod
  <2>1. phase = "render" /\ phase' = "render"
    BY <1>7 DEF RenderBuiltinMethod, Rendering
  <2>2. Recorded'
    BY <1>1, <1>7, <2>1, MethodRecorded DEF MeaningInv
  <2>3. QED
    BY <2>1, <2>2 DEF MeaningInv
<1>8. CASE RenderedAll
  <2>1. /\ phase = "render" /\ phase' = "done" /\ next = Len(operations)
        /\ UNCHANGED <<source, read, operands, operations, next, record, lookup>>
    BY <1>8 DEF RenderedAll, table
  <2>2. Recorded
    BY <2>1 DEF MeaningInv
  <2>3. Recorded' /\ next' = Len(operations')
    BY <2>1, <2>2 DEF Recorded
  <2>4. QED
    BY <2>1, <2>3 DEF MeaningInv
<1>9. CASE UNCHANGED vars
  <2>1. UNCHANGED <<source, read, operands, previous, vectors, operations, next, record, lookup, phase>>
    BY <1>9 DEF vars, table
  <2>2. Recorded => Recorded'
    BY <2>1 DEF Recorded
  <2>3. (\E at, from : ReadFrom(at, from)) => (\E at, from : ReadFrom(at, from))'
    BY <2>1 DEF ReadFrom
  <2>4. QED
    BY <2>1, <2>2, <2>3 DEF MeaningInv
<1>10. QED
  BY <1>2, <1>3, <1>4, <1>5, <1>6, <1>7, <1>8, <1>9 DEF Next

(* The inductive invariant of what an expression means: every operation    *)
(* finds each operand as the last operation before it left it, and the     *)
(* record holds what it computed of them.                                  *)
THEOREM OperationsRecorded == Spec => []MeaningInv
<1>1. Init => MeaningInv
  <2>1. SUFFICES ASSUME Init PROVE MeaningInv
    OBVIOUS
  <2>2. IInv
    BY <2>1, InitialTable
  <2>3. \E at, from : ReadFrom(at, from)
    BY <2>1, NothingRead
  <2>4. phase = "parse"
    BY <2>1 DEF Init
  <2>5. QED
    BY <2>2, <2>3, <2>4 DEF MeaningInv
<1>2. MeaningInv /\ IInv' /\ [Next]_vars => MeaningInv'
  BY MeaningKept
<1>3. QED
  BY <1>1, <1>2, ExpressionInvariant, PTL DEF Spec

(* Sorting operations by precedence, and looking each operand up under its *)
(* index, computes what Python does: the value render_expression ends with *)
(* is the tree of the expression, for every expression in which operations *)
(* stand beside their operands.                                            *)
THEOREM ExpressionsMeanPython == Spec => []AdjoiningIsRight
<1>1. ASSUME MeaningInv PROVE AdjoiningIsRight
  <2>1. SUFFICES ASSUME phase = "done", Grammatical(source), Adjoining(source),
                        MethodsCalled(source)
                 PROVE  result = PythonTree(source)
    BY DEF AdjoiningIsRight
  <2>2. IInv /\ Recorded /\ next = Len(operations)
    BY <1>1, <2>1 DEF MeaningInv
  <2>3. /\ source \in Sources
        /\ operations \in Seq(Operation)
        /\ Len(record) = Len(operations) /\ Len(operations) \in Nat
        /\ IsSequence(record)
    BY <2>1, <2>2 DEF IInv, TableTypes, Compiling
  <2>4. Expression(source)
    <3>1. /\ source \in Seq(Token)
          /\ \A k \in DOMAIN source : source[k].type = "operator" =>
               (source[k].name = "call" => k < Len(source) /\ source[k + 1].type = "operand")
      BY <2>3, SourcesAssumption
    <3>2. DOMAIN source = 1 .. Len(source)
      BY <3>1
    <3>3. QED
      BY <2>1, <3>1, <3>2 DEF Expression, IsOperand, IsOperator
  <2>5. PICK at, pos : SortedFrom(source, operands, operations, at, pos)
    BY <2>2 DEF Recorded
  <2>6. PICK place : PlacedFrom(source, operands, operations, at, place)
    BY <2>4, <2>5, Placed
  <2>7. \A m \in 1 .. Len(operations) : Kept(operands, operations, record, m)
    BY <2>2 DEF Recorded
  <2>8. Compiled(source, operands, operations, at, place, record)
    BY <2>1, <2>3, <2>4, <2>6, <2>7 DEF Compiled
  <2>9. (IF Len(operations) = 0 THEN Leaf(operands[1]) ELSE record[Len(operations)])
          = PythonTree(source)
    BY <2>1, <2>8, WholeComputed
  <2>10. record = <<>> <=> Len(operations) = 0
    BY <2>3 DEF IsSequence
  <2>11. QED
    BY <2>3, <2>9, <2>10 DEF result
<1>2. QED
  BY <1>1, OperationsRecorded, PTL

=============================================================================
