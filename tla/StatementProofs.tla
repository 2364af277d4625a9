---------------------------- MODULE StatementProofs ----------------------------
(***************************************************************************)
(* Proofs about module Statements, for every program, however its          *)
(* statements are nested.                                                  *)
(*                                                                         *)
(* The compiler comes first.  Its recursion over statements is defined     *)
(* (CompileStatementIs), and what it makes of a function has a chart: at   *)
(* every place of the code, the excepts that are in force there and those  *)
(* that the try statements around have remembered (FunctionCharted).  The  *)
(* code of a block is put together from the code of its statements, so     *)
(* what is shown of a statement has to hold whatever surrounds it (Sound), *)
(* and is shown for the statements in it first (AllSound).                 *)
(*                                                                         *)
(* Then the program that runs: every frame of the stack stands at a place  *)
(* of its chart and holds what the chart says (IInv), whatever the step.   *)
(***************************************************************************)
EXTENDS Statements, SequenceFacts

-----------------------------------------------------------------------------
(* The recursion over statements                                           *)

(* What CompileStatement is for a statement, given it for those inside.    *)
CodeOf(compiled, s) ==
  [at \in Seq(Nat) |-> [ctx \in Context |-> Compile(compiled, s, at, ctx)]]

AgreeInside(g, h, s) ==
  \A block \in Blocks(s) : \A k \in DOMAIN block : g[block[k]] = h[block[k]]

LEMMA SameBody ==
  ASSUME NEW g, NEW h, NEW stmts, \A k \in DOMAIN stmts : g[stmts[k]] = h[stmts[k]],
         NEW at, NEW ctx
  PROVE  CompileBody(g, stmts, at, ctx) = CompileBody(h, stmts, at, ctx)
<1>1. [k \in DOMAIN stmts |-> g[stmts[k]][Append(at, k)][ctx]]
        = [k \in DOMAIN stmts |-> h[stmts[k]][Append(at, k)][ctx]]
  OBVIOUS
<1>2. QED
  BY <1>1 DEF CompileBody

LEMMA SameIf ==
  ASSUME NEW g, NEW h, NEW s, s.kind = "if", AgreeInside(g, h, s), NEW at, NEW ctx
  PROVE  CompileIf(g, s, at, ctx) = CompileIf(h, s, at, ctx)
<1>1. /\ s.orelse \in Blocks(s)
      /\ \A i \in DOMAIN s.arms : s.arms[i].body \in Blocks(s)
  BY DEF Blocks
<1>2. \A p, c : CompileBody(g, s.orelse, p, c) = CompileBody(h, s.orelse, p, c)
  BY <1>1, SameBody DEF AgreeInside
<1>3. \A i \in DOMAIN s.arms : \A p, c :
        CompileBody(g, s.arms[i].body, p, c) = CompileBody(h, s.arms[i].body, p, c)
  <2>1. TAKE i \in DOMAIN s.arms
  <2>2. PICK block \in Blocks(s) : block = s.arms[i].body
    BY <1>1
  <2>3. \A k \in DOMAIN block : g[block[k]] = h[block[k]]
    BY DEF AgreeInside
  <2>4. \A p, c : CompileBody(g, block, p, c) = CompileBody(h, block, p, c)
    BY <2>3, SameBody
  <2>5. QED
    BY <2>2, <2>4
<1>4. QED
  BY <1>2, <1>3 DEF CompileIf

LEMMA SameLoops ==
  ASSUME NEW g, NEW h, NEW s, s.kind \in {"while", "for"}, AgreeInside(g, h, s),
         NEW at, NEW ctx
  PROVE  /\ CompileWhile(g, s, at, ctx) = CompileWhile(h, s, at, ctx)
         /\ CompileFor(g, s, at, ctx) = CompileFor(h, s, at, ctx)
<1>1. s.body \in Blocks(s)
  BY DEF Blocks
<1>2. \A p, c : CompileBody(g, s.body, p, c) = CompileBody(h, s.body, p, c)
  BY <1>1, SameBody DEF AgreeInside
<1>3. QED
  BY <1>2 DEF CompileWhile, CompileFor

LEMMA SameTry ==
  ASSUME NEW g, NEW h, NEW s, s.kind = "try", AgreeInside(g, h, s), NEW at, NEW ctx
  PROVE  CompileTry(g, s, at, ctx) = CompileTry(h, s, at, ctx)
<1>1. /\ s.body \in Blocks(s) /\ s.finally \in Blocks(s)
      /\ \A i \in DOMAIN s.excepts : s.excepts[i].body \in Blocks(s)
  BY DEF Blocks
<1>2. \A p, c : /\ CompileBody(g, s.body, p, c) = CompileBody(h, s.body, p, c)
                /\ CompileBody(g, s.finally, p, c) = CompileBody(h, s.finally, p, c)
  BY <1>1, SameBody DEF AgreeInside
<1>3. \A i \in DOMAIN s.excepts : \A p, c :
        CompileBody(g, s.excepts[i].body, p, c) = CompileBody(h, s.excepts[i].body, p, c)
  <2>1. TAKE i \in DOMAIN s.excepts
  <2>2. PICK block \in Blocks(s) : block = s.excepts[i].body
    BY <1>1
  <2>3. \A k \in DOMAIN block : g[block[k]] = h[block[k]]
    BY DEF AgreeInside
  <2>4. \A p, c : CompileBody(g, block, p, c) = CompileBody(h, block, p, c)
    BY <2>3, SameBody
  <2>5. QED
    BY <2>2, <2>4
<1> DEFINE inner == [ctx EXCEPT !.inTry = TRUE, !.excepts = Id(at, "excepts")]
           Block(f, i) ==
             LET p == Append(at, i + 1)
             IN <<[op |-> "match", of |-> Id(at, "exception"),
                   types |-> s.excepts[i].types, into |-> Value(p)]>>
                  \o IfBlock(Id(p, "except"), Value(p), FALSE,
                             CompileBody(f, s.excepts[i].body, p, inner)
                               \o Goto(Id(at, "finally")))
<1>4. \A i \in DOMAIN s.excepts : Block(g, i) = Block(h, i)
  BY <1>3
<1>5. [i \in DOMAIN s.excepts |-> Block(g, i)] = [i \in DOMAIN s.excepts |-> Block(h, i)]
  <2> HIDE DEF Block
  <2>1. QED
    BY <1>4
<1>6. QED
  BY <1>2, <1>5 DEF CompileTry, TryBlocks

(* The code of a statement depends on the code of the statements in it.    *)
LEMMA SameCode ==
  ASSUME NEW g, NEW h, NEW s, AgreeInside(g, h, s)
  PROVE  CodeOf(g, s) = CodeOf(h, s)
<1>1. ASSUME NEW at, NEW ctx PROVE Compile(g, s, at, ctx) = Compile(h, s, at, ctx)
  <2>1. s.kind = "if" => CompileIf(g, s, at, ctx) = CompileIf(h, s, at, ctx)
    BY SameIf
  <2>2. s.kind \in {"while", "for"} =>
          /\ CompileWhile(g, s, at, ctx) = CompileWhile(h, s, at, ctx)
          /\ CompileFor(g, s, at, ctx) = CompileFor(h, s, at, ctx)
    BY SameLoops
  <2>3. s.kind = "try" => CompileTry(g, s, at, ctx) = CompileTry(h, s, at, ctx)
    BY SameTry
  <2>4. QED
    BY <2>1, <2>2, <2>3 DEF Compile
<1>2. QED
  BY <1>1 DEF CodeOf

Below(n) == {s \in AnyStatement : Depth[s] < n}

(* Compiled agrees with the recursion for the statements below a depth.    *)
CompiledBelow(f, n) == f = [s \in Below(n) |-> CodeOf(f, s)]

(* The statements inside a statement are statements, and less deep.        *)
LEMMA InsideBelow ==
  ASSUME NEW s \in AnyStatement, NEW block \in Blocks(s), NEW k \in DOMAIN block
  PROVE  /\ block[k] \in AnyStatement
         /\ Depth[block[k]] \in Nat /\ Depth[s] \in Nat
         /\ Depth[block[k]] < Depth[s]
<1>1. PICK place \in Place : s \in Statement[place]
  BY DEF AnyStatement
<1>2. block \in Seq(Statement[Within(s, place)]) /\ Depth[block[k]] < Depth[s]
  BY <1>1, ProgramsAssumption
<1>3. Within(s, place) \in Place
  BY DEF Within, Place
<1>4. block[k] \in Statement[Within(s, place)]
  BY <1>2
<1>5. block[k] \in AnyStatement
  BY <1>3, <1>4 DEF AnyStatement
<1>6. QED
  BY <1>2, <1>5, ProgramsAssumption

LEMMA CompiledAt ==
  ASSUME NEW f, NEW n, CompiledBelow(f, n), NEW s \in Below(n)
  PROVE  f[s] = CodeOf(f, s)
<1> DEFINE e == [t \in Below(n) |-> CodeOf(f, t)]
<1>1. f = e
  BY DEF CompiledBelow
<1>2. e[s] = CodeOf(f, s)
  OBVIOUS
<1> HIDE DEF e
<1>3. QED
  BY <1>1, <1>2

LEMMA CompiledOneMore ==
  ASSUME NEW n \in Nat, NEW f, CompiledBelow(f, n)
  PROVE  \E g : CompiledBelow(g, n + 1)
<1> DEFINE g == [s \in Below(n + 1) |-> CodeOf(f, s)]
<1>1. ASSUME NEW s \in Below(n + 1) PROVE CodeOf(f, s) = CodeOf(g, s)
  <2>1. ASSUME NEW block \in Blocks(s), NEW k \in DOMAIN block
        PROVE  f[block[k]] = g[block[k]]
    <3>1. s \in AnyStatement /\ Depth[s] < n + 1
      BY DEF Below
    <3>2. block[k] \in Below(n) /\ block[k] \in Below(n + 1)
      BY <3>1, InsideBelow DEF Below
    <3>3. g[block[k]] = CodeOf(f, block[k])
      BY <3>2
    <3>4. f[block[k]] = CodeOf(f, block[k])
      BY <3>2, CompiledAt
    <3>5. QED
      BY <3>3, <3>4
  <2> HIDE DEF g
  <2>2. AgreeInside(f, g, s)
    BY <2>1 DEF AgreeInside
  <2>3. QED
    BY <2>2, SameCode
<1>2. g = [s \in Below(n + 1) |-> CodeOf(g, s)]
  BY <1>1
<1> HIDE DEF g
<1>3. CompiledBelow(g, n + 1)
  BY <1>2 DEF CompiledBelow
<1>4. QED
  BY <1>3

LEMMA CompiledExists == \A n \in Nat : \E f : CompiledBelow(f, n)
<1> DEFINE S == {n \in Nat : \E f : CompiledBelow(f, n)}
<1>1. 0 \in S
  <2>1. Below(0) = {}
    BY ProgramsAssumption DEF Below
  <2>2. CompiledBelow([s \in {} |-> <<>>], 0)
    BY <2>1 DEF CompiledBelow
  <2>3. QED
    BY <2>2
<1>2. \A n \in Nat : n \in S => n + 1 \in S
  BY CompiledOneMore
<1> HIDE DEF S
<1>3. \A n \in Nat : n \in S
  BY <1>1, <1>2, InductionOnNat
<1>4. QED
  BY <1>3 DEF S

LEMMA CompiledAgree ==
  ASSUME NEW n \in Nat, NEW m \in Nat, NEW f, NEW g,
         CompiledBelow(f, n), CompiledBelow(g, m)
  PROVE  \A s \in Below(n) \cap Below(m) : f[s] = g[s]
<1> DEFINE S == {d \in Nat : \A s \in Below(n) \cap Below(m) : Depth[s] < d => f[s] = g[s]}
<1>1. 0 \in S
  BY ProgramsAssumption DEF Below
<1>2. ASSUME NEW d \in Nat, d \in S PROVE d + 1 \in S
  <2>1. SUFFICES ASSUME NEW s \in Below(n) \cap Below(m), Depth[s] < d + 1
                 PROVE  f[s] = g[s]
    OBVIOUS
  <2>2. s \in AnyStatement /\ Depth[s] < n /\ Depth[s] < m
    BY DEF Below
  <2>3. ASSUME NEW block \in Blocks(s), NEW k \in DOMAIN block
        PROVE  f[block[k]] = g[block[k]]
    <3>1. /\ block[k] \in AnyStatement /\ Depth[block[k]] \in Nat /\ Depth[s] \in Nat
          /\ Depth[block[k]] < Depth[s]
      BY <2>2, InsideBelow
    <3>2. block[k] \in Below(n) \cap Below(m) /\ Depth[block[k]] < d
      BY <2>1, <2>2, <3>1 DEF Below
    <3>3. QED
      BY <1>2, <3>2
  <2>4. CodeOf(f, s) = CodeOf(g, s)
    BY <2>3, SameCode DEF AgreeInside
  <2>5. f[s] = CodeOf(f, s) /\ g[s] = CodeOf(g, s)
    BY CompiledAt
  <2>6. QED
    BY <2>4, <2>5
<1> HIDE DEF S
<1>3. \A d \in Nat : d \in S
  BY <1>1, <1>2, InductionOnNat
<1>4. \A s \in Below(n) \cap Below(m) : n \in S /\ Depth[s] < n
  BY <1>3 DEF Below
<1>5. QED
  BY <1>4 DEF S

(* CompileStatement is defined: it satisfies its own recursion.            *)
LEMMA CompileStatementIs ==
  \A s \in AnyStatement : CompileStatement[s] = CodeOf(CompileStatement, s)
<1> DEFINE upTo(n) == CHOOSE f : CompiledBelow(f, n)
           F == [s \in AnyStatement |-> upTo(Depth[s] + 1)[s]]
<1>1. \A n \in Nat : CompiledBelow(upTo(n), n)
  BY CompiledExists
<1> HIDE DEF upTo
<1>2. ASSUME NEW s \in AnyStatement PROVE F[s] = CodeOf(F, s)
  <2> DEFINE n == Depth[s] + 1
  <2>1. Depth[s] \in Nat /\ n \in Nat /\ s \in Below(n)
    BY ProgramsAssumption DEF Below
  <2>2. F[s] = CodeOf(upTo(n), s)
    BY <1>1, <2>1, CompiledAt
  <2>3. ASSUME NEW block \in Blocks(s), NEW k \in DOMAIN block
        PROVE  upTo(n)[block[k]] = F[block[k]]
    <3> DEFINE t == block[k]
               m == Depth[t] + 1
    <3>1. t \in AnyStatement /\ Depth[t] \in Nat /\ Depth[t] < Depth[s]
      BY InsideBelow
    <3>2. F[t] = upTo(m)[t]
      BY <3>1
    <3>3. m \in Nat /\ t \in Below(m) \cap Below(n)
      BY <2>1, <3>1 DEF Below
    <3> HIDE DEF t, m, n, F
    <3>4. CompiledBelow(upTo(m), m) /\ CompiledBelow(upTo(n), n)
      BY <1>1, <2>1, <3>3
    <3>5. upTo(m)[t] = upTo(n)[t]
      BY <2>1, <3>3, <3>4, CompiledAgree
    <3>6. QED
      BY <3>2, <3>5 DEF t
  <2> HIDE DEF F, n
  <2>4. CodeOf(upTo(n), s) = CodeOf(F, s)
    BY <2>3, SameCode DEF AgreeInside
  <2>5. QED
    BY <2>2, <2>4
<1>3. F = [s \in AnyStatement |-> CodeOf(F, s)]
  <2> DEFINE G == [s \in AnyStatement |-> CodeOf(F, s)]
  <2>1. \A s \in AnyStatement : F[s] = G[s]
    BY <1>2
  <2>2. F = G
    BY <2>1
  <2>3. QED
    BY <2>2
<1> HIDE DEF F
<1> DEFINE C == CHOOSE f : f = [s \in AnyStatement |-> CodeOf(f, s)]
<1>4. C = [s \in AnyStatement |-> CodeOf(C, s)]
  BY <1>3
<1>5. CompileStatement = C
  BY DEF CompileStatement, CodeOf
<1> HIDE DEF C
<1> DEFINE G == [s \in AnyStatement |-> CodeOf(C, s)]
<1>6. C = G /\ \A s \in AnyStatement : G[s] = CodeOf(C, s)
  BY <1>4
<1> HIDE DEF G
<1>7. QED
  BY <1>5, <1>6

-----------------------------------------------------------------------------
(* Sequences of instructions                                               *)

Elements(c) == {c[i] : i \in DOMAIN c}
IsCode(c) == c \in Seq(Elements(c))

LEMMA CodeOfElements ==
  ASSUME NEW c, IsCode(c)
  PROVE  /\ Len(c) \in Nat /\ DOMAIN c = 1 .. Len(c)
         /\ \A S : Elements(c) \subseteq S => c \in Seq(S)
<1>1. Len(c) \in Nat /\ DOMAIN c = 1 .. Len(c)
  BY DEF IsCode
<1>2. c = [i \in 1 .. Len(c) |-> c[i]]
  BY DEF IsCode
<1>3. ASSUME NEW S, Elements(c) \subseteq S PROVE c \in Seq(S)
  <2>1. \A i \in 1 .. Len(c) : c[i] \in S
    BY <1>1, <1>3 DEF Elements
  <2>2. QED
    BY <1>1, <1>2, <2>1
<1>4. QED
  BY <1>1, <1>3

LEMMA SequencesAreCode ==
  ASSUME NEW S, NEW c \in Seq(S)
  PROVE  IsCode(c)
<1>1. Len(c) \in Nat /\ DOMAIN c = 1 .. Len(c) /\ c = [i \in 1 .. Len(c) |-> c[i]]
  OBVIOUS
<1>2. \A i \in 1 .. Len(c) : c[i] \in Elements(c)
  BY <1>1 DEF Elements
<1> DEFINE E == Elements(c)
<1> HIDE DEF E
<1>3. c \in Seq(E)
  BY <1>1, <1>2 DEF E
<1>4. QED
  BY <1>3 DEF IsCode, E

(* What the places of two pieces of code are in the code of both.          *)
Joined(c, d, e) ==
  /\ Len(c) \in Nat /\ Len(d) \in Nat
  /\ DOMAIN c = 1 .. Len(c) /\ DOMAIN d = 1 .. Len(d)
  /\ Len(e) = Len(c) + Len(d)
  /\ DOMAIN e = 1 .. Len(c) + Len(d)
  /\ \A i \in 1 .. Len(c) : i \in DOMAIN e /\ e[i] = c[i]
  /\ \A i \in 1 .. Len(d) : Len(c) + i \in DOMAIN e /\ e[Len(c) + i] = d[i]
  /\ \A i \in DOMAIN e : i \in 1 .. Len(c) \/ \E k \in 1 .. Len(d) : i = Len(c) + k

LEMMA JoinedCode ==
  ASSUME NEW c, NEW d, IsCode(c), IsCode(d)
  PROVE  IsCode(c \o d) /\ Joined(c, d, c \o d)
<1> DEFINE S == Elements(c) \cup Elements(d)
<1>1. c \in Seq(S) /\ d \in Seq(S)
  BY CodeOfElements
<1> HIDE DEF S
<1>2. /\ Len(c) \in Nat /\ Len(d) \in Nat
      /\ DOMAIN c = 1 .. Len(c) /\ DOMAIN d = 1 .. Len(d)
  BY <1>1
<1> DEFINE e == c \o d
           m == Len(c)
           n == Len(d)
<1>3. /\ e \in Seq(S)
      /\ Len(e) = m + n
      /\ \A i \in 1 .. m + n : e[i] = IF i <= m THEN c[i] ELSE d[i - m]
  BY <1>1, ConcatProperties
<1> HIDE DEF e
<1>4. IsCode(e)
  BY <1>3, SequencesAreCode
<1>5. DOMAIN e = 1 .. m + n
  BY <1>3
<1>6. m \in Nat /\ n \in Nat
  BY <1>2
<1> HIDE DEF m, n
<1>7. \A i \in 1 .. m : i \in DOMAIN e /\ e[i] = c[i]
  BY <1>3, <1>5, <1>6
<1>8. ASSUME NEW i \in 1 .. n PROVE m + i \in DOMAIN e /\ e[m + i] = d[i]
  <2>1. PICK j \in 1 .. m + n : j = m + i /\ ~(j <= m) /\ j - m = i
    BY <1>6
  <2>2. e[j] = d[j - m]
    BY <1>3, <2>1
  <2>3. QED
    BY <1>5, <2>1, <2>2
<1>9. \A i \in 1 .. m + n : i \in 1 .. m \/ \E k \in 1 .. n : i = m + k
  <2>1. ASSUME NEW i \in 1 .. m + n, i \notin 1 .. m PROVE \E k \in 1 .. n : i = m + k
    <3>1. i - m \in 1 .. n /\ i = m + (i - m)
      BY <1>6, <2>1
    <3>2. QED
      BY <3>1
  <2>2. QED
    BY <2>1
<1>10. QED
  BY <1>2, <1>3, <1>4, <1>5, <1>7, <1>8, <1>9 DEF e, m, n, Joined

LEMMA JoinedInTurn ==
  ASSUME NEW c, NEW d, NEW e, IsCode(c), IsCode(d), IsCode(e)
  PROVE  (c \o d) \o e = c \o (d \o e)
<1> DEFINE S == Elements(c) \cup Elements(d) \cup Elements(e)
<1>1. c \in Seq(S) /\ d \in Seq(S) /\ e \in Seq(S)
  BY CodeOfElements
<1> HIDE DEF S
<1>2. QED
  BY <1>1, ConcatAssociative

LEMMA EmptyCode ==
  /\ IsCode(<<>>) /\ Len(<<>>) = 0 /\ DOMAIN <<>> = {}
  /\ \A c : IsCode(c) => c \o <<>> = c /\ <<>> \o c = c
<1>1. IsCode(<<>>) /\ Len(<<>>) = 0 /\ DOMAIN <<>> = {}
  BY DEF IsCode
<1>2. ASSUME NEW c, IsCode(c) PROVE c \o <<>> = c /\ <<>> \o c = c
  BY <1>2, ConcatEmptySeq DEF IsCode
<1>3. QED
  BY <1>1, <1>2

LEMMA OneInstruction ==
  ASSUME NEW x
  PROVE  IsCode(<<x>>) /\ Len(<<x>>) = 1 /\ DOMAIN <<x>> = {1} /\ <<x>>[1] = x
<1>1. <<x>> \in Seq({x}) /\ Len(<<x>>) = 1 /\ DOMAIN <<x>> = {1} /\ <<x>>[1] = x
  OBVIOUS
<1>2. QED
  BY <1>1, SequencesAreCode

-----------------------------------------------------------------------------
(* What the code of a statement keeps to                                   *)

(* No return, break or continue leaves a try statement.                    *)
Contained ==
  \A place \in Place : \A s \in Statement[place] :
    /\ s.kind = "return" => ~place.inTry
    /\ s.kind \in {"break", "continue"} => place.loop = "here"

(* The instructions that may leave an exception pending, or find one there;*)
(* the check of the pending exception; how the code leaves where there is  *)
(* one; and where the except blocks begin.                                 *)
Risky == {"print", "raise", "call", "iter", "catch"}
IsCheck(x) == x.op = "if" /\ x.on = GlobalException /\ ~x.negate
Leaves(x) == x.op = "return" \/ (x.op = "goto" /\ x.id.tag = "excepts")
IsHandler(x) == x.op = "label" /\ x.id.tag = "excepts"

MayFollow(x, y) ==
  /\ x.op \in Risky => IsCheck(y)
  /\ IsCheck(x) => Leaves(y)
  /\ IsHandler(x) => y.op = "catch"

Adjoined(c) ==
  \A i \in DOMAIN c :
    (c[i].op \in Risky \/ IsCheck(c[i]) \/ IsHandler(c[i]))
      => i + 1 \in DOMAIN c /\ MayFollow(c[i], c[i + 1])

(* The instruction an instruction jumps to, and what can be jumped to.     *)
Targets(x) ==
  CASE x.op = "goto"     -> {<<"label", x.id>>}
    [] x.op = "break"    -> {<<"endwhile", x.id>>}
    [] x.op = "if"       -> {<<"endif", x.id>>}
    [] x.op = "endwhile" -> {<<"while", x.id>>}
    [] OTHER -> {}

Marks(x) ==
  IF x.op \in {"label", "while", "endif", "endwhile"} THEN {<<x.op, x.id>>} ELSE {}

TargetsOf(c) == UNION {Targets(c[i]) : i \in DOMAIN c}
MarksOf(c) == UNION {Marks(c[i]) : i \in DOMAIN c}

(* The exception state the compiler plans for at a place of a function:    *)
(* the types it set current_excepts to, <<>> where they are the caller's,  *)
(* and what the try statements around remembered, the outermost first.     *)
Mask == {<<>>} \cup {<<types>> : types \in SUBSET Exceptions}
Saved == [old : {id \in IdOf : id.tag = "old"}, mask : Mask]
Plan == [mask : Mask, saved : Seq(Saved)]
AtEntry == [mask |-> <<>>, saved |-> <<>>]

(* What was remembered at a, is remembered at b. *)
Kept(a, b) ==
  /\ a \in Plan
  /\ Len(a.saved) <= Len(b.saved)
  /\ \A k \in 1 .. Len(a.saved) : a.saved[k] = b.saved[k]

(* An instruction x leads from one plan to another; world has the plans at *)
(* the places that can be jumped to.                                       *)
Carries(x, a, b, plans) ==
  /\ CASE x.op = "save" ->
            /\ x.into.tag = "old"
            /\ \A k \in 1 .. Len(a.saved) : a.saved[k].old # x.into
            /\ b.mask = a.mask
            /\ b.saved = Append(a.saved, [old |-> x.into, mask |-> a.mask])
       [] x.op = "excepts" -> b.mask = <<x.types>> /\ b.saved = a.saved
       [] x.op = "restore" -> a.saved = Append(b.saved, [old |-> x.from, mask |-> b.mask])
       [] OTHER -> b = a
  /\ x.op \in {"test", "next", "match", "catch"} => x.into.tag # "old"
  /\ x.op = "call" => x.fn \in Functions
  /\ (x.op = "return" /\ Contained) => a.mask = <<>>
  /\ \A m \in Marks(x) : plans[m[2]] = a
  /\ \A t \in Targets(x) : Kept(plans[t[2]], a) /\ (Contained => plans[t[2]] = a)

Flows(c, plans, g, h) ==
  \E A \in [1 .. Len(c) + 1 -> Plan] :
    /\ A[1] = g /\ A[Len(c) + 1] = h
    /\ \A i \in 1 .. Len(c) : Carries(c[i], A[i], A[i + 1], plans)

LEMMA JoinedAdjoined ==
  ASSUME NEW c, NEW d, IsCode(c), IsCode(d), Adjoined(c), Adjoined(d)
  PROVE  Adjoined(c \o d)
<1> DEFINE e == c \o d
           Needs(x) == x.op \in Risky \/ IsCheck(x) \/ IsHandler(x)
<1>0. Joined(c, d, e)
  BY JoinedCode
<1> HIDE DEF e
<1>1. /\ Len(c) \in Nat /\ Len(d) \in Nat
      /\ DOMAIN c = 1 .. Len(c) /\ DOMAIN d = 1 .. Len(d)
      /\ \A i \in 1 .. Len(c) : i \in DOMAIN e /\ e[i] = c[i]
      /\ \A i \in 1 .. Len(d) : Len(c) + i \in DOMAIN e /\ e[Len(c) + i] = d[i]
      /\ \A i \in DOMAIN e : i \in 1 .. Len(c) \/ \E k \in 1 .. Len(d) : i = Len(c) + k
  BY <1>0 DEF Joined
<1>2. ASSUME NEW i \in DOMAIN e, Needs(e[i]) PROVE i + 1 \in DOMAIN e /\ MayFollow(e[i], e[i + 1])
  <2> HIDE DEF Needs
  <2>1. CASE i \in 1 .. Len(c)
    <3>1. e[i] = c[i] /\ i \in DOMAIN c
      BY <1>1, <2>1
    <3>2. Needs(c[i])
      BY <1>2, <3>1
    <3>3. i + 1 \in DOMAIN c /\ MayFollow(c[i], c[i + 1])
      BY <3>1, <3>2 DEF Adjoined, Needs
    <3>4. QED
      BY <1>1, <3>1, <3>3
  <2>2. ASSUME NEW k \in 1 .. Len(d), i = Len(c) + k
        PROVE  i + 1 \in DOMAIN e /\ MayFollow(e[i], e[i + 1])
    <3>1. e[i] = d[k] /\ k \in DOMAIN d
      BY <1>1, <2>2
    <3>2. Needs(d[k])
      BY <1>2, <3>1
    <3>3. k + 1 \in DOMAIN d /\ MayFollow(d[k], d[k + 1])
      BY <3>1, <3>2 DEF Adjoined, Needs
    <3>4. PICK m \in 1 .. Len(d) : m = k + 1
      BY <1>1, <3>3
    <3>5. Len(c) + m = i + 1 /\ Len(c) + m \in DOMAIN e /\ e[Len(c) + m] = d[m]
      BY <1>1, <2>2, <3>4
    <3>6. QED
      BY <3>1, <3>3, <3>4, <3>5
  <2>3. QED
    BY <1>1, <2>1, <2>2
<1>3. QED
  BY <1>2 DEF Adjoined, e, Needs

LEMMA JoinedTargets ==
  ASSUME NEW c, NEW d, IsCode(c), IsCode(d)
  PROVE  /\ TargetsOf(c \o d) = TargetsOf(c) \cup TargetsOf(d)
         /\ MarksOf(c \o d) = MarksOf(c) \cup MarksOf(d)
<1> DEFINE e == c \o d
<1>0. Joined(c, d, e)
  BY JoinedCode
<1> HIDE DEF e
<1>1. /\ Len(c) \in Nat /\ Len(d) \in Nat
      /\ DOMAIN c = 1 .. Len(c) /\ DOMAIN d = 1 .. Len(d)
      /\ \A i \in 1 .. Len(c) : i \in DOMAIN e /\ e[i] = c[i]
      /\ \A i \in 1 .. Len(d) : Len(c) + i \in DOMAIN e /\ e[Len(c) + i] = d[i]
      /\ \A i \in DOMAIN e : i \in 1 .. Len(c) \/ \E k \in 1 .. Len(d) : i = Len(c) + k
  BY <1>0 DEF Joined
<1>2. ASSUME NEW i \in DOMAIN e
      PROVE  (\E k \in DOMAIN c : e[i] = c[k]) \/ (\E k \in DOMAIN d : e[i] = d[k])
  BY <1>1
<1>3. \A k \in DOMAIN c : \E i \in DOMAIN e : e[i] = c[k]
  BY <1>1
<1>4. \A k \in DOMAIN d : \E i \in DOMAIN e : e[i] = d[k]
  BY <1>1
<1>5. TargetsOf(e) = TargetsOf(c) \cup TargetsOf(d)
  <2>1. \A t : t \in TargetsOf(e) <=> \E i \in DOMAIN e : t \in Targets(e[i])
    BY DEF TargetsOf
  <2>2. \A t : t \in TargetsOf(c) <=> \E i \in DOMAIN c : t \in Targets(c[i])
    BY DEF TargetsOf
  <2>3. \A t : t \in TargetsOf(d) <=> \E i \in DOMAIN d : t \in Targets(d[i])
    BY DEF TargetsOf
  <2>4. \A t : t \in TargetsOf(e) <=> t \in TargetsOf(c) \/ t \in TargetsOf(d)
    BY <1>2, <1>3, <1>4, <2>1, <2>2, <2>3
  <2>5. QED
    BY <2>4
<1>6. MarksOf(e) = MarksOf(c) \cup MarksOf(d)
  <2>1. \A t : t \in MarksOf(e) <=> \E i \in DOMAIN e : t \in Marks(e[i])
    BY DEF MarksOf
  <2>2. \A t : t \in MarksOf(c) <=> \E i \in DOMAIN c : t \in Marks(c[i])
    BY DEF MarksOf
  <2>3. \A t : t \in MarksOf(d) <=> \E i \in DOMAIN d : t \in Marks(d[i])
    BY DEF MarksOf
  <2>4. \A t : t \in MarksOf(e) <=> t \in MarksOf(c) \/ t \in MarksOf(d)
    BY <1>2, <1>3, <1>4, <2>1, <2>2, <2>3
  <2>5. QED
    BY <2>4
<1>7. QED
  BY <1>5, <1>6 DEF e

LEMMA JoinedFlows ==
  ASSUME NEW c, NEW d, IsCode(c), IsCode(d), NEW V, NEW f, NEW g, NEW h,
         Flows(c, V, f, g), Flows(d, V, g, h)
  PROVE  Flows(c \o d, V, f, h)
<1> DEFINE e == c \o d
           m == Len(c)
           n == Len(d)
<1>1. /\ m \in Nat /\ n \in Nat /\ Len(e) = m + n
      /\ \A i \in 1 .. m : e[i] = c[i]
      /\ \A i \in 1 .. n : e[m + i] = d[i]
  BY JoinedCode DEF Joined
<1>2. PICK A \in [1 .. m + 1 -> Plan] :
        /\ A[1] = f /\ A[m + 1] = g
        /\ \A i \in 1 .. m : Carries(c[i], A[i], A[i + 1], V)
  BY DEF Flows
<1>3. PICK B \in [1 .. n + 1 -> Plan] :
        /\ B[1] = g /\ B[n + 1] = h
        /\ \A i \in 1 .. n : Carries(d[i], B[i], B[i + 1], V)
  BY DEF Flows
<1> HIDE DEF e, m, n
<1> DEFINE C == [i \in 1 .. m + n + 1 |-> IF i <= m THEN A[i] ELSE B[i - m]]
<1>4. C \in [1 .. m + n + 1 -> Plan]
  <2>1. ASSUME NEW i \in 1 .. m + n + 1 PROVE (IF i <= m THEN A[i] ELSE B[i - m]) \in Plan
    <3>1. i <= m => i \in 1 .. m + 1
      BY <1>1
    <3>2. ~(i <= m) => i - m \in 1 .. n + 1
      BY <1>1
    <3>3. QED
      BY <3>1, <3>2
  <2>2. QED
    BY <2>1
<1>5. \A i \in 1 .. m : C[i] = A[i]
  BY <1>1
<1>6. \A i \in 1 .. n + 1 : C[m + i] = B[i]
  <2>1. TAKE i \in 1 .. n + 1
  <2>2. PICK j \in 1 .. m + n + 1 : j = m + i /\ ~(j <= m) /\ j - m = i
    BY <1>1
  <2>3. C[j] = B[j - m]
    BY <2>2
  <2>4. QED
    BY <2>2, <2>3
<1>7. C[m + 1] = A[m + 1]
  <2>1. 1 \in 1 .. n + 1
    BY <1>1
  <2>2. QED
    BY <1>2, <1>3, <1>6, <2>1
<1>8. \A i \in 1 .. m + 1 : C[i] = A[i]
  <2>1. \A i \in 1 .. m + 1 : i \in 1 .. m \/ i = m + 1
    BY <1>1
  <2>2. QED
    BY <1>5, <1>7, <2>1
<1>9. C[1] = f /\ C[m + n + 1] = h
  <2>1. 1 \in 1 .. m + 1
    BY <1>1
  <2>2. PICK j \in 1 .. n + 1 : j = n + 1 /\ m + j = m + n + 1
    BY <1>1
  <2>3. C[m + j] = B[j]
    BY <1>6
  <2>4. C[m + n + 1] = h
    BY <1>3, <2>2, <2>3
  <2>5. QED
    BY <1>2, <1>8, <2>1, <2>4
<1> HIDE DEF C
<1>10. ASSUME NEW i \in 1 .. m + n PROVE Carries(e[i], C[i], C[i + 1], V)
  <2>1. CASE i <= m
    <3>1. i \in 1 .. m /\ i \in 1 .. m + 1 /\ i + 1 \in 1 .. m + 1
      BY <1>1, <2>1
    <3>2. QED
      BY <1>1, <1>2, <1>8, <3>1
  <2>2. CASE ~(i <= m)
    <3>1. PICK k \in 1 .. n : i = m + k
      <4>1. i - m \in 1 .. n /\ i = m + (i - m)
        BY <1>1, <2>2
      <4>2. QED
        BY <4>1
    <3>2. PICK l \in 1 .. n + 1 : l = k + 1 /\ i + 1 = m + l
      BY <1>1, <3>1
    <3>3. k \in 1 .. n + 1
      BY <1>1, <3>1
    <3>4. e[i] = d[k] /\ C[i] = B[k] /\ C[i + 1] = B[l]
      BY <1>1, <1>6, <3>1, <3>2, <3>3
    <3>5. Carries(d[k], B[k], B[l], V)
      BY <1>3, <3>2
    <3>6. QED
      BY <3>4, <3>5
  <2>3. QED
    BY <2>1, <2>2
<1>11. \E A_ \in [1 .. m + n + 1 -> Plan] :
         /\ A_[1] = f /\ A_[m + n + 1] = h
         /\ \A i \in 1 .. m + n : Carries(e[i], A_[i], A_[i + 1], V)
  BY <1>4, <1>9, <1>10
<1>12. QED
  BY <1>1, <1>11 DEF Flows, e

LEMMA OneFlows ==
  ASSUME NEW x, NEW V, NEW g \in Plan, NEW h \in Plan, Carries(x, g, h, V)
  PROVE  Flows(<<x>>, V, g, h)
<1> DEFINE A == [i \in 1 .. 2 |-> IF i = 1 THEN g ELSE h]
<1>1. A \in [1 .. 2 -> Plan] /\ A[1] = g /\ A[2] = h
  OBVIOUS
<1>2. Len(<<x>>) = 1 /\ <<x>>[1] = x
  OBVIOUS
<1>3. \A i \in 1 .. 1 : i = 1 /\ i + 1 = 2
  OBVIOUS
<1> HIDE DEF A
<1>4. \A i \in 1 .. 1 : Carries(<<x>>[i], A[i], A[i + 1], V)
  BY <1>1, <1>2, <1>3
<1>5. 1 + 1 = 2
  OBVIOUS
<1>6. QED
  BY <1>1, <1>2, <1>4, <1>5 DEF Flows

LEMMA EmptyFlows ==
  ASSUME NEW V, NEW h \in Plan
  PROVE  Flows(<<>>, V, h, h)
<1> DEFINE A == [i \in 1 .. 1 |-> h]
<1>1. A \in [1 .. 1 -> Plan] /\ A[1] = h
  OBVIOUS
<1>2. Len(<<>>) = 0 /\ 0 + 1 = 1 /\ 1 .. 0 = {}
  OBVIOUS
<1>3. QED
  BY <1>1, <1>2 DEF Flows

(* A piece of code that leads from one plan to another, and jumps to       *)
(* places in itself or in K.                                               *)
Piece(c, K, plans, g, h) ==
  /\ IsCode(c)
  /\ Adjoined(c)
  /\ TargetsOf(c) \subseteq K \cup MarksOf(c)
  /\ Flows(c, plans, g, h)

Starts(c, x) == 1 \in DOMAIN c /\ c[1] = x

LEMMA PieceJoined ==
  ASSUME NEW c, NEW d, NEW K, NEW V, NEW f, NEW g, NEW h,
         Piece(c, K, V, f, g), Piece(d, K, V, g, h)
  PROVE  /\ Piece(c \o d, K, V, f, h)
         /\ MarksOf(c \o d) = MarksOf(c) \cup MarksOf(d)
         /\ \A x : Starts(c, x) => Starts(c \o d, x)
<1> DEFINE e == c \o d
<1>1. IsCode(c) /\ IsCode(d)
  BY DEF Piece
<1>2. IsCode(e) /\ Joined(c, d, e)
  BY <1>1, JoinedCode
<1>3. Adjoined(e)
  BY <1>1, JoinedAdjoined DEF Piece
<1>4. TargetsOf(e) \subseteq K \cup MarksOf(e)
  <2>1. TargetsOf(e) = TargetsOf(c) \cup TargetsOf(d) /\ MarksOf(e) = MarksOf(c) \cup MarksOf(d)
    BY <1>1, JoinedTargets
  <2>2. TargetsOf(c) \subseteq K \cup MarksOf(c) /\ TargetsOf(d) \subseteq K \cup MarksOf(d)
    BY DEF Piece
  <2>3. QED
    BY <2>1, <2>2
<1>5. Flows(e, V, f, h)
  BY <1>1, JoinedFlows DEF Piece
<1> HIDE DEF e
<1>6. Piece(e, K, V, f, h)
  BY <1>2, <1>3, <1>4, <1>5 DEF Piece
<1>7. ASSUME NEW x, Starts(c, x) PROVE Starts(e, x)
  <2>1. 1 \in 1 .. Len(c) /\ c[1] = x
    BY <1>2, <1>7 DEF Starts, Joined
  <2>2. QED
    BY <1>2, <2>1 DEF Starts, Joined
<1>8. MarksOf(e) = MarksOf(c) \cup MarksOf(d)
  BY <1>1, JoinedTargets DEF e
<1>9. QED
  BY <1>6, <1>7, <1>8 DEF e

LEMMA PieceMore ==
  ASSUME NEW c, NEW K, NEW L, NEW V, NEW g, NEW h, Piece(c, K, V, g, h), K \subseteq L \cup MarksOf(c)
  PROVE  Piece(c, L, V, g, h)
<1>1. TargetsOf(c) \subseteq L \cup MarksOf(c)
  BY DEF Piece
<1>2. QED
  BY <1>1 DEF Piece

LEMMA OneTargets ==
  ASSUME NEW x
  PROVE  TargetsOf(<<x>>) = Targets(x) /\ MarksOf(<<x>>) = Marks(x)
<1> DEFINE c == <<x>>
<1>1. DOMAIN c = {1} /\ c[1] = x
  OBVIOUS
<1> HIDE DEF c
<1>2. TargetsOf(c) = Targets(x) /\ MarksOf(c) = Marks(x)
  BY <1>1 DEF TargetsOf, MarksOf
<1>3. QED
  BY <1>2 DEF c

LEMMA PieceOne ==
  ASSUME NEW x, NEW K, NEW V, NEW g \in Plan, NEW h \in Plan,
         x.op \notin Risky, ~IsCheck(x), ~IsHandler(x),
         Targets(x) \subseteq K, Carries(x, g, h, V)
  PROVE  Piece(<<x>>, K, V, g, h) /\ Starts(<<x>>, x)
<1> DEFINE c == <<x>>
<1>1. IsCode(c) /\ DOMAIN c = {1} /\ c[1] = x
  BY OneInstruction
<1>2. TargetsOf(c) = Targets(x) /\ Flows(c, V, g, h)
  BY OneTargets, OneFlows
<1> HIDE DEF c
<1>3. Adjoined(c)
  BY <1>1 DEF Adjoined
<1>4. Piece(c, K, V, g, h) /\ Starts(c, x)
  BY <1>1, <1>2, <1>3 DEF Piece, Starts
<1>5. QED
  BY <1>4 DEF c

LEMMA PieceEmpty ==
  ASSUME NEW K, NEW V, NEW h \in Plan
  PROVE  Piece(<<>>, K, V, h, h)
<1> DEFINE c == <<>>
<1>1. IsCode(c) /\ DOMAIN c = {} /\ Flows(c, V, h, h)
  BY EmptyCode, EmptyFlows
<1> HIDE DEF c
<1>2. Adjoined(c) /\ TargetsOf(c) = {}
  BY <1>1 DEF Adjoined, TargetsOf
<1>3. Piece(c, K, V, h, h)
  BY <1>1, <1>2 DEF Piece
<1>4. QED
  BY <1>3 DEF c

(* An instruction that needs a certain one behind it. *)
LEMMA PieceAhead ==
  ASSUME NEW x, NEW y, NEW d, NEW K, NEW V, NEW f \in Plan, NEW g \in Plan, NEW h,
         Starts(d, y), MayFollow(x, y),
         Targets(x) \subseteq K, Carries(x, f, g, V), Piece(d, K, V, g, h)
  PROVE  Piece(<<x>> \o d, K, V, f, h) /\ Starts(<<x>> \o d, x)
<1> DEFINE c == <<x>>
           e == c \o d
<1>1. IsCode(c) /\ Len(c) = 1 /\ DOMAIN c = {1} /\ c[1] = x
  BY OneInstruction
<1>2. TargetsOf(c) = Targets(x) /\ Flows(c, V, f, g)
  BY OneTargets, OneFlows
<1>3. IsCode(d) /\ Flows(d, V, g, h) /\ TargetsOf(d) \subseteq K \cup MarksOf(d) /\ Adjoined(d)
  BY DEF Piece
<1> HIDE DEF c
<1>4. /\ IsCode(e) /\ Joined(c, d, e) /\ Flows(e, V, f, h)
      /\ TargetsOf(e) = TargetsOf(c) \cup TargetsOf(d)
      /\ MarksOf(e) = MarksOf(c) \cup MarksOf(d)
  BY <1>1, <1>2, <1>3, JoinedCode, JoinedTargets, JoinedFlows
<1>5. TargetsOf(e) \subseteq K \cup MarksOf(e)
  BY <1>2, <1>3, <1>4
<1> HIDE DEF e
<1>6. /\ Len(d) \in Nat /\ DOMAIN d = 1 .. Len(d)
      /\ 1 \in DOMAIN e /\ e[1] = x
      /\ \A k \in DOMAIN d : 1 + k \in DOMAIN e /\ e[1 + k] = d[k]
      /\ \A i \in DOMAIN e : i = 1 \/ \E k \in DOMAIN d : i = 1 + k
  <2>1. /\ Len(d) \in Nat /\ DOMAIN d = 1 .. Len(d)
        /\ \A i \in 1 .. 1 : i \in DOMAIN e /\ e[i] = c[i]
        /\ \A i \in 1 .. Len(d) : 1 + i \in DOMAIN e /\ e[1 + i] = d[i]
        /\ \A i \in DOMAIN e : i \in 1 .. 1 \/ \E k \in 1 .. Len(d) : i = 1 + k
    <3> DEFINE m == Len(c)
               n == Len(d)
    <3>1. /\ n \in Nat /\ DOMAIN d = 1 .. n
          /\ \A i \in 1 .. m : i \in DOMAIN e /\ e[i] = c[i]
          /\ \A i \in 1 .. n : m + i \in DOMAIN e /\ e[m + i] = d[i]
          /\ \A i \in DOMAIN e : i \in 1 .. m \/ \E k \in 1 .. n : i = m + k
      BY <1>4 DEF Joined
    <3>2. m = 1
      BY <1>1
    <3> HIDE DEF m, n
    <3>3. QED
      BY <3>1, <3>2 DEF n
  <2>2. 1 \in 1 .. 1 /\ \A i \in 1 .. 1 : i = 1
    OBVIOUS
  <2>3. QED
    BY <1>1, <2>1, <2>2, Zenon
<1>7. Adjoined(e)
  <2>1. 1 + 1 \in DOMAIN e /\ MayFollow(e[1], e[1 + 1])
    BY <1>6 DEF Starts
  <2> DEFINE Needs(z) == z.op \in Risky \/ IsCheck(z) \/ IsHandler(z)
  <2>2. ASSUME NEW k \in DOMAIN d, Needs(e[1 + k])
        PROVE  1 + k + 1 \in DOMAIN e /\ MayFollow(e[1 + k], e[1 + k + 1])
    <3>1. e[1 + k] = d[k] /\ Needs(d[k])
      BY <1>6, <2>2
    <3>2. k + 1 \in DOMAIN d /\ MayFollow(d[k], d[k + 1])
      BY <1>3, <3>1 DEF Adjoined
    <3> HIDE DEF Needs
    <3>3. PICK m \in DOMAIN d : m = k + 1
      BY <3>2
    <3>4. 1 + m = 1 + k + 1 /\ 1 + m \in DOMAIN e /\ e[1 + m] = d[m]
      BY <1>6, <3>3
    <3>5. QED
      BY <3>1, <3>2, <3>3, <3>4
  <2> HIDE DEF Needs
  <2>3. ASSUME NEW i \in DOMAIN e, Needs(e[i])
        PROVE  i + 1 \in DOMAIN e /\ MayFollow(e[i], e[i + 1])
    <3>1. CASE i = 1
      BY <2>1, <3>1
    <3>2. ASSUME NEW k \in DOMAIN d, i = 1 + k
          PROVE  i + 1 \in DOMAIN e /\ MayFollow(e[i], e[i + 1])
      BY <2>2, <2>3, <3>2
    <3>3. QED
      BY <1>6, <3>1, <3>2
  <2>4. QED
    BY <2>3 DEF Adjoined, Needs
<1>8. Piece(e, K, V, f, h) /\ Starts(e, x)
  BY <1>4, <1>5, <1>6, <1>7 DEF Piece, Starts
<1>9. QED
  BY <1>8 DEF e, c

-----------------------------------------------------------------------------
(* The pieces that statements are compiled to                              *)

(* The identifiers of a statement's own.                                   *)
Own(p) == {id \in IdOf : id.at = p}
OwnAre(plans, p, h) == \A id \in Own(p) : plans[id] = h

(* Where the check of the pending exception leads, in a context.           *)
Surrounded(ctx, K, plans, h) ==
  /\ ctx \in Context
  /\ ctx.inTry => /\ ctx.excepts.tag = "excepts"
                  /\ <<"label", ctx.excepts>> \in K
                  /\ plans[ctx.excepts] = h
  /\ ~ctx.inTry => h.mask = <<>>

LEMMA OwnIds ==
  ASSUME NEW V, NEW p \in Seq(Nat), NEW h, OwnAre(V, p, h), NEW tag \in Tags
  PROVE  V[Id(p, tag)] = h
<1>1. Id(p, tag) \in Own(p)
  BY DEF Id, Own, IdOf
<1>2. QED
  BY <1>1 DEF OwnAre

LEMMA KeptItself ==
  ASSUME NEW h \in Plan
  PROVE  Kept(h, h)
<1>1. Len(h.saved) \in Nat
  BY DEF Plan
<1>2. QED
  BY <1>1 DEF Kept

LEMMA SurroundedMore ==
  ASSUME NEW ctx, NEW K, NEW L, NEW V, NEW h, Surrounded(ctx, K, V, h), K \subseteq L
  PROVE  Surrounded(ctx, L, V, h)
BY DEF Surrounded

(* Instructions that change nothing of the plan. *)
LEMMA CarriesOn ==
  ASSUME NEW x, NEW V, NEW h \in Plan,
         x.op \in {"print", "raise", "call", "iter", "catch", "test", "next", "match",
                   "label", "while", "endif", "endwhile", "goto", "break", "if", "return"},
         x.op \in {"test", "next", "match", "catch"} => x.into.tag # "old",
         x.op = "call" => x.fn \in Functions,
         (x.op = "return" /\ Contained) => h.mask = <<>>,
         x.op \in {"label", "while", "endif", "endwhile", "goto", "break", "if"} => V[x.id] = h
  PROVE  Carries(x, h, h, V)
<1>1. \A m \in Marks(x) : V[m[2]] = h
  BY DEF Marks
<1>2. \A t \in Targets(x) : V[t[2]] = h
  BY DEF Targets
<1>3. \A t \in Targets(x) : Kept(V[t[2]], h)
  BY <1>2, KeptItself
<1>4. x.op \notin {"save", "excepts", "restore"}
  OBVIOUS
<1>5. QED
  BY <1>1, <1>2, <1>3, <1>4 DEF Carries

(* An instruction at which nothing is left pending. *)
LEMMA PieceSafe ==
  ASSUME NEW x, NEW K, NEW V, NEW h \in Plan,
         x.op \in {"test", "next", "match", "while", "endif", "endwhile", "goto", "break",
                   "return", "label", "if"},
         x.op = "label" => x.id.tag # "excepts",
         x.op = "if" => x.on # GlobalException \/ x.negate,
         x.op \in {"test", "next", "match"} => x.into.tag # "old",
         (x.op = "return" /\ Contained) => h.mask = <<>>,
         x.op \in {"label", "while", "endif", "endwhile", "goto", "break", "if"} => V[x.id] = h,
         Targets(x) \subseteq K
  PROVE  Piece(<<x>>, K, V, h, h) /\ Starts(<<x>>, x)
<1>1. Carries(x, h, h, V)
  BY CarriesOn
<1>2. x.op \notin Risky /\ ~IsCheck(x) /\ ~IsHandler(x)
  BY DEF Risky, IsCheck, IsHandler
<1>3. QED
  BY <1>1, <1>2, PieceOne

LEMMA PieceCheck ==
  ASSUME NEW id, NEW ctx, NEW K, NEW V, NEW h \in Plan,
         Surrounded(ctx, K, V, h), V[id] = h
  PROVE  /\ Piece(CheckExceptions(id, ctx), K, V, h, h)
         /\ \E y : IsCheck(y) /\ Starts(CheckExceptions(id, ctx), y)
<1> DEFINE x == [op |-> "if", id |-> id, on |-> GlobalException, negate |-> FALSE]
           y == IF ctx.inTry THEN [op |-> "goto", id |-> ctx.excepts] ELSE [op |-> "return"]
           z == [op |-> "endif", id |-> id]
           L == K \cup {<<"endif", id>>}
<1>1. CheckExceptions(id, ctx) = (<<x>> \o <<y>>) \o <<z>>
  BY DEF CheckExceptions, IfBlock, Goto, ReturnInst
<1>2. x.op = "if" /\ x.id = id /\ IsCheck(x) /\ Targets(x) \subseteq L
  BY DEF IsCheck, Targets
<1>3. z.op = "endif" /\ z.id = id /\ Targets(z) = {} /\ Marks(z) = {<<"endif", id>>}
  BY DEF Targets, Marks
<1>4. Piece(<<y>>, L, V, h, h) /\ Starts(<<y>>, y) /\ Leaves(y)
  <2>1. CASE ctx.inTry
    <3>1. y = [op |-> "goto", id |-> ctx.excepts]
      BY <2>1
    <3> HIDE DEF y
    <3>2. y.op = "goto" /\ y.id = ctx.excepts /\ Targets(y) = {<<"label", ctx.excepts>>}
      BY <3>1 DEF Targets
    <3>3. Targets(y) \subseteq L /\ V[y.id] = h /\ Leaves(y)
      BY <2>1, <3>2 DEF Surrounded, Leaves
    <3> HIDE DEF L
    <3>4. QED
      BY <3>2, <3>3, PieceSafe
  <2>2. CASE ~ctx.inTry
    <3>1. y = [op |-> "return"]
      BY <2>2
    <3> HIDE DEF y
    <3>2. y.op = "return" /\ Targets(y) = {} /\ Leaves(y) /\ h.mask = <<>>
      BY <2>2, <3>1 DEF Targets, Surrounded, Leaves
    <3> HIDE DEF L
    <3>3. QED
      BY <3>2, PieceSafe
  <2>3. QED
    BY <2>1, <2>2
<1> HIDE DEF x, y, z, L
<1>5. MayFollow(x, y)
  BY <1>2, <1>4 DEF MayFollow, Risky, IsHandler
<1>6. Carries(x, h, h, V)
  BY <1>2, CarriesOn
<1>7. Piece(<<x>> \o <<y>>, L, V, h, h) /\ Starts(<<x>> \o <<y>>, x)
  BY <1>2, <1>4, <1>5, <1>6, PieceAhead
<1>8. Piece(<<z>>, L, V, h, h)
  BY <1>3, PieceSafe
<1> DEFINE c == <<x>> \o <<y>>
           d == <<z>>
<1>9. IsCode(c) /\ IsCode(d) /\ MarksOf(d) = Marks(z)
  BY <1>7, <1>8, OneTargets DEF Piece
<1>10. MarksOf(c \o d) = MarksOf(c) \cup MarksOf(d)
  BY <1>9, JoinedTargets
<1>11. Piece(c \o d, L, V, h, h) /\ Starts(c \o d, x)
  BY <1>7, <1>8, PieceJoined
<1> HIDE DEF c, d
<1>12. L \subseteq K \cup MarksOf(c \o d)
  BY <1>3, <1>9, <1>10 DEF L
<1>13. Piece(c \o d, K, V, h, h)
  BY <1>11, <1>12, PieceMore
<1>14. QED
  BY <1>1, <1>2, <1>11, <1>13 DEF c, d

LEMMA PieceIf ==
  ASSUME NEW id, NEW on, NEW negate, NEW body, NEW K, NEW V, NEW h \in Plan,
         on # GlobalException \/ negate, V[id] = h, Piece(body, K, V, h, h)
  PROVE  Piece(IfBlock(id, on, negate, body), K, V, h, h)
<1> DEFINE x == [op |-> "if", id |-> id, on |-> on, negate |-> negate]
           z == [op |-> "endif", id |-> id]
           L == K \cup {<<"endif", id>>}
           c == <<x>> \o body
           d == <<z>>
<1>1. IfBlock(id, on, negate, body) = c \o d
  BY DEF IfBlock
<1>2. x.op = "if" /\ x.id = id /\ Targets(x) \subseteq L /\ (x.on # GlobalException \/ x.negate)
  BY DEF Targets
<1>3. z.op = "endif" /\ z.id = id /\ Targets(z) = {} /\ Marks(z) = {<<"endif", id>>}
  BY DEF Targets, Marks
<1>4. Piece(body, L, V, h, h)
  BY PieceMore
<1> HIDE DEF x, z, L
<1>5. Piece(<<x>>, L, V, h, h)
  BY <1>2, PieceSafe
<1>6. Piece(d, L, V, h, h) /\ MarksOf(d) = Marks(z)
  BY <1>3, PieceSafe, OneTargets
<1>7. Piece(c, L, V, h, h)
  BY <1>4, <1>5, PieceJoined
<1> HIDE DEF c, d
<1>8. Piece(c \o d, L, V, h, h)
  BY <1>6, <1>7, PieceJoined
<1>9. MarksOf(c \o d) = MarksOf(c) \cup MarksOf(d)
  BY <1>6, <1>7, JoinedTargets DEF Piece
<1>10. L \subseteq K \cup MarksOf(c \o d)
  BY <1>3, <1>6, <1>9 DEF L
<1>11. QED
  BY <1>1, <1>8, <1>10, PieceMore

LEMMA PieceUnsafe ==
  ASSUME NEW x, NEW at \in Seq(Nat), NEW ctx, NEW K, NEW V, NEW h \in Plan,
         x.op \in Risky, x.op = "catch" => x.into.tag # "old",
         x.op = "call" => x.fn \in Functions,
         Surrounded(ctx, K, V, h), OwnAre(V, at, h)
  PROVE  /\ Piece(Unsafe(x, at, ctx), K, V, h, h)
         /\ Starts(Unsafe(x, at, ctx), x)
<1> DEFINE d == CheckExceptions(Id(at, x.op), ctx)
<1>1. x.op \in Tags
  BY DEF Risky, Tags
<1>2. V[Id(at, x.op)] = h
  BY <1>1, OwnIds
<1>3. Piece(d, K, V, h, h) /\ \E y : IsCheck(y) /\ Starts(d, y)
  BY <1>2, PieceCheck
<1> HIDE DEF d
<1>4. PICK y : IsCheck(y) /\ Starts(d, y)
  BY <1>3
<1>5. MayFollow(x, y)
  BY <1>4 DEF MayFollow, IsCheck, IsHandler, Risky
<1>6. Carries(x, h, h, V)
  BY CarriesOn DEF Risky
<1>7. Targets(x) = {}
  BY DEF Targets, Risky
<1>8. Piece(<<x>> \o d, K, V, h, h) /\ Starts(<<x>> \o d, x)
  BY <1>3, <1>4, <1>5, <1>6, <1>7, PieceAhead
<1>9. QED
  BY <1>8 DEF Unsafe, d

LEMMA PieceRaise ==
  ASSUME NEW x, NEW at \in Seq(Nat), NEW ctx, NEW K, NEW V, NEW h \in Plan,
         Surrounded(ctx, K, V, h), OwnAre(V, at, h)
  PROVE  Piece(RaiseInst(x, at, ctx), K, V, h, h)
<1> DEFINE i == [op |-> "raise", exc |-> x]
<1>1. i.op = "raise" /\ i.op \in Risky
  BY DEF Risky
<1> HIDE DEF i
<1>2. Piece(Unsafe(i, at, ctx), K, V, h, h)
  BY <1>1, PieceUnsafe
<1>3. QED
  BY <1>2 DEF RaiseInst, i

LEMMA PieceEvaluated ==
  ASSUME NEW c, NEW at \in Seq(Nat), NEW ctx, NEW K, NEW V, NEW h \in Plan,
         Surrounded(ctx, K, V, h), OwnAre(V, at, h)
  PROVE  Piece(Evaluated(c, at, ctx), K, V, h, h)
<1> DEFINE i == [op |-> "test", into |-> Value(at)]
           r == IF c = Test THEN <<>> ELSE RaiseInst(c, at, ctx)
<1>1. i.op = "test" /\ i.into.tag # "old" /\ Targets(i) = {}
  BY DEF Value, Id, Targets
<1>2. Piece(r, K, V, h, h)
  BY PieceRaise, PieceEmpty
<1> HIDE DEF i, r
<1>3. Piece(<<i>>, K, V, h, h)
  BY <1>1, PieceSafe
<1>4. Piece(r \o <<i>>, K, V, h, h)
  BY <1>2, <1>3, PieceJoined
<1>5. QED
  BY <1>4 DEF Evaluated, i, r

LEMMA PieceGoto ==
  ASSUME NEW id, NEW K, NEW V, NEW h \in Plan, V[id] = h, <<"label", id>> \in K
  PROVE  Piece(Goto(id), K, V, h, h)
<1> DEFINE i == [op |-> "goto", id |-> id]
<1>1. i.op = "goto" /\ i.id = id /\ Targets(i) \subseteq K
  BY DEF Targets
<1> HIDE DEF i
<1>2. Piece(<<i>>, K, V, h, h)
  BY <1>1, PieceSafe
<1>3. QED
  BY <1>2 DEF Goto, i

LEMMA PieceLabel ==
  ASSUME NEW id, NEW K, NEW V, NEW h \in Plan, V[id] = h, id.tag # "excepts"
  PROVE  Piece(Label(id), K, V, h, h) /\ MarksOf(Label(id)) = {<<"label", id>>}
<1> DEFINE i == [op |-> "label", id |-> id]
<1>1. i.op = "label" /\ i.id = id /\ Targets(i) = {} /\ Marks(i) = {<<"label", id>>}
  BY DEF Targets, Marks
<1> HIDE DEF i
<1>2. Piece(<<i>>, K, V, h, h) /\ MarksOf(<<i>>) = {<<"label", id>>}
  BY <1>1, PieceSafe, OneTargets
<1>3. QED
  BY <1>2 DEF Label, i

LEMMA PieceStop ==
  ASSUME NEW at \in Seq(Nat), NEW negate, NEW K, NEW V, NEW h \in Plan,
         OwnAre(V, at, h), <<"endwhile", Id(at, "loop")>> \in K
  PROVE  Piece(StopOn(at, negate), K, V, h, h)
<1> DEFINE i == [op |-> "break", id |-> Id(at, "loop")]
<1>1. V[Id(at, "loop")] = h /\ V[Id(at, "stop")] = h
  BY OwnIds DEF Tags
<1>2. i.op = "break" /\ i.id = Id(at, "loop") /\ Targets(i) \subseteq K
  BY DEF Targets
<1> HIDE DEF i
<1>3. Piece(<<i>>, K, V, h, h)
  BY <1>1, <1>2, PieceSafe
<1>4. Value(at) # GlobalException
  BY DEF Value, GlobalException, Id
<1>5. Piece(IfBlock(Id(at, "stop"), Value(at), negate, <<i>>), K, V, h, h)
  BY <1>1, <1>3, <1>4, PieceIf
<1>6. QED
  BY <1>5 DEF StopOn, LeaveLoop, i

-----------------------------------------------------------------------------
(* Code that keeps to a plan whatever surrounds it                         *)

(* The identifiers of the statements in a statement, by the blocks they    *)
(* are in, and those of a statement with all that is in it.                *)
Inside(p, N) ==
  {id \in IdOf : /\ Len(p) < Len(id.at)
                 /\ \A i \in 1 .. Len(p) : id.at[i] = p[i]
                 /\ id.at[Len(p) + 1] \in N}

Region(p) == Own(p) \cup Inside(p, Nat)

LEMMA InsideParts ==
  ASSUME NEW p, NEW M, NEW N
  PROVE  /\ M \cap N = {} => Inside(p, M) \cap Inside(p, N) = {}
         /\ M \subseteq N => Inside(p, M) \subseteq Inside(p, N)
         /\ Inside(p, M \cup N) = Inside(p, M) \cup Inside(p, N)
         /\ Inside(p, M) \subseteq IdOf
BY DEF Inside

LEMMA OwnApart ==
  ASSUME NEW p \in Seq(Nat), NEW N
  PROVE  Own(p) \cap Inside(p, N) = {}
<1>1. ASSUME NEW id \in Own(p), id \in Inside(p, N) PROVE FALSE
  <2>1. id.at = p /\ Len(p) < Len(id.at)
    BY <1>1 DEF Own, Inside
  <2>2. Len(p) \in Nat
    OBVIOUS
  <2>3. QED
    BY <2>1, <2>2
<1>2. QED
  BY <1>1

LEMMA RegionInside ==
  ASSUME NEW p \in Seq(Nat), NEW k \in Nat
  PROVE  /\ Append(p, k) \in Seq(Nat)
         /\ Region(Append(p, k)) \subseteq Inside(p, {k})
<1> DEFINE q == Append(p, k)
<1>1. /\ q \in Seq(Nat) /\ Len(p) \in Nat /\ Len(q) = Len(p) + 1 /\ q[Len(p) + 1] = k
      /\ \A i \in 1 .. Len(p) : q[i] = p[i]
  BY AppendProperties
<1> HIDE DEF q
<1>2. \A i \in 1 .. Len(p) : i \in 1 .. Len(q)
  BY <1>1
<1>3. Len(p) + 1 \in 1 .. Len(q) /\ Len(p) < Len(q)
  BY <1>1
<1>4. ASSUME NEW id \in Own(q) PROVE id \in Inside(p, {k})
  <2>1. id \in IdOf /\ id.at = q
    BY DEF Own
  <2>2. QED
    BY <1>1, <1>3, <2>1 DEF Inside
<1>5. ASSUME NEW id \in Inside(q, Nat) PROVE id \in Inside(p, {k})
  <2>1. /\ id \in IdOf /\ Len(q) < Len(id.at)
        /\ \A i \in 1 .. Len(q) : id.at[i] = q[i]
    BY DEF Inside
  <2>2. Len(id.at) \in Nat
    BY <2>1 DEF IdOf
  <2>3. Len(p) < Len(id.at)
    BY <1>1, <2>1, <2>2
  <2>4. \A i \in 1 .. Len(p) : id.at[i] = p[i]
    BY <1>1, <1>2, <2>1
  <2>5. id.at[Len(p) + 1] = k
    BY <1>1, <1>3, <2>1
  <2>6. QED
    BY <2>1, <2>3, <2>4, <2>5 DEF Inside
<1>6. QED
  BY <1>1, <1>4, <1>5 DEF q, Region

(* The plans at the places outside that code jumps to: the same as its     *)
(* own, or one of what the try statements around it started from.          *)
Suits(plans, here, outer, h) ==
  /\ \A t \in here : plans[t[2]] = h
  /\ \A t \in outer : Kept(plans[t[2]], h)

(* There are plans for the identifiers in T with which the code keeps to   *)
(* them, whatever the plans for others are.                                *)
Sound(c, T, here, outer, h) ==
  \E W : \A V :
    (\A id \in T : V[id] = W[id]) /\ Suits(V, here, outer, h)
      => Piece(c, here \cup outer, V, h, h)

LEMMA SoundJoined ==
  ASSUME NEW c, NEW d, NEW T, NEW U, NEW here, NEW outer, NEW h,
         T \cap U = {}, Sound(c, T, here, outer, h), Sound(d, U, here, outer, h)
  PROVE  Sound(c \o d, T \cup U, here, outer, h)
<1>1. PICK W : \A V : (\A id \in T : V[id] = W[id]) /\ Suits(V, here, outer, h)
                        => Piece(c, here \cup outer, V, h, h)
  BY DEF Sound
<1>2. PICK X : \A V : (\A id \in U : V[id] = X[id]) /\ Suits(V, here, outer, h)
                        => Piece(d, here \cup outer, V, h, h)
  BY DEF Sound
<1> DEFINE Y == [id \in T \cup U |-> IF id \in T THEN W[id] ELSE X[id]]
<1>3. /\ \A id \in T : Y[id] = W[id]
      /\ \A id \in U : Y[id] = X[id]
  OBVIOUS
<1> HIDE DEF Y
<1>4. ASSUME NEW V, \A id \in T \cup U : V[id] = Y[id], Suits(V, here, outer, h)
      PROVE  Piece(c \o d, here \cup outer, V, h, h)
  <2>1. Piece(c, here \cup outer, V, h, h)
    BY <1>1, <1>3, <1>4
  <2>2. Piece(d, here \cup outer, V, h, h)
    BY <1>2, <1>3, <1>4
  <2>3. QED
    BY <2>1, <2>2, PieceJoined
<1>5. QED
  BY <1>4 DEF Sound

LEMMA SoundMore ==
  ASSUME NEW c, NEW T, NEW U, NEW here, NEW here2, NEW outer, NEW h,
         T \subseteq U, here \subseteq here2, Sound(c, T, here, outer, h)
  PROVE  Sound(c, U, here2, outer, h)
<1>1. PICK W : \A V : (\A id \in T : V[id] = W[id]) /\ Suits(V, here, outer, h)
                        => Piece(c, here \cup outer, V, h, h)
  BY DEF Sound
<1>2. ASSUME NEW V, \A id \in U : V[id] = W[id], Suits(V, here2, outer, h)
      PROVE  Piece(c, here2 \cup outer, V, h, h)
  <2>1. Suits(V, here, outer, h)
    BY <1>2 DEF Suits
  <2>2. Piece(c, here \cup outer, V, h, h)
    BY <1>1, <1>2, <2>1
  <2>3. QED
    BY <2>2, PieceMore
<1>3. QED
  BY <1>2 DEF Sound

LEMMA SoundEmpty ==
  ASSUME NEW T, NEW here, NEW outer, NEW h \in Plan
  PROVE  Sound(<<>>, T, here, outer, h)
BY PieceEmpty DEF Sound

(* With the plan g for all of the identifiers of p, the code c is what d   *)
(* needs to keep to h.                                                     *)
Wraps(c, within, beyond, g, p, d, here, outer, h) ==
  \A V : OwnAre(V, p, g) /\ Suits(V, here, outer, h)
    => /\ Suits(V, within, beyond, g)
       /\ Piece(c, within \cup beyond, V, g, g) => Piece(d, here \cup outer, V, h, h)

LEMMA SoundAround ==
  ASSUME NEW c, NEW d, NEW T, NEW p, NEW here, NEW outer, NEW h,
         NEW within, NEW beyond, NEW g,
         Own(p) \cap T = {}, Sound(c, T, within, beyond, g),
         Wraps(c, within, beyond, g, p, d, here, outer, h)
  PROVE  Sound(d, Own(p) \cup T, here, outer, h)
<1>1. PICK W : \A V : (\A id \in T : V[id] = W[id]) /\ Suits(V, within, beyond, g)
                        => Piece(c, within \cup beyond, V, g, g)
  BY DEF Sound
<1> DEFINE Y == [id \in Own(p) \cup T |-> IF id \in T THEN W[id] ELSE g]
<1>2. /\ \A id \in T : Y[id] = W[id]
      /\ \A id \in Own(p) : Y[id] = g
  OBVIOUS
<1> HIDE DEF Y
<1>3. ASSUME NEW V, \A id \in Own(p) \cup T : V[id] = Y[id], Suits(V, here, outer, h)
      PROVE  Piece(d, here \cup outer, V, h, h)
  <2>1. OwnAre(V, p, g)
    BY <1>2, <1>3 DEF OwnAre
  <2>2. \A id \in T : V[id] = W[id]
    BY <1>2, <1>3
  <2>3. Suits(V, within, beyond, g)
    BY <1>3, <2>1 DEF Wraps
  <2>4. Piece(c, within \cup beyond, V, g, g)
    BY <1>1, <2>2, <2>3
  <2>5. QED
    BY <1>3, <2>1, <2>4 DEF Wraps
<1>4. QED
  BY <1>3 DEF Sound

(* Sound pieces behind one another, each with identifiers of its own.      *)
LEMMA SoundFlattened ==
  ASSUME NEW n \in Nat, NEW seqs, DOMAIN seqs = 1 .. n, seqs = [k \in 1 .. n |-> seqs[k]],
         NEW T, NEW here, NEW outer, NEW h \in Plan,
         \A k, l \in 1 .. n : k # l => T[k] \cap T[l] = {},
         \A k \in 1 .. n : Sound(seqs[k], T[k], here, outer, h)
  PROVE  Sound(FlattenSeq(seqs), UNION {T[k] : k \in 1 .. n}, here, outer, h)
<1> DEFINE upTo(m) == UNION {T[k] : k \in 1 .. m}
<1>1. Len(seqs) = n
  OBVIOUS
<1>2. CASE n = 0
  <2>1. FlattenSeq(seqs) = seqs
    BY <1>1, <1>2 DEF FlattenSeq
  <2>2. seqs = <<>>
    BY <1>2
  <2>3. QED
    BY <2>1, <2>2, SoundEmpty
<1>3. CASE n # 0
  <2>1. PICK f : FlattenedUpTo(f, seqs, n) /\ FlattenSeq(seqs) = f[n]
    BY <1>1, <1>3, FlattenSeqIs
  <2> DEFINE S == {m \in Nat : m + 1 <= n => Sound(f[m + 1], upTo(m + 1), here, outer, h)}
  <2>2. 0 \in S
    <3>1. PICK i \in 1 .. n : i = 1 /\ i = 0 + 1
      BY <1>3
    <3>2. f[i] = seqs[i]
      BY <2>1, <3>1, FlattenedAt
    <3>3. T[i] \subseteq upTo(i)
      BY <3>1
    <3> HIDE DEF upTo
    <3>4. Sound(f[i], upTo(i), here, outer, h)
      BY <3>2, <3>3, SoundMore
    <3>5. QED
      BY <3>1, <3>4
  <2>3. ASSUME NEW m \in Nat, m \in S PROVE m + 1 \in S
    <3>1. SUFFICES ASSUME m + 1 + 1 <= n
                   PROVE  Sound(f[m + 1 + 1], upTo(m + 1 + 1), here, outer, h)
      OBVIOUS
    <3>2. PICK i \in 1 .. n : i = m + 1 + 1 /\ i # 1 /\ i - 1 = m + 1
      BY <3>1
    <3>3. Sound(f[i - 1], upTo(i - 1), here, outer, h)
      <4> HIDE DEF upTo
      <4>1. m + 1 <= n
        BY <3>1, <1>1
      <4>2. Sound(f[m + 1], upTo(m + 1), here, outer, h)
        BY <2>3, <4>1
      <4>3. QED
        BY <3>2, <4>2
    <3> DEFINE both == f[i - 1] \o seqs[i]
    <3>4. f[i] = IF i = 1 THEN seqs[i] ELSE both
      BY <2>1, FlattenedAt
    <3> HIDE DEF both, S
    <3>5. f[i] = both
      BY <3>2, <3>4
    <3>6. upTo(i - 1) \cap T[i] = {}
      <4>1. \A k \in 1 .. i - 1 : k \in 1 .. n /\ k # i
        BY <3>2
      <4>2. QED
        BY <4>1
    <3>7. upTo(i - 1) \cup T[i] = upTo(i)
      <4>1. \A k : k \in 1 .. i <=> k \in 1 .. i - 1 \/ k = i
        BY <3>2
      <4>2. QED
        BY <4>1
    <3> HIDE DEF upTo
    <3>8. Sound(both, upTo(i), here, outer, h)
      BY <3>3, <3>6, <3>7, SoundJoined DEF both
    <3>9. QED
      BY <3>2, <3>5, <3>8
  <2> HIDE DEF S
  <2>4. \A m \in Nat : m \in S
    BY <2>2, <2>3, InductionOnNat
  <2>5. n - 1 \in S /\ n - 1 + 1 = n
    BY <1>3, <2>4
  <2> HIDE DEF upTo
  <2>6. Sound(f[n], upTo(n), here, outer, h)
    BY <2>5 DEF S
  <2>7. QED
    BY <2>1, <2>6 DEF upTo
<1>4. QED
  BY <1>2, <1>3

-----------------------------------------------------------------------------
(* The code of every statement is sound                                    *)

LoopMarks(loop) == {<<"label", After(loop)>>, <<"endwhile", loop>>}

(* Where the code of a statement may jump to: with the plan unchanged, or  *)
(* out of try statements.                                                  *)
HereOf(ctx, place) ==
  (IF place.inTry THEN {<<"label", ctx.excepts>>} ELSE {})
    \cup (IF place.loop = "here" THEN LoopMarks(ctx.loop) ELSE {})
OuterOf(ctx, place) == IF place.loop = "outside" THEN LoopMarks(ctx.loop) ELSE {}

(* The context and the plan are those of a statement in that place.        *)
Fitting(ctx, place, h) ==
  /\ ctx \in Context /\ place \in Place /\ h \in Plan
  /\ ctx.inTry = place.inTry
  /\ ctx.inTry => ctx.excepts.tag = "excepts"
  /\ ~ctx.inTry => h.mask = <<>>

(* None of the identifiers holds excepts that are remembered. *)
Clear(h, T) == \A k \in 1 .. Len(h.saved) : h.saved[k].old \notin T

SoundStatement(s, place) ==
  \A at \in Seq(Nat), ctx \in Context, h \in Plan :
    Fitting(ctx, place, h) /\ Clear(h, Region(at))
      => Sound(CompileStatement[s][at][ctx], Region(at),
               HereOf(ctx, place), OuterOf(ctx, place), h)

LEMMA Surrounding ==
  ASSUME NEW ctx, NEW place, NEW h, Fitting(ctx, place, h),
         NEW here, NEW outer, HereOf(ctx, place) \subseteq here,
         NEW V, Suits(V, here, outer, h)
  PROVE  Surrounded(ctx, here \cup outer, V, h)
<1>1. CASE place.inTry
  <2>1. <<"label", ctx.excepts>> \in here
    BY <1>1 DEF HereOf
  <2>2. V[ctx.excepts] = h
    BY <2>1 DEF Suits
  <2>3. QED
    BY <1>1, <2>1, <2>2 DEF Surrounded, Fitting
<1>2. CASE ~place.inTry
  BY <1>2 DEF Surrounded, Fitting
<1>3. QED
  BY <1>1, <1>2

LEMMA CodeOfStatement ==
  ASSUME NEW s \in AnyStatement, NEW at \in Seq(Nat), NEW ctx \in Context
  PROVE  CompileStatement[s][at][ctx] = Compile(CompileStatement, s, at, ctx)
<1> DEFINE C(p, c) == Compile(CompileStatement, s, p, c)
<1>1. CompileStatement[s] = [p \in Seq(Nat) |-> [c \in Context |-> C(p, c)]]
  BY CompileStatementIs DEF CodeOf
<1> HIDE DEF C
<1>2. CompileStatement[s][at][ctx] = C(at, ctx)
  BY <1>1
<1>3. QED
  BY <1>2 DEF C

LEMMA SoundBody ==
  ASSUME NEW X, NEW stmts \in Seq(X), NEW place,
         \A k \in DOMAIN stmts : SoundStatement(stmts[k], place),
         NEW at \in Seq(Nat), NEW ctx \in Context, NEW h \in Plan,
         Fitting(ctx, place, h), Clear(h, Inside(at, Nat))
  PROVE  Sound(CompileBody(CompileStatement, stmts, at, ctx), Inside(at, Nat),
               HereOf(ctx, place), OuterOf(ctx, place), h)
<1> DEFINE n == Len(stmts)
           seqs == [k \in DOMAIN stmts |-> CompileStatement[stmts[k]][Append(at, k)][ctx]]
           T == [k \in 1 .. n |-> Inside(at, {k})]
           here == HereOf(ctx, place)
           outer == OuterOf(ctx, place)
<1>1. n \in Nat /\ DOMAIN stmts = 1 .. n
  OBVIOUS
<1>2. ASSUME NEW k \in 1 .. n PROVE Sound(seqs[k], T[k], here, outer, h)
  <2>1. k \in Nat /\ Append(at, k) \in Seq(Nat) /\ Region(Append(at, k)) \subseteq T[k]
    BY RegionInside
  <2>2. Region(Append(at, k)) \subseteq Inside(at, Nat)
    BY <2>1, InsideParts
  <2>3. Clear(h, Region(Append(at, k)))
    BY <2>2 DEF Clear
  <2> DEFINE c == CompileStatement[stmts[k]][Append(at, k)][ctx]
  <2>4. Sound(c, Region(Append(at, k)), here, outer, h)
    BY <1>1, <2>1, <2>3 DEF SoundStatement
  <2>5. seqs[k] = c
    BY <1>1
  <2> HIDE DEF c, seqs, T, here, outer
  <2>6. QED
    BY <2>1, <2>4, <2>5, SoundMore
<1>3. \A k, l \in 1 .. n : k # l => T[k] \cap T[l] = {}
  <2>1. \A k, l \in 1 .. n : k # l => {k} \cap {l} = {}
    OBVIOUS
  <2>2. QED
    BY <2>1, InsideParts
<1>4. UNION {T[k] : k \in 1 .. n} \subseteq Inside(at, Nat)
  <2>1. ASSUME NEW k \in 1 .. n PROVE T[k] \subseteq Inside(at, Nat)
    BY InsideParts
  <2>2. QED
    BY <2>1
<1>5. seqs = [k \in 1 .. n |-> seqs[k]] /\ DOMAIN seqs = 1 .. n
  BY <1>1
<1>6. CompileBody(CompileStatement, stmts, at, ctx) = FlattenSeq(seqs)
  BY DEF CompileBody
<1> HIDE DEF seqs, T, here, outer, n
<1>7. Sound(FlattenSeq(seqs), UNION {T[k] : k \in 1 .. n}, here, outer, h)
  BY <1>1, <1>2, <1>3, <1>5, SoundFlattened
<1>8. Sound(FlattenSeq(seqs), Inside(at, Nat), here, outer, h)
  BY <1>4, <1>7, SoundMore
<1>9. QED
  BY <1>6, <1>8 DEF here, outer

(* Code that has no statements in it. *)
LEMMA SoundOwn ==
  ASSUME NEW d, NEW at \in Seq(Nat), NEW here, NEW outer, NEW h \in Plan,
         \A V : OwnAre(V, at, h) /\ Suits(V, here, outer, h)
                  => Piece(d, here \cup outer, V, h, h)
  PROVE  Sound(d, Region(at), here, outer, h)
<1>1. Sound(<<>>, Inside(at, Nat), here, outer, h)
  BY SoundEmpty
<1>2. Own(at) \cap Inside(at, Nat) = {}
  BY OwnApart
<1>3. Wraps(<<>>, here, outer, h, at, d, here, outer, h)
  BY DEF Wraps
<1>4. Sound(d, Own(at) \cup Inside(at, Nat), here, outer, h)
  BY <1>1, <1>2, <1>3, SoundAround
<1>5. QED
  BY <1>4 DEF Region

LEMMA SoundUnsafe ==
  ASSUME NEW x, NEW at \in Seq(Nat), NEW ctx, NEW place, NEW h, Fitting(ctx, place, h),
         x.op \in Risky, x.op # "catch", x.op = "call" => x.fn \in Functions
  PROVE  Sound(Unsafe(x, at, ctx), Region(at), HereOf(ctx, place), OuterOf(ctx, place), h)
<1> DEFINE here == HereOf(ctx, place)
           outer == OuterOf(ctx, place)
<1>1. h \in Plan
  BY DEF Fitting
<1>2. ASSUME NEW V, OwnAre(V, at, h), Suits(V, here, outer, h)
      PROVE  Piece(Unsafe(x, at, ctx), here \cup outer, V, h, h)
  <2>1. Surrounded(ctx, here \cup outer, V, h)
    BY <1>2, Surrounding
  <2> HIDE DEF here, outer
  <2>2. QED
    BY <1>1, <1>2, <2>1, PieceUnsafe
<1> HIDE DEF here, outer
<1>3. Sound(Unsafe(x, at, ctx), Region(at), here, outer, h)
  BY <1>1, <1>2, SoundOwn
<1>4. QED
  BY <1>3 DEF here, outer

LEMMA SoundAssert ==
  ASSUME NEW s, NEW at \in Seq(Nat), NEW ctx, NEW place, NEW h, Fitting(ctx, place, h)
  PROVE  Sound(CompileAssert(s, at, ctx), Region(at), HereOf(ctx, place), OuterOf(ctx, place), h)
<1> DEFINE here == HereOf(ctx, place)
           outer == OuterOf(ctx, place)
           p == Append(at, 1)
           c == Evaluated(s.cond, p, ctx)
           r == RaiseInst("AssertionError", at, ctx)
           d == IfBlock(Id(at, "assert"), Value(p), TRUE, r)
<1>1. h \in Plan
  BY DEF Fitting
<1>2. p \in Seq(Nat) /\ Region(p) \subseteq Inside(at, {1}) /\ Inside(at, {1}) \subseteq Inside(at, Nat)
  BY RegionInside, InsideParts
<1>3. \A V : Suits(V, here, outer, h) => Surrounded(ctx, here \cup outer, V, h)
  BY Surrounding
<1>4. CompileAssert(s, at, ctx) = c \o d
  BY DEF CompileAssert
<1> HIDE DEF here, outer, p
<1>5. \A V : OwnAre(V, p, h) /\ Suits(V, here, outer, h) => Piece(c, here \cup outer, V, h, h)
  BY <1>1, <1>2, <1>3, PieceEvaluated
<1>6. ASSUME NEW V, OwnAre(V, at, h), Suits(V, here, outer, h)
      PROVE  Piece(d, here \cup outer, V, h, h)
  <2>1. Piece(r, here \cup outer, V, h, h)
    BY <1>1, <1>3, <1>6, PieceRaise
  <2>2. V[Id(at, "assert")] = h
    BY <1>6, OwnIds DEF Tags
  <2> HIDE DEF r
  <2>3. QED
    BY <1>1, <2>1, <2>2, PieceIf
<1> HIDE DEF c, d
<1>7. Sound(c, Region(p), here, outer, h)
  BY <1>1, <1>2, <1>5, SoundOwn
<1>8. Sound(c, Inside(at, Nat), here, outer, h)
  <2>1. Region(p) \subseteq Inside(at, Nat)
    BY <1>2
  <2>2. QED
    BY <1>7, <2>1, SoundMore
<1>9. Own(at) \cap Inside(at, Nat) = {}
  BY OwnApart
<1>10. ASSUME NEW V, OwnAre(V, at, h), Suits(V, here, outer, h),
              Piece(c, here \cup outer, V, h, h)
       PROVE  Piece(c \o d, here \cup outer, V, h, h)
  <2>1. Piece(d, here \cup outer, V, h, h)
    BY <1>6, <1>10
  <2>2. QED
    BY <1>10, <2>1, PieceJoined
<1> DEFINE e == c \o d
<1>11. Wraps(c, here, outer, h, at, e, here, outer, h)
  BY <1>10 DEF Wraps
<1> HIDE DEF e
<1>12. Sound(e, Own(at) \cup Inside(at, Nat), here, outer, h)
  BY <1>8, <1>9, <1>11, SoundAround
<1>13. QED
  BY <1>4, <1>12 DEF e, Region, here, outer

(* Leaving a loop, or an iteration of it. *)
LEMMA SoundJump ==
  ASSUME NEW x, NEW at \in Seq(Nat), NEW here, NEW outer, NEW h \in Plan,
         x.op \in {"goto", "break"},
         Targets(x) \subseteq here \/ (Targets(x) \subseteq outer /\ ~Contained)
  PROVE  Sound(<<x>>, Region(at), here, outer, h)
<1>1. ASSUME NEW V, Suits(V, here, outer, h)
      PROVE  Piece(<<x>>, here \cup outer, V, h, h)
  <2>1. \A t \in Targets(x) : Kept(V[t[2]], h) /\ (Contained => V[t[2]] = h)
    <3>1. CASE Targets(x) \subseteq here
      BY <1>1, <3>1, KeptItself DEF Suits
    <3>2. CASE Targets(x) \subseteq outer /\ ~Contained
      BY <1>1, <3>2 DEF Suits
    <3>3. QED
      BY <3>1, <3>2
  <2>2. Marks(x) = {}
    BY DEF Marks
  <2>3. Carries(x, h, h, V)
    BY <2>1, <2>2 DEF Carries
  <2>4. x.op \notin Risky /\ ~IsCheck(x) /\ ~IsHandler(x)
    BY DEF Risky, IsCheck, IsHandler
  <2>5. Targets(x) \subseteq here \cup outer
    OBVIOUS
  <2>6. QED
    BY <2>3, <2>4, <2>5, PieceOne
<1>2. QED
  BY <1>1, SoundOwn

LEMMA SoundReturn ==
  ASSUME NEW at \in Seq(Nat), NEW here, NEW outer, NEW h \in Plan, Contained => h.mask = <<>>
  PROVE  Sound(ReturnInst, Region(at), here, outer, h)
<1> DEFINE x == [op |-> "return"]
<1>1. x.op = "return" /\ Targets(x) = {}
  BY DEF Targets
<1> HIDE DEF x
<1>2. \A V : Piece(<<x>>, here \cup outer, V, h, h)
  BY <1>1, PieceSafe
<1>3. Sound(<<x>>, Region(at), here, outer, h)
  BY <1>2, SoundOwn
<1>4. QED
  BY <1>3 DEF ReturnInst, x

(* What is sound inside a statement. *)
SoundInside(s, place) ==
  \A block \in Blocks(s) : \A k \in DOMAIN block : SoundStatement(block[k], Within(s, place))

LEMMA SoundBlock ==
  ASSUME NEW s, NEW place, SoundInside(s, place), NEW X, NEW block \in Seq(X), block \in Blocks(s),
         NEW at \in Seq(Nat), NEW k \in Nat, NEW ctx, NEW h,
         Fitting(ctx, Within(s, place), h), Clear(h, Inside(at, Nat))
  PROVE  Sound(CompileBody(CompileStatement, block, Append(at, k), ctx), Inside(Append(at, k), Nat),
               HereOf(ctx, Within(s, place)), OuterOf(ctx, Within(s, place)), h)
<1> DEFINE p == Append(at, k)
<1>1. p \in Seq(Nat) /\ Region(p) \subseteq Inside(at, {k}) /\ Inside(at, {k}) \subseteq Inside(at, Nat)
  BY RegionInside, InsideParts
<1> HIDE DEF p
<1>2. Clear(h, Inside(p, Nat))
  <2>1. Inside(p, Nat) \subseteq Inside(at, Nat)
    BY <1>1 DEF Region
  <2>2. QED
    BY <2>1 DEF Clear
<1>3. \A i \in DOMAIN block : SoundStatement(block[i], Within(s, place))
  BY DEF SoundInside
<1>4. ctx \in Context /\ h \in Plan
  BY DEF Fitting
<1> DEFINE inner == Within(s, place)
<1> HIDE DEF inner
<1>5. Sound(CompileBody(CompileStatement, block, p, ctx), Inside(p, Nat),
            HereOf(ctx, inner), OuterOf(ctx, inner), h)
  BY <1>1, <1>2, <1>3, <1>4, SoundBody DEF inner
<1>6. QED
  BY <1>5 DEF p, inner

(* An arm of an if statement, which may go to the exit behind it.          *)
LEMMA SoundArm ==
  ASSUME NEW c, NEW id, NEW exit, NEW leave, NEW p \in Seq(Nat), NEW ctx, NEW place, NEW h,
         Fitting(ctx, place, h), id \in Own(p), NEW cond, NEW here, NEW outer,
         HereOf(ctx, place) \subseteq here,
         leave = <<>> \/ (leave = Goto(exit) /\ <<"label", exit>> \in here),
         Sound(c, Inside(p, Nat), here, outer, h)
  PROVE  Sound(Evaluated(cond, p, ctx) \o IfBlock(id, Value(p), FALSE, c \o leave),
               Region(p), here, outer, h)
<1> DEFINE e == Evaluated(cond, p, ctx)
           body == c \o leave
           b == IfBlock(id, Value(p), FALSE, body)
           K == here \cup outer
           d == e \o b
<1>1. h \in Plan
  BY DEF Fitting
<1>2. Value(p) # GlobalException
  BY DEF Value, GlobalException, Id
<1>3. ASSUME NEW V, OwnAre(V, p, h), Suits(V, here, outer, h), Piece(c, K, V, h, h)
      PROVE  Piece(d, K, V, h, h)
  <2>1. Surrounded(ctx, K, V, h)
    BY <1>3, Surrounding
  <2>2. V[id] = h
    BY <1>3 DEF OwnAre
  <2>3. leave = Goto(exit) /\ <<"label", exit>> \in here => V[exit] = h /\ <<"label", exit>> \in K
    BY <1>3 DEF Suits
  <2> HIDE DEF K
  <2>4. Piece(leave, K, V, h, h)
    BY <1>1, <2>3, PieceGoto, PieceEmpty
  <2>5. Piece(body, K, V, h, h)
    BY <1>3, <2>4, PieceJoined
  <2>6. Piece(e, K, V, h, h)
    BY <1>1, <1>3, <2>1, PieceEvaluated
  <2> HIDE DEF body, e
  <2>7. Piece(b, K, V, h, h)
    BY <1>1, <1>2, <2>2, <2>5, PieceIf
  <2> HIDE DEF b
  <2>8. QED
    BY <2>6, <2>7, PieceJoined
<1> HIDE DEF d
<1>4. Wraps(c, here, outer, h, p, d, here, outer, h)
  BY <1>3 DEF Wraps
<1>5. Own(p) \cap Inside(p, Nat) = {}
  BY OwnApart
<1>6. Sound(d, Own(p) \cup Inside(p, Nat), here, outer, h)
  BY <1>4, <1>5, SoundAround
<1>7. QED
  BY <1>6 DEF Region, d

LEMMA SoundIf ==
  ASSUME NEW s \in AnyStatement, s.kind = "if", NEW place, SoundInside(s, place),
         s.arms \in Seq([cond : Condition, body : Seq(AnyStatement)]), s.orelse \in Seq(AnyStatement),
         NEW at \in Seq(Nat), NEW ctx, NEW h, Fitting(ctx, place, h), Clear(h, Region(at))
  PROVE  Sound(CompileIf(CompileStatement, s, at, ctx), Region(at),
               HereOf(ctx, place), OuterOf(ctx, place), h)
<1> DEFINE exit == Id(at, "exit")
           reqGoto == s.orelse # <<>> \/ Len(s.arms) > 1
           Exit(i) == IF reqGoto THEN i ELSE <<>>
           body(i) == CompileBody(CompileStatement, s.arms[i].body, Append(at, i), ctx)
           Arm_(i) == Evaluated(s.arms[i].cond, Append(at, i), ctx)
                        \o IfBlock(Id(Append(at, i), "if"), Value(Append(at, i)), FALSE,
                                   body(i) \o Exit(Goto(exit)))
           arms == FlattenSeq([i \in DOMAIN s.arms |-> Arm_(i)])
           orelse == CompileBody(CompileStatement, s.orelse, Append(at, 0), ctx)
           last == Exit(Label(exit))
           d == (arms \o orelse) \o last
           outer == OuterOf(ctx, place)
           base == HereOf(ctx, place)
           here == base \cup (IF reqGoto THEN {<<"label", exit>>} ELSE {})
           n == Len(s.arms)
<1>1. CompileIf(CompileStatement, s, at, ctx) = d
  BY DEF CompileIf
<1>2. /\ n \in Nat /\ DOMAIN s.arms = 1 .. n
      /\ \A i \in 1 .. n : s.arms[i].body \in Seq(AnyStatement) /\ s.arms[i].body \in Blocks(s)
      /\ s.orelse \in Blocks(s) /\ Within(s, place) = place
  <2>1. n \in Nat /\ DOMAIN s.arms = 1 .. n
    OBVIOUS
  <2>2. \A i \in 1 .. n : s.arms[i] \in [cond : Condition, body : Seq(AnyStatement)]
    <3> DEFINE S == [cond : Condition, body : Seq(AnyStatement)]
    <3>1. s.arms \in Seq(S)
      OBVIOUS
    <3> HIDE DEF S
    <3>2. \A i \in 1 .. n : s.arms[i] \in S
      BY <3>1
    <3>3. QED
      BY <3>2 DEF S
  <2>3. /\ s.orelse \in Blocks(s)
        /\ \A i \in DOMAIN s.arms : s.arms[i].body \in Blocks(s)
    BY DEF Blocks
  <2>4. Within(s, place) = place
    BY DEF Within
  <2> HIDE DEF n
  <2>5. QED
    BY <2>1, <2>2, <2>3, <2>4
<1>3. h \in Plan /\ Clear(h, Inside(at, Nat))
  BY DEF Fitting, Clear, Region
<1>4. \A k \in Nat : /\ Append(at, k) \in Seq(Nat)
                     /\ Region(Append(at, k)) \subseteq Inside(at, {k})
                     /\ Inside(at, {k}) \subseteq Inside(at, Nat)
  BY RegionInside, InsideParts
<1> HIDE DEF n
<1>5. ASSUME NEW i \in 1 .. n PROVE Sound(Arm_(i), Inside(at, {i}), here, outer, h)
  <2> DEFINE p == Append(at, i)
             id == Id(p, "if")
             leave == Exit(Goto(exit))
             block == s.arms[i].body
  <2>1. i \in Nat
    BY <1>2
  <2>2. p \in Seq(Nat) /\ Region(p) \subseteq Inside(at, {i}) /\ id \in Own(p)
    BY <1>4, <2>1 DEF Own, Id, IdOf, Tags
  <2>3. Sound(body(i), Inside(p, Nat), base, outer, h)
    <3>1. block \in Seq(AnyStatement) /\ block \in Blocks(s)
      BY <1>2
    <3> HIDE DEF block
    <3>2. Sound(CompileBody(CompileStatement, block, Append(at, i), ctx), Inside(Append(at, i), Nat),
                HereOf(ctx, place), OuterOf(ctx, place), h)
      BY <1>2, <1>3, <2>1, <3>1, SoundBlock
    <3>3. QED
      BY <3>2 DEF block
  <2>4. leave = <<>> \/ (leave = Goto(exit) /\ <<"label", exit>> \in here)
    OBVIOUS
  <2>5. base \subseteq here
    OBVIOUS
  <2> DEFINE c == body(i)
             cond == s.arms[i].cond
             a == Evaluated(cond, p, ctx) \o IfBlock(id, Value(p), FALSE, c \o leave)
  <2>6. Arm_(i) = a
    OBVIOUS
  <2> HIDE DEF p, id, leave, c, cond, here, outer, exit, Exit, body, Arm_
  <2>7. Sound(c, Inside(p, Nat), here, outer, h)
    BY <2>3, <2>5, SoundMore DEF c
  <2>8. Sound(a, Region(p), here, outer, h)
    BY <2>2, <2>4, <2>5, <2>7, SoundArm
  <2> HIDE DEF a
  <2>9. Sound(a, Inside(at, {i}), here, outer, h)
    BY <2>2, <2>8, SoundMore
  <2>10. QED
    BY <2>6, <2>9
<1>6. Sound(orelse, Inside(at, {0}), here, outer, h)
  <2> DEFINE p == Append(at, 0)
  <2>1. Sound(orelse, Inside(p, Nat), base, outer, h)
    BY <1>2, <1>3, SoundBlock
  <2>2. Inside(p, Nat) \subseteq Inside(at, {0}) /\ base \subseteq here
    BY <1>4 DEF Region
  <2> HIDE DEF orelse, base, here, outer, p
  <2>3. QED
    BY <2>1, <2>2, SoundMore
<1> DEFINE seqs == [i \in DOMAIN s.arms |-> Arm_(i)]
           T == [i \in 1 .. n |-> Inside(at, {i})]
<1>7. Sound(arms, UNION {T[i] : i \in 1 .. n}, here, outer, h)
  <2>1. seqs = [i \in 1 .. n |-> seqs[i]] /\ DOMAIN seqs = 1 .. n
    BY <1>2
  <2>2. \A i \in 1 .. n : Sound(seqs[i], T[i], here, outer, h)
    <3>1. TAKE i \in 1 .. n
    <3>2. seqs[i] = Arm_(i) /\ T[i] = Inside(at, {i})
      BY <1>2
    <3> HIDE DEF seqs, T, here, outer, Arm_
    <3>3. QED
      BY <1>5, <3>2
  <2>3. \A k, l \in 1 .. n : k # l => T[k] \cap T[l] = {}
    <3>1. \A k, l \in 1 .. n : k # l => {k} \cap {l} = {}
      OBVIOUS
    <3>2. QED
      BY <3>1, InsideParts
  <2> HIDE DEF seqs, T, here, outer, Arm_
  <2>4. Sound(FlattenSeq(seqs), UNION {T[i] : i \in 1 .. n}, here, outer, h)
    BY <1>2, <1>3, <2>1, <2>2, <2>3, SoundFlattened
  <2>5. QED
    BY <2>4 DEF seqs
<1> DEFINE c == arms \o orelse
           U == UNION {T[i] : i \in 1 .. n}
<1>8. U \cap Inside(at, {0}) = {} /\ U \cup Inside(at, {0}) \subseteq Inside(at, Nat)
  <2>1. ASSUME NEW i \in 1 .. n
        PROVE  T[i] \cap Inside(at, {0}) = {} /\ T[i] \subseteq Inside(at, Nat)
    <3>1. {i} \cap {0} = {} /\ i \in Nat
      BY <1>2
    <3>2. QED
      BY <1>4, <3>1, InsideParts
  <2>2. Inside(at, {0}) \subseteq Inside(at, Nat)
    BY <1>4
  <2> HIDE DEF T
  <2>3. QED
    BY <2>1, <2>2
<1> HIDE DEF arms, orelse, here, outer, U
<1>9. Sound(c, U \cup Inside(at, {0}), here, outer, h)
  BY <1>6, <1>7, <1>8, SoundJoined DEF U
<1> HIDE DEF c
<1>10. Sound(c, Inside(at, Nat), here, outer, h)
  BY <1>8, <1>9, SoundMore
<1>11. ASSUME NEW V, OwnAre(V, at, h), Suits(V, base, outer, h)
       PROVE  /\ Suits(V, here, outer, h)
              /\ Piece(c, here \cup outer, V, h, h) => Piece(c \o last, base \cup outer, V, h, h)
  <2>1. V[exit] = h /\ exit.tag = "exit"
    BY <1>11, OwnIds DEF Tags, Id
  <2>2. Suits(V, here, outer, h)
    BY <1>11, <2>1 DEF Suits, here
  <2>3. ASSUME Piece(c, here \cup outer, V, h, h) PROVE Piece(c \o last, base \cup outer, V, h, h)
    <3> HIDE DEF exit, base
    <3>1. CASE reqGoto
      <4>1. last = Label(exit) /\ here = base \cup {<<"label", exit>>}
        BY <3>1 DEF here
      <4> HIDE DEF last
      <4>2. Piece(last, here \cup outer, V, h, h) /\ MarksOf(last) = {<<"label", exit>>}
        BY <1>3, <2>1, <4>1, PieceLabel
      <4>3. /\ Piece(c \o last, here \cup outer, V, h, h)
            /\ MarksOf(c \o last) = MarksOf(c) \cup MarksOf(last)
        BY <2>3, <4>2, PieceJoined
      <4>4. here \cup outer \subseteq (base \cup outer) \cup MarksOf(c \o last)
        BY <4>1, <4>2, <4>3
      <4>5. QED
        BY <4>3, <4>4, PieceMore
    <3>2. CASE ~reqGoto
      <4>1. last = <<>> /\ here = base
        BY <3>2 DEF here
      <4> HIDE DEF last
      <4>2. IsCode(c)
        BY <2>3 DEF Piece
      <4>3. c \o last = c
        BY <4>1, <4>2, EmptyCode
      <4>4. QED
        BY <2>3, <4>1, <4>3
    <3>3. QED
      BY <3>1, <3>2
  <2>4. QED
    BY <2>2, <2>3
<1> HIDE DEF last, base
<1>12. d = c \o last
  BY DEF c
<1> HIDE DEF d
<1>13. Wraps(c, here, outer, h, at, d, base, outer, h)
  BY <1>11, <1>12 DEF Wraps
<1>14. Own(at) \cap Inside(at, Nat) = {}
  BY OwnApart
<1>15. Sound(d, Own(at) \cup Inside(at, Nat), base, outer, h)
  BY <1>10, <1>13, <1>14, SoundAround
<1>16. QED
  BY <1>1, <1>15 DEF Region, base, outer

LEMMA PieceLoop ==
  ASSUME NEW at \in Seq(Nat), NEW init, NEW before, NEW body, NEW K, NEW L, NEW V, NEW h \in Plan,
         OwnAre(V, at, h), L = K \cup LoopMarks(Id(at, "loop")),
         Piece(init, L, V, h, h), Piece(before, L, V, h, h), Piece(body, L, V, h, h)
  PROVE  Piece(LoopBlock(Id(at, "loop"), init, before, body), K, V, h, h)
<1> DEFINE loop == Id(at, "loop")
           after == Id(at, "after")
           w == [op |-> "while", id |-> loop]
           z == [op |-> "endwhile", id |-> loop]
           a == init \o <<w>>
           b == a \o before
           c == b \o body
           d == c \o Label(after)
           e == d \o <<z>>
<1>1. V[loop] = h /\ V[after] = h /\ after.tag = "after" /\ After(loop) = after
  BY OwnIds DEF Tags, Id, After
<1>2. LoopBlock(loop, init, before, body) = e
  BY <1>1 DEF LoopBlock
<1>3. w.op = "while" /\ w.id = loop /\ Targets(w) = {} /\ Marks(w) = {<<"while", loop>>}
  BY DEF Targets, Marks
<1>4. z.op = "endwhile" /\ z.id = loop /\ Targets(z) = {<<"while", loop>>}
      /\ Marks(z) = {<<"endwhile", loop>>}
  BY DEF Targets, Marks
<1>5. L = K \cup {<<"label", after>>, <<"endwhile", loop>>}
  BY <1>1 DEF LoopMarks
<1> DEFINE M == L \cup {<<"while", loop>>}
<1>6. Piece(init, M, V, h, h) /\ Piece(before, M, V, h, h) /\ Piece(body, M, V, h, h)
  BY PieceMore
<1>7. {<<"while", loop>>} \subseteq M
  OBVIOUS
<1> HIDE DEF loop, after, w, z, M
<1>8. Piece(<<w>>, M, V, h, h) /\ MarksOf(<<w>>) = {<<"while", loop>>}
  BY <1>1, <1>3, PieceSafe, OneTargets
<1>9. Piece(<<z>>, M, V, h, h) /\ MarksOf(<<z>>) = {<<"endwhile", loop>>}
  BY <1>1, <1>4, <1>7, PieceSafe, OneTargets
<1>10. Piece(Label(after), M, V, h, h) /\ MarksOf(Label(after)) = {<<"label", after>>}
  BY <1>1, PieceLabel
<1>11. Piece(a, M, V, h, h) /\ MarksOf(a) = MarksOf(init) \cup {<<"while", loop>>}
  BY <1>6, <1>8, PieceJoined
<1> HIDE DEF a
<1>12. Piece(b, M, V, h, h) /\ MarksOf(b) = MarksOf(a) \cup MarksOf(before)
  BY <1>6, <1>11, PieceJoined
<1> HIDE DEF b
<1>13. Piece(c, M, V, h, h) /\ MarksOf(c) = MarksOf(b) \cup MarksOf(body)
  BY <1>6, <1>12, PieceJoined
<1> HIDE DEF c
<1>14. Piece(d, M, V, h, h) /\ MarksOf(d) = MarksOf(c) \cup {<<"label", after>>}
  BY <1>10, <1>13, PieceJoined
<1> HIDE DEF d
<1>15. Piece(e, M, V, h, h) /\ MarksOf(e) = MarksOf(d) \cup {<<"endwhile", loop>>}
  BY <1>9, <1>14, PieceJoined
<1> HIDE DEF e
<1>16. M \subseteq K \cup MarksOf(e)
  BY <1>5, <1>11, <1>12, <1>13, <1>14, <1>15 DEF M
<1>17. Piece(e, K, V, h, h)
  BY <1>15, <1>16, PieceMore
<1>18. QED
  BY <1>2, <1>17 DEF loop

(* What is before a loop and at its head keeps to the plan. *)
HeadKeeps(init, before, at, ctx, h) ==
  \A V, L :
    OwnAre(V, at, h) /\ Surrounded(ctx, L, V, h) /\ <<"endwhile", Id(at, "loop")>> \in L
      => Piece(init, L, V, h, h) /\ Piece(before, L, V, h, h)

LEMMA SoundLoop ==
  ASSUME NEW s \in AnyStatement, s.kind \in {"while", "for"}, NEW place, SoundInside(s, place),
         s.body \in Seq(AnyStatement),
         NEW at \in Seq(Nat), NEW ctx, NEW h, Fitting(ctx, place, h), Clear(h, Region(at)),
         NEW init, NEW before,
         HeadKeeps(init, before, at, ctx, h)
  PROVE  Sound(LoopBlock(Id(at, "loop"), init, before,
                         CompileBody(CompileStatement, s.body, Append(at, 1),
                                     [ctx EXCEPT !.loop = Id(at, "loop")])),
               Region(at), HereOf(ctx, place), OuterOf(ctx, place), h)
<1> DEFINE loop == Id(at, "loop")
           inner == [ctx EXCEPT !.loop = loop]
           around == Within(s, place)
           here == HereOf(ctx, place)
           outer == OuterOf(ctx, place)
           try == IF place.inTry THEN {<<"label", ctx.excepts>>} ELSE {}
           p == Append(at, 1)
           c == CompileBody(CompileStatement, s.body, p, inner)
           d == LoopBlock(loop, init, before, c)
<1>1. loop \in Own(at) /\ After(loop) \in Own(at) /\ loop \in IdOf
  BY DEF Own, Id, IdOf, Tags, After
<1>2. /\ inner \in Context /\ inner.inTry = ctx.inTry /\ inner.excepts = ctx.excepts
      /\ inner.loop = loop
  BY <1>1 DEF Fitting, Context
<1>3. around = [place EXCEPT !.loop = "here"]
  BY DEF Within
<1>4. around \in Place /\ around.loop = "here" /\ around.inTry = place.inTry
  BY <1>3 DEF Fitting, Place
<1>5. Fitting(inner, around, h)
  BY <1>2, <1>4 DEF Fitting
<1>6. HereOf(inner, around) = try \cup LoopMarks(loop) /\ OuterOf(inner, around) = {}
  BY <1>2, <1>4 DEF HereOf, OuterOf
<1>7. h \in Plan /\ Clear(h, Inside(at, Nat))
  BY DEF Fitting, Clear, Region
<1>8. s.body \in Blocks(s)
  BY DEF Blocks
<1>9. Region(p) \subseteq Inside(at, {1}) /\ Inside(at, {1}) \subseteq Inside(at, Nat)
  BY RegionInside, InsideParts
<1>10. try \subseteq here
  BY DEF HereOf
<1>11. LoopMarks(loop) = {<<"label", After(loop)>>, <<"endwhile", loop>>}
  BY DEF LoopMarks
<1> HIDE DEF inner, around, loop, try
<1>12. Sound(c, Inside(p, Nat), try \cup LoopMarks(loop), {}, h)
  <2> DEFINE block == s.body
  <2>1. block \in Seq(AnyStatement) /\ block \in Blocks(s)
    BY <1>8
  <2> HIDE DEF block
  <2>2. Sound(CompileBody(CompileStatement, block, Append(at, 1), inner), Inside(Append(at, 1), Nat),
              HereOf(inner, around), OuterOf(inner, around), h)
    BY <1>5, <1>7, <2>1, SoundBlock DEF around
  <2>3. QED
    BY <1>6, <2>2 DEF block
<1>13. Inside(p, Nat) \subseteq Inside(at, Nat)
  BY <1>9 DEF Region
<1> HIDE DEF c, p
<1> DEFINE within == try \cup LoopMarks(loop)
<1>14. Sound(c, Inside(at, Nat), within, {}, h)
  BY <1>12, <1>13, SoundMore
<1>15. ASSUME NEW V, OwnAre(V, at, h), Suits(V, here, outer, h)
       PROVE  /\ Suits(V, within, {}, h)
              /\ Piece(c, within \cup {}, V, h, h) => Piece(d, here \cup outer, V, h, h)
  <2> DEFINE L == here \cup outer \cup LoopMarks(loop)
  <2>1. V[loop] = h /\ V[After(loop)] = h
    BY <1>1, <1>15 DEF OwnAre
  <2>2. Suits(V, within, {}, h)
    <3> HIDE DEF here, outer
    <3>1. QED
      BY <1>10, <1>11, <1>15, <2>1 DEF Suits
  <2>3. Surrounded(ctx, here \cup outer, V, h)
    BY <1>15, Surrounding
  <2> HIDE DEF here, outer
  <2>4. Surrounded(ctx, L, V, h) /\ <<"endwhile", loop>> \in L
    BY <1>11, <2>3, SurroundedMore
  <2>5. ASSUME Piece(c, within \cup {}, V, h, h) PROVE Piece(d, here \cup outer, V, h, h)
    <3>1. within \cup {} \subseteq L
      BY <1>10
    <3> HIDE DEF within
    <3>2. Piece(c, L, V, h, h)
      BY <2>5, <3>1, PieceMore
    <3>3. Piece(init, L, V, h, h) /\ Piece(before, L, V, h, h)
      BY <1>15, <2>4 DEF HeadKeeps, loop
    <3> DEFINE K == here \cup outer
    <3>4. L = K \cup LoopMarks(Id(at, "loop"))
      BY DEF loop
    <3> HIDE DEF L, K
    <3>5. Piece(LoopBlock(Id(at, "loop"), init, before, c), K, V, h, h)
      BY <1>7, <1>15, <3>2, <3>3, <3>4, PieceLoop
    <3>6. QED
      BY <3>5 DEF K, loop
  <2>6. QED
    BY <2>2, <2>5
<1> HIDE DEF d, here, outer, within
<1> DEFINE none == {}
<1>16. Wraps(c, within, none, h, at, d, here, outer, h)
  BY <1>15 DEF Wraps
<1>17. Own(at) \cap Inside(at, Nat) = {}
  BY OwnApart
<1>18. Sound(d, Own(at) \cup Inside(at, Nat), here, outer, h)
  BY <1>14, <1>16, <1>17, SoundAround
<1>19. QED
  BY <1>18 DEF Region, d, here, outer, c, p, inner, loop

LEMMA SoundWhile ==
  ASSUME NEW s \in AnyStatement, s.kind = "while", NEW place, SoundInside(s, place),
         s.body \in Seq(AnyStatement),
         NEW at \in Seq(Nat), NEW ctx, NEW h, Fitting(ctx, place, h), Clear(h, Region(at))
  PROVE  Sound(CompileWhile(CompileStatement, s, at, ctx), Region(at),
               HereOf(ctx, place), OuterOf(ctx, place), h)
<1> DEFINE e == Evaluated(s.cond, at, ctx)
           t == StopOn(at, TRUE)
           before == e \o t
           init == <<>>
<1>1. h \in Plan
  BY DEF Fitting
<1>2. ASSUME NEW V, NEW L, OwnAre(V, at, h), Surrounded(ctx, L, V, h),
             <<"endwhile", Id(at, "loop")>> \in L
      PROVE  Piece(init, L, V, h, h) /\ Piece(before, L, V, h, h)
  <2>1. Piece(init, L, V, h, h)
    BY <1>1, PieceEmpty
  <2>2. Piece(e, L, V, h, h) /\ Piece(t, L, V, h, h)
    BY <1>1, <1>2, PieceEvaluated, PieceStop
  <2> HIDE DEF e, t
  <2>3. Piece(before, L, V, h, h)
    BY <2>2, PieceJoined
  <2>4. QED
    BY <2>1, <2>3
<1> HIDE DEF before, init
<1>3. Sound(LoopBlock(Id(at, "loop"), init, before,
                      CompileBody(CompileStatement, s.body, Append(at, 1),
                                  [ctx EXCEPT !.loop = Id(at, "loop")])),
            Region(at), HereOf(ctx, place), OuterOf(ctx, place), h)
  <2>1. HeadKeeps(init, before, at, ctx, h)
    BY <1>2 DEF HeadKeeps
  <2>2. QED
    BY <2>1, SoundLoop
<1>4. QED
  BY <1>3 DEF CompileWhile, before, init

LEMMA SoundFor ==
  ASSUME NEW s \in AnyStatement, s.kind = "for", NEW place, SoundInside(s, place),
         s.body \in Seq(AnyStatement),
         NEW at \in Seq(Nat), NEW ctx, NEW h, Fitting(ctx, place, h), Clear(h, Region(at))
  PROVE  Sound(CompileFor(CompileStatement, s, at, ctx), Region(at),
               HereOf(ctx, place), OuterOf(ctx, place), h)
<1> DEFINE x == [op |-> "iter"]
           y == [op |-> "next", into |-> Value(at)]
           r == IF s.cond = Test THEN <<>> ELSE RaiseInst(s.cond, at, ctx)
           u == Unsafe(x, at, ctx)
           t == StopOn(at, TRUE)
           init == r \o u
           before == <<y>> \o t
<1>1. h \in Plan
  BY DEF Fitting
<1>2. x.op = "iter" /\ x.op \in Risky
  BY DEF Risky
<1>3. y.op = "next" /\ y.into.tag # "old" /\ Targets(y) = {}
  BY DEF Value, Id, Targets
<1>4. ASSUME NEW V, NEW L, OwnAre(V, at, h), Surrounded(ctx, L, V, h),
             <<"endwhile", Id(at, "loop")>> \in L
      PROVE  Piece(init, L, V, h, h) /\ Piece(before, L, V, h, h)
  <2>1. Piece(r, L, V, h, h)
    BY <1>1, <1>4, PieceEmpty, PieceRaise
  <2> HIDE DEF x, y, r
  <2>2. Piece(u, L, V, h, h)
    BY <1>1, <1>2, <1>4, PieceUnsafe
  <2>3. Piece(t, L, V, h, h)
    BY <1>1, <1>4, PieceStop
  <2>4. Piece(<<y>>, L, V, h, h)
    BY <1>1, <1>3, PieceSafe
  <2> HIDE DEF u, t
  <2>5. Piece(init, L, V, h, h)
    BY <2>1, <2>2, PieceJoined
  <2>6. Piece(before, L, V, h, h)
    BY <2>3, <2>4, PieceJoined
  <2>7. QED
    BY <2>5, <2>6
<1> HIDE DEF before, init
<1>5. Sound(LoopBlock(Id(at, "loop"), init, before,
                      CompileBody(CompileStatement, s.body, Append(at, 1),
                                  [ctx EXCEPT !.loop = Id(at, "loop")])),
            Region(at), HereOf(ctx, place), OuterOf(ctx, place), h)
  <2>1. HeadKeeps(init, before, at, ctx, h)
    BY <1>4 DEF HeadKeeps
  <2>2. QED
    BY <2>1, SoundLoop
<1>6. QED
  BY <1>5 DEF CompileFor, before, init

(* Three pieces of code with something of the statement's own in between.  *)
Wraps3(c1, c2, c3, within, beyond, g, p, d, here, outer, h) ==
  \A V : OwnAre(V, p, g) /\ Suits(V, here, outer, h)
    => /\ Suits(V, within, beyond, g)
       /\ \/ ~Piece(c1, within \cup beyond, V, g, g)
          \/ ~Piece(c2, within \cup beyond, V, g, g)
          \/ ~Piece(c3, within \cup beyond, V, g, g)
          \/ Piece(d, here \cup outer, V, h, h)

LEMMA SoundAround3 ==
  ASSUME NEW c1, NEW c2, NEW c3, NEW T1, NEW T2, NEW T3, NEW d, NEW p,
         NEW here, NEW outer, NEW h, NEW within, NEW beyond, NEW g,
         T1 \cap T2 = {}, T1 \cap T3 = {}, T2 \cap T3 = {},
         Own(p) \cap (T1 \cup T2 \cup T3) = {},
         Sound(c1, T1, within, beyond, g), Sound(c2, T2, within, beyond, g),
         Sound(c3, T3, within, beyond, g),
         Wraps3(c1, c2, c3, within, beyond, g, p, d, here, outer, h)
  PROVE  Sound(d, Own(p) \cup (T1 \cup T2 \cup T3), here, outer, h)
<1>1. PICK W1 : \A V : (\A id \in T1 : V[id] = W1[id]) /\ Suits(V, within, beyond, g)
                         => Piece(c1, within \cup beyond, V, g, g)
  BY DEF Sound
<1>2. PICK W2 : \A V : (\A id \in T2 : V[id] = W2[id]) /\ Suits(V, within, beyond, g)
                         => Piece(c2, within \cup beyond, V, g, g)
  BY DEF Sound
<1>3. PICK W3 : \A V : (\A id \in T3 : V[id] = W3[id]) /\ Suits(V, within, beyond, g)
                         => Piece(c3, within \cup beyond, V, g, g)
  BY DEF Sound
<1> DEFINE U == Own(p) \cup (T1 \cup T2 \cup T3)
           Y == [id \in U |-> IF id \in T1 THEN W1[id] ELSE IF id \in T2 THEN W2[id]
                              ELSE IF id \in T3 THEN W3[id] ELSE g]
<1>4. /\ \A id \in T1 : Y[id] = W1[id]
      /\ \A id \in T2 : Y[id] = W2[id]
      /\ \A id \in T3 : Y[id] = W3[id]
      /\ \A id \in Own(p) : Y[id] = g
  OBVIOUS
<1> HIDE DEF Y
<1>5. ASSUME NEW V, \A id \in U : V[id] = Y[id], Suits(V, here, outer, h)
      PROVE  Piece(d, here \cup outer, V, h, h)
  <2>1. OwnAre(V, p, g)
    BY <1>4, <1>5 DEF OwnAre
  <2>2. Suits(V, within, beyond, g)
    BY <1>5, <2>1 DEF Wraps3
  <2>3. Piece(c1, within \cup beyond, V, g, g)
    BY <1>1, <1>4, <1>5, <2>2
  <2>4. Piece(c2, within \cup beyond, V, g, g)
    BY <1>2, <1>4, <1>5, <2>2
  <2>5. Piece(c3, within \cup beyond, V, g, g)
    BY <1>3, <1>4, <1>5, <2>2
  <2>6. QED
    BY <1>5, <2>1, <2>3, <2>4, <2>5 DEF Wraps3
<1>6. QED
  BY <1>5 DEF Sound

(* The plan inside a try statement, and what surrounds its blocks.         *)
TypesOf(s) == UNION {s.excepts[i].types : i \in DOMAIN s.excepts}
Remembered(at, h) == Append(h.saved, [old |-> Id(at, "old"), mask |-> h.mask])
InTry(s, at, h) == [mask |-> <<TypesOf(s)>>, saved |-> Remembered(at, h)]
TryContext(at, ctx) == [ctx EXCEPT !.inTry = TRUE, !.excepts = Id(at, "excepts")]
TryMarks(at) == {<<"label", Id(at, "excepts")>>, <<"label", Id(at, "finally")>>}

LEMMA RememberedIs ==
  ASSUME NEW at \in Seq(Nat), NEW h \in Plan
  PROVE  /\ Remembered(at, h) \in Seq(Saved)
         /\ Len(h.saved) \in Nat /\ Len(Remembered(at, h)) = Len(h.saved) + 1
         /\ \A k \in 1 .. Len(h.saved) : Remembered(at, h)[k] = h.saved[k]
         /\ Remembered(at, h)[Len(h.saved) + 1] = [old |-> Id(at, "old"), mask |-> h.mask]
<1> DEFINE e == [old |-> Id(at, "old"), mask |-> h.mask]
<1>1. e \in Saved
  BY DEF Saved, Id, IdOf, Tags, Plan
<1>2. h.saved \in Seq(Saved)
  BY DEF Plan
<1> HIDE DEF e
<1> DEFINE t == h.saved
<1> HIDE DEF t
<1>3. t \in Seq(Saved)
  BY <1>2 DEF t
<1>4. /\ Append(t, e) \in Seq(Saved)
      /\ Len(t) \in Nat /\ Len(Append(t, e)) = Len(t) + 1
      /\ \A k \in 1 .. Len(t) : Append(t, e)[k] = t[k]
      /\ Append(t, e)[Len(t) + 1] = e
  BY <1>1, <1>3, AppendProperties
<1>5. QED
  BY <1>4 DEF t, e, Remembered

LEMMA InTryIs ==
  ASSUME NEW s, NEW at \in Seq(Nat), NEW h \in Plan,
         \A i \in DOMAIN s.excepts : s.excepts[i].types \subseteq Exceptions
  PROVE  /\ InTry(s, at, h) \in Plan
         /\ Clear(h, Region(at)) => Clear(InTry(s, at, h), Inside(at, Nat))
         /\ \A a : Kept(a, h) => Kept(a, InTry(s, at, h))
<1> DEFINE g == InTry(s, at, h)
           n == Len(h.saved)
           r == Remembered(at, h)
<1>1. /\ r \in Seq(Saved) /\ n \in Nat /\ Len(r) = n + 1
      /\ \A k \in 1 .. n : r[k] = h.saved[k]
      /\ r[n + 1].old = Id(at, "old")
  <2>1. /\ r \in Seq(Saved) /\ n \in Nat /\ Len(r) = n + 1
        /\ \A k \in 1 .. n : r[k] = h.saved[k]
        /\ r[n + 1] = [old |-> Id(at, "old"), mask |-> h.mask]
    BY RememberedIs
  <2> HIDE DEF r, n
  <2>2. QED
    BY <2>1
<1>2. g.mask = <<TypesOf(s)>> /\ g.saved = r
  BY DEF InTry
<1>3. g \in Plan
  <2>1. TypesOf(s) \subseteq Exceptions
    BY DEF TypesOf
  <2>2. <<TypesOf(s)>> \in Mask
    BY <2>1 DEF Mask
  <2> HIDE DEF r
  <2>3. QED
    BY <1>1, <2>2 DEF InTry, Plan, r
<1> HIDE DEF g, n, r
<1>4. ASSUME Clear(h, Region(at)), NEW k \in 1 .. Len(g.saved) PROVE g.saved[k].old \notin Inside(at, Nat)
  <2>1. Own(at) \cap Inside(at, Nat) = {}
    BY OwnApart
  <2>2. Id(at, "old") \in Own(at)
    BY DEF Own, Id, IdOf, Tags
  <2>3. k \in 1 .. n \/ k = n + 1
    BY <1>1, <1>2
  <2>4. CASE k \in 1 .. n
    BY <1>1, <1>2, <1>4, <2>4 DEF Clear, Region, n
  <2>5. CASE k = n + 1
    BY <1>1, <1>2, <2>1, <2>2, <2>5
  <2>6. QED
    BY <2>3, <2>4, <2>5
<1>5. ASSUME NEW a, Kept(a, h) PROVE Kept(a, g)
  <2>1. a \in Plan /\ Len(a.saved) <= n /\ \A k \in 1 .. Len(a.saved) : a.saved[k] = h.saved[k]
    BY <1>5 DEF Kept, n
  <2>2. Len(a.saved) \in Nat
    BY <2>1 DEF Plan
  <2> DEFINE m == Len(a.saved)
  <2> HIDE DEF m
  <2>3. m <= n + 1 /\ \A k \in 1 .. m : k \in 1 .. n
    BY <1>1, <2>1, <2>2 DEF m
  <2>4. \A k \in 1 .. m : a.saved[k] = g.saved[k]
    BY <1>1, <1>2, <2>1, <2>3 DEF m
  <2>5. QED
    BY <1>1, <1>2, <2>1, <2>3, <2>4 DEF Kept, m
<1>6. QED
  BY <1>3, <1>4, <1>5 DEF Clear, g

(* What surrounds the blocks of a try statement. *)
LEMMA TryFits ==
  ASSUME NEW s, s.kind = "try", NEW place, NEW at \in Seq(Nat), NEW ctx, NEW h,
         Fitting(ctx, place, h), InTry(s, at, h) \in Plan
  PROVE  /\ Fitting(TryContext(at, ctx), Within(s, place), InTry(s, at, h))
         /\ HereOf(TryContext(at, ctx), Within(s, place)) = {<<"label", Id(at, "excepts")>>}
         /\ OuterOf(TryContext(at, ctx), Within(s, place)) \subseteq HereOf(ctx, place) \cup OuterOf(ctx, place)
<1> DEFINE inner == TryContext(at, ctx)
           around == Within(s, place)
<1>1. Id(at, "excepts") \in IdOf /\ Id(at, "excepts").tag = "excepts"
  BY DEF Id, IdOf, Tags
<1>2. /\ inner \in Context /\ inner.inTry /\ inner.excepts = Id(at, "excepts")
      /\ inner.loop = ctx.loop
  BY <1>1 DEF Fitting, Context, TryContext
<1>3. around = [loop |-> IF place.loop = "none" THEN "none" ELSE "outside", inTry |-> TRUE]
  BY DEF Within
<1>4. /\ around \in Place /\ around.inTry
      /\ around.loop = IF place.loop = "none" THEN "none" ELSE "outside"
  BY <1>3 DEF Place
<1> HIDE DEF inner, around
<1>5. Fitting(inner, around, InTry(s, at, h))
  BY <1>1, <1>2, <1>4 DEF Fitting
<1>6. HereOf(inner, around) = {<<"label", Id(at, "excepts")>>}
  BY <1>2, <1>4 DEF HereOf
<1>7. OuterOf(inner, around) \subseteq HereOf(ctx, place) \cup OuterOf(ctx, place)
  <2>1. place.loop \in {"none", "here", "outside"}
    BY DEF Fitting, Place
  <2>2. QED
    BY <1>2, <1>4, <2>1 DEF HereOf, OuterOf
<1>8. QED
  BY <1>5, <1>6, <1>7 DEF inner, around

(* An except block. *)
LEMMA SoundHandler ==
  ASSUME NEW c, NEW p \in Seq(Nat), NEW of, NEW types, NEW finally, NEW here, NEW outer, NEW g \in Plan,
         <<"label", finally>> \in here, Sound(c, Inside(p, Nat), here, outer, g)
  PROVE  Sound(<<[op |-> "match", of |-> of, types |-> types, into |-> Value(p)]>>
                 \o IfBlock(Id(p, "except"), Value(p), FALSE, c \o Goto(finally)),
               Region(p), here, outer, g)
<1> DEFINE x == [op |-> "match", of |-> of, types |-> types, into |-> Value(p)]
           id == Id(p, "except")
           body == c \o Goto(finally)
           b == IfBlock(id, Value(p), FALSE, body)
           d == <<x>> \o b
           K == here \cup outer
<1>1. x.op = "match" /\ x.into.tag # "old" /\ Targets(x) = {}
  BY DEF Targets, Value, Id
<1>2. Value(p) # GlobalException
  BY DEF Value, GlobalException, Id
<1>3. ASSUME NEW V, OwnAre(V, p, g), Suits(V, here, outer, g), Piece(c, K, V, g, g)
      PROVE  Piece(d, K, V, g, g)
  <2>1. V[id] = g
    BY <1>3, OwnIds DEF Tags
  <2>2. V[finally] = g /\ <<"label", finally>> \in K
    BY <1>3 DEF Suits
  <2> HIDE DEF K, x
  <2>3. Piece(Goto(finally), K, V, g, g)
    BY <2>2, PieceGoto
  <2>4. Piece(body, K, V, g, g)
    BY <1>3, <2>3, PieceJoined
  <2> HIDE DEF body, id
  <2>5. Piece(b, K, V, g, g)
    BY <1>2, <2>1, <2>4, PieceIf
  <2>6. Piece(<<x>>, K, V, g, g)
    BY <1>1, PieceSafe
  <2> HIDE DEF b
  <2>7. QED
    BY <2>5, <2>6, PieceJoined
<1> HIDE DEF d
<1>4. Wraps(c, here, outer, g, p, d, here, outer, g)
  BY <1>3 DEF Wraps
<1>5. Own(p) \cap Inside(p, Nat) = {}
  BY OwnApart
<1>6. Sound(d, Own(p) \cup Inside(p, Nat), here, outer, g)
  BY <1>4, <1>5, SoundAround
<1>7. QED
  BY <1>6 DEF Region, d

HandlerBody(s, at, ctx, i) ==
  CompileBody(CompileStatement, s.excepts[i].body, Append(at, i + 1), ctx)

Handler(s, at, ctx, i) ==
  <<[op |-> "match", of |-> Id(at, "exception"), types |-> s.excepts[i].types,
     into |-> Value(Append(at, i + 1))]>>
    \o IfBlock(Id(Append(at, i + 1), "except"), Value(Append(at, i + 1)), FALSE,
               HandlerBody(s, at, ctx, i) \o Goto(Id(at, "finally")))

Handlers(s, at, ctx) == FlattenSeq([i \in DOMAIN s.excepts |-> Handler(s, at, ctx, i)])

(* The except blocks, each of which goes to the finally block. *)
LEMMA SoundHandlers ==
  ASSUME NEW s, s.kind = "try", NEW place, SoundInside(s, place),
         s.excepts \in Seq([types : SUBSET Exceptions, body : Seq(AnyStatement)]),
         NEW at \in Seq(Nat), NEW ctx, NEW g, Fitting(ctx, Within(s, place), g),
         Clear(g, Inside(at, Nat)), NEW here, NEW outer,
         HereOf(ctx, Within(s, place)) \subseteq here, outer = OuterOf(ctx, Within(s, place)),
         <<"label", Id(at, "finally")>> \in here
  PROVE  Sound(Handlers(s, at, ctx), Inside(at, Nat \ {0, 1}), here, outer, g)
<1> DEFINE n == Len(s.excepts)
           base == HereOf(ctx, Within(s, place))
           seqs == [i \in DOMAIN s.excepts |-> Handler(s, at, ctx, i)]
           T == [i \in 1 .. n |-> Inside(at, {i + 1})]
           H(i) == Handler(s, at, ctx, i)
<1>1. n \in Nat /\ DOMAIN s.excepts = 1 .. n
  OBVIOUS
<1>2. \A i \in 1 .. n : s.excepts[i].body \in Seq(AnyStatement)
  <2> DEFINE S == [types : SUBSET Exceptions, body : Seq(AnyStatement)]
  <2>1. s.excepts \in Seq(S)
    OBVIOUS
  <2> HIDE DEF S
  <2>2. \A i \in 1 .. n : s.excepts[i] \in S
    BY <2>1
  <2>3. QED
    BY <2>2 DEF S
<1>3. \A i \in 1 .. n : s.excepts[i].body \in Blocks(s)
  <2>1. \A i \in DOMAIN s.excepts : s.excepts[i].body \in Blocks(s)
    BY DEF Blocks
  <2>2. QED
    BY <1>1, <2>1
<1>4. g \in Plan
  BY DEF Fitting
<1> HIDE DEF n
<1>5. ASSUME NEW i \in 1 .. n PROVE Sound(H(i), Inside(at, {i + 1}), here, outer, g)
  <2> DEFINE j == i + 1
             p == Append(at, j)
             block == s.excepts[i].body
             types == s.excepts[i].types
             c == CompileBody(CompileStatement, block, p, ctx)
  <2>1. j \in Nat
    BY <1>1
  <2>2. block \in Seq(AnyStatement) /\ block \in Blocks(s)
    BY <1>2, <1>3
  <2>3. H(i) = <<[op |-> "match", of |-> Id(at, "exception"), types |-> types, into |-> Value(p)]>>
                 \o IfBlock(Id(p, "except"), Value(p), FALSE, c \o Goto(Id(at, "finally")))
    BY DEF Handler, HandlerBody
  <2> HIDE DEF block, types, j
  <2>4. p \in Seq(Nat) /\ Region(p) \subseteq Inside(at, {j})
    BY <2>1, RegionInside
  <2>5. Sound(c, Inside(p, Nat), base, outer, g)
    BY <2>1, <2>2, SoundBlock
  <2> HIDE DEF c, p, base, H
  <2>6. Sound(c, Inside(p, Nat), here, outer, g)
    BY <2>5, SoundMore DEF base
  <2> DEFINE d == <<[op |-> "match", of |-> Id(at, "exception"), types |-> types, into |-> Value(p)]>>
                 \o IfBlock(Id(p, "except"), Value(p), FALSE, c \o Goto(Id(at, "finally")))
  <2>7. Sound(d, Region(p), here, outer, g)
    BY <1>4, <2>4, <2>6, SoundHandler
  <2> HIDE DEF d
  <2>8. Sound(d, Inside(at, {j}), here, outer, g)
    BY <2>4, <2>7, SoundMore
  <2>9. QED
    BY <2>3, <2>8 DEF d, j
<1> HIDE DEF H
<1>6. seqs = [i \in 1 .. n |-> seqs[i]] /\ DOMAIN seqs = 1 .. n
  BY <1>1
<1>7. \A i \in 1 .. n : Sound(seqs[i], T[i], here, outer, g)
  <2>1. TAKE i \in 1 .. n
  <2>2. seqs[i] = H(i) /\ T[i] = Inside(at, {i + 1})
    BY <1>1 DEF H
  <2> HIDE DEF seqs, T
  <2>3. QED
    BY <1>5, <2>2
<1>8. \A k, l \in 1 .. n : k # l => T[k] \cap T[l] = {}
  <2>1. ASSUME NEW k \in 1 .. n, NEW l \in 1 .. n, k # l PROVE T[k] \cap T[l] = {}
    <3> DEFINE i == {k + 1}
               j == {l + 1}
    <3>1. i \cap j = {}
      BY <1>1, <2>1
    <3>2. T[k] = Inside(at, i) /\ T[l] = Inside(at, j)
      OBVIOUS
    <3> HIDE DEF T, i, j
    <3>3. QED
      BY <3>1, <3>2, InsideParts
  <2>2. QED
    BY <2>1
<1>9. UNION {T[i] : i \in 1 .. n} \subseteq Inside(at, Nat \ {0, 1})
  <2>1. ASSUME NEW i \in 1 .. n PROVE T[i] \subseteq Inside(at, Nat \ {0, 1})
    <3> DEFINE j == {i + 1}
               rest == Nat \ {0, 1}
    <3>1. j \subseteq rest
      BY <1>1
    <3>2. T[i] = Inside(at, j)
      OBVIOUS
    <3> HIDE DEF T, j, rest
    <3>3. Inside(at, j) \subseteq Inside(at, rest)
      BY <3>1, InsideParts
    <3>4. QED
      BY <3>2, <3>3 DEF rest
  <2> HIDE DEF T
  <2>2. QED
    BY <2>1
<1> HIDE DEF seqs, T
<1>10. Sound(FlattenSeq(seqs), UNION {T[i] : i \in 1 .. n}, here, outer, g)
  BY <1>1, <1>4, <1>6, <1>7, <1>8, SoundFlattened
<1> DEFINE c == FlattenSeq(seqs)
           U == UNION {T[i] : i \in 1 .. n}
<1>11. Handlers(s, at, ctx) = c
  BY DEF Handlers, seqs
<1> HIDE DEF c, U
<1>12. Sound(c, Inside(at, Nat \ {0, 1}), here, outer, g)
  BY <1>9, <1>10, SoundMore DEF c, U
<1>13. QED
  BY <1>11, <1>12

(* The try statement around its blocks. *)
TryCode(body, handlers, finally, s, at, inner) ==
  ((((((<<[op |-> "save", into |-> Id(at, "old")], [op |-> "excepts", types |-> TypesOf(s)]>>
          \o body)
         \o IfBlock(Id(at, "unraised"), GlobalException, TRUE, Goto(Id(at, "finally"))))
        \o Label(Id(at, "excepts")))
       \o Unsafe([op |-> "catch", into |-> Id(at, "exception")], at, inner))
      \o handlers)
     \o Label(Id(at, "finally")))
    \o finally
    \o <<[op |-> "restore", from |-> Id(at, "old")]>>

LEMMA PieceTry ==
  ASSUME NEW s, NEW at \in Seq(Nat), NEW inner, NEW V, NEW K, NEW L, NEW h \in Plan,
         InTry(s, at, h) \in Plan, Clear(h, Own(at)),
         OwnAre(V, at, InTry(s, at, h)), L = K \cup TryMarks(at),
         Surrounded(inner, L, V, InTry(s, at, h)),
         NEW body, NEW handlers, NEW finally,
         Piece(body, L, V, InTry(s, at, h), InTry(s, at, h)),
         Piece(handlers, L, V, InTry(s, at, h), InTry(s, at, h)),
         Piece(finally, L, V, InTry(s, at, h), InTry(s, at, h))
  PROVE  Piece(TryCode(body, handlers, finally, s, at, inner), K, V, h, h)
<1> DEFINE g == InTry(s, at, h)
           f == [mask |-> h.mask, saved |-> Remembered(at, h)]
           old == Id(at, "old")
           excepts_ == Id(at, "excepts")
           last == Id(at, "finally")
           unraised == Id(at, "unraised")
           save == [op |-> "save", into |-> old]
           set == [op |-> "excepts", types |-> TypesOf(s)]
           restore == [op |-> "restore", from |-> old]
           label == [op |-> "label", id |-> excepts_]
           get == [op |-> "catch", into |-> Id(at, "exception")]
           catch == Unsafe(get, at, inner)
           skip == IfBlock(unraised, GlobalException, TRUE, Goto(last))
<1>1. /\ Remembered(at, h) \in Seq(Saved)
      /\ Remembered(at, h) = Append(h.saved, [old |-> old, mask |-> h.mask])
  BY RememberedIs DEF Remembered
<1>2. f \in Plan /\ f.mask = h.mask /\ f.saved = Remembered(at, h)
  BY <1>1 DEF Plan
<1>3. g \in Plan /\ g.mask = <<TypesOf(s)>> /\ g.saved = Remembered(at, h)
  BY DEF InTry
<1>4. V[excepts_] = g /\ V[last] = g /\ V[unraised] = g /\ OwnAre(V, at, g)
  BY OwnIds DEF Tags
<1>5. /\ old.tag = "old" /\ excepts_.tag = "excepts" /\ last.tag = "finally"
      /\ old \in Own(at) /\ L = K \cup {<<"label", excepts_>>, <<"label", last>>}
  BY DEF Id, Own, IdOf, Tags, TryMarks
<1>6. save.op = "save" /\ save.into = old /\ Targets(save) = {} /\ Marks(save) = {}
  BY DEF Targets, Marks
<1>7. set.op = "excepts" /\ set.types = TypesOf(s) /\ Targets(set) = {} /\ Marks(set) = {}
  BY DEF Targets, Marks
<1>8. restore.op = "restore" /\ restore.from = old /\ Targets(restore) = {} /\ Marks(restore) = {}
  BY DEF Targets, Marks
<1>9. /\ label.op = "label" /\ label.id = excepts_ /\ Targets(label) = {}
      /\ Marks(label) = {<<"label", excepts_>>}
  BY DEF Targets, Marks
<1>10. get.op = "catch" /\ get.op \in Risky /\ get.into.tag # "old"
  BY DEF Id, Risky
<1>11. /\ Piece(body, L, V, g, g) /\ Piece(handlers, L, V, g, g) /\ Piece(finally, L, V, g, g)
       /\ Surrounded(inner, L, V, g)
  OBVIOUS
<1>12. \A k \in 1 .. Len(h.saved) : h.saved[k].old # old
  BY <1>5 DEF Clear
<1> DEFINE start == <<save, set>>
           c1 == start \o body
           c2 == c1 \o skip
           c3 == c2 \o Label(excepts_)
           c4 == c3 \o catch
           c5 == c4 \o handlers
           c6 == c5 \o Label(last)
           c7 == c6 \o finally
           c8 == c7 \o <<restore>>
<1>13. TryCode(body, handlers, finally, s, at, inner) = c8
  BY DEF TryCode
<1>14. start = <<save>> \o <<set>>
  OBVIOUS
<1>15. Label(excepts_) = <<label>>
  BY DEF Label
<1> HIDE DEF g, f, old, excepts_, last, unraised, save, set, restore, label, get
<1>16. Carries(save, h, f, V)
  <2>1. f.mask = h.mask /\ f.saved = Append(h.saved, [old |-> save.into, mask |-> h.mask])
    BY <1>1, <1>2, <1>6
  <2>2. QED
    BY <1>5, <1>6, <1>12, <2>1 DEF Carries
<1>17. Carries(set, f, g, V)
  BY <1>2, <1>3, <1>7 DEF Carries
<1>18. Carries(restore, g, h, V)
  <2>1. g.saved = Append(h.saved, [old |-> restore.from, mask |-> h.mask])
    BY <1>1, <1>3, <1>8
  <2>2. QED
    BY <1>8, <2>1 DEF Carries
<1>19. Piece(<<save>>, L, V, h, f)
  BY <1>2, <1>6, <1>16, PieceOne DEF Risky, IsCheck, IsHandler
<1>20. Piece(<<set>>, L, V, f, g)
  BY <1>2, <1>3, <1>7, <1>17, PieceOne DEF Risky, IsCheck, IsHandler
<1>21. Piece(<<restore>>, L, V, g, h)
  BY <1>3, <1>8, <1>18, PieceOne DEF Risky, IsCheck, IsHandler
<1>22. Piece(catch, L, V, g, g) /\ Starts(catch, get)
  BY <1>3, <1>4, <1>10, <1>11, PieceUnsafe
<1>23. Piece(skip, L, V, g, g)
  <2>1. Piece(Goto(last), L, V, g, g)
    BY <1>3, <1>4, <1>5, PieceGoto
  <2>2. QED
    BY <1>3, <1>4, <2>1, PieceIf
<1>24. Piece(Label(last), L, V, g, g) /\ MarksOf(Label(last)) = {<<"label", last>>}
  BY <1>3, <1>4, <1>5, PieceLabel
<1> HIDE DEF catch, skip
<1> DEFINE handler == <<label>> \o catch
<1>25. Piece(handler, L, V, g, g) /\ <<"label", excepts_>> \in MarksOf(handler)
  <2>1. MayFollow(label, get)
    BY <1>9, <1>10 DEF MayFollow, IsCheck, IsHandler, Risky
  <2>2. Carries(label, g, g, V)
    BY <1>3, <1>4, <1>9, CarriesOn
  <2>3. Piece(handler, L, V, g, g)
    BY <1>3, <1>9, <1>22, <2>1, <2>2, PieceAhead
  <2>4. IsCode(<<label>>) /\ MarksOf(<<label>>) = {<<"label", excepts_>>} /\ IsCode(catch)
    BY <1>9, <1>22, OneInstruction, OneTargets DEF Piece
  <2>5. MarksOf(handler) = MarksOf(<<label>>) \cup MarksOf(catch)
    BY <2>4, JoinedTargets
  <2>6. QED
    BY <2>3, <2>4, <2>5
<1>26. Piece(start, L, V, h, g)
  <2> HIDE DEF start
  <2>1. Piece(<<save>> \o <<set>>, L, V, h, g)
    BY <1>19, <1>20, PieceJoined
  <2>2. QED
    BY <1>14, <2>1
<1> HIDE DEF start
<1>27. Piece(c1, L, V, h, g)
  BY <1>11, <1>26, PieceJoined
<1> HIDE DEF c1
<1>28. Piece(c2, L, V, h, g)
  BY <1>23, <1>27, PieceJoined
<1> HIDE DEF c2
<1>29. c4 = c2 \o handler
  <2>1. IsCode(c2) /\ IsCode(<<label>>) /\ IsCode(catch)
    BY <1>22, <1>28, OneInstruction DEF Piece
  <2>2. c4 = (c2 \o <<label>>) \o catch
    BY <1>15
  <2>3. QED
    BY <2>1, <2>2, JoinedInTurn
<1> HIDE DEF c4, handler
<1>30. Piece(c4, L, V, h, g) /\ <<"label", excepts_>> \in MarksOf(c4)
  BY <1>25, <1>28, <1>29, PieceJoined
<1>31. Piece(c5, L, V, h, g) /\ <<"label", excepts_>> \in MarksOf(c5)
  BY <1>11, <1>30, PieceJoined
<1> HIDE DEF c5
<1>32. Piece(c6, L, V, h, g) /\ {<<"label", excepts_>>, <<"label", last>>} \subseteq MarksOf(c6)
  <2>1. Piece(c6, L, V, h, g) /\ MarksOf(c6) = MarksOf(c5) \cup MarksOf(Label(last))
    BY <1>24, <1>31, PieceJoined
  <2> HIDE DEF c6
  <2>2. QED
    BY <1>24, <1>31, <2>1
<1> HIDE DEF c6
<1>33. Piece(c7, L, V, h, g) /\ MarksOf(c6) \subseteq MarksOf(c7)
  BY <1>11, <1>32, PieceJoined
<1> HIDE DEF c7
<1>34. Piece(c8, L, V, h, h) /\ MarksOf(c7) \subseteq MarksOf(c8)
  BY <1>21, <1>33, PieceJoined
<1> HIDE DEF c8
<1>35. L \subseteq K \cup MarksOf(c8)
  BY <1>5, <1>32, <1>33, <1>34
<1>36. QED
  BY <1>13, <1>34, <1>35, PieceMore

(* compile_try lays the blocks out as TryCode does. *)
LEMMA TryIs ==
  ASSUME NEW s, NEW at, NEW ctx \in Context
  PROVE  CompileTry(CompileStatement, s, at, ctx)
           = TryCode(CompileBody(CompileStatement, s.body, Append(at, 1), TryContext(at, ctx)),
                     Handlers(s, at, TryContext(at, ctx)),
                     CompileBody(CompileStatement, s.finally, Append(at, 0), TryContext(at, ctx)),
                     s, at, TryContext(at, ctx))
<1> DEFINE inner == TryContext(at, ctx)
           body == CompileBody(CompileStatement, s.body, Append(at, 1), inner)
           finally == CompileBody(CompileStatement, s.finally, Append(at, 0), inner)
           start == <<[op |-> "save", into |-> Id(at, "old")],
                      [op |-> "excepts", types |-> TypesOf(s)]>>
           skip == IfBlock(Id(at, "unraised"), GlobalException, TRUE, Goto(Id(at, "finally")))
           catch == Unsafe([op |-> "catch", into |-> Id(at, "exception")], at, inner)
           last == Label(Id(at, "finally"))
           restore == <<[op |-> "restore", from |-> Id(at, "old")]>>
<1>1. inner.excepts = Id(at, "excepts")
  BY DEF TryContext, Context
<1>2. CompileTry(CompileStatement, s, at, ctx)
        = (((((((start \o body) \o skip) \o Label(inner.excepts)) \o catch)
              \o Handlers(s, at, inner)) \o last) \o finally) \o restore
  BY Zenon DEF CompileTry, TryBlocks, TypesOf, TryContext, Handlers, Handler, HandlerBody
<1>3. TryCode(body, Handlers(s, at, inner), finally, s, at, inner)
        = (((((((start \o body) \o skip) \o Label(Id(at, "excepts"))) \o catch)
              \o Handlers(s, at, inner)) \o last) \o finally) \o restore
  BY Zenon DEF TryCode
<1>4. TryCode(body, Handlers(s, at, inner), finally, s, at, inner)
        = (((((((start \o body) \o skip) \o Label(inner.excepts)) \o catch)
              \o Handlers(s, at, inner)) \o last) \o finally) \o restore
  BY Zenon, <1>1, <1>3
<1>5. CompileTry(CompileStatement, s, at, ctx) = TryCode(body, Handlers(s, at, inner), finally, s, at, inner)
  <2> HIDE DEF inner, body, finally, start, skip, catch, last, restore
  <2>1. QED
    BY Zenon, <1>2, <1>4
<1>6. QED
  BY Zenon, <1>5

LEMMA SoundTry ==
  ASSUME NEW s \in AnyStatement, s.kind = "try", NEW place, SoundInside(s, place),
         s.excepts \in Seq([types : SUBSET Exceptions, body : Seq(AnyStatement)]),
         s.body \in Seq(AnyStatement), s.finally \in Seq(AnyStatement),
         NEW at \in Seq(Nat), NEW ctx, NEW h, Fitting(ctx, place, h), Clear(h, Region(at))
  PROVE  Sound(CompileTry(CompileStatement, s, at, ctx), Region(at),
               HereOf(ctx, place), OuterOf(ctx, place), h)
<1> DEFINE g == InTry(s, at, h)
           inner == TryContext(at, ctx)
           around == Within(s, place)
           here == HereOf(ctx, place)
           outer == OuterOf(ctx, place)
           within == TryMarks(at)
           beyond == OuterOf(inner, around)
           body == CompileBody(CompileStatement, s.body, Append(at, 1), inner)
           handlers == Handlers(s, at, inner)
           finally == CompileBody(CompileStatement, s.finally, Append(at, 0), inner)
           d == TryCode(body, handlers, finally, s, at, inner)
<1>1. CompileTry(CompileStatement, s, at, ctx) = d
  BY Zenon, TryIs DEF Fitting
<1>2. h \in Plan /\ Clear(h, Own(at))
  BY DEF Fitting, Clear, Region
<1>3. \A i \in DOMAIN s.excepts : s.excepts[i].types \subseteq Exceptions
  <2> DEFINE S == [types : SUBSET Exceptions, body : Seq(AnyStatement)]
  <2>1. s.excepts \in Seq(S)
    OBVIOUS
  <2> HIDE DEF S
  <2>2. \A i \in DOMAIN s.excepts : s.excepts[i] \in S
    BY <2>1
  <2>3. QED
    BY <2>2 DEF S
<1>4. /\ g \in Plan /\ Clear(g, Inside(at, Nat))
      /\ \A a : Kept(a, h) => Kept(a, g)
  BY <1>2, <1>3, InTryIs
<1>5. /\ Fitting(inner, around, g)
      /\ HereOf(inner, around) = {<<"label", Id(at, "excepts")>>}
      /\ beyond \subseteq here \cup outer
  BY <1>4, TryFits
<1>6. /\ HereOf(inner, around) \subseteq within
      /\ <<"label", Id(at, "finally")>> \in within
      /\ within = {<<"label", Id(at, "excepts")>>, <<"label", Id(at, "finally")>>}
  BY <1>5 DEF TryMarks
<1>7. s.body \in Blocks(s) /\ s.finally \in Blocks(s)
  BY DEF Blocks
<1>8. \A k \in {0, 1} : Inside(Append(at, k), Nat) \subseteq Inside(at, {k})
  BY RegionInside DEF Region
<1> DEFINE block1 == s.body
           block0 == s.finally
<1> HIDE DEF g, inner, around, within, beyond, block1, block0
<1>9. Sound(body, Inside(at, {1}), within, beyond, g)
  <2> DEFINE p == Append(at, 1)
             c == CompileBody(CompileStatement, block1, p, inner)
  <2>1. Sound(c, Inside(p, Nat), HereOf(inner, around), OuterOf(inner, around), g)
    BY <1>4, <1>5, <1>7, SoundBlock DEF around, block1
  <2>2. Inside(p, Nat) \subseteq Inside(at, {1})
    BY <1>8
  <2> HIDE DEF p, c
  <2>3. Sound(c, Inside(at, {1}), within, beyond, g)
    BY <1>6, <2>1, <2>2, SoundMore DEF beyond
  <2>4. QED
    BY <2>3 DEF c, p, block1
<1>10. Sound(finally, Inside(at, {0}), within, beyond, g)
  <2> DEFINE p == Append(at, 0)
             c == CompileBody(CompileStatement, block0, p, inner)
  <2>1. Sound(c, Inside(p, Nat), HereOf(inner, around), OuterOf(inner, around), g)
    BY <1>4, <1>5, <1>7, SoundBlock DEF around, block0
  <2>2. Inside(p, Nat) \subseteq Inside(at, {0})
    BY <1>8
  <2> HIDE DEF p, c
  <2>3. Sound(c, Inside(at, {0}), within, beyond, g)
    BY <1>6, <2>1, <2>2, SoundMore DEF beyond
  <2>4. QED
    BY <2>3 DEF c, p, block0
<1>11. Sound(handlers, Inside(at, Nat \ {0, 1}), within, beyond, g)
  BY <1>4, <1>5, <1>6, SoundHandlers DEF around, beyond
<1> HIDE DEF body, handlers, finally, here, outer
<1>12. ASSUME NEW V, OwnAre(V, at, g), Suits(V, here, outer, h)
       PROVE  /\ Suits(V, within, beyond, g)
              /\ \/ ~Piece(body, within \cup beyond, V, g, g)
                 \/ ~Piece(handlers, within \cup beyond, V, g, g)
                 \/ ~Piece(finally, within \cup beyond, V, g, g)
                 \/ Piece(d, here \cup outer, V, h, h)
  <2> DEFINE K == here \cup outer
             L == K \cup TryMarks(at)
  <2>1. \A t \in within : V[t[2]] = g
    <3>1. V[Id(at, "excepts")] = g /\ V[Id(at, "finally")] = g
      BY <1>12, OwnIds DEF Tags
    <3>2. ASSUME NEW t \in within PROVE V[t[2]] = g
      <4>1. t = <<"label", Id(at, "excepts")>> \/ t = <<"label", Id(at, "finally")>>
        BY <1>6
      <4>2. t[2] = Id(at, "excepts") \/ t[2] = Id(at, "finally")
        BY <4>1
      <4>3. QED
        BY <3>1, <4>2
    <3>3. QED
      BY <3>2
  <2>2. \A t \in here \cup outer : Kept(V[t[2]], h)
    BY <1>2, <1>12, KeptItself DEF Suits
  <2>3. Suits(V, within, beyond, g)
    BY <1>4, <1>5, <2>1, <2>2 DEF Suits
  <2>4. within \cup beyond \subseteq L
    BY <1>5 DEF within
  <2>5. Surrounded(inner, within \cup beyond, V, g)
    BY <1>5, <1>6, <2>3, Surrounding
  <2> DEFINE M == within \cup beyond
  <2>6. L = K \cup TryMarks(at)
    OBVIOUS
  <2> HIDE DEF K, L, M
  <2>7. Surrounded(inner, L, V, g)
    BY <2>4, <2>5, SurroundedMore DEF M
  <2>8. ASSUME Piece(body, M, V, g, g), Piece(handlers, M, V, g, g), Piece(finally, M, V, g, g)
        PROVE  Piece(d, K, V, h, h)
    <3>1. Piece(body, L, V, g, g) /\ Piece(handlers, L, V, g, g) /\ Piece(finally, L, V, g, g)
      BY <2>4, <2>8, PieceMore DEF M
    <3>2. QED
      BY <1>2, <1>4, <1>12, <2>6, <2>7, <3>1, PieceTry DEF g
  <2>9. QED
    BY <2>3, <2>8 DEF K, M
<1> HIDE DEF d
<1>13. Wraps3(body, handlers, finally, within, beyond, g, at, d, here, outer, h)
  BY <1>12 DEF Wraps3
<1> DEFINE T1 == Inside(at, {1})
           T2 == Inside(at, Nat \ {0, 1})
           T3 == Inside(at, {0})
<1>14. T1 \cap T2 = {} /\ T1 \cap T3 = {} /\ T2 \cap T3 = {}
  <2> DEFINE rest == Nat \ {0, 1}
  <2>1. {1} \cap rest = {} /\ {1} \cap {0} = {} /\ rest \cap {0} = {}
    OBVIOUS
  <2> HIDE DEF rest
  <2>2. Inside(at, {1}) \cap Inside(at, rest) = {}
    BY <2>1, InsideParts
  <2>3. Inside(at, {1}) \cap Inside(at, {0}) = {}
    BY <2>1, InsideParts
  <2>4. Inside(at, rest) \cap Inside(at, {0}) = {}
    BY <2>1, InsideParts
  <2>5. QED
    BY <2>2, <2>3, <2>4 DEF rest
<1>15. /\ Own(at) \cap (T1 \cup T2 \cup T3) = {}
       /\ Own(at) \cup (T1 \cup T2 \cup T3) \subseteq Region(at)
  <2> DEFINE rest == Nat \ {0, 1}
  <2>1. {1} \subseteq Nat /\ {0} \subseteq Nat /\ rest \subseteq Nat
    OBVIOUS
  <2> HIDE DEF rest
  <2>2. Inside(at, {1}) \subseteq Inside(at, Nat)
    BY <2>1, InsideParts
  <2>3. Inside(at, {0}) \subseteq Inside(at, Nat)
    BY <2>1, InsideParts
  <2>4. Inside(at, rest) \subseteq Inside(at, Nat)
    BY <2>1, InsideParts
  <2>5. Own(at) \cap Inside(at, Nat) = {}
    BY OwnApart
  <2>6. QED
    BY <2>2, <2>3, <2>4, <2>5 DEF rest, Region
<1> HIDE DEF T1, T2, T3
<1>16. Sound(d, Own(at) \cup (T1 \cup T2 \cup T3), here, outer, h)
  BY <1>9, <1>10, <1>11, <1>13, <1>14, <1>15, SoundAround3 DEF T1, T2, T3
<1>17. Sound(d, Region(at), here, outer, h)
  BY <1>15, <1>16, SoundMore
<1>18. QED
  BY <1>1, <1>17 DEF here, outer

LEMMA SoundSimple ==
  ASSUME NEW place \in Place, NEW s \in Statement[place], NEW at \in Seq(Nat), NEW ctx, NEW h,
         Fitting(ctx, place, h), WellFormed(s),
         s.kind \in {"print", "raise", "call", "assert", "break", "continue", "return"},
         s.kind \in {"break", "continue"} => place.loop # "none"
  PROVE  Sound(Compile(CompileStatement, s, at, ctx), Region(at),
               HereOf(ctx, place), OuterOf(ctx, place), h)
<1> DEFINE code_ == Compile(CompileStatement, s, at, ctx)
           here == HereOf(ctx, place)
           outer == OuterOf(ctx, place)
<1>1. h \in Plan
  BY DEF Fitting
<1>2. CASE s.kind = "print"
  <2> DEFINE x == [op |-> "print", event |-> s.event]
  <2>1. code_ = Unsafe(x, at, ctx)
    BY <1>2 DEF Compile
  <2>2. x.op = "print" /\ x.op \in Risky
    BY DEF Risky
  <2> HIDE DEF x, code_
  <2>3. Sound(Unsafe(x, at, ctx), Region(at), HereOf(ctx, place), OuterOf(ctx, place), h)
    BY <2>2, SoundUnsafe
  <2>4. QED
    BY <2>1, <2>3 DEF code_
<1>3. CASE s.kind = "raise"
  <2> DEFINE x == [op |-> "raise", exc |-> s.exc]
  <2>1. code_ = Unsafe(x, at, ctx)
    BY <1>3 DEF Compile, RaiseInst
  <2>2. x.op = "raise" /\ x.op \in Risky
    BY DEF Risky
  <2> HIDE DEF x, code_
  <2>3. Sound(Unsafe(x, at, ctx), Region(at), HereOf(ctx, place), OuterOf(ctx, place), h)
    BY <2>2, SoundUnsafe
  <2>4. QED
    BY <2>1, <2>3 DEF code_
<1>4. CASE s.kind = "call"
  <2> DEFINE x == [op |-> "call", fn |-> s.fn]
  <2>1. code_ = Unsafe(x, at, ctx)
    BY <1>4 DEF Compile
  <2>2. x.op = "call" /\ x.op \in Risky /\ x.fn \in Functions
    BY <1>4 DEF Risky, WellFormed
  <2> HIDE DEF x, code_
  <2>3. Sound(Unsafe(x, at, ctx), Region(at), HereOf(ctx, place), OuterOf(ctx, place), h)
    BY <2>2, SoundUnsafe
  <2>4. QED
    BY <2>1, <2>3 DEF code_
<1>5. CASE s.kind = "assert"
  <2>1. code_ = CompileAssert(s, at, ctx)
    BY <1>5 DEF Compile
  <2> HIDE DEF code_
  <2>2. QED
    BY <2>1, SoundAssert DEF code_
<1>6. CASE s.kind = "break"
  <2> DEFINE x == [op |-> "break", id |-> ctx.loop]
  <2>1. code_ = <<x>>
    BY <1>6 DEF Compile, LeaveLoop
  <2>2. x.op = "break" /\ Targets(x) = {<<"endwhile", ctx.loop>>}
    BY DEF Targets
  <2>3. place.loop = "here" \/ (place.loop = "outside" /\ ~Contained)
    BY <1>6 DEF Place, Contained
  <2>4. Targets(x) \subseteq here \/ (Targets(x) \subseteq outer /\ ~Contained)
    <3> HIDE DEF x
    <3>1. QED
      BY <2>2, <2>3 DEF HereOf, OuterOf, LoopMarks
  <2> HIDE DEF x, code_, here, outer
  <2>5. Sound(<<x>>, Region(at), here, outer, h)
    BY <1>1, <2>2, <2>4, SoundJump
  <2>6. QED
    BY <2>1, <2>5 DEF code_, here, outer
<1>7. CASE s.kind = "continue"
  <2> DEFINE x == [op |-> "goto", id |-> After(ctx.loop)]
  <2>1. code_ = <<x>>
    BY <1>7 DEF Compile, Goto
  <2>2. x.op = "goto" /\ Targets(x) = {<<"label", After(ctx.loop)>>}
    BY DEF Targets
  <2>3. place.loop = "here" \/ (place.loop = "outside" /\ ~Contained)
    BY <1>7 DEF Place, Contained
  <2>4. Targets(x) \subseteq here \/ (Targets(x) \subseteq outer /\ ~Contained)
    <3> HIDE DEF x
    <3>1. QED
      BY <2>2, <2>3 DEF HereOf, OuterOf, LoopMarks
  <2> HIDE DEF x, code_, here, outer
  <2>5. Sound(<<x>>, Region(at), here, outer, h)
    BY <1>1, <2>2, <2>4, SoundJump
  <2>6. QED
    BY <2>1, <2>5 DEF code_, here, outer
<1>8. CASE s.kind = "return"
  <2>1. code_ = ReturnInst
    BY <1>8 DEF Compile
  <2>2. Contained => h.mask = <<>>
    BY <1>8 DEF Contained, Fitting
  <2> HIDE DEF code_
  <2>3. QED
    BY <1>1, <2>1, <2>2, SoundReturn DEF code_
<1>9. QED
  BY <1>2, <1>3, <1>4, <1>5, <1>6, <1>7, <1>8

LEMMA SoundFromInside ==
  ASSUME NEW place \in Place, NEW s \in Statement[place], SoundInside(s, place)
  PROVE  SoundStatement(s, place)
<1>1. /\ WellFormed(s)
      /\ s.kind \in {"break", "continue"} => place.loop # "none"
      /\ \A block \in Blocks(s) : block \in Seq(Statement[Within(s, place)])
  BY ProgramsAssumption
<1>2. s \in AnyStatement
  BY DEF AnyStatement
<1>3. \A block \in Blocks(s) : block \in Seq(AnyStatement)
  <2> DEFINE S == Statement[Within(s, place)]
  <2>1. Within(s, place) \in Place
    BY DEF Within, Place
  <2>2. S \subseteq AnyStatement
    BY <2>1 DEF AnyStatement
  <2>3. \A block \in Blocks(s) : block \in Seq(S)
    BY <1>1
  <2> HIDE DEF S
  <2>4. QED
    BY <2>2, <2>3
<1>4. SUFFICES ASSUME NEW at \in Seq(Nat), NEW ctx \in Context, NEW h \in Plan,
                      Fitting(ctx, place, h), Clear(h, Region(at))
               PROVE  Sound(CompileStatement[s][at][ctx], Region(at),
                            HereOf(ctx, place), OuterOf(ctx, place), h)
  BY DEF SoundStatement
<1>5. CompileStatement[s][at][ctx] = Compile(CompileStatement, s, at, ctx)
  BY <1>2, CodeOfStatement
<1>6. CASE s.kind = "if"
  <2>1. Compile(CompileStatement, s, at, ctx) = CompileIf(CompileStatement, s, at, ctx)
    BY <1>6 DEF Compile
  <2>2. s.orelse \in Seq(AnyStatement)
    BY <1>3, <1>6 DEF Blocks
  <2>3. s.arms \in Seq([cond : Condition, body : Seq(AnyStatement)])
    BY <1>1, <1>6 DEF WellFormed
  <2>4. QED
    BY <1>2, <1>4, <1>5, <1>6, <2>1, <2>2, <2>3, SoundIf
<1>7. CASE s.kind = "while"
  <2>1. Compile(CompileStatement, s, at, ctx) = CompileWhile(CompileStatement, s, at, ctx)
    BY <1>7 DEF Compile
  <2>2. s.body \in Seq(AnyStatement)
    BY <1>3, <1>7 DEF Blocks
  <2>3. QED
    BY <1>2, <1>4, <1>5, <1>7, <2>1, <2>2, SoundWhile
<1>8. CASE s.kind = "for"
  <2>1. Compile(CompileStatement, s, at, ctx) = CompileFor(CompileStatement, s, at, ctx)
    BY <1>8 DEF Compile
  <2>2. s.body \in Seq(AnyStatement)
    BY <1>3, <1>8 DEF Blocks
  <2>3. QED
    BY <1>2, <1>4, <1>5, <1>8, <2>1, <2>2, SoundFor
<1>9. CASE s.kind = "try"
  <2>1. Compile(CompileStatement, s, at, ctx) = CompileTry(CompileStatement, s, at, ctx)
    BY <1>9 DEF Compile
  <2>2. s.body \in Seq(AnyStatement) /\ s.finally \in Seq(AnyStatement)
    BY <1>3, <1>9 DEF Blocks
  <2>3. s.excepts \in Seq([types : SUBSET Exceptions, body : Seq(AnyStatement)])
    BY <1>1, <1>9 DEF WellFormed
  <2>4. QED
    BY <1>2, <1>4, <1>5, <1>9, <2>1, <2>2, <2>3, SoundTry
<1>10. CASE s.kind \in {"print", "raise", "call", "assert", "break", "continue", "return"}
  BY <1>1, <1>4, <1>5, <1>10, SoundSimple
<1>11. s.kind \in {"print", "raise", "call", "assert", "break", "continue", "return",
                  "if", "while", "for", "try"}
  BY <1>1 DEF WellFormed
<1>12. QED
  BY <1>6, <1>7, <1>8, <1>9, <1>10, <1>11

(* Every statement is compiled to sound code, however deep. *)
LEMMA AllSound == \A place \in Place : \A s \in Statement[place] : SoundStatement(s, place)
<1> DEFINE S == {n \in Nat : \A place \in Place : \A s \in Statement[place] :
                               Depth[s] < n => SoundStatement(s, place)}
<1>1. \A place \in Place : \A s \in Statement[place] : Depth[s] \in Nat
  BY ProgramsAssumption DEF AnyStatement
<1>2. 0 \in S
  BY <1>1
<1>3. ASSUME NEW n \in Nat, n \in S PROVE n + 1 \in S
  <2>1. SUFFICES ASSUME NEW place \in Place, NEW s \in Statement[place], Depth[s] < n + 1
                 PROVE  SoundStatement(s, place)
    OBVIOUS
  <2>2. Within(s, place) \in Place
    BY DEF Within, Place
  <2>3. ASSUME NEW block \in Blocks(s), NEW k \in DOMAIN block
        PROVE  SoundStatement(block[k], Within(s, place))
    <3>1. block \in Seq(Statement[Within(s, place)]) /\ Depth[block[k]] < Depth[s]
      BY ProgramsAssumption
    <3>2. block[k] \in Statement[Within(s, place)]
      BY <3>1
    <3>3. Depth[block[k]] \in Nat /\ Depth[s] \in Nat
      BY <1>1, <2>2, <3>2
    <3>4. Depth[block[k]] < n
      BY <2>1, <3>1, <3>3
    <3>5. QED
      BY <1>3, <2>2, <3>2, <3>4
  <2>4. SoundInside(s, place)
    BY <2>3 DEF SoundInside
  <2>5. QED
    BY <2>4, SoundFromInside
<1> HIDE DEF S
<1>4. \A n \in Nat : n \in S
  BY <1>2, <1>3, InductionOnNat
<1>5. ASSUME NEW place \in Place, NEW s \in Statement[place] PROVE SoundStatement(s, place)
  <2>1. Depth[s] \in Nat
    BY <1>1
  <2>2. Depth[s] + 1 \in S /\ Depth[s] < Depth[s] + 1
    BY <1>4, <2>1
  <2>3. QED
    BY <2>2 DEF S
<1>6. QED
  BY <1>5

-----------------------------------------------------------------------------
(* The compiled functions, and the plan at every place of one              *)

Charted(c, A, V) ==
  /\ IsCode(c) /\ Len(c) > 0 /\ c[Len(c)].op = "return"
  /\ Adjoined(c)
  /\ TargetsOf(c) \subseteq MarksOf(c)
  /\ A \in [1 .. Len(c) + 1 -> Plan]
  /\ A[1] = AtEntry
  /\ \A i \in 1 .. Len(c) : Carries(c[i], A[i], A[i + 1], V)

Chart(c) == CHOOSE A : \E V : Charted(c, A, V)
IsCharted(c) == \E V : Charted(c, Chart(c), V)

-----------------------------------------------------------------------------
(* The inductive invariant                                                 *)

(* The excepts a plan stands for, in a call that began with entered.       *)
Expected(mask, entered) == IF mask = <<>> THEN entered ELSE mask[1]

IsFrame(fr) == fr = [fn |-> fr.fn, pc |-> fr.pc, locals |-> fr.locals, entered |-> fr.entered]

(* The excepts remembered by the try statements around hold what they did. *)
Remembers(fr, a) ==
  \A k \in 1 .. Len(a.saved) :
    /\ a.saved[k].old \in DOMAIN fr.locals
    /\ fr.locals[a.saved[k].old] \subseteq Exceptions
    /\ Contained => fr.locals[a.saved[k].old] = Expected(a.saved[k].mask, fr.entered)

PlanOf(cs, fr) == Chart(cs[fr.fn])[fr.pc]
Prevails(cs, fr) == Expected(PlanOf(cs, fr).mask, fr.entered)

FrameFits(cs, fr) ==
  /\ IsFrame(fr)
  /\ fr.fn \in Functions
  /\ fr.pc \in DOMAIN cs[fr.fn]
  /\ fr.entered \subseteq Exceptions
  /\ Remembers(fr, PlanOf(cs, fr))

(* Every call but the last stands before its check of the pending          *)
(* exception, and the next one found the excepts it planned for.           *)
StackFits(cs, st, ex) ==
  /\ IsCode(st) /\ Len(st) > 0
  /\ \A k \in 1 .. Len(st) : FrameFits(cs, st[k])
  /\ \A k \in 1 .. Len(st) - 1 : IsCheck(cs[st[k].fn][st[k].pc])
  /\ st[1].entered = {}
  /\ Contained => /\ \A k \in 1 .. Len(st) - 1 : st[k + 1].entered = Prevails(cs, st[k])
                  /\ ex = Prevails(cs, st[Len(st)])

(* What may run while an exception is pending. *)
Urgent(x) == IsCheck(x) \/ Leaves(x) \/ IsHandler(x) \/ x.op = "catch"

Globals ==
  /\ program \in Programs
  /\ code = [f \in Functions |-> CompileFunction(program[f])]
  /\ excepts \subseteq Exceptions
  /\ pending \in Exceptions \cup {NoException}
  /\ tests \in Seq(BOOLEAN) /\ Len(tests) <= MaxTests
  /\ status \in {"running", "done", "error"}

IInv ==
  /\ Globals
  /\ StackFits(code, stack, excepts)
  /\ (status = "running" /\ pending # NoException) => Urgent(inst)
  /\ (status = "done" /\ Contained) => excepts = {}

(* What a function is compiled to has a chart. *)
LEMMA FunctionCharted ==
  ASSUME NEW body \in Seq(Statement[FunctionBody])
  PROVE  IsCharted(CompileFunction(body))
<1> DEFINE X == Statement[FunctionBody]
           stmts == CompileBody(CompileStatement, body, <<>>, Outside)
           ret == [op |-> "return"]
           c == stmts \o <<ret>>
           h == AtEntry
           here == HereOf(Outside, FunctionBody)
           outer == OuterOf(Outside, FunctionBody)
<1>1. FunctionBody \in Place /\ FunctionBody.loop = "none" /\ FunctionBody.inTry = FALSE
  BY DEF FunctionBody, Place
<1>2. <<>> \in Seq(Nat) /\ <<>> \in Seq(Saved) /\ Len(<<>>) = 0
  OBVIOUS
<1>3. /\ Outside \in Context /\ Outside.inTry = FALSE
  <2>1. Id(<<>>, "no try") \in IdOf /\ Id(<<>>, "no loop") \in IdOf
    BY <1>2 DEF Id, IdOf, Tags
  <2>2. QED
    BY <2>1 DEF Outside, Context
<1>4. h \in Plan /\ h.mask = <<>> /\ Len(h.saved) = 0
  BY <1>2 DEF AtEntry, Plan, Mask
<1>5. here = {} /\ outer = {}
  BY <1>1 DEF HereOf, OuterOf
<1>6. Fitting(Outside, FunctionBody, h)
  BY <1>1, <1>3, <1>4 DEF Fitting
<1>7. Clear(h, Inside(<<>>, Nat))
  BY <1>4 DEF Clear
<1>8. body \in Seq(X) /\ \A k \in DOMAIN body : SoundStatement(body[k], FunctionBody)
  <2>1. \A s \in X : SoundStatement(s, FunctionBody)
    BY <1>1, AllSound
  <2> HIDE DEF X
  <2>2. QED
    BY <2>1 DEF X
<1> HIDE DEF X, h
<1>9. Sound(stmts, Inside(<<>>, Nat), here, outer, h)
  BY <1>2, <1>3, <1>4, <1>6, <1>7, <1>8, SoundBody
<1> HIDE DEF stmts, here, outer
<1>10. PICK V : Piece(stmts, {}, V, h, h)
  <2>1. PICK W : \A V : (\A id \in Inside(<<>>, Nat) : V[id] = W[id]) /\ Suits(V, here, outer, h)
                          => Piece(stmts, here \cup outer, V, h, h)
    BY <1>9 DEF Sound
  <2>2. Suits(W, here, outer, h)
    BY <1>5 DEF Suits
  <2>3. Piece(stmts, here \cup outer, W, h, h)
    BY <2>1, <2>2
  <2>4. here \cup outer = {}
    BY <1>5
  <2>5. QED
    BY <2>3, <2>4
<1>11. Piece(<<ret>>, {}, V, h, h)
  BY <1>4, PieceOne, CarriesOn DEF Risky, IsCheck, IsHandler, Targets
<1>12. Piece(c, {}, V, h, h)
  BY <1>10, <1>11, PieceJoined
<1>13. Len(c) > 0 /\ c[Len(c)].op = "return"
  <2>1. IsCode(stmts) /\ IsCode(<<ret>>) /\ Len(<<ret>>) = 1 /\ <<ret>>[1] = ret
    BY <1>10, OneInstruction DEF Piece
  <2> DEFINE r == <<ret>>
  <2>2. r[1].op = "return" /\ Len(r) = 1
    OBVIOUS
  <2> HIDE DEF r
  <2>3. Joined(stmts, r, stmts \o r)
    BY <2>1, JoinedCode DEF r
  <2> DEFINE e == stmts \o r
  <2> HIDE DEF e
  <2>4. /\ Len(stmts) \in Nat /\ Len(e) = Len(stmts) + 1 /\ e[Len(stmts) + 1] = r[1]
    BY <2>2, <2>3 DEF Joined, e
  <2>5. QED
    BY <2>2, <2>4 DEF e, r
<1> HIDE DEF c
<1>14. PICK A \in [1 .. Len(c) + 1 -> Plan] :
          /\ A[1] = h
          /\ \A i \in 1 .. Len(c) : Carries(c[i], A[i], A[i + 1], V)
  BY <1>12 DEF Piece, Flows
<1>15. Charted(c, A, V)
  BY <1>12, <1>13, <1>14 DEF Charted, Piece, h
<1>16. IsCharted(c)
  BY <1>15 DEF IsCharted, Chart
<1>17. c = CompileFunction(body)
  BY DEF c, stmts, ret, CompileFunction, ReturnInst
<1>18. QED
  BY <1>16, <1>17

(* So every function of a program has one. *)
LEMMA ProgramCharted ==
  ASSUME NEW p \in Programs, NEW f \in Functions
  PROVE  IsCharted(CompileFunction(p[f]))
<1>1. p[f] \in Seq(Statement[FunctionBody])
  BY ProgramsAssumption
<1>2. QED
  BY <1>1, FunctionCharted

-----------------------------------------------------------------------------
(* How an instruction changes the frame it runs in                         *)

FrameTo(fr, pc, locals) == [fn |-> fr.fn, pc |-> pc, locals |-> locals, entered |-> fr.entered]

LEMMA FrameParts ==
  ASSUME NEW fr, NEW pc, NEW locals
  PROVE  LET g == FrameTo(fr, pc, locals)
         IN /\ IsFrame(g) /\ g.fn = fr.fn /\ g.pc = pc
            /\ g.locals = locals /\ g.entered = fr.entered
BY DEF FrameTo, IsFrame

LEMMA FrameJumped ==
  ASSUME NEW fr, IsFrame(fr), NEW i
  PROVE  [fr EXCEPT !.pc = i] = FrameTo(fr, i, fr.locals)
<1> DEFINE r == [fn |-> fr.fn, pc |-> fr.pc, locals |-> fr.locals, entered |-> fr.entered]
<1>1. fr = r
  BY DEF IsFrame
<1>2. [r EXCEPT !.pc = i] = FrameTo(fr, i, fr.locals)
  BY DEF FrameTo
<1> HIDE DEF r
<1>3. QED
  BY <1>1, <1>2

LEMMA FrameChanged ==
  ASSUME NEW fr, IsFrame(fr), NEW i, NEW l
  PROVE  [fr EXCEPT !.pc = i, !.locals = l] = FrameTo(fr, i, l)
<1> DEFINE s == FrameTo(fr, i, fr.locals)
<1>1. [fr EXCEPT !.pc = i] = s
  BY FrameJumped
<1>2. [s EXCEPT !.locals = l] = FrameTo(fr, i, l)
  BY DEF FrameTo
<1> HIDE DEF s
<1>3. QED
  BY <1>1, <1>2

LEMMA AssignedIs ==
  ASSUME NEW locals, NEW id, NEW v
  PROVE  /\ DOMAIN Assigned(locals, id, v) = {id} \cup DOMAIN locals
         /\ Assigned(locals, id, v)[id] = v
         /\ \A x \in DOMAIN locals : x # id => Assigned(locals, id, v)[x] = locals[x]
BY DEF Assigned

(* Where an instruction is, and what it does to the plan.                  *)
LEMMA PlaceOf ==
  ASSUME NEW c, IsCharted(c), NEW i \in DOMAIN c
  PROVE  /\ Len(c) \in Nat /\ DOMAIN c = 1 .. Len(c) /\ i \in Nat
         /\ Chart(c)[i] \in Plan /\ Chart(c)[i + 1] \in Plan
         /\ \E V : Charted(c, Chart(c), V) /\ Carries(c[i], Chart(c)[i], Chart(c)[i + 1], V)
         /\ c[i].op # "return" => i + 1 \in DOMAIN c
         /\ (c[i].op \in Risky \/ IsCheck(c[i]) \/ IsHandler(c[i])) => MayFollow(c[i], c[i + 1])
<1> DEFINE A == Chart(c)
<1>1. PICK V : Charted(c, A, V)
  BY DEF IsCharted
<1> HIDE DEF A
<1>2. Len(c) \in Nat /\ DOMAIN c = 1 .. Len(c)
  BY <1>1, CodeOfElements DEF Charted
<1>3. i \in 1 .. Len(c) /\ i \in Nat
  BY <1>2
<1>4. i \in 1 .. Len(c) + 1 /\ i + 1 \in 1 .. Len(c) + 1
  BY <1>2, <1>3
<1>5. A \in [1 .. Len(c) + 1 -> Plan] /\ Carries(c[i], A[i], A[i + 1], V)
  BY <1>1, <1>3 DEF Charted
<1>6. A[i] \in Plan /\ A[i + 1] \in Plan
  BY <1>4, <1>5
<1>7. ASSUME c[i].op # "return" PROVE i + 1 \in DOMAIN c
  <2>1. i # Len(c)
    BY <1>1, <1>7 DEF Charted
  <2>2. QED
    BY <1>2, <1>3, <2>1
<1>8. (c[i].op \in Risky \/ IsCheck(c[i]) \/ IsHandler(c[i])) => MayFollow(c[i], c[i + 1])
  BY <1>1 DEF Charted, Adjoined
<1>9. QED
  BY <1>1, <1>2, <1>3, <1>5, <1>6, <1>7, <1>8 DEF A

(* What a frame goes on to hold, when the plan is the same or was kept.    *)
LEMMA RemembersKept ==
  ASSUME NEW fr, NEW a, NEW b, Remembers(fr, b), Kept(a, b), Len(b.saved) \in Nat
  PROVE  Remembers(fr, a)
<1>1. Len(a.saved) \in Nat /\ Len(a.saved) <= Len(b.saved)
  BY DEF Kept, Plan
<1>2. \A k \in 1 .. Len(a.saved) : k \in 1 .. Len(b.saved) /\ a.saved[k] = b.saved[k]
  BY <1>1 DEF Kept
<1>3. QED
  BY <1>2 DEF Remembers

LEMMA FrameProceeds ==
  ASSUME NEW cs, NEW fr, FrameFits(cs, fr), IsCharted(cs[fr.fn]),
         cs[fr.fn][fr.pc].op \notin {"return", "save", "excepts", "restore"}
  PROVE  LET g == FrameTo(fr, fr.pc + 1, fr.locals)
         IN FrameFits(cs, g) /\ Prevails(cs, g) = Prevails(cs, fr)
<1> DEFINE g == FrameTo(fr, fr.pc + 1, fr.locals)
           c == cs[fr.fn]
           A == Chart(c)
<1>1. /\ IsFrame(g) /\ g.fn = fr.fn /\ g.pc = fr.pc + 1
      /\ g.locals = fr.locals /\ g.entered = fr.entered
  BY FrameParts
<1> HIDE DEF g
<1>2. fr.pc + 1 \in DOMAIN c /\ A[fr.pc + 1] = A[fr.pc]
  <2>1. PICK V : Carries(c[fr.pc], A[fr.pc], A[fr.pc + 1], V)
    BY PlaceOf DEF FrameFits
  <2>2. A[fr.pc + 1] = A[fr.pc]
    BY <2>1 DEF Carries
  <2>3. QED
    BY <2>2, PlaceOf DEF FrameFits
<1>3. PlanOf(cs, g) = PlanOf(cs, fr)
  BY <1>1, <1>2 DEF PlanOf
<1>4. Remembers(g, PlanOf(cs, g))
  BY <1>1, <1>3 DEF FrameFits, Remembers
<1>5. QED
  BY <1>1, <1>2, <1>3, <1>4 DEF FrameFits, Prevails, g

LEMMA FrameAssigns ==
  ASSUME NEW cs, NEW fr, FrameFits(cs, fr), IsCharted(cs[fr.fn]),
         cs[fr.fn][fr.pc].op \in {"test", "next", "match", "catch"}, NEW v
  PROVE  LET g == FrameTo(fr, fr.pc + 1, Assigned(fr.locals, cs[fr.fn][fr.pc].into, v))
         IN FrameFits(cs, g) /\ Prevails(cs, g) = Prevails(cs, fr)
<1> DEFINE c == cs[fr.fn]
           x == c[fr.pc]
           locals == Assigned(fr.locals, x.into, v)
           g == FrameTo(fr, fr.pc + 1, locals)
           A == Chart(c)
<1>1. /\ IsFrame(g) /\ g.fn = fr.fn /\ g.pc = fr.pc + 1
      /\ g.locals = locals /\ g.entered = fr.entered
  BY FrameParts
<1>2. /\ DOMAIN locals = {x.into} \cup DOMAIN fr.locals
      /\ \A id \in DOMAIN fr.locals : id # x.into => locals[id] = fr.locals[id]
  BY DEF Assigned
<1>3. PICK V : Carries(x, A[fr.pc], A[fr.pc + 1], V)
  BY PlaceOf DEF FrameFits
<1>4. fr.pc + 1 \in DOMAIN c /\ A[fr.pc] \in Plan
  BY PlaceOf DEF FrameFits
<1> HIDE DEF g, locals, A
<1>5. A[fr.pc + 1] = A[fr.pc] /\ x.into.tag # "old"
  BY <1>3 DEF Carries
<1>6. PlanOf(cs, g) = PlanOf(cs, fr) /\ PlanOf(cs, fr) = A[fr.pc]
  BY <1>1, <1>5 DEF PlanOf, A
<1> DEFINE a == A[fr.pc]
<1>7. \A k \in 1 .. Len(a.saved) : a.saved[k].old # x.into
  <2>1. a.saved \in Seq(Saved)
    BY <1>4 DEF Plan
  <2>2. \A k \in 1 .. Len(a.saved) : a.saved[k] \in Saved
    BY <2>1
  <2>3. \A k \in 1 .. Len(a.saved) : a.saved[k].old.tag = "old"
    BY <2>2 DEF Saved
  <2>4. QED
    BY <1>5, <2>3
<1>8. Remembers(fr, a)
  BY <1>6 DEF FrameFits
<1> HIDE DEF a, x
<1>9. Remembers(g, a)
  BY <1>1, <1>2, <1>7, <1>8 DEF Remembers
<1>10. FrameFits(cs, g)
  BY <1>1, <1>4, <1>6, <1>9 DEF FrameFits, a
<1>11. Prevails(cs, g) = Prevails(cs, fr)
  BY <1>1, <1>6 DEF Prevails
<1>12. QED
  BY <1>10, <1>11 DEF g, locals, x

LEMMA FrameSaves ==
  ASSUME NEW cs, NEW fr, FrameFits(cs, fr), IsCharted(cs[fr.fn]),
         cs[fr.fn][fr.pc].op = "save",
         NEW v, v \subseteq Exceptions, Contained => v = Prevails(cs, fr)
  PROVE  LET g == FrameTo(fr, fr.pc + 1, Assigned(fr.locals, cs[fr.fn][fr.pc].into, v))
         IN FrameFits(cs, g) /\ Prevails(cs, g) = Prevails(cs, fr)
<1> DEFINE c == cs[fr.fn]
           x == c[fr.pc]
           locals == Assigned(fr.locals, x.into, v)
           g == FrameTo(fr, fr.pc + 1, locals)
           A == Chart(c)
           a == A[fr.pc]
           b == A[fr.pc + 1]
<1>1. /\ IsFrame(g) /\ g.fn = fr.fn /\ g.pc = fr.pc + 1
      /\ g.locals = locals /\ g.entered = fr.entered
  BY FrameParts
<1>2. /\ DOMAIN locals = {x.into} \cup DOMAIN fr.locals /\ locals[x.into] = v
      /\ \A id \in DOMAIN fr.locals : id # x.into => locals[id] = fr.locals[id]
  BY DEF Assigned
<1>3. PICK V : Carries(x, a, b, V)
  BY PlaceOf DEF FrameFits
<1>4. fr.pc + 1 \in DOMAIN c /\ a \in Plan
  BY PlaceOf DEF FrameFits
<1>5. PlanOf(cs, g) = b /\ PlanOf(cs, fr) = a
  BY <1>1 DEF PlanOf
<1> HIDE DEF g, locals, A, a, b
<1>6. /\ \A k \in 1 .. Len(a.saved) : a.saved[k].old # x.into
      /\ b.mask = a.mask
      /\ b.saved = Append(a.saved, [old |-> x.into, mask |-> a.mask])
  BY <1>3 DEF Carries
<1> DEFINE e == [old |-> x.into, mask |-> a.mask]
           s == a.saved
           t == b.saved
<1>7. e.old = x.into /\ e.mask = a.mask
  OBVIOUS
<1>8. s \in Seq(Saved)
  BY <1>4 DEF Plan
<1>9. t = Append(s, e)
  BY <1>6
<1>10. Remembers(fr, a)
  BY <1>5 DEF FrameFits
<1> HIDE DEF e, x, c
<1>11. \A k \in 1 .. Len(s) : /\ s[k].old \in DOMAIN fr.locals
                              /\ s[k].old # x.into
                              /\ fr.locals[s[k].old] \subseteq Exceptions
                              /\ Contained => fr.locals[s[k].old] = Expected(s[k].mask, fr.entered)
  BY <1>6, <1>10 DEF Remembers
<1>12. Contained => v = Expected(e.mask, fr.entered)
  BY <1>5, <1>7 DEF Prevails
<1> HIDE DEF s, t
<1>13. /\ Len(s) \in Nat /\ Len(t) = Len(s) + 1
       /\ \A k \in 1 .. Len(s) : t[k] = s[k]
       /\ t[Len(s) + 1] = e
  <2> DEFINE S == {s[k] : k \in 1 .. Len(s)} \cup {e}
  <2>1. Len(s) \in Nat /\ s \in Seq(S)
    <3>1. Len(s) \in Nat /\ s = [k \in 1 .. Len(s) |-> s[k]]
      BY <1>8
    <3>2. \A k \in 1 .. Len(s) : s[k] \in S
      OBVIOUS
    <3> HIDE DEF S
    <3>3. QED
      BY <3>1, <3>2
  <2>2. e \in S
    OBVIOUS
  <2> HIDE DEF S
  <2>3. QED
    BY <1>9, <2>1, <2>2, AppendProperties
<1>14. ASSUME NEW k \in 1 .. Len(t)
       PROVE  /\ t[k].old \in DOMAIN g.locals
              /\ g.locals[t[k].old] \subseteq Exceptions
              /\ Contained => g.locals[t[k].old] = Expected(t[k].mask, g.entered)
  <2>1. k \in 1 .. Len(s) \/ k = Len(s) + 1
    BY <1>13
  <2>2. CASE k \in 1 .. Len(s)
    BY <1>1, <1>2, <1>11, <1>13, <2>2
  <2>3. CASE k = Len(s) + 1
    BY <1>1, <1>2, <1>7, <1>12, <1>13, <2>3
  <2>4. QED
    BY <2>1, <2>2, <2>3
<1>15. Remembers(g, b)
  BY <1>14 DEF Remembers, t
<1>16. FrameFits(cs, g)
  BY <1>1, <1>4, <1>5, <1>15 DEF FrameFits, c
<1>17. Prevails(cs, g) = Prevails(cs, fr)
  BY <1>1, <1>5, <1>6 DEF Prevails
<1>18. QED
  BY <1>16, <1>17 DEF g, locals, x, c

LEMMA FrameSets ==
  ASSUME NEW cs, NEW fr, FrameFits(cs, fr), IsCharted(cs[fr.fn]),
         cs[fr.fn][fr.pc].op = "excepts"
  PROVE  LET g == FrameTo(fr, fr.pc + 1, fr.locals)
         IN /\ FrameFits(cs, g)
            /\ Prevails(cs, g) = cs[fr.fn][fr.pc].types
            /\ cs[fr.fn][fr.pc].types \subseteq Exceptions
<1> DEFINE g == FrameTo(fr, fr.pc + 1, fr.locals)
           c == cs[fr.fn]
           x == c[fr.pc]
           A == Chart(c)
           a == A[fr.pc]
           b == A[fr.pc + 1]
<1>1. /\ IsFrame(g) /\ g.fn = fr.fn /\ g.pc = fr.pc + 1
      /\ g.locals = fr.locals /\ g.entered = fr.entered
  BY FrameParts
<1>2. PICK V : Carries(x, a, b, V)
  BY PlaceOf DEF FrameFits
<1>3. fr.pc + 1 \in DOMAIN c /\ b \in Plan
  BY PlaceOf DEF FrameFits
<1>4. PlanOf(cs, g) = b /\ PlanOf(cs, fr) = a
  BY <1>1 DEF PlanOf
<1> HIDE DEF g, A, a, b
<1>5. b.mask = <<x.types>> /\ b.saved = a.saved
  BY <1>2 DEF Carries
<1>6. b.mask \in Mask
  BY <1>3 DEF Plan
<1>7. x.types \subseteq Exceptions /\ b.mask # <<>> /\ b.mask[1] = x.types
  BY <1>5, <1>6 DEF Mask
<1>8. Remembers(g, b)
  BY <1>1, <1>4, <1>5 DEF FrameFits, Remembers
<1>9. FrameFits(cs, g)
  BY <1>1, <1>3, <1>4, <1>8 DEF FrameFits
<1>10. Prevails(cs, g) = x.types
  BY <1>4, <1>7 DEF Prevails, Expected
<1>11. QED
  BY <1>7, <1>9, <1>10 DEF g, x

LEMMA FrameRestores ==
  ASSUME NEW cs, NEW fr, FrameFits(cs, fr), IsCharted(cs[fr.fn]),
         cs[fr.fn][fr.pc].op = "restore"
  PROVE  LET g == FrameTo(fr, fr.pc + 1, fr.locals)
             old == fr.locals[cs[fr.fn][fr.pc].from]
         IN /\ FrameFits(cs, g)
            /\ old \subseteq Exceptions
            /\ Contained => old = Prevails(cs, g)
<1> DEFINE g == FrameTo(fr, fr.pc + 1, fr.locals)
           c == cs[fr.fn]
           x == c[fr.pc]
           old == fr.locals[x.from]
           A == Chart(c)
           a == A[fr.pc]
           b == A[fr.pc + 1]
<1>1. /\ IsFrame(g) /\ g.fn = fr.fn /\ g.pc = fr.pc + 1
      /\ g.locals = fr.locals /\ g.entered = fr.entered
  BY FrameParts
<1>2. PICK V : Carries(x, a, b, V)
  BY PlaceOf DEF FrameFits
<1>3. fr.pc + 1 \in DOMAIN c /\ a \in Plan /\ b \in Plan
  BY PlaceOf DEF FrameFits
<1>4. PlanOf(cs, g) = b /\ PlanOf(cs, fr) = a
  BY <1>1 DEF PlanOf
<1> HIDE DEF g, A, a, b
<1> DEFINE e == [old |-> x.from, mask |-> b.mask]
           s == b.saved
           t == a.saved
<1>5. t = Append(s, e) /\ s \in Seq(Saved)
  BY <1>2, <1>3 DEF Carries, Plan
<1>6. e.old = x.from /\ e.mask = b.mask
  OBVIOUS
<1>7. Remembers(fr, a)
  BY <1>4 DEF FrameFits
<1> HIDE DEF e, s, t
<1>8. /\ Len(s) \in Nat /\ Len(t) = Len(s) + 1
      /\ \A k \in 1 .. Len(s) : t[k] = s[k]
      /\ t[Len(s) + 1] = e
  <2> DEFINE S == {s[k] : k \in 1 .. Len(s)} \cup {e}
  <2>1. Len(s) \in Nat /\ s \in Seq(S)
    <3>1. Len(s) \in Nat /\ s = [k \in 1 .. Len(s) |-> s[k]]
      BY <1>5
    <3>2. \A k \in 1 .. Len(s) : s[k] \in S
      OBVIOUS
    <3> HIDE DEF S
    <3>3. QED
      BY <3>1, <3>2
  <2>2. e \in S
    OBVIOUS
  <2> HIDE DEF S
  <2>3. QED
    BY <1>5, <2>1, <2>2, AppendProperties
<1>9. \A k \in 1 .. Len(t) :
         /\ t[k].old \in DOMAIN fr.locals
         /\ fr.locals[t[k].old] \subseteq Exceptions
         /\ Contained => fr.locals[t[k].old] = Expected(t[k].mask, fr.entered)
  BY <1>7 DEF Remembers, t
<1>10. Len(s) + 1 \in 1 .. Len(t) /\ \A k \in 1 .. Len(s) : k \in 1 .. Len(t)
  BY <1>8
<1>11. /\ old \subseteq Exceptions
       /\ Contained => old = Expected(b.mask, fr.entered)
  BY <1>6, <1>8, <1>9, <1>10
<1>12. \A k \in 1 .. Len(s) :
         /\ s[k].old \in DOMAIN fr.locals
         /\ fr.locals[s[k].old] \subseteq Exceptions
         /\ Contained => fr.locals[s[k].old] = Expected(s[k].mask, fr.entered)
  BY <1>8, <1>9, <1>10
<1>13. Remembers(g, b)
  BY <1>1, <1>12 DEF Remembers, s
<1>14. FrameFits(cs, g)
  BY <1>1, <1>3, <1>4, <1>13 DEF FrameFits
<1>15. Contained => old = Prevails(cs, g)
  BY <1>1, <1>4, <1>11 DEF Prevails
<1>16. QED
  BY <1>11, <1>14, <1>15 DEF g, x

(* A jump leads to what it names, with what was remembered there. *)
LEMMA FrameJumps ==
  ASSUME NEW cs, NEW fr, FrameFits(cs, fr), IsCharted(cs[fr.fn]),
         NEW op, NEW id, <<op, id>> \in Targets(cs[fr.fn][fr.pc]),
         NEW i, i = CHOOSE j \in DOMAIN cs[fr.fn] : cs[fr.fn][j].op = op /\ cs[fr.fn][j].id = id
  PROVE  LET g == FrameTo(fr, i, fr.locals)
         IN /\ i \in DOMAIN cs[fr.fn] /\ cs[fr.fn][i].op = op /\ cs[fr.fn][i].id = id
            /\ FrameFits(cs, g)
            /\ Contained => Prevails(cs, g) = Prevails(cs, fr)
<1> DEFINE g == FrameTo(fr, i, fr.locals)
           c == cs[fr.fn]
           x == c[fr.pc]
           A == Chart(c)
           a == A[fr.pc]
           b == A[i]
<1>1. /\ IsFrame(g) /\ g.fn = fr.fn /\ g.pc = i
      /\ g.locals = fr.locals /\ g.entered = fr.entered
  BY FrameParts
<1>2. fr.pc \in DOMAIN c /\ IsCharted(c)
  BY DEF FrameFits
<1>3. PICK V : Charted(c, A, V) /\ Carries(x, a, A[fr.pc + 1], V)
  BY <1>2, PlaceOf
<1>4. a \in Plan
  BY <1>2, PlaceOf
<1>5. PlanOf(cs, g) = b /\ PlanOf(cs, fr) = a
  BY <1>1 DEF PlanOf
<1> HIDE DEF g, A, a, b
<1>6. op \in {"label", "while", "endif", "endwhile"}
  BY DEF Targets
<1>7. \E j \in DOMAIN c : c[j].op = op /\ c[j].id = id
  <2>1. <<op, id>> \in MarksOf(c)
    BY <1>2, <1>3 DEF Charted, TargetsOf
  <2>2. PICK j \in DOMAIN c : <<op, id>> \in Marks(c[j])
    BY <2>1 DEF MarksOf
  <2>3. c[j].op = op /\ c[j].id = id
    BY <2>2 DEF Marks
  <2>4. QED
    BY <2>3
<1>8. i \in DOMAIN c /\ c[i].op = op /\ c[i].id = id
  BY <1>7
<1>9. V[id] = b
  <2>1. DOMAIN c = 1 .. Len(c)
    BY <1>2, PlaceOf
  <2>2. Carries(c[i], b, A[i + 1], V)
    BY <1>3, <1>8, <2>1 DEF Charted, b
  <2>3. <<op, id>> \in Marks(c[i])
    BY <1>6, <1>8 DEF Marks
  <2> DEFINE m == <<op, id>>
  <2>4. m[2] = id
    OBVIOUS
  <2> HIDE DEF m
  <2>5. V[m[2]] = b
    BY <2>2, <2>3 DEF Carries, m
  <2>6. QED
    BY <2>4, <2>5
<1>10. Kept(V[id], a) /\ (Contained => V[id] = a)
  <2> DEFINE m == <<op, id>>
  <2>1. m[2] = id /\ m \in Targets(x)
    OBVIOUS
  <2> HIDE DEF m
  <2>2. Kept(V[m[2]], a) /\ (Contained => V[m[2]] = a)
    BY <1>3, <2>1 DEF Carries
  <2>3. QED
    BY <2>1, <2>2
<1>11. Remembers(fr, b)
  <2>1. Remembers(fr, a) /\ Len(a.saved) \in Nat
    BY <1>4, <1>5 DEF FrameFits, Plan
  <2>2. QED
    BY <1>9, <1>10, <2>1, RemembersKept
<1>12. Remembers(g, b)
  BY <1>1, <1>11 DEF Remembers
<1>13. FrameFits(cs, g)
  BY <1>1, <1>5, <1>8, <1>12 DEF FrameFits
<1>14. Contained => Prevails(cs, g) = Prevails(cs, fr)
  BY <1>1, <1>5, <1>9, <1>10 DEF Prevails
<1>15. QED
  BY <1>8, <1>13, <1>14 DEF g

-----------------------------------------------------------------------------
(* How the stack changes                                                   *)

LEMMA StackReplaced ==
  ASSUME NEW cs, NEW st, NEW ex, StackFits(cs, st, ex), NEW fr, FrameFits(cs, fr),
         fr.entered = st[Len(st)].entered, NEW ex2, Contained => ex2 = Prevails(cs, fr)
  PROVE  LET st2 == [st EXCEPT ![Len(st)] = fr]
         IN /\ StackFits(cs, st2, ex2)
            /\ Len(st2) = Len(st) /\ st2[Len(st2)] = fr
<1> DEFINE n == Len(st)
           st2 == [st EXCEPT ![n] = fr]
           S == Elements(st) \cup {fr}
<1>1. IsCode(st) /\ n > 0
  BY DEF StackFits
<1>2. n \in Nat /\ st \in Seq(S)
  BY <1>1, CodeOfElements
<1>3. n \in 1 .. n /\ fr \in S
  BY <1>1, <1>2
<1> HIDE DEF S
<1>4. /\ st2 \in Seq(S) /\ Len(st2) = n
      /\ \A j \in 1 .. n : st2[j] = IF j = n THEN fr ELSE st[j]
  BY <1>2, <1>3, ExceptSeq
<1> HIDE DEF st2, n
<1>5. IsCode(st2)
  BY <1>4, SequencesAreCode
<1>6. st2[n] = fr /\ \A k \in 1 .. n - 1 : k \in 1 .. n /\ st2[k] = st[k]
  BY <1>2, <1>3, <1>4
<1>7. \A k \in 1 .. n : FrameFits(cs, st2[k])
  BY <1>4 DEF StackFits, n
<1>8. \A k \in 1 .. n - 1 : IsCheck(cs[st2[k].fn][st2[k].pc])
  BY <1>6 DEF StackFits, n
<1>9. \A k \in 1 .. n : st2[k].entered = st[k].entered
  BY <1>4 DEF n
<1>10. st2[1].entered = {}
  BY <1>1, <1>2, <1>9 DEF StackFits
<1>11. ASSUME Contained, NEW k \in 1 .. n - 1 PROVE st2[k + 1].entered = Prevails(cs, st2[k])
  <2>1. k + 1 \in 1 .. n
    BY <1>2
  <2>2. st[k + 1].entered = Prevails(cs, st[k])
    BY <1>11 DEF StackFits, n
  <2>3. QED
    BY <1>6, <1>9, <2>1, <2>2
<1>12. StackFits(cs, st2, ex2)
  BY <1>1, <1>4, <1>5, <1>6, <1>7, <1>8, <1>10, <1>11 DEF StackFits
<1>13. QED
  BY <1>4, <1>6, <1>12 DEF st2, n

LEMMA StackPushed ==
  ASSUME NEW cs, NEW st, NEW ex, StackFits(cs, st, ex),
         IsCheck(cs[st[Len(st)].fn][st[Len(st)].pc]),
         NEW fr, FrameFits(cs, fr), Contained => fr.entered = ex /\ ex = Prevails(cs, fr)
  PROVE  StackFits(cs, Append(st, fr), ex) /\ Len(Append(st, fr)) = Len(st) + 1
         /\ Append(st, fr)[Len(st) + 1] = fr
<1> DEFINE n == Len(st)
           st2 == Append(st, fr)
           S == Elements(st) \cup {fr}
<1>1. IsCode(st) /\ n > 0
  BY DEF StackFits
<1>2. n \in Nat /\ st \in Seq(S) /\ fr \in S
  BY <1>1, CodeOfElements
<1> HIDE DEF S
<1>3. /\ st2 \in Seq(S) /\ Len(st2) = n + 1
      /\ \A j \in 1 .. n : st2[j] = st[j]
      /\ st2[n + 1] = fr
  BY <1>2, AppendProperties
<1> HIDE DEF st2, n
<1>4. IsCode(st2) /\ Len(st2) > 0
  BY <1>2, <1>3, SequencesAreCode
<1>5. \A k \in 1 .. n + 1 : k \in 1 .. n \/ k = n + 1
  BY <1>2
<1>6. \A k \in 1 .. n + 1 : FrameFits(cs, st2[k])
  BY <1>3, <1>5 DEF StackFits, n
<1>7. 1 \in 1 .. n /\ n \in 1 .. n /\ (n + 1) - 1 = n
  BY <1>1, <1>2
<1>8. \A k \in 1 .. n : k \in 1 .. n - 1 \/ k = n
  BY <1>2
<1>9. \A k \in 1 .. n : IsCheck(cs[st2[k].fn][st2[k].pc])
  BY <1>3, <1>8 DEF StackFits, n
<1>10. st2[1].entered = {}
  BY <1>3, <1>7 DEF StackFits
<1>11. ASSUME Contained, NEW k \in 1 .. n PROVE st2[k + 1].entered = Prevails(cs, st2[k])
  <2>1. CASE k \in 1 .. n - 1
    <3>1. k + 1 \in 1 .. n
      BY <1>2, <2>1
    <3>2. st[k + 1].entered = Prevails(cs, st[k])
      BY <1>11, <2>1 DEF StackFits, n
    <3>3. QED
      BY <1>3, <3>1, <3>2
  <2>2. CASE k = n
    BY <1>3, <1>7, <1>11, <2>2 DEF StackFits, n
  <2>3. QED
    BY <1>8, <2>1, <2>2
<1>12. Contained => ex = Prevails(cs, st2[n + 1])
  BY <1>3
<1>13. StackFits(cs, st2, ex)
  BY <1>3, <1>4, <1>6, <1>7, <1>9, <1>10, <1>11, <1>12 DEF StackFits
<1>14. QED
  BY <1>3, <1>13 DEF st2, n

LEMMA StackPopped ==
  ASSUME NEW cs, NEW st, NEW ex, StackFits(cs, st, ex), Len(st) > 1,
         Contained => ex = st[Len(st)].entered
  PROVE  /\ StackFits(cs, Front(st), ex)
         /\ Len(Front(st)) = Len(st) - 1
         /\ LET fr == Front(st)[Len(Front(st))] IN IsCheck(cs[fr.fn][fr.pc])
<1> DEFINE n == Len(st)
           m == n - 1
           st2 == Front(st)
           S == Elements(st)
<1>1. IsCode(st) /\ n > 1
  BY DEF StackFits
<1>2. n \in Nat /\ st \in Seq(S)
  BY <1>1, CodeOfElements
<1> HIDE DEF S
<1>3. m \in Nat /\ 1 \in 1 .. m /\ m \in 1 .. m /\ m \in Int /\ m - 1 + 1 = m
  BY <1>1, <1>2
<1>4. \A i \in 1 .. m : i \in 1 .. n /\ st[i] \in S /\ 1 + i - 1 = i
  BY <1>2
<1>5. st2 = SubSeq(st, 1, m)
  BY DEF Front
<1> HIDE DEF m, st2, n
<1>6. st2 \in Seq(S) /\ Len(st2) = m /\ \A i \in 1 .. m : st2[i] = st[i]
  <2> DEFINE t == SubSeq(st, 1, m)
  <2>1. /\ t \in Seq(S) /\ Len(t) = IF 1 <= m THEN m - 1 + 1 ELSE 0
        /\ \A i \in 1 .. m - 1 + 1 : t[i] = st[1 + i - 1]
    <3>1. 1 \in Int
      OBVIOUS
    <3>2. QED
      BY <1>3, <1>4, <3>1, SubSeqProperties
  <2> HIDE DEF t
  <2>2. QED
    BY <1>3, <1>4, <1>5, <2>1 DEF t
<1>7. IsCode(st2)
  BY <1>6, SequencesAreCode
<1>8. \A k \in 1 .. m : FrameFits(cs, st2[k]) /\ IsCheck(cs[st2[k].fn][st2[k].pc])
  BY <1>4, <1>6 DEF StackFits, n, m
<1>9. st2[1].entered = {}
  BY <1>3, <1>6 DEF StackFits
<1>10. \A k \in 1 .. m - 1 : k \in 1 .. m /\ k + 1 \in 1 .. m
  BY <1>3
<1>11. Contained => \A k \in 1 .. m - 1 : st2[k + 1].entered = Prevails(cs, st2[k])
  BY <1>6, <1>10 DEF StackFits, n, m
<1>12. Contained => ex = Prevails(cs, st2[m])
  <2>1. Contained => st[m + 1].entered = Prevails(cs, st[m])
    BY <1>3 DEF StackFits, n, m
  <2>2. m + 1 = n
    BY <1>2 DEF m
  <2>3. QED
    BY <1>3, <1>6, <2>1, <2>2 DEF n
<1>13. \A k \in 1 .. m - 1 : IsCheck(cs[st2[k].fn][st2[k].pc])
  BY <1>8, <1>10
<1>14. StackFits(cs, st2, ex)
  BY <1>3, <1>6, <1>7, <1>8, <1>9, <1>11, <1>12, <1>13 DEF StackFits
<1>15. QED
  BY <1>3, <1>6, <1>8, <1>14 DEF st2, m, n

-----------------------------------------------------------------------------
(* Every step keeps to the chart                                           *)

LEMMA TopFits ==
  ASSUME IInv
  PROVE  /\ Len(stack) \in Nat /\ Len(stack) > 0 /\ IsCode(stack)
         /\ FrameFits(code, top) /\ IsFrame(top)
         /\ top.fn \in Functions /\ top.pc \in DOMAIN code[top.fn]
         /\ IsCharted(code[top.fn])
         /\ Contained => excepts = Prevails(code, top)
         /\ excepts \subseteq Exceptions
<1>1. StackFits(code, stack, excepts)
  BY DEF IInv
<1>2. Len(stack) \in Nat /\ Len(stack) > 0 /\ IsCode(stack)
  BY <1>1, CodeOfElements DEF StackFits
<1>3. Len(stack) \in 1 .. Len(stack)
  BY <1>2
<1>4. FrameFits(code, top)
  BY <1>1, <1>3 DEF StackFits, top
<1>5. IsFrame(top) /\ top.fn \in Functions /\ top.pc \in DOMAIN code[top.fn]
  BY <1>4 DEF FrameFits
<1>6. code[top.fn] = CompileFunction(program[top.fn])
  BY <1>5 DEF IInv, Globals
<1>7. IsCharted(code[top.fn])
  BY <1>5, <1>6, ProgramCharted DEF IInv, Globals
<1>8. Contained => excepts = Prevails(code, top)
  BY <1>1 DEF StackFits, top
<1>9. QED
  BY <1>2, <1>4, <1>5, <1>7, <1>8 DEF IInv, Globals

LEMMA JumpIs ==
  ASSUME IsFrame(top), NEW i, JumpTo(i)
  PROVE  stack' = [stack EXCEPT ![Len(stack)] = FrameTo(top, i, top.locals)]
<1>1. [top EXCEPT !.pc = i] = FrameTo(top, i, top.locals)
  BY FrameJumped
<1>2. QED
  BY <1>1 DEF JumpTo, top

LEMMA SetLocalIs ==
  ASSUME IsFrame(top), NEW id, NEW v, SetLocal(id, v)
  PROVE  stack' = [stack EXCEPT ![Len(stack)]
                     = FrameTo(top, top.pc + 1, Assigned(top.locals, id, v))]
<1>1. [top EXCEPT !.pc = top.pc + 1, !.locals = Assigned(top.locals, id, v)]
        = FrameTo(top, top.pc + 1, Assigned(top.locals, id, v))
  BY FrameChanged
<1>2. QED
  BY Zenon, <1>1 DEF SetLocal

(* What a step has to show that stays in its frame. *)
StepTo(g) ==
  /\ stack' = [stack EXCEPT ![Len(stack)] = g]
  /\ FrameFits(code, g) /\ g.entered = top.entered
  /\ UNCHANGED <<program, code>>
  /\ excepts' \subseteq Exceptions
  /\ Contained => excepts' = Prevails(code, g)
  /\ pending' \in Exceptions \cup {NoException}
  /\ tests' \in Seq(BOOLEAN) /\ Len(tests') <= MaxTests
  /\ status' = "running"
  /\ pending' # NoException => Urgent(code[g.fn][g.pc])

LEMMA StepKeeps ==
  ASSUME IInv, NEW g, StepTo(g)
  PROVE  IInv'
<1>1. StackFits(code, stack, excepts)
  BY DEF IInv
<1> DEFINE st2 == [stack EXCEPT ![Len(stack)] = g]
<1>2. StackFits(code, st2, excepts') /\ st2[Len(st2)] = g
  <2> DEFINE ex2 == excepts'
  <2>1. FrameFits(code, g) /\ g.entered = stack[Len(stack)].entered
    BY DEF StepTo, top
  <2>2. Contained => ex2 = Prevails(code, g)
    BY DEF StepTo
  <2> HIDE DEF ex2
  <2>3. StackFits(code, st2, ex2) /\ st2[Len(st2)] = g
    BY <1>1, <2>1, <2>2, StackReplaced
  <2>4. QED
    BY <2>3 DEF ex2
<1>3. stack' = st2 /\ code' = code /\ program' = program
  BY DEF StepTo
<1> HIDE DEF st2
<1>4. StackFits(code, stack, excepts)'
  BY <1>2, <1>3
<1>5. Globals'
  BY DEF StepTo, IInv, Globals
<1>6. inst' = code[g.fn][g.pc]
  BY <1>2, <1>3 DEF inst, top
<1>7. QED
  BY <1>4, <1>5, <1>6 DEF StepTo, IInv

LEMMA NotUrgent ==
  ASSUME IInv, NEW ops, Running(ops),
         ops \cap {"if", "return", "goto", "label", "catch"} = {}
  PROVE  pending = NoException
<1>1. inst.op \notin {"if", "return", "goto", "label", "catch"}
  BY DEF Running
<1>2. ~Urgent(inst)
  BY <1>1 DEF Urgent, IsCheck, Leaves, IsHandler
<1>3. QED
  BY <1>2 DEF IInv, Running

LEMMA StepPrint == ASSUME IInv, DoPrint PROVE IInv'
<1> DEFINE g == FrameTo(top, top.pc + 1, top.locals)
<1>1. inst.op = "print" /\ pending = NoException
  BY NotUrgent DEF DoPrint, Running
<1>2. FrameFits(code, g) /\ Prevails(code, g) = Prevails(code, top) /\ g.entered = top.entered
  BY <1>1, TopFits, FrameProceeds, FrameParts DEF inst
<1>3. stack' = [stack EXCEPT ![Len(stack)] = g]
  BY TopFits, JumpIs DEF DoPrint, Proceed
<1> HIDE DEF g
<1>4. StepTo(g)
  BY <1>1, <1>2, <1>3, TopFits DEF StepTo, DoPrint, Running, IInv, Globals
<1>5. QED
  BY <1>4, StepKeeps

LEMMA StepTest == ASSUME IInv, DoTest PROVE IInv'
<1>1. inst.op \in {"test", "next"} /\ pending = NoException
  BY NotUrgent DEF DoTest, Running
<1>2. PICK b : SetLocal(inst.into, b) /\ tests' \in Seq(BOOLEAN) /\ Len(tests') <= MaxTests
  <2>1. tests \in Seq(BOOLEAN) /\ Len(tests) \in Nat /\ Len(tests) <= MaxTests
    BY DEF IInv, Globals
  <2>2. CASE \E b \in BOOLEAN : /\ Len(tests) < MaxTests
                                /\ tests' = Append(tests, b)
                                /\ SetLocal(inst.into, b)
    <3>1. PICK b \in BOOLEAN : /\ Len(tests) < MaxTests
                               /\ tests' = Append(tests, b)
                               /\ SetLocal(inst.into, b)
      BY <2>2
    <3>2. tests' \in Seq(BOOLEAN) /\ Len(tests') = Len(tests) + 1
      BY <2>1, <3>1
    <3>3. Len(tests') <= MaxTests
      BY <2>1, <3>1, <3>2, TestsAssumption
    <3>4. QED
      BY <3>1, <3>2, <3>3
  <2>3. CASE SetLocal(inst.into, FALSE) /\ UNCHANGED tests
    BY <2>1, <2>3
  <2>4. QED
    BY <2>2, <2>3 DEF DoTest
<1> DEFINE g == FrameTo(top, top.pc + 1, Assigned(top.locals, inst.into, b))
<1>3. FrameFits(code, g) /\ Prevails(code, g) = Prevails(code, top)
  BY <1>1, TopFits, FrameAssigns DEF inst
<1>4. stack' = [stack EXCEPT ![Len(stack)] = g] /\ g.entered = top.entered
  BY <1>2, TopFits, SetLocalIs, FrameParts
<1> HIDE DEF g
<1>5. StepTo(g)
  BY <1>1, <1>2, <1>3, <1>4, TopFits DEF StepTo, DoTest, Running, IInv, Globals
<1>6. QED
  BY <1>5, StepKeeps

(* Going on to the next instruction, and jumping. *)
LEMMA Proceeding ==
  ASSUME IInv, inst.op \notin {"return", "save", "excepts", "restore"}, Proceed
  PROVE  LET g == FrameTo(top, top.pc + 1, top.locals)
         IN /\ stack' = [stack EXCEPT ![Len(stack)] = g]
            /\ FrameFits(code, g) /\ g.entered = top.entered
            /\ Contained => excepts = Prevails(code, g)
            /\ g.fn = top.fn /\ g.pc = top.pc + 1
<1> DEFINE g == FrameTo(top, top.pc + 1, top.locals)
<1>1. FrameFits(code, g) /\ Prevails(code, g) = Prevails(code, top)
  BY TopFits, FrameProceeds DEF inst
<1>2. g.entered = top.entered /\ g.fn = top.fn /\ g.pc = top.pc + 1
  BY FrameParts
<1>3. stack' = [stack EXCEPT ![Len(stack)] = g]
  BY TopFits, JumpIs DEF Proceed
<1> HIDE DEF g
<1>4. Contained => excepts = Prevails(code, g)
  BY <1>1, TopFits
<1>5. QED
  BY <1>1, <1>2, <1>3, <1>4 DEF g

LEMMA Jumping ==
  ASSUME IInv, NEW op, NEW id, <<op, id>> \in Targets(inst)
  PROVE  LET i == Position(op, id)
             g == FrameTo(top, i, top.locals)
         IN /\ i \in DOMAIN code[top.fn]
            /\ code[top.fn][i].op = op /\ code[top.fn][i].id = id
            /\ JumpTo(i) => stack' = [stack EXCEPT ![Len(stack)] = g]
            /\ FrameFits(code, g) /\ g.entered = top.entered
            /\ Contained => excepts = Prevails(code, g)
            /\ g.fn = top.fn /\ g.pc = i
<1> DEFINE i == Position(op, id)
           g == FrameTo(top, i, top.locals)
<1>1. i = CHOOSE j \in DOMAIN code[top.fn] : code[top.fn][j].op = op /\ code[top.fn][j].id = id
  BY DEF Position
<1>2. g.entered = top.entered /\ g.fn = top.fn /\ g.pc = i
  BY FrameParts
<1> HIDE DEF i
<1>3. JumpTo(i) => stack' = [stack EXCEPT ![Len(stack)] = g]
  BY TopFits, JumpIs
<1>4. /\ i \in DOMAIN code[top.fn] /\ code[top.fn][i].op = op /\ code[top.fn][i].id = id
      /\ FrameFits(code, g)
      /\ Contained => Prevails(code, g) = Prevails(code, top)
  <2> DEFINE fr == top
             cs == code
  <2>1. FrameFits(cs, fr) /\ IsCharted(cs[fr.fn])
    BY TopFits
  <2>2. <<op, id>> \in Targets(cs[fr.fn][fr.pc])
    BY DEF inst
  <2>3. i = CHOOSE j \in DOMAIN cs[fr.fn] : cs[fr.fn][j].op = op /\ cs[fr.fn][j].id = id
    BY <1>1
  <2> DEFINE h == FrameTo(fr, i, fr.locals)
  <2>4. g = h
    OBVIOUS
  <2> HIDE DEF fr, cs
  <2>5. /\ i \in DOMAIN cs[fr.fn] /\ cs[fr.fn][i].op = op /\ cs[fr.fn][i].id = id
        /\ FrameFits(cs, h)
        /\ Contained => Prevails(cs, h) = Prevails(cs, fr)
    BY <2>1, <2>2, <2>3, FrameJumps
  <2> HIDE DEF g, h
  <2>6. QED
    BY <2>4, <2>5 DEF fr, cs
<1> HIDE DEF g
<1>5. Contained => excepts = Prevails(code, g)
  BY <1>4, TopFits
<1>6. QED
  BY <1>2, <1>3, <1>4, <1>5 DEF g, i

(* What follows an instruction that calls for it. *)
LEMMA Following ==
  ASSUME IInv, inst.op \in Risky \/ IsCheck(inst) \/ IsHandler(inst)
  PROVE  MayFollow(inst, code[top.fn][top.pc + 1])
BY TopFits, PlaceOf DEF inst

LEMMA StepIf == ASSUME IInv, DoIf PROVE IInv'
<1>1. inst.op = "if" /\ status = "running"
  BY DEF DoIf, Running
<1>2. /\ program' = program /\ code' = code /\ tests' = tests
      /\ excepts' = excepts /\ pending' = pending /\ status' = status
  BY DEF DoIf, world
<1>3. pending # NoException => IsCheck(inst)
  BY <1>1 DEF IInv, Urgent, Leaves, IsHandler
<1>4. CASE Holds(inst.on) # inst.negate
  <2> DEFINE g == FrameTo(top, top.pc + 1, top.locals)
  <2>1. Proceed
    BY <1>4 DEF DoIf
  <2>2. /\ stack' = [stack EXCEPT ![Len(stack)] = g]
        /\ FrameFits(code, g) /\ g.entered = top.entered
        /\ Contained => excepts = Prevails(code, g)
        /\ g.fn = top.fn /\ g.pc = top.pc + 1
    BY <1>1, <2>1, Proceeding
  <2> HIDE DEF g
  <2>3. pending # NoException => Urgent(code[g.fn][g.pc])
    BY <1>3, <2>2, Following DEF MayFollow, Urgent
  <2>4. StepTo(g)
    BY <1>1, <1>2, <2>2, <2>3 DEF StepTo, IInv, Globals
  <2>5. QED
    BY <2>4, StepKeeps
<1>5. CASE ~(Holds(inst.on) # inst.negate)
  <2> DEFINE i == Position("endif", inst.id)
             g == FrameTo(top, i, top.locals)
  <2>1. JumpTo(i)
    BY <1>5 DEF DoIf
  <2>2. <<"endif", inst.id>> \in Targets(inst)
    BY <1>1 DEF Targets
  <2>3. /\ stack' = [stack EXCEPT ![Len(stack)] = g]
        /\ FrameFits(code, g) /\ g.entered = top.entered
        /\ Contained => excepts = Prevails(code, g)
    BY <2>1, <2>2, Jumping
  <2>4. pending = NoException
    BY <1>3, <1>5 DEF IsCheck, Holds
  <2> HIDE DEF g
  <2>5. StepTo(g)
    BY <1>1, <1>2, <2>3, <2>4 DEF StepTo, IInv, Globals
  <2>6. QED
    BY <2>5, StepKeeps
<1>6. QED
  BY <1>4, <1>5

LEMMA StepGoto == ASSUME IInv, DoGoto PROVE IInv'
<1>1. inst.op = "goto" /\ status = "running"
  BY DEF DoGoto, Running
<1>2. /\ program' = program /\ code' = code /\ tests' = tests
      /\ excepts' = excepts /\ pending' = pending /\ status' = status
  BY DEF DoGoto, world
<1> DEFINE i == Position("label", inst.id)
           g == FrameTo(top, i, top.locals)
<1>3. JumpTo(i)
  BY DEF DoGoto
<1>4. <<"label", inst.id>> \in Targets(inst)
  BY <1>1 DEF Targets
<1>5. /\ stack' = [stack EXCEPT ![Len(stack)] = g]
      /\ FrameFits(code, g) /\ g.entered = top.entered
      /\ Contained => excepts = Prevails(code, g)
      /\ code[g.fn][g.pc].op = "label" /\ code[g.fn][g.pc].id = inst.id
  BY <1>3, <1>4, Jumping
<1> HIDE DEF g
<1>6. pending # NoException => Urgent(code[g.fn][g.pc])
  <2>1. pending # NoException => inst.id.tag = "excepts"
    BY <1>1 DEF IInv, Urgent, IsCheck, Leaves, IsHandler
  <2>2. QED
    BY <1>5, <2>1 DEF Urgent, IsHandler
<1>7. StepTo(g)
  BY <1>1, <1>2, <1>5, <1>6 DEF StepTo, IInv, Globals
<1>8. QED
  BY <1>7, StepKeeps

LEMMA StepRepeat == ASSUME IInv, DoRepeat PROVE IInv'
<1>1. inst.op = "endwhile" /\ status = "running" /\ pending = NoException
  BY NotUrgent DEF DoRepeat, Running
<1>2. /\ program' = program /\ code' = code /\ tests' = tests
      /\ excepts' = excepts /\ pending' = pending /\ status' = status
  BY DEF DoRepeat, world
<1> DEFINE i == Position("while", inst.id)
           g == FrameTo(top, i, top.locals)
<1>3. JumpTo(i)
  BY DEF DoRepeat
<1>4. <<"while", inst.id>> \in Targets(inst)
  BY <1>1 DEF Targets
<1>5. /\ stack' = [stack EXCEPT ![Len(stack)] = g]
      /\ FrameFits(code, g) /\ g.entered = top.entered
      /\ Contained => excepts = Prevails(code, g)
  BY <1>3, <1>4, Jumping
<1> HIDE DEF g
<1>6. StepTo(g)
  BY <1>1, <1>2, <1>5 DEF StepTo, IInv, Globals
<1>7. QED
  BY <1>6, StepKeeps

(* A break goes to where the loop ends, and past it. *)
LEMMA StepBreak == ASSUME IInv, DoBreak PROVE IInv'
<1>1. inst.op = "break" /\ status = "running" /\ pending = NoException
  BY NotUrgent DEF DoBreak, Running
<1>2. /\ program' = program /\ code' = code /\ tests' = tests
      /\ excepts' = excepts /\ pending' = pending /\ status' = status
  BY DEF DoBreak, world
<1> DEFINE i == Position("endwhile", inst.id)
           f == FrameTo(top, i, top.locals)
           g == FrameTo(top, i + 1, top.locals)
<1>3. JumpTo(i + 1)
  BY DEF DoBreak
<1>4. <<"endwhile", inst.id>> \in Targets(inst)
  BY <1>1 DEF Targets
<1>5. /\ FrameFits(code, f)
      /\ Contained => excepts = Prevails(code, f)
      /\ f.fn = top.fn /\ code[f.fn][f.pc].op = "endwhile"
  BY <1>4, Jumping
<1>6. g = FrameTo(f, f.pc + 1, f.locals)
  BY DEF FrameTo
<1> HIDE DEF i
<1>7. stack' = [stack EXCEPT ![Len(stack)] = g] /\ g.entered = top.entered
  BY <1>3, TopFits, JumpIs, FrameParts
<1> HIDE DEF f, g
<1>8. IsCharted(code[f.fn])
  BY <1>5, TopFits
<1>9. FrameFits(code, g) /\ Prevails(code, g) = Prevails(code, f)
  BY <1>5, <1>6, <1>8, FrameProceeds
<1>10. StepTo(g)
  BY <1>1, <1>2, <1>5, <1>7, <1>9 DEF StepTo, IInv, Globals
<1>11. QED
  BY <1>10, StepKeeps

LEMMA StepPass == ASSUME IInv, DoPass PROVE IInv'
<1>1. inst.op \in {"label", "while", "endif", "iter"} /\ status = "running"
  BY DEF DoPass, Running
<1>2. /\ program' = program /\ code' = code /\ tests' = tests
      /\ excepts' = excepts /\ pending' = pending /\ status' = status
  BY DEF DoPass, world
<1> DEFINE g == FrameTo(top, top.pc + 1, top.locals)
<1>3. Proceed
  BY DEF DoPass
<1>4. /\ stack' = [stack EXCEPT ![Len(stack)] = g]
      /\ FrameFits(code, g) /\ g.entered = top.entered
      /\ Contained => excepts = Prevails(code, g)
      /\ g.fn = top.fn /\ g.pc = top.pc + 1
  BY <1>1, <1>3, Proceeding
<1> HIDE DEF g
<1>5. pending # NoException => Urgent(code[g.fn][g.pc])
  <2>1. pending # NoException => IsHandler(inst)
    BY <1>1 DEF IInv, Urgent, Leaves, IsCheck
  <2>2. QED
    BY <1>4, <2>1, Following DEF MayFollow, Urgent
<1>6. StepTo(g)
  BY <1>1, <1>2, <1>4, <1>5 DEF StepTo, IInv, Globals
<1>7. QED
  BY <1>6, StepKeeps

(* What is raised while nothing is pending must be among the excepts, and  *)
(* the check that follows sees it.                                         *)
LEMMA StepRaise == ASSUME IInv, SetException PROVE IInv'
<1>1. inst.op = "raise" /\ status = "running" /\ pending = NoException
  BY NotUrgent DEF SetException, Running
<1>2. /\ program' = program /\ code' = code /\ tests' = tests /\ excepts' = excepts
  BY DEF SetException, world
<1>3. CASE /\ inst.exc \in excepts
           /\ pending' = inst.exc
           /\ Proceed
           /\ UNCHANGED status
  <2> DEFINE g == FrameTo(top, top.pc + 1, top.locals)
  <2>1. /\ stack' = [stack EXCEPT ![Len(stack)] = g]
        /\ FrameFits(code, g) /\ g.entered = top.entered
        /\ Contained => excepts = Prevails(code, g)
        /\ g.fn = top.fn /\ g.pc = top.pc + 1
    BY <1>1, <1>3, Proceeding
  <2> HIDE DEF g
  <2>2. Urgent(code[g.fn][g.pc])
    BY <1>1, <2>1, Following DEF MayFollow, Urgent, Risky
  <2>3. StepTo(g)
    BY <1>1, <1>2, <1>3, <2>1, <2>2 DEF StepTo, IInv, Globals
  <2>4. QED
    BY <2>3, StepKeeps
<1>4. CASE status' = "error" /\ UNCHANGED <<pending, stack>>
  <2>1. Globals'
    BY <1>2, <1>4 DEF IInv, Globals
  <2>2. StackFits(code, stack, excepts)'
    BY <1>2, <1>4 DEF IInv
  <2>3. QED
    BY <1>4, <2>1, <2>2 DEF IInv
<1>5. QED
  BY <1>1, <1>3, <1>4 DEF SetException

LEMMA StepCatch == ASSUME IInv, GetException PROVE IInv'
<1>1. inst.op = "catch" /\ status = "running"
  BY DEF GetException, Running
<1>2. /\ program' = program /\ code' = code /\ tests' = tests
      /\ excepts' = excepts /\ status' = status /\ pending' = NoException
  BY DEF GetException, world
<1> DEFINE g == FrameTo(top, top.pc + 1, Assigned(top.locals, inst.into, pending))
<1>3. FrameFits(code, g) /\ Prevails(code, g) = Prevails(code, top)
  BY <1>1, TopFits, FrameAssigns DEF inst
<1>4. stack' = [stack EXCEPT ![Len(stack)] = g] /\ g.entered = top.entered
  BY TopFits, SetLocalIs, FrameParts DEF GetException
<1> HIDE DEF g
<1>5. StepTo(g)
  BY <1>1, <1>2, <1>3, <1>4, TopFits DEF StepTo, IInv, Globals
<1>6. QED
  BY <1>5, StepKeeps

LEMMA StepMatch == ASSUME IInv, DoMatch PROVE IInv'
<1>1. inst.op = "match" /\ status = "running" /\ pending = NoException
  BY NotUrgent DEF DoMatch, Running
<1>2. /\ program' = program /\ code' = code /\ tests' = tests
      /\ excepts' = excepts /\ pending' = pending /\ status' = status
  BY DEF DoMatch, world
<1> DEFINE v == top.locals[inst.of] \in inst.types
           g == FrameTo(top, top.pc + 1, Assigned(top.locals, inst.into, v))
<1>3. SetLocal(inst.into, v)
  BY DEF DoMatch
<1> HIDE DEF v
<1>4. FrameFits(code, g) /\ Prevails(code, g) = Prevails(code, top)
  BY <1>1, TopFits, FrameAssigns DEF inst
<1>5. stack' = [stack EXCEPT ![Len(stack)] = g] /\ g.entered = top.entered
  BY <1>3, TopFits, SetLocalIs, FrameParts
<1> HIDE DEF g
<1>6. StepTo(g)
  BY <1>1, <1>2, <1>4, <1>5, TopFits DEF StepTo, IInv, Globals
<1>7. QED
  BY <1>6, StepKeeps

(* A try statement remembers the excepts, sets its own, and restores them. *)
LEMMA StepSave == ASSUME IInv, SaveExcepts PROVE IInv'
<1>1. inst.op = "save" /\ status = "running" /\ pending = NoException
  BY NotUrgent DEF SaveExcepts, Running
<1>2. /\ program' = program /\ code' = code /\ tests' = tests
      /\ excepts' = excepts /\ pending' = pending /\ status' = status
  BY DEF SaveExcepts, world
<1> DEFINE g == FrameTo(top, top.pc + 1, Assigned(top.locals, inst.into, excepts))
<1>3. FrameFits(code, g) /\ Prevails(code, g) = Prevails(code, top)
  BY <1>1, TopFits, FrameSaves DEF inst
<1>4. stack' = [stack EXCEPT ![Len(stack)] = g] /\ g.entered = top.entered
  BY TopFits, SetLocalIs, FrameParts DEF SaveExcepts
<1> HIDE DEF g
<1>5. StepTo(g)
  BY <1>1, <1>2, <1>3, <1>4, TopFits DEF StepTo, IInv, Globals
<1>6. QED
  BY <1>5, StepKeeps

LEMMA StepSet == ASSUME IInv, SetExcepts PROVE IInv'
<1>1. inst.op = "excepts" /\ status = "running" /\ pending = NoException
  BY NotUrgent DEF SetExcepts, Running
<1>2. /\ program' = program /\ code' = code /\ tests' = tests
      /\ excepts' = inst.types /\ pending' = pending /\ status' = status
  BY DEF SetExcepts, world
<1> DEFINE g == FrameTo(top, top.pc + 1, top.locals)
<1>3. FrameFits(code, g) /\ Prevails(code, g) = inst.types /\ inst.types \subseteq Exceptions
  BY <1>1, TopFits, FrameSets DEF inst
<1>4. stack' = [stack EXCEPT ![Len(stack)] = g] /\ g.entered = top.entered
  BY TopFits, JumpIs, FrameParts DEF SetExcepts, Proceed
<1> HIDE DEF g
<1>5. StepTo(g)
  BY <1>1, <1>2, <1>3, <1>4 DEF StepTo, IInv, Globals
<1>6. QED
  BY <1>5, StepKeeps

LEMMA StepRestore == ASSUME IInv, RestoreExcepts PROVE IInv'
<1>1. inst.op = "restore" /\ status = "running" /\ pending = NoException
  BY NotUrgent DEF RestoreExcepts, Running
<1>2. /\ program' = program /\ code' = code /\ tests' = tests
      /\ excepts' = top.locals[inst.from] /\ pending' = pending /\ status' = status
  BY DEF RestoreExcepts, world
<1> DEFINE g == FrameTo(top, top.pc + 1, top.locals)
<1>3. /\ FrameFits(code, g) /\ top.locals[inst.from] \subseteq Exceptions
      /\ Contained => top.locals[inst.from] = Prevails(code, g)
  BY <1>1, TopFits, FrameRestores DEF inst
<1>4. stack' = [stack EXCEPT ![Len(stack)] = g] /\ g.entered = top.entered
  BY TopFits, JumpIs, FrameParts DEF RestoreExcepts, Proceed
<1> HIDE DEF g
<1>5. StepTo(g)
  BY <1>1, <1>2, <1>3, <1>4 DEF StepTo, IInv, Globals
<1>6. QED
  BY <1>5, StepKeeps

(* A function begins with nothing remembered and the excepts of its caller,*)
(* which goes on at its check of the pending exception.                    *)
LEMMA StepCall == ASSUME IInv, DoCall PROVE IInv'
<1>1. inst.op = "call" /\ status = "running" /\ pending = NoException
  BY NotUrgent DEF DoCall, Running
<1>2. /\ program' = program /\ code' = code /\ tests' = tests
      /\ excepts' = excepts /\ pending' = pending /\ status' = status
  BY DEF DoCall, world
<1> DEFINE g == FrameTo(top, top.pc + 1, top.locals)
           st == [stack EXCEPT ![Len(stack)] = g]
           new == Frame(inst.fn)
<1>3. FrameFits(code, g) /\ Prevails(code, g) = Prevails(code, top)
  BY <1>1, TopFits, FrameProceeds DEF inst
<1>4. g.entered = top.entered /\ g.fn = top.fn /\ g.pc = top.pc + 1
  BY FrameParts
<1>5. stack' = Append(st, new)
  <2>1. [top EXCEPT !.pc = top.pc + 1] = g
    BY TopFits, FrameJumped
  <2>2. stack' = Append([stack EXCEPT ![Len(stack)] = [top EXCEPT !.pc = top.pc + 1]], new)
    BY DEF DoCall, top
  <2>3. QED
    BY <2>1, <2>2
<1> HIDE DEF g
<1>6. StackFits(code, st, excepts) /\ Len(st) = Len(stack) /\ st[Len(st)] = g
  <2>1. StackFits(code, stack, excepts) /\ g.entered = stack[Len(stack)].entered
    BY <1>4 DEF IInv, top
  <2>2. Contained => excepts = Prevails(code, g)
    BY <1>3, TopFits
  <2>3. QED
    BY <1>3, <2>1, <2>2, StackReplaced
<1>7. IsCheck(code[g.fn][g.pc])
  BY <1>1, <1>4, Following DEF MayFollow, Risky
<1>8. inst.fn \in Functions
  <2>1. PICK V : Carries(inst, Chart(code[top.fn])[top.pc], Chart(code[top.fn])[top.pc + 1], V)
    BY TopFits, PlaceOf DEF inst
  <2>2. QED
    BY <1>1, <2>1 DEF Carries
<1>9. /\ IsFrame(new) /\ new.fn = inst.fn /\ new.pc = 1
      /\ new.locals = <<>> /\ new.entered = excepts
  BY DEF Frame, IsFrame
<1> DEFINE c == code[inst.fn]
<1>10. IsCharted(c)
  <2>1. c = CompileFunction(program[inst.fn])
    BY <1>8 DEF IInv, Globals
  <2>2. QED
    BY <1>8, <2>1, ProgramCharted DEF IInv, Globals
<1> HIDE DEF c, st, new
<1>11. 1 \in DOMAIN c /\ Chart(c)[1] = AtEntry
  <2>1. PICK V : Charted(c, Chart(c), V)
    BY <1>10 DEF IsCharted
  <2>2. IsCode(c) /\ Len(c) > 0
    BY <2>1 DEF Charted
  <2>3. Len(c) \in Nat /\ DOMAIN c = 1 .. Len(c)
    BY <2>2, CodeOfElements
  <2>4. QED
    BY <2>1, <2>2, <2>3 DEF Charted
<1>12. PlanOf(code, new) = AtEntry
  BY <1>9, <1>11 DEF PlanOf, c
<1>13. FrameFits(code, new) /\ Prevails(code, new) = excepts
  <2>1. Len(AtEntry.saved) = 0 /\ AtEntry.mask = <<>>
    BY DEF AtEntry
  <2>2. Remembers(new, AtEntry)
    BY <2>1 DEF Remembers
  <2>3. FrameFits(code, new)
    BY <1>8, <1>9, <1>11, <1>12, <2>2, TopFits DEF FrameFits, c
  <2>4. Prevails(code, new) = excepts
    BY <1>9, <1>12, <2>1 DEF Prevails, Expected
  <2>5. QED
    BY <2>3, <2>4
<1>14. StackFits(code, Append(st, new), excepts)
  BY <1>6, <1>7, <1>9, <1>13, StackPushed
<1>15. StackFits(code, stack, excepts)'
  BY <1>2, <1>5, <1>14
<1>16. Globals'
  BY <1>2 DEF IInv, Globals
<1>17. QED
  BY <1>1, <1>2, <1>15, <1>16 DEF IInv

(* A function returns with the excepts it was called with, to its caller's *)
(* check of the pending exception.                                         *)
LEMMA Returning ==
  ASSUME IInv, inst.op = "return"
  PROVE  Contained => excepts = top.entered
<1>1. PICK V : Carries(inst, Chart(code[top.fn])[top.pc], Chart(code[top.fn])[top.pc + 1], V)
  BY TopFits, PlaceOf DEF inst
<1>2. Contained => PlanOf(code, top).mask = <<>>
  BY <1>1 DEF Carries, PlanOf
<1>3. QED
  BY <1>2, TopFits DEF Prevails, Expected

LEMMA StepReturn == ASSUME IInv, DoReturn PROVE IInv'
<1>1. inst.op = "return" /\ status = "running"
  BY DEF DoReturn, Running
<1>2. /\ program' = program /\ code' = code /\ tests' = tests
      /\ excepts' = excepts /\ pending' = pending /\ status' = status
      /\ stack' = Front(stack) /\ Len(stack) > 1
  BY DEF DoReturn, world
<1> DEFINE st == Front(stack)
<1>3. StackFits(code, stack, excepts) /\ (Contained => excepts = stack[Len(stack)].entered)
  BY <1>1, Returning DEF IInv, top
<1>4. /\ StackFits(code, st, excepts)
      /\ LET fr == st[Len(st)] IN IsCheck(code[fr.fn][fr.pc])
  BY <1>2, <1>3, StackPopped
<1>5. stack' = st
  BY <1>2
<1> HIDE DEF st
<1>6. StackFits(code, stack, excepts)'
  BY <1>2, <1>4, <1>5
<1>7. IsCheck(inst')
  BY <1>2, <1>4, <1>5 DEF inst, top
<1>8. Globals'
  BY <1>2 DEF IInv, Globals
<1>9. QED
  BY <1>1, <1>2, <1>6, <1>7, <1>8 DEF IInv, Urgent

LEMMA StepDone == ASSUME IInv, ModuleReturns PROVE IInv'
<1>1. inst.op = "return" /\ status' = "done" /\ Len(stack) = 1
  BY DEF ModuleReturns, Running
<1>2. /\ program' = program /\ code' = code /\ tests' = tests
      /\ excepts' = excepts /\ pending' = pending /\ stack' = stack
  BY DEF ModuleReturns, world
<1>3. top.entered = {}
  BY <1>1 DEF IInv, StackFits, top
<1>4. Contained => excepts = {}
  BY <1>1, <1>3, Returning
<1>5. StackFits(code, stack, excepts)'
  BY <1>2 DEF IInv
<1>6. Globals'
  BY <1>1, <1>2 DEF IInv, Globals
<1>7. QED
  BY <1>1, <1>2, <1>4, <1>5, <1>6 DEF IInv

-----------------------------------------------------------------------------
(* The theorems                                                            *)

LEMMA InitFits == ASSUME Init PROVE IInv
<1> DEFINE fr == [fn |-> "module", pc |-> 1, locals |-> <<>>, entered |-> {}]
           c == code["module"]
<1>1. /\ program \in Programs
      /\ code = [f \in Functions |-> CompileFunction(program[f])]
  BY ProgramsAssumption DEF Init
<1>2. stack = <<fr>> /\ excepts = {} /\ pending = NoException /\ status = "running"
  BY DEF Init
<1>3. Globals
  <2>1. tests = <<>> /\ <<>> \in Seq(BOOLEAN) /\ Len(<<>>) = 0 /\ MaxTests \in Nat
    BY TestsAssumption DEF Init
  <2>2. Len(tests) <= MaxTests
    BY <2>1
  <2>3. QED
    BY <1>1, <1>2, <2>1, <2>2 DEF Globals
<1>4. "module" \in Functions
  BY ProgramsAssumption
<1>5. IsCharted(c)
  <2>1. c = CompileFunction(program["module"])
    BY <1>1, <1>4
  <2>2. QED
    BY <1>1, <1>4, <2>1, ProgramCharted
<1>6. /\ IsFrame(fr) /\ fr.fn = "module" /\ fr.pc = 1
      /\ fr.locals = <<>> /\ fr.entered = {}
  BY DEF IsFrame
<1> HIDE DEF c, fr
<1>7. 1 \in DOMAIN c /\ Chart(c)[1] = AtEntry
  <2>1. PICK V : Charted(c, Chart(c), V)
    BY <1>5 DEF IsCharted
  <2>2. IsCode(c) /\ Len(c) > 0
    BY <2>1 DEF Charted
  <2>3. Len(c) \in Nat /\ DOMAIN c = 1 .. Len(c)
    BY <2>2, CodeOfElements
  <2>4. QED
    BY <2>1, <2>2, <2>3 DEF Charted
<1>8. PlanOf(code, fr) = AtEntry
  BY <1>6, <1>7 DEF PlanOf, c
<1>9. FrameFits(code, fr) /\ Prevails(code, fr) = {}
  <2>1. Len(AtEntry.saved) = 0 /\ AtEntry.mask = <<>>
    BY DEF AtEntry
  <2>2. Remembers(fr, AtEntry)
    BY <2>1 DEF Remembers
  <2>3. FrameFits(code, fr)
    BY <1>4, <1>6, <1>7, <1>8, <2>2 DEF FrameFits, c
  <2>4. Prevails(code, fr) = {}
    BY <1>6, <1>8, <2>1 DEF Prevails, Expected
  <2>5. QED
    BY <2>3, <2>4
<1> DEFINE st == <<fr>>
<1>10. IsCode(st) /\ Len(st) = 1 /\ st[1] = fr
  BY OneInstruction
<1> HIDE DEF st
<1>11. StackFits(code, st, {})
  BY <1>6, <1>9, <1>10 DEF StackFits
<1>12. stack = st
  BY <1>2 DEF st
<1>13. QED
  BY <1>2, <1>3, <1>11, <1>12 DEF IInv

LEMMA NextKeeps == ASSUME IInv, [Next]_vars PROVE IInv'
<1>1. CASE Next
  BY <1>1, StepPrint, StepTest, StepIf, StepGoto, StepBreak, StepRepeat, StepPass,
     StepRaise, StepCatch, StepMatch, StepSave, StepSet, StepRestore, StepCall,
     StepReturn, StepDone DEF Next
<1>2. CASE UNCHANGED vars
  <2>1. Globals'
    BY <1>2 DEF vars, IInv, Globals
  <2>2. StackFits(code, stack, excepts)'
    BY <1>2 DEF vars, IInv
  <2>3. inst' = inst
    BY <1>2 DEF vars, inst, top
  <2>4. QED
    BY <1>2, <2>1, <2>2, <2>3 DEF vars, IInv
<1>3. QED
  BY <1>1, <1>2

LEMMA Invariance == Spec => []IInv
<1>1. Init => IInv
  BY InitFits
<1>2. IInv /\ [Next]_vars => IInv'
  BY NextKeeps
<1>3. QED
  BY <1>1, <1>2, PTL DEF Spec

(* The C program never runs off the end of a function, whatever it jumps   *)
(* to, and current_excepts and global_exception hold exception types.      *)
THEOREM StatementTypes == Spec => []TypeOK
<1>1. IInv => TypeOK
  <2>1. SUFFICES ASSUME IInv PROVE TypeOK
    OBVIOUS
  <2>2. IsCode(stack)
    BY <2>1, TopFits
  <2>3. DOMAIN stack = 1 .. Len(stack)
    BY <2>2, CodeOfElements
  <2>4. \A i \in DOMAIN stack : stack[i].fn \in Functions /\ stack[i].pc \in DOMAIN code[stack[i].fn]
    BY <2>1, <2>3 DEF IInv, StackFits, FrameFits
  <2>5. DOMAIN program = Functions
    BY <2>1, ProgramsAssumption DEF IInv, Globals
  <2>6. QED
    BY <2>1, <2>4, <2>5 DEF TypeOK, IInv, Globals
<1>2. QED
  BY <1>1, Invariance, PTL

(* No instruction of the source program runs while an exception is         *)
(* pending: the check behind every unsafe instruction, in this function    *)
(* and in every caller, sees it first.                                     *)
THEOREM ExceptionsCheckedAtOnce == Spec => []CheckedAtOnce
<1>1. IInv => CheckedAtOnce
  BY DEF IInv, CheckedAtOnce, Urgent, IsCheck, Leaves, IsHandler
<1>2. QED
  BY <1>1, Invariance, PTL

(* Where no return, break or continue leaves a try statement, a function   *)
(* returns with the current_excepts it was called with, and the module     *)
(* with none, also when an exception passes through it.  Without that      *)
(* condition the run statements_leak shows a function that does not.       *)
THEOREM ContainedRestoresExcepts ==
  ASSUME Contained
  PROVE  Spec => []ExceptsRestored
<1>1. IInv => ExceptsRestored
  <2>1. SUFFICES ASSUME IInv PROVE ExceptsRestored
    OBVIOUS
  <2>2. Running({"return"}) => excepts = top.entered
    BY <2>1, Returning DEF Running
  <2>3. status = "done" => excepts = {}
    BY <2>1 DEF IInv
  <2>4. QED
    BY <2>2, <2>3 DEF ExceptsRestored
<1>2. QED
  BY <1>1, Invariance, PTL

=============================================================================
