-------------------------------- MODULE Values --------------------------------
(***************************************************************************)
(* Values of a running program, Python's or the compiled one's.  A value   *)
(* is a record with one field, which names its kind: int, float, bool,     *)
(* str, none; list, dict, obj with an address; func with the function,     *)
(* iter with the address of its dict; beyond for what is not modelled,     *)
(* such as infinity or the memory behind an undefined operation.           *)
(*                                                                         *)
(* A float is counted in quarters, rounded toward zero.  A string is a     *)
(* sequence of characters, which are numbers; the text of a value is one   *)
(* character.                                                              *)
(***************************************************************************)
EXTENDS Integers, Sequences, SequencesExt, Bitwise

Beyond == [beyond |-> 0]
NoneValue == [none |-> 0]
IsBeyond(v) == "beyond" \in DOMAIN v
Boolean(b) == [bool |-> b]

Abs(n) == IF n < 0 THEN -n ELSE n
TowardZero(a, b) ==
  IF (a < 0) = (b < 0) THEN Abs(a) \div Abs(b) ELSE -(Abs(a) \div Abs(b))
Floor(a, b) == IF b < 0 THEN (-a) \div (-b) ELSE a \div b

IsNumber(v) == DOMAIN v \cap {"int", "float", "bool"} # {}
IsFloat(v) == "float" \in DOMAIN v

Quarters(v) ==
  CASE "int" \in DOMAIN v -> 4 * v.int
    [] "float" \in DOMAIN v -> v.float
    [] "bool" \in DOMAIN v -> IF v.bool THEN 4 ELSE 0

(* The number of so many quarters, a float if that is asked for.           *)
Number(q, float) == IF float THEN [float |-> q] ELSE [int |-> TowardZero(q, 4)]

RECURSIVE PowerOf(_, _)
PowerOf(q, n) == IF n = 0 THEN 4 ELSE TowardZero(q * PowerOf(q, n - 1), 4)

Compared(op, a, b) ==
  CASE op = "==" -> a = b [] op = "!=" -> a # b [] op = "<" -> a < b
    [] op = ">" -> a > b [] op = "<=" -> a <= b [] op = ">=" -> a >= b

Bits(op, a, b) ==
  CASE a < 0 \/ b < 0 -> Beyond
    [] a >= 0 /\ b >= 0 ->
         [int |-> CASE op = "&" -> a & b [] op = "|" -> a | b [] op = "^" -> a ^^ b
                    [] op = "<<" -> a * 2 ^ b [] op = ">>" -> a \div (2 ^ b)]

(* The text of a value.                                                    *)
TextOf(v) ==
  CASE "int" \in DOMAIN v -> <<1000 + v.int>>
    [] "float" \in DOMAIN v -> <<2000 + v.float>>
    [] "bool" \in DOMAIN v -> <<IF v.bool THEN 3001 ELSE 3000>>

-----------------------------------------------------------------------------
(* The heap: a sequence of cells [list], [dict] (pairs in the order they   *)
(* came in) and [class, fields].                                           *)

At(items, i) == IF i < 0 THEN Len(items) + i + 1 ELSE i + 1
Inside(items, i) == At(items, i) \in DOMAIN items

Repeated(s, n) == [p \in 1 .. n * Len(s) |-> s[((p - 1) % Len(s)) + 1]]

Equal(v, w) ==
  CASE IsNumber(v) /\ IsNumber(w) -> Quarters(v) = Quarters(w)
    [] OTHER -> DOMAIN v = DOMAIN w /\ v = w

Occurrences(items, v) == SelectSeq([p \in DOMAIN items |-> p], LAMBDA p : Equal(items[p], v))

HasKey(pairs, k) == \E i \in DOMAIN pairs : Equal(pairs[i][1], k)
PlaceOf(pairs, k) == CHOOSE i \in DOMAIN pairs : Equal(pairs[i][1], k)
Entered(pairs, k, v) ==
  IF HasKey(pairs, k) THEN [pairs EXCEPT ![PlaceOf(pairs, k)][2] = v] ELSE Append(pairs, <<k, v>>)
Updated(pairs, others) == FoldLeft(LAMBDA d, p : Entered(d, p[1], p[2]), pairs, others)

Put(f, x, v) == [y \in DOMAIN f \cup {x} |-> IF y = x THEN v ELSE f[y]]

(* A value with what its addresses stand for.                              *)
RECURSIVE Unfold(_, _)
Unfold(heap, v) ==
  CASE "list" \in DOMAIN v -> [list |-> [i \in DOMAIN heap[v.list].list |->
                                           Unfold(heap, heap[v.list].list[i])]]
    [] "dict" \in DOMAIN v -> [dict |-> [i \in DOMAIN heap[v.dict].dict |->
                                           [j \in 1 .. 2 |-> Unfold(heap, heap[v.dict].dict[i][j])]]]
    [] "obj" \in DOMAIN v ->
         LET fields == heap[v.obj].fields
         IN  [fields |-> [a \in DOMAIN fields |-> Unfold(heap, fields[a])]]
    [] "func" \in DOMAIN v -> [func |-> v.func]
    [] OTHER -> v

Same(v, w) == DOMAIN v = DOMAIN w /\ v = w
=============================================================================
