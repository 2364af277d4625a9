----------------------------- MODULE PythonList -----------------------------
(***************************************************************************)
(* What the runtime list promises (np_list_* in not_python.c): a sequence  *)
(* that is read and changed by position, searched by value, sorted and     *)
(* looped over.  It is Python's list, but for three things: insert accepts *)
(* only the position of an item that is there (test/errors/list), a search *)
(* may answer any of several equal items, and sort may refuse, as it does  *)
(* when the items have no order.                                           *)
(***************************************************************************)
EXTENDS Integers, Sequences, FiniteSets, SequencesExt

CONSTANTS
  Elems,
  Indices,      \* the positions the program uses
  Others,       \* the lists that are joined to this one
  Factors,      \* the numbers this list is repeated by
  None,         \* no result
  IndexError,
  ValueError

VARIABLES
  items,
  result,       \* what the last operation answered
  cursor        \* the position of the loop over the list, 0 outside of one

vars == <<items, result, cursor>>

(* Position i of the program, counted from 0 or, below 0, from the end.    *)
At(i) == IF i < 0 THEN Len(items) + i + 1 ELSE i + 1
Inside(i) == At(i) \in DOMAIN items

Places(x) == {p \in DOMAIN items : items[p] = x}

Times(s, n) == [p \in 1 .. n * Len(s) |-> s[((p - 1) % Len(s)) + 1]]

Occurrences(x, s) == Cardinality({p \in DOMAIN s : s[p] = x})

Ordered(s, reverse) ==
  \A p, q \in DOMAIN s : p < q => IF reverse THEN s[p] >= s[q] ELSE s[p] <= s[q]

Init ==
  /\ items = <<>>
  /\ result = None
  /\ cursor = 0

Answer(r) == result' = r /\ UNCHANGED <<items, cursor>>
Become(s) == items' = s /\ result' = None /\ UNCHANGED cursor

Get(i) == Inside(i) /\ Answer(items[At(i)])
Put(i, x) == Inside(i) /\ Become([items EXCEPT ![At(i)] = x])

Add(x) == Become(Append(items, x))
Insert(i, x) == Inside(i) /\ Become(InsertAt(items, At(i), x))
Pop(i) ==
  /\ Inside(i)
  /\ items' = RemoveAt(items, At(i))
  /\ result' = items[At(i)]
  /\ UNCHANGED cursor

Outside(i) == ~Inside(i) /\ Answer(IndexError)

Find(x) ==
  \/ \E p \in Places(x) : Answer(p - 1)
  \/ Places(x) = {} /\ Answer(ValueError)

Discard(x) ==
  \/ \E p \in Places(x) : Become(RemoveAt(items, p))
  \/ Places(x) = {} /\ Answer(ValueError)

Count(x) == Answer(Occurrences(x, items))

Clear == Become(<<>>)
Rev == Become(Reverse(items))
Copy == Become(items)
Join(s) == Become(items \o s)
Repeat(n) == Become(Times(items, n))

Sort(reverse) ==
  \/ /\ items' \in [DOMAIN items -> Elems]
     /\ \A x \in Elems : Occurrences(x, items') = Occurrences(x, items)
     /\ Ordered(items', reverse)
     /\ result' = None
     /\ UNCHANGED cursor
  \/ Answer(ValueError)

Iterate == cursor = 0 /\ cursor' = 1 /\ UNCHANGED <<items, result>>

NextItem ==
  /\ cursor \in DOMAIN items
  /\ result' = items[cursor]
  /\ cursor' = cursor + 1
  /\ UNCHANGED items

Exhausted ==
  /\ cursor > Len(items)
  /\ result' = None
  /\ cursor' = 0
  /\ UNCHANGED items

Next ==
  \/ \E i \in Indices : Get(i) \/ Pop(i) \/ Outside(i)
  \/ \E i \in Indices, x \in Elems : Put(i, x) \/ Insert(i, x)
  \/ \E x \in Elems : Add(x) \/ Find(x) \/ Discard(x) \/ Count(x)
  \/ Clear \/ Rev \/ Copy
  \/ \E s \in Others : Join(s)
  \/ \E n \in Factors : Repeat(n)
  \/ \E reverse \in BOOLEAN : Sort(reverse)
  \/ Iterate \/ NextItem \/ Exhausted

Spec == Init /\ [][Next]_vars
=============================================================================
