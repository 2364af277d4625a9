----------------------------- MODULE OrderedMap -----------------------------
(***************************************************************************)
(* What the runtime dict promises (np_dict_* in not_python.c): an ordered  *)
(* map.  Every key set and not removed is found, with the value set last;  *)
(* replacing a value keeps the place of its key; a loop over the dict sees *)
(* every entry once, in the order in which the keys were entered.          *)
(***************************************************************************)
EXTENDS Naturals, Sequences

CONSTANTS
  Keys,
  Vals,
  None,         \* no result
  KeyError      \* the KeyError exception

VARIABLES
  entries,      \* the entries, in order: keys with their values
  result,       \* what the last operation answered
  cursor        \* the position of the loop over the map, 0 outside of one

vars == <<entries, result, cursor>>

Entry == [key : Keys, val : Vals]

Holds(k, i) == i \in DOMAIN entries /\ entries[i].key = k
Has(k) == \E i \in DOMAIN entries : Holds(k, i)

Init ==
  /\ entries = <<>>
  /\ result = None
  /\ cursor = 0

Set(k, v) ==
  /\ \/ /\ ~Has(k)
        /\ cursor = 0
        /\ entries' = Append(entries, [key |-> k, val |-> v])
     \/ \E i \in DOMAIN entries :
          /\ Holds(k, i)
          /\ entries' = [entries EXCEPT ![i].val = v]
  /\ result' = None
  /\ UNCHANGED cursor

Get(k) ==
  /\ \/ \E i \in DOMAIN entries : Holds(k, i) /\ result' = entries[i]
     \/ ~Has(k) /\ result' = KeyError
  /\ UNCHANGED <<entries, cursor>>

Without(s, i) == [j \in 1 .. Len(s) - 1 |-> IF j < i THEN s[j] ELSE s[j + 1]]

(* The answer of pop is the entry taken out, that of del is nothing.       *)
Delete(k, answered) ==
  /\ cursor = 0
  /\ \/ \E i \in DOMAIN entries :
          /\ Holds(k, i)
          /\ entries' = Without(entries, i)
          /\ result' = IF answered THEN entries[i] ELSE None
     \/ ~Has(k) /\ result' = KeyError /\ UNCHANGED entries
  /\ UNCHANGED cursor

Clear ==
  /\ cursor = 0
  /\ entries' = <<>>
  /\ result' = None
  /\ UNCHANGED cursor

Iterate == cursor = 0 /\ cursor' = 1 /\ UNCHANGED <<entries, result>>

NextEntry ==
  /\ cursor \in DOMAIN entries
  /\ result' = entries[cursor]
  /\ cursor' = cursor + 1
  /\ UNCHANGED entries

Exhausted ==
  /\ cursor > Len(entries)
  /\ result' = None
  /\ cursor' = 0
  /\ UNCHANGED entries

Next ==
  \/ \E k \in Keys, v \in Vals : Set(k, v)
  \/ \E k \in Keys : Get(k)
  \/ \E k \in Keys, answered \in BOOLEAN : Delete(k, answered)
  \/ Clear
  \/ Iterate
  \/ NextEntry
  \/ Exhausted

Spec == Init /\ [][Next]_vars
=============================================================================
