----------------------------- MODULE SymbolTable -----------------------------
(***************************************************************************)
(* The symbols of a scope (SymbolHashmap in hashmap.c): in the order they  *)
(* were entered, with a lookup table of twice as many slots in the same    *)
(* buffer.  A slot holds the number of a symbol, counted from 1, or 0.     *)
(* When the symbols fill their part the buffer is doubled and laid out     *)
(* anew.  Finalizing copies both parts to static memory; what is found     *)
(* where stays the same, so it is left out, and so is where the buffer is. *)
(*                                                                         *)
(* NotRehashed is a deviation.                                             *)
(***************************************************************************)
EXTENDS Integers, Sequences, SequencesExt

CONSTANTS
  TableBytes,  \* of the first buffer: 1024
  UnitBytes,   \* of a symbol and its slots
  Hash(_)      \* hash_bytes of a name

(* The first buffer has room for a symbol.                                 *)
ASSUME TableAssumption ==
  UnitBytes \in Nat \ {0} /\ TableBytes \in Nat /\ TableBytes >= UnitBytes

NoSymbol == [name |-> "", kind |-> ""]

Slots(hm) == 0 .. 2 * hm.capacity - 1

(* How far a slot is from where probing for a name starts.                 *)
Distance(hm, name, slot) == (slot - Hash(name)) % (2 * hm.capacity)

Stops(hm, name, slot) ==
  hm.lookup[slot] = 0 \/ hm.elements[hm.lookup[slot]].name = name

(* The slot at which probing for a name ends: unused, or leading to it.    *)
Probed(hm, name) ==
  CHOOSE slot \in Slots(hm) :
    /\ Stops(hm, name, slot)
    /\ \A other \in Slots(hm) :
         Stops(hm, name, other) => Distance(hm, name, slot) <= Distance(hm, name, other)

hm_lookup_insert(hm, index, name) ==
  LET slot == Probed(hm, name)
  IN  IF hm.lookup[slot] # 0 THEN hm ELSE [hm EXCEPT !.lookup[slot] = index]

rehash(hm) ==
  LET laid[n \in 0 .. Len(hm.elements)] ==
        IF n = 0 THEN hm ELSE hm_lookup_insert(laid[n - 1], n, hm.elements[n].name)
  IN  laid[Len(hm.elements)]

LaidOut(hm, capacity) ==
  [hm EXCEPT !.capacity = capacity, !.lookup = [slot \in 0 .. 2 * capacity - 1 |-> 0]]

NotRehashed(hm) == LaidOut(hm, hm.bytes \div UnitBytes)

layout_hm_memory(hm) == rehash(LaidOut(hm, hm.bytes \div UnitBytes))

symbol_hm_init ==
  layout_hm_memory([bytes |-> TableBytes, elements |-> <<>>, capacity |-> 0, lookup |-> <<>>])

(* A full table grows even if the symbol turns out to be there.            *)
WithRoom(hm) ==
  IF Len(hm.elements) = hm.capacity THEN layout_hm_memory([hm EXCEPT !.bytes = 2 * @]) ELSE hm

Entered(hm, slot, symbol) ==
  IF hm.lookup[slot] # 0 THEN hm
  ELSE [hm EXCEPT !.elements = Append(@, symbol), !.lookup[slot] = Len(hm.elements) + 1]

(* The first occurrence of a name is kept.                                 *)
PutWithRoom(hm, symbol) == Entered(hm, Probed(hm, symbol.name), symbol)
symbol_hm_put(hm, symbol) == PutWithRoom(WithRoom(hm), symbol)

symbol_hm_get(hm, name) ==
  LET index == hm.lookup[Probed(hm, name)]
  IN  IF index = 0 THEN NoSymbol ELSE hm.elements[index]

(* Every symbol is found under its name, no two have the same one, and a   *)
(* probe ends for any name: there is an unused slot.                       *)
FindsItsSymbols(hm) ==
  /\ \A symbol \in Range(hm.elements) : symbol_hm_get(hm, symbol.name) = symbol
  /\ IsInjective(hm.elements)
  /\ \E slot \in Slots(hm) : hm.lookup[slot] = 0
=============================================================================
