-------------------------------- MODULE Dict --------------------------------
(***************************************************************************)
(* The dict of the runtime (NpDict in not_python.c): items in an array, in *)
(* the order they were entered, and a lookup table (lut) with open         *)
(* addressing and linear probing that leads from the hash of a key to the  *)
(* index of its item.  Removing an item leaves a tombstone in the array    *)
(* and empties its slot of the lut; growing and shrinking compact the      *)
(* array and build the lut anew, one step here per item moved.             *)
(*                                                                         *)
(* Array indices count from 1, so that 0 stands for the -1 of an unused    *)
(* slot.  A key is its bytes: the code hashes bytes but compares values,   *)
(* and keys that are equal with different bytes are not modelled.          *)
(*                                                                         *)
(* The allocations of np_dict_grow and np_dict_shrink are smaller than the *)
(* capacity says.  An access outside of one ends the behaviour             *)
(* (status "undefined"): nothing after it is defined.                      *)
(*                                                                         *)
(* StopsAtUnused, FreeAnywhere, FullOneLate, SmallerUnbounded,             *)
(* TombstonesKept and NextSlot are deviations: plausible mistakes that     *)
(* the specification does not make.                                        *)
(***************************************************************************)
EXTENDS Integers, Sequences, FiniteSets

CONSTANTS
  Keys,
  Vals,
  Hashes,       \* the functions that may give the hashes of the keys
  MinCapacity,  \* DICT_MIN_CAPACITY
  ShrinkPercent,\* DICT_SHRINK_THRESHOLD, in percent
  ItemSizes,    \* what item_size may be: a flag, a key and a value, in bytes
  PointerSize,  \* sizeof(item_size)
  Assignments,  \* the items the program sets
  Others,       \* the items of the dicts update is called with
  MaxCapacity,  \* bound: dicts do not grow beyond it
  Careful,      \* TRUE: the program avoids what the dict is known to get wrong
  Tombstone,    \* a removed item: its flag is cleared, the rest is never read
  None,
  KeyError

Item == [key : Keys, val : Vals]

(* An item is no smaller than PointerSize: every dict but dict[bool, bool] *)
(* has a key or a value of eight bytes, and that one has two keys at most. *)
(* Smaller items would get more room than the capacity says, and an array  *)
(* halved while it is full, as a removal may, could outgrow its capacity.  *)
ASSUME DictAssumption ==
  /\ Hashes \subseteq [Keys -> Nat]
  /\ MinCapacity \in Nat \ {0}
  /\ ShrinkPercent \in Nat \ {0}
  /\ MaxCapacity \in Nat
  /\ PointerSize \in Nat \ {0}
  /\ \A n \in ItemSizes : n \in Nat /\ PointerSize <= n
  /\ Assignments \subseteq Item
  /\ Others \subseteq Seq(Item)
  /\ Careful \in BOOLEAN
  /\ Tombstone \notin Item /\ None \notin Item /\ KeyError \notin Item

LutFactor == 2
GrowFactor == 2

VARIABLES
  hash,         \* the hash function, the same all along
  itemSize,     \* item_size, the same all along
  data,         \* the array up to the last item entered, tombstones included
  lut,          \* for every slot the index of an item, or Unused
  count,
  tombstones,   \* tombstone_count
  capacity,
  room,         \* the items that fit the allocation behind data
  old,          \* while growing or shrinking, the items not moved yet
  phase,        \* "ready", "growing", "shrinking"
  todo,         \* what np_dict_set_item has been called with, or will be by update
  iter,         \* the iterator of the loop in progress
  result,       \* what the last operation answered
  status        \* "running", "undefined"

types == <<hash, itemSize>>
table == <<data, lut, count, tombstones, capacity, room, old, phase>>
vars == <<types, table, todo, iter, result, status>>

Unused == 0
NotIterating == [yielded |-> 0, at |-> 0]

LutCapacity == LutFactor * capacity
Slots == 0 .. LutCapacity - 1
EmptyLut(c) == [p \in 0 .. LutFactor * c - 1 |-> Unused]

(* DICT_EFFECTIVE_COUNT and DICT_FULL *)
Effective == count + tombstones
FullOneLate == Effective = capacity + 1

Full == Effective = capacity

LiveAt(i) == data[i] # Tombstone

Idle == status = "running" /\ phase = "ready" /\ todo = <<>>
Busy == status = "running" /\ phase = "ready" /\ todo # <<>>

-----------------------------------------------------------------------------
(* Probing: the slots are tried from the home of the key on, and around.   *)

Distance(k, p) ==
  LET home == hash[k] % LutCapacity
  IN  IF p >= home THEN p - home ELSE p - home + LutCapacity

StopsAtUnused(k, p) == lut[p] = Unused

Stops(k, p) == lut[p] # Unused => data[lut[p]].key = k

(* np_dict_find_lut_location returns slot p.                               *)
FoundAt(k, p) ==
  /\ Stops(k, p)
  /\ \A q \in Slots : Stops(k, q) => Distance(k, p) <= Distance(k, q)

FreeAnywhere(k, p) ==
  /\ lut[p] = Unused
  /\ \A q \in Slots : lut[q] = Unused => p <= q

(* np_dict_lut_rehash_item fills slot p.                                   *)
FreeAt(k, p) ==
  /\ lut[p] = Unused
  /\ \A q \in Slots : lut[q] = Unused => Distance(k, p) <= Distance(k, q)

Absent(k) == count = 0 \/ \E p \in Slots : FoundAt(k, p) /\ lut[p] = Unused

(* No item was entered by probing past slot p. *)
Unpassed(p) ==
  \A q \in Slots \ {p} :
    lut[q] # Unused =>
      LET k == data[lut[q]].key IN Distance(k, q) < Distance(k, p)

NumLive(items) == Cardinality({i \in DOMAIN items : items[i] # Tombstone})

(* The items up to i, and the items without the tombstones among them.     *)
Rank(items, i) == Cardinality({j \in 1 .. i : items[j] # Tombstone})
Live(items) ==
  [n \in 1 .. NumLive(items) |->
     items[CHOOSE i \in DOMAIN items : items[i] # Tombstone /\ Rank(items, i) = n]]

-----------------------------------------------------------------------------
(* Growing and shrinking                                                   *)

Rebuild(items, c, kind) ==
  /\ capacity' = c
  /\ room' = (PointerSize * c) \div itemSize
  /\ old' = items
  /\ data' = <<>>
  /\ lut' = EmptyLut(c)
  /\ phase' = kind

Grow ==
  /\ GrowFactor * capacity <= MaxCapacity
  /\ Rebuild(data, GrowFactor * capacity, "growing")

BeginGrow ==
  /\ Busy /\ Full
  /\ Grow
  /\ UNCHANGED <<types, count, tombstones, todo, iter, result, status>>

(* Growing reads the items from the block it has just resized.             *)
MovesInside ==
  /\ phase = "growing" => Effective - Len(old) < room
  /\ Head(old) # Tombstone => Len(data) < room

TombstonesKept == tombstones

TombstonesAfterMoving == 0

MoveItem ==
  /\ status = "running" /\ phase # "ready"
  /\ MovesInside
  /\ IF Head(old) # Tombstone
     THEN \E p \in Slots :
            /\ FreeAt(Head(old).key, p)
            /\ lut' = [lut EXCEPT ![p] = Len(data) + 1]
            /\ data' = Append(data, Head(old))
     ELSE UNCHANGED <<lut, data>>
  /\ old' = Tail(old)
  /\ IF Tail(old) = <<>>
     THEN phase' = "ready" /\ tombstones' = TombstonesAfterMoving
     ELSE UNCHANGED <<phase, tombstones>>
  /\ UNCHANGED <<types, count, capacity, room, todo, iter, result, status>>

MoveOutside ==
  /\ status = "running" /\ phase # "ready"
  /\ ~MovesInside
  /\ status' = "undefined"
  /\ UNCHANGED <<types, table, todo, iter, result>>

-----------------------------------------------------------------------------
(* Setting                                                                 *)

(* A loop over the dict may replace values.  When that grows a dict with   *)
(* tombstones, items move under the iterator.                              *)
MaySet(k) ==
  iter # NotIterating =>
    /\ \E i \in DOMAIN data : LiveAt(i) /\ data[i].key = k
    /\ Careful => ~(Full /\ tombstones > 0)

CallSetItem(new) ==
  /\ Idle /\ MaySet(new.key)
  /\ todo' = <<new>>
  /\ UNCHANGED <<types, table, iter, result, status>>

EnteredIndex == Effective + 1

Enter(new, p) ==
  /\ lut[p] = Unused
  /\ Effective < room
  /\ lut' = [lut EXCEPT ![p] = EnteredIndex]
  /\ data' = Append(data, new)
  /\ count' = count + 1

Replace(new, p) ==
  /\ lut[p] # Unused
  /\ data' = [data EXCEPT ![lut[p]].val = new.val]
  /\ UNCHANGED <<lut, count>>

SetItem ==
  /\ Busy /\ ~Full
  /\ \E p \in Slots :
       /\ FoundAt(Head(todo).key, p)
       /\ Enter(Head(todo), p) \/ Replace(Head(todo), p)
  /\ todo' = Tail(todo)
  /\ result' = None
  /\ UNCHANGED <<types, tombstones, capacity, room, old, phase, iter, status>>

EnterOutside ==
  /\ Busy /\ ~Full
  /\ \E p \in Slots : FoundAt(Head(todo).key, p) /\ lut[p] = Unused
  /\ Effective >= room
  /\ status' = "undefined"
  /\ UNCHANGED <<types, table, todo, iter, result>>

Update(items) ==
  /\ Idle /\ iter = NotIterating
  /\ todo' = items
  /\ UNCHANGED <<types, table, iter, result, status>>

(* d.update(d) sets every item to itself, which only matters when the dict *)
(* is full: it grows, and if realloc moves the array, update reads on      *)
(* through a pointer to the old one.                                       *)
UpdateSelf ==
  /\ Idle /\ iter = NotIterating
  /\ count > 0 /\ Full
  /\ \/ Grow /\ UNCHANGED <<count, tombstones, status>>
     \/ status' = "undefined" /\ UNCHANGED table
  /\ UNCHANGED <<types, todo, iter, result>>

-----------------------------------------------------------------------------
(* Getting and removing                                                    *)

(* key_error; when nobody catches it the process ends, and so does the     *)
(* behaviour.                                                              *)
Fail == result' = KeyError /\ UNCHANGED <<types, table, todo, iter, status>>

GetItem(k) ==
  /\ Idle
  /\ count > 0
  /\ \E p \in Slots :
       /\ FoundAt(k, p)
       /\ lut[p] # Unused
       /\ result' = data[lut[p]]
  /\ UNCHANGED <<types, table, todo, iter, status>>

GetAbsent(k) == Idle /\ Absent(k) /\ Fail

Shrinks == 100 * Effective >= ShrinkPercent * capacity

SmallerUnbounded == capacity \div 2

Smaller ==
  IF capacity \div 2 < MinCapacity THEN MinCapacity ELSE capacity \div 2

Removed(p) == [data EXCEPT ![lut[p]] = Tombstone]

(* The end of np_dict_pop_val and np_dict_del.  A careful program empties a*)
(* slot only when no other key was entered past it.                        *)
RemoveAt(p) ==
  /\ count' = count - 1
  /\ tombstones' = tombstones + 1
  /\ \/ /\ Shrinks
        /\ Rebuild(Removed(p), Smaller, "shrinking")
     \/ /\ ~Shrinks
        /\ Careful => Unpassed(p)
        /\ data' = Removed(p)
        /\ lut' = [lut EXCEPT ![p] = Unused]
        /\ UNCHANGED <<capacity, room, old, phase>>

Pop(k) ==
  /\ Idle /\ iter = NotIterating
  /\ count > 0
  /\ \E p \in Slots :
       /\ FoundAt(k, p)
       /\ lut[p] # Unused
       /\ RemoveAt(p)
       /\ result' = data[lut[p]]
  /\ UNCHANGED <<types, todo, iter, status>>

PopAbsent(k) == Idle /\ iter = NotIterating /\ Absent(k) /\ Fail

Del(k) ==
  /\ Idle /\ iter = NotIterating
  /\ count > 0
  /\ \E p \in Slots : FoundAt(k, p) /\ lut[p] # Unused /\ RemoveAt(p)
  /\ result' = None
  /\ UNCHANGED <<types, todo, iter, status>>

(* When the KeyError is caught np_dict_del goes on, and writes to the item *)
(* in front of the first.  It is part of the interface of the runtime; no  *)
(* compiled program calls it yet.                                          *)
DelAbsent(k) ==
  /\ Idle /\ iter = NotIterating
  /\ Absent(k)
  /\ \/ count = 0 /\ Fail
     \/ /\ count > 0
        /\ status' = "undefined"
        /\ UNCHANGED <<types, table, todo, iter, result>>

-----------------------------------------------------------------------------
(* Clearing, copying and iterating                                         *)

Clear ==
  /\ Idle /\ iter = NotIterating
  /\ data' = <<>>
  /\ lut' = EmptyLut(MinCapacity)
  /\ count' = 0
  /\ tombstones' = 0
  /\ capacity' = MinCapacity
  /\ room' = MinCapacity
  /\ result' = None
  /\ UNCHANGED <<types, old, phase, todo, iter, status>>

(* The program goes on with the copy.  Its allocation has the full size,   *)
(* and as much is read from the one behind the original.                   *)
Copy ==
  /\ Idle /\ iter = NotIterating
  /\ \/ room' = capacity /\ UNCHANGED status
     \/ room < capacity /\ status' = "undefined" /\ UNCHANGED room
  /\ UNCHANGED <<types, data, lut, count, tombstones, capacity, old, phase>>
  /\ UNCHANGED <<todo, iter, result>>

Iterate ==
  /\ Idle /\ iter = NotIterating
  /\ iter' = [yielded |-> 0, at |-> 1]
  /\ UNCHANGED <<types, table, todo, result, status>>

NextSlot(i) == i = iter.at

NextLive(i) ==
  /\ i >= iter.at
  /\ LiveAt(i)
  /\ \A j \in iter.at .. i - 1 : ~LiveAt(j)

(* np_dict_items_next; the iterators of keys and of values move alike.     *)
ItemsNext ==
  /\ Idle /\ iter # NotIterating
  /\ iter.yielded # count
  /\ \E i \in DOMAIN data :
       /\ NextLive(i)
       /\ iter' = [yielded |-> iter.yielded + 1, at |-> i + 1]
       /\ result' = data[i]
  /\ UNCHANGED <<types, table, todo, status>>

Exhausted ==
  /\ Idle /\ iter # NotIterating
  /\ iter.yielded = count
  /\ iter' = NotIterating
  /\ result' = None
  /\ UNCHANGED <<types, table, todo, status>>

-----------------------------------------------------------------------------

(* np_dict_init *)
Init ==
  /\ hash \in Hashes /\ itemSize \in ItemSizes
  /\ data = <<>>
  /\ lut = EmptyLut(MinCapacity)
  /\ count = 0
  /\ tombstones = 0
  /\ capacity = MinCapacity
  /\ room = MinCapacity
  /\ old = <<>>
  /\ phase = "ready"
  /\ todo = <<>>
  /\ iter = NotIterating
  /\ result = None
  /\ status = "running"

OnKey(k) ==
  \/ GetItem(k) \/ GetAbsent(k)
  \/ Pop(k) \/ PopAbsent(k)
  \/ Del(k) \/ DelAbsent(k)

Next ==
  \/ \E k \in Keys : OnKey(k)
  \/ \E new \in Assignments : CallSetItem(new)
  \/ \E items \in Others : Update(items)
  \/ UpdateSelf
  \/ SetItem \/ EnterOutside
  \/ BeginGrow \/ MoveItem \/ MoveOutside
  \/ Clear \/ Copy
  \/ Iterate \/ ItemsNext \/ Exhausted

Spec == Init /\ [][Next]_vars

-----------------------------------------------------------------------------
(* Properties                                                              *)

(* The shape of every variable, and the bounds that tie them: the slots    *)
(* lead into the array, which never outgrows what was allocated for it.    *)
TypeOK ==
  /\ hash \in Hashes /\ itemSize \in ItemSizes
  /\ data \in Seq(Item \cup {Tombstone})
  /\ old \in Seq(Item \cup {Tombstone})
  /\ lut \in [Slots -> 0 .. Len(data)]
  /\ count \in Nat /\ tombstones \in Nat
  /\ capacity \in Nat /\ capacity >= MinCapacity /\ room \in 0 .. capacity
  /\ phase \in {"ready", "growing", "shrinking"}
  /\ phase = "ready" <=> old = <<>>
  /\ Len(data) <= room
  /\ todo \in Seq(Item)
  /\ iter \in [yielded : Nat, at : Nat]
  /\ result \in Item \cup {None, KeyError}
  /\ status \in {"running", "undefined"}

(* np_dict_find_lut_location leads every key that was set and not removed  *)
(* to its item, through every way of entering, removing, growing and       *)
(* shrinking: no probe is cut short by a slot emptied on its way.          *)
KeysFound ==
  \A i \in DOMAIN data :
    LiveAt(i) => \E p \in Slots : lut[p] = i /\ FoundAt(data[i].key, p)

(* The counters that decide when to grow and where the next item goes are  *)
(* the items and the tombstones in the array.                              *)
CountsExact ==
  /\ count = NumLive(data) + NumLive(old)
  /\ phase = "ready" => count + tombstones = Len(data)

(* An item never goes outside an allocation of the full capacity: the dict *)
(* grows in time, tombstones counted, though DICT_FULL compares with =.    *)
GrowsInTime == [][EnterOutside => room < capacity]_vars

(* An iterator has exactly the entries before it that it has not yielded,  *)
(* so its search for the next one ends inside the array.                   *)
IteratorFindsRest ==
  iter # NotIterating /\ phase = "ready" =>
    count - iter.yielded = Cardinality({i \in DOMAIN data : LiveAt(i) /\ i >= iter.at})

Map == INSTANCE OrderedMap WITH
  entries <- Live(data \o old),
  cursor <- IF iter = NotIterating THEN 0 ELSE iter.yielded + 1

(* The dict is an ordered map.                                             *)
RefinesMap == Map!Spec
=============================================================================
