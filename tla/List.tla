-------------------------------- MODULE List --------------------------------
(***************************************************************************)
(* The list of the runtime (NpList in not_python.c): items in one          *)
(* allocation, which is resized as they come and go.                       *)
(*                                                                         *)
(* Cells count from 1; positions, as the program gives them, from 0.  The  *)
(* cells behind the last item hold Garbage: whatever was there before.     *)
(* A cell that is written behind the allocation makes data longer than     *)
(* capacity.                                                               *)
(*                                                                         *)
(* Some operations are known to leave memory or to call a function that is *)
(* not there.  They end the behaviour (status "undefined"): nothing after  *)
(* them is defined.  extend ends it after it has written; where its        *)
(* writing goes depends on whether the allocation was moved, and data is   *)
(* what the list's pointer leads to if it was not.                         *)
(*                                                                         *)
(* OnlyAbove, NoSpareCell, NeverSparse, TwoBehind and StopsBehind are      *)
(* deviations: plausible mistakes that the specification does not make.    *)
(***************************************************************************)
EXTENDS Integers, Sequences, FiniteSets

CONSTANTS
  Elems,
  Garbage,
  Indices,      \* the positions the program uses
  Others,       \* the lists that are joined to this one
  Factors,      \* the numbers this list is multiplied by
  MinCapacity,  \* LIST_MIN_CAPACITY
  MaxCapacity,  \* bound: lists do not grow beyond it
  None,
  IndexError,
  ValueError

ASSUME ListAssumption ==
  /\ Elems \subseteq Int
  /\ Garbage \notin Elems
  /\ Indices \subseteq Int
  /\ Others \subseteq Seq(Elems)
  /\ Factors \subseteq Int
  /\ MinCapacity \in Nat /\ MinCapacity >= 4
  /\ MaxCapacity \in Nat

GrowFactor == 2
ShrinkDivisor == 2    \* LIST_SHRINK_FACTOR
ShrinkPercent == 35   \* LIST_SHRINK_THRESHOLD

VARIABLES
  data,         \* the allocation
  count,
  capacity,
  functions,    \* cmp_fn, sort_fn and rev_sort_fn are there
  yielded,      \* what the iterator has yielded, or NotIterating
  result,       \* what the last operation answered
  status        \* "running", "undefined"

list == <<data, count, capacity, functions>>
vars == <<list, yielded, result, status>>

NotIterating == -1

Running == status = "running"

(* Rebinding the name of the list while a loop has the old one is not      *)
(* modelled.                                                               *)
Alone == Running /\ yielded = NotIterating

-----------------------------------------------------------------------------
(* Memory                                                                  *)

Cell(d, c) == IF c \in DOMAIN d THEN d[c] ELSE Garbage

Resized(d, n) == [c \in 1 .. n |-> Cell(d, c)]

Written(d, c, x) ==
  [b \in 1 .. (IF c <= Len(d) THEN Len(d) ELSE c) |-> IF b = c THEN x ELSE Cell(d, b)]

(* memmove of n items, from position from to position to                   *)
Moved(d, to, from, n) ==
  [b \in 1 .. (IF to + n <= Len(d) THEN Len(d) ELSE to + n) |->
     IF b \in to + 1 .. to + n THEN Cell(d, b - to + from) ELSE Cell(d, b)]

(* What is behind the first n items is not read again.                     *)
Forgotten(d, n) == [c \in DOMAIN d |-> IF c <= n THEN d[c] ELSE Garbage]

Wrap(i) == IF i < 0 THEN count + i ELSE i

OnlyAbove(i) == Wrap(i) < count

InBounds(i) == Wrap(i) \in 0 .. count - 1

Undefined ==
  /\ status' = "undefined"
  /\ UNCHANGED <<list, yielded, result>>

Raise(e) ==
  /\ result' = e
  /\ UNCHANGED <<list, yielded, status>>

Answer(r) ==
  /\ result' = r
  /\ UNCHANGED <<list, yielded, status>>

MayGrow == GrowFactor * capacity <= MaxCapacity

-----------------------------------------------------------------------------
(* Adding and removing one item                                            *)

FullWith(n) == n = capacity

AppendItem(x) ==
  /\ Running
  /\ count' = count + 1
  /\ LET written == Written(data, count + 1, x)
     IN  IF FullWith(count')
         THEN /\ MayGrow
              /\ capacity' = GrowFactor * capacity
              /\ data' = Resized(written, capacity')
         ELSE data' = written /\ UNCHANGED capacity
  /\ result' = None
  /\ UNCHANGED <<functions, yielded, status>>

NoSpareCell == count = capacity

(* insert grows the list when one more item would leave no cell to spare:  *)
(* it moves one item more than there is.                                   *)
GrowsToInsert == count = capacity - 1

Insertable ==
  IF GrowsToInsert THEN Resized(data, GrowFactor * capacity) ELSE data

Insert(i, x) ==
  /\ Running
  /\ GrowsToInsert => MayGrow
  /\ capacity' = IF GrowsToInsert THEN GrowFactor * capacity ELSE capacity
  /\ \/ /\ InBounds(i)
        /\ count' = count + 1
        /\ LET at == Wrap(i)
           IN  data' = Written(Moved(Insertable, at + 1, at, count' - at), at + 1, x)
        /\ result' = None
     \/ /\ ~InBounds(i)
        /\ data' = Insertable
        /\ result' = IndexError
        /\ UNCHANGED count
  /\ UNCHANGED <<functions, yielded, status>>

NeverSparse(n) == n = 0

Sparse(n) ==
  /\ capacity # MinCapacity
  /\ 100 * n <= ShrinkPercent * capacity

Smaller ==
  LET part == capacity \div ShrinkDivisor
  IN  IF part < MinCapacity THEN MinCapacity ELSE part

TwoBehind(i) == Moved(data, i, i + 2, count - i + 1)

Closed(i) == Moved(data, i, i + 1, count - i + 1)

(* np_list_del: all of it, whoever calls it                                *)
Delete(i) ==
  /\ count' = count - 1
  /\ LET left == Forgotten(Closed(i), count')
     IN  IF Sparse(count')
         THEN capacity' = Smaller /\ data' = Resized(left, Smaller)
         ELSE data' = left /\ UNCHANGED capacity
  /\ UNCHANGED functions

Pop(i) ==
  /\ Running /\ InBounds(i)
  /\ result' = Cell(data, Wrap(i) + 1)
  /\ Delete(Wrap(i))
  /\ UNCHANGED <<yielded, status>>

GetItem(i) == Running /\ InBounds(i) /\ Answer(Cell(data, Wrap(i) + 1))

SetItem(i, x) ==
  /\ Running /\ InBounds(i)
  /\ data' = Written(data, Wrap(i) + 1, x)
  /\ result' = None
  /\ UNCHANGED <<count, capacity, functions, yielded, status>>

(* get, set and pop alike *)
OutOfBounds(i) == Running /\ ~InBounds(i) /\ Raise(IndexError)

-----------------------------------------------------------------------------
(* Searching                                                               *)

Equal(x) == {i \in 0 .. count - 1 : data[i + 1] = x}

(* A list without cmp_fn can be searched only when it is empty.            *)
Searchable == functions \/ count = 0

(* The search goes on to the end: of equal items it answers the last.      *)
Location(x, i) ==
  /\ i \in Equal(x)
  /\ \A j \in Equal(x) : j <= i

Index(x) ==
  /\ Running /\ Searchable
  /\ \E i \in Equal(x) : Location(x, i) /\ Answer(i)

Remove(x) ==
  /\ Running /\ Searchable
  /\ \E i \in Equal(x) : Location(x, i) /\ Delete(i)
  /\ result' = None
  /\ UNCHANGED <<yielded, status>>

NotThere(x) == Running /\ Searchable /\ Equal(x) = {} /\ Raise(ValueError)

Count(x) == Running /\ Searchable /\ Answer(Cardinality(Equal(x)))

Unsearchable == Running /\ ~Searchable /\ Undefined

-----------------------------------------------------------------------------
(* The list as a whole                                                     *)

Clear ==
  /\ Running
  /\ count' = 0
  /\ capacity' = MinCapacity
  /\ data' = Forgotten(Resized(data, MinCapacity), 0)
  /\ result' = None
  /\ UNCHANGED <<functions, yielded, status>>

ReverseItems ==
  /\ Running
  /\ data' = [c \in DOMAIN data |-> IF c <= count THEN data[count + 1 - c] ELSE data[c]]
  /\ result' = None
  /\ UNCHANGED <<count, capacity, functions, yielded, status>>

InOrder(d, reverse) ==
  \A b, c \in 1 .. count : b < c => IF reverse THEN d[b] >= d[c] ELSE d[b] <= d[c]

(* qsort: the same items, in order                                         *)
Sort(reverse) ==
  /\ Running /\ functions
  /\ \E s \in [1 .. count -> Elems] :
       /\ \A x \in Elems :
            Cardinality({c \in 1 .. count : s[c] = x}) = Cardinality(Equal(x))
       /\ data' = [c \in DOMAIN data |-> IF c <= count THEN s[c] ELSE data[c]]
  /\ InOrder(data', reverse)
  /\ result' = None
  /\ UNCHANGED <<count, capacity, functions, yielded, status>>

SortUnordered == Running /\ ~functions /\ Raise(ValueError)

(* The program goes on with the copy, which gets no functions.             *)
Copy ==
  /\ Alone
  /\ functions' = FALSE
  /\ result' = None
  /\ UNCHANGED <<data, count, capacity, yielded, status>>

Fits(other) == capacity >= count + Len(other) + 1

(* memcpy of the items of other, to behind the last.                       *)
Copied(other) ==
  LET n == count + Len(other)
  IN  [c \in 1 .. (IF n <= Len(data) THEN Len(data) ELSE n) |->
         IF c \in count + 1 .. n THEN other[c - count] ELSE Cell(data, c)]

CopyItems(other) ==
  /\ data' = Copied(other)
  /\ count' = count + Len(other)
  /\ result' = None
  /\ UNCHANGED <<capacity, yielded>>

Joined(other) == Fits(other) /\ CopyItems(other) /\ UNCHANGED status

(* extend resizes the allocation but keeps the old pointer and capacity:   *)
(* it writes behind the allocation it had, or into one that is gone.       *)
JoinedOutside(other) ==
  ~Fits(other) /\ CopyItems(other) /\ status' = "undefined"

Extend(other) == Running /\ Joined(other) /\ UNCHANGED functions
ExtendOutside(other) == Running /\ JoinedOutside(other) /\ UNCHANGED functions

(* The program goes on with the sum, which is a copy that is extended.     *)
Add(other) == Alone /\ Joined(other) /\ functions' = FALSE
AddOutside(other) == Alone /\ JoinedOutside(other) /\ functions' = FALSE

RoomFor(n) == IF n * capacity < MinCapacity THEN MinCapacity ELSE n * capacity

(* The program goes on with the product.                                   *)
Mult(n) ==
  /\ Alone
  /\ n >= 0 \/ count = 0
  /\ RoomFor(n) <= MaxCapacity
  /\ count' = n * count
  /\ capacity' = RoomFor(n)
  /\ data' = [c \in 1 .. RoomFor(n) |->
                IF c <= n * count THEN data[((c - 1) % count) + 1] ELSE Garbage]
  /\ result' = None
  /\ UNCHANGED <<functions, yielded, status>>

(* A negative factor makes the count negative.                             *)
MultNegative(n) == Alone /\ n < 0 /\ count > 0 /\ Undefined

-----------------------------------------------------------------------------
(* Iterating                                                               *)

Iterate ==
  /\ Alone
  /\ yielded' = 0
  /\ UNCHANGED <<list, result, status>>

StopsBehind == yielded > count

Stops == yielded = count

(* np_list_next *)
NextItem ==
  /\ Running /\ yielded # NotIterating
  /\ ~Stops
  /\ yielded <= count
  /\ result' = Cell(data, yielded + 1)
  /\ yielded' = yielded + 1
  /\ UNCHANGED <<list, status>>

Exhausted ==
  /\ Running /\ yielded # NotIterating
  /\ Stops
  /\ yielded' = NotIterating
  /\ result' = None
  /\ UNCHANGED <<list, status>>

(* The iterator stops on equality with the count.  A loop that removed     *)
(* items it had passed runs on behind the last.                            *)
NextOutside == Running /\ yielded > count /\ Undefined

-----------------------------------------------------------------------------

(* np_list_init, for a type of items with functions                        *)
Init ==
  /\ data = [c \in 1 .. MinCapacity |-> Garbage]
  /\ count = 0
  /\ capacity = MinCapacity
  /\ functions = TRUE
  /\ yielded = NotIterating
  /\ result = None
  /\ status = "running"

Next ==
  \/ \E x \in Elems : AppendItem(x)
  \/ \E i \in Indices, x \in Elems : Insert(i, x) \/ SetItem(i, x)
  \/ \E i \in Indices : Pop(i) \/ GetItem(i) \/ OutOfBounds(i)
  \/ \E x \in Elems : Index(x) \/ Remove(x) \/ NotThere(x) \/ Count(x)
  \/ Unsearchable
  \/ Clear \/ ReverseItems
  \/ \E reverse \in BOOLEAN : Sort(reverse)
  \/ SortUnordered
  \/ Copy
  \/ \E other \in Others : Extend(other) \/ ExtendOutside(other) \/ Add(other) \/ AddOutside(other)
  \/ \E n \in Factors : Mult(n) \/ MultNegative(n)
  \/ Iterate \/ NextItem \/ Exhausted \/ NextOutside

Spec == Init /\ [][Next]_vars

-----------------------------------------------------------------------------
(* Properties                                                              *)

(* The shape of every variable.                                            *)
TypeOK ==
  /\ data \in Seq(Elems \cup {Garbage})
  /\ count \in Nat /\ capacity \in Nat
  /\ functions \in BOOLEAN
  /\ yielded \in Nat \cup {NotIterating}
  /\ result \in Elems \cup Nat \cup {Garbage, None, IndexError, ValueError}
  /\ status \in {"running", "undefined"}

Wasteful == capacity > MinCapacity * (IF count = 0 THEN 1 ELSE count)

(* An extend or a sum that lacks capacity writes behind the allocation and *)
(* ends the behaviour (ExtendOutside, AddOutside).  No other operation     *)
(* does: each keeps the margin between count and capacity that the next    *)
(* one relies on, though append checks it after writing, insert before     *)
(* moving one item too many, del moves one too many, and extend that fits  *)
(* and mult keep it in ways of their own.                                  *)
WritesInside == Running => Len(data) = capacity /\ count < capacity

(* The items are what the program put there, never what was left behind in *)
(* the allocation.                                                         *)
NoGarbage == \A c \in 1 .. count : Cell(data, c) \in Elems

(* A list does not keep the memory of what it once held: through every     *)
(* way of growing and shrinking it holds no more than LIST_MIN_CAPACITY    *)
(* cells for every item.  Only the product of an empty list, whose         *)
(* capacity np_list_mult multiplies too, comes to hold more.               *)
Thrifty == [][Wasteful' => Wasteful \/ (count = 0 /\ \E n \in Factors : Mult(n))]_vars

Python == INSTANCE PythonList WITH
  items <- SubSeq(data, 1, count),
  cursor <- yielded + 1

(* The list is Python's, where the program stays clear of what ends the    *)
(* behaviour.                                                              *)
RefinesList == Python!Spec
=============================================================================
