----------------------------- MODULE ListProofs -----------------------------
(***************************************************************************)
(* Proofs about module List, for every set of items and minimal capacity:  *)
(* no operation but an extend that lacks capacity leaves the allocation,   *)
(* no item is garbage, and the list is a Python list.                      *)
(***************************************************************************)
EXTENDS List, FiniteSetTheorems, SequenceTheorems, TLAPS

Contents == Elems \cup {Garbage}

Results == Elems \cup Nat \cup {Garbage, None, IndexError, ValueError}

(* The allocation has room for one item more than the list has: append and *)
(* insert rely on that before they look at the capacity.                   *)
MemoryInv ==
  /\ capacity \in Nat /\ capacity >= MinCapacity
  /\ count \in Nat /\ count < capacity
  /\ data \in [1 .. capacity -> Contents]
  /\ \A c \in 1 .. count : data[c] \in Elems

(* An extend that lacked capacity still has its items where they were      *)
(* written, and knows the capacity it had.                                 *)
EndedInv ==
  /\ capacity \in Nat /\ count \in Nat
  /\ data \in Seq(Contents)
  /\ \A c \in 1 .. count : Cell(data, c) \in Elems

RestInv ==
  /\ functions \in BOOLEAN
  /\ yielded \in Nat \cup {NotIterating}
  /\ result \in Results
  /\ status \in {"running", "undefined"}

RunningInv == MemoryInv /\ RestInv

IInv == RestInv /\ IF Running THEN MemoryInv ELSE EndedInv

-----------------------------------------------------------------------------
(* Memory                                                                  *)

(* An allocation of n cells is a sequence of length n.                     *)
LEMMA LengthOfMemory ==
  ASSUME NEW n \in Nat, NEW d \in [1 .. n -> Contents]
  PROVE  d \in Seq(Contents) /\ Len(d) = n /\ DOMAIN d = 1 .. n
OBVIOUS

(* Every cell holds an item or garbage, behind the allocation too.         *)
LEMMA CellContents ==
  ASSUME NEW n \in Nat, NEW d \in [1 .. n -> Contents], NEW c \in Int
  PROVE  /\ Cell(d, c) \in Contents
         /\ c \in 1 .. n => Cell(d, c) = d[c]
BY DEF Cell, Contents

(* Resizing keeps what fits.                                               *)
LEMMA ResizedMemory ==
  ASSUME NEW n \in Nat, NEW d \in [1 .. n -> Contents], NEW m \in Nat
  PROVE  /\ Resized(d, m) \in [1 .. m -> Contents]
         /\ \A c \in 1 .. m : c <= n => Resized(d, m)[c] = d[c]
BY CellContents DEF Resized

(* Writing inside the allocation changes one cell.                         *)
LEMMA WrittenMemory ==
  ASSUME NEW n \in Nat, NEW d \in [1 .. n -> Contents],
         NEW c \in 1 .. n, NEW x \in Elems
  PROVE  /\ Written(d, c, x) \in [1 .. n -> Contents]
         /\ \A b \in 1 .. n : Written(d, c, x)[b] = IF b = c THEN x ELSE d[b]
<1>1. Len(d) = n
  BY LengthOfMemory
<1>2. Written(d, c, x) = [b \in 1 .. n |-> IF b = c THEN x ELSE Cell(d, b)]
  BY <1>1 DEF Written
<1>3. QED
  BY <1>2, CellContents DEF Contents

(* Moving within the allocation changes the cells moved to.                *)
LEMMA MovedMemory ==
  ASSUME NEW n \in Nat, NEW d \in [1 .. n -> Contents],
         NEW to \in Nat, NEW from \in Nat, NEW k \in Nat, to + k <= n
  PROVE  /\ Moved(d, to, from, k) \in [1 .. n -> Contents]
         /\ \A b \in 1 .. n :
              Moved(d, to, from, k)[b] =
                IF b \in to + 1 .. to + k THEN Cell(d, b - to + from) ELSE d[b]
<1>1. Len(d) = n
  BY LengthOfMemory
<1>2. Moved(d, to, from, k) =
        [b \in 1 .. n |->
           IF b \in to + 1 .. to + k THEN Cell(d, b - to + from) ELSE Cell(d, b)]
  BY <1>1 DEF Moved
<1>3. QED
  BY <1>2, CellContents

(* Forgetting keeps the first cells.                                       *)
LEMMA ForgottenMemory ==
  ASSUME NEW n \in Nat, NEW d \in [1 .. n -> Contents], NEW m \in Nat
  PROVE  /\ Forgotten(d, m) \in [1 .. n -> Contents]
         /\ \A c \in 1 .. n : c <= m => Forgotten(d, m)[c] = d[c]
BY DEF Forgotten, Contents

-----------------------------------------------------------------------------
(* Initial state                                                           *)

LEMMA InitInv == Init => IInv
<1> SUFFICES ASSUME Init PROVE IInv
  OBVIOUS
<1> USE ListAssumption
<1>1. MemoryInv
  BY DEF Init, MemoryInv, Contents
<1>2. RestInv
  BY DEF Init, RestInv, Results
<1>3. QED
  BY <1>1, <1>2 DEF Init, Running, IInv

-----------------------------------------------------------------------------
(* One step for each operation that touches the memory                     *)

(* append: the cell it writes to is there before the list grows.           *)
LEMMA AppendKeeps ==
  ASSUME RunningInv, NEW x \in Elems, AppendItem(x)
  PROVE  /\ MemoryInv'
         /\ count' = count + 1
         /\ \A c \in 1 .. count' : data'[c] = IF c = count + 1 THEN x ELSE data[c]
<1> USE ListAssumption DEF RunningInv, MemoryInv
<1> DEFINE written == Written(data, count + 1, x)
<1>1. count' = count + 1 /\ count' \in Nat
  BY DEF AppendItem
<1>2. /\ written \in [1 .. capacity -> Contents]
      /\ \A b \in 1 .. capacity : written[b] = IF b = count + 1 THEN x ELSE data[b]
  BY WrittenMemory
<1>3. \A b \in 1 .. count' : b \in 1 .. capacity /\ written[b] \in Elems
  BY <1>1, <1>2
<1> HIDE DEF written
<1>4. CASE FullWith(count')
  <2>1. capacity' = 2 * capacity /\ data' = Resized(written, capacity')
    BY <1>4 DEF AppendItem, GrowFactor, written
  <2>2. /\ data' \in [1 .. capacity' -> Contents]
        /\ \A c \in 1 .. capacity' : c <= capacity => data'[c] = written[c]
    BY <1>2, <2>1, ResizedMemory
  <2>3. count' < capacity' /\ capacity' >= MinCapacity /\ capacity' \in Nat
    BY <1>1, <2>1
  <2>4. \A c \in 1 .. count' : c \in 1 .. capacity /\ data'[c] = written[c]
    BY <1>1, <1>3, <2>2, <2>3
  <2>5. QED
    BY <1>1, <1>2, <1>3, <2>2, <2>3, <2>4
<1>5. CASE ~FullWith(count')
  <2>1. capacity' = capacity /\ data' = written
    BY <1>5 DEF AppendItem, written
  <2>2. QED
    BY <1>1, <1>2, <1>3, <1>5, <2>1 DEF FullWith
<1>6. QED
  BY <1>4, <1>5

(* insert: it grows in time for the item it moves too many.                *)
LEMMA InsertKeeps ==
  ASSUME RunningInv, NEW i \in Indices, NEW x \in Elems, Insert(i, x)
  PROVE  /\ MemoryInv'
         /\ ~InBounds(i) => count' = count /\ \A c \in 1 .. count : data'[c] = data[c]
         /\ InBounds(i) =>
              /\ count' = count + 1
              /\ \A c \in 1 .. count' :
                   data'[c] = IF c <= Wrap(i) THEN data[c]
                              ELSE IF c = Wrap(i) + 1 THEN x ELSE data[c - 1]
<1> USE ListAssumption DEF RunningInv, MemoryInv
<1>1. /\ capacity' \in Nat /\ capacity' >= MinCapacity /\ count + 1 < capacity'
      /\ Insertable \in [1 .. capacity' -> Contents]
      /\ \A c \in 1 .. count : Insertable[c] = data[c] /\ Insertable[c] \in Elems
  <2>1. CASE GrowsToInsert
    <3>1. capacity' = 2 * capacity /\ Insertable = Resized(data, 2 * capacity)
      BY <2>1 DEF Insert, GrowFactor, Insertable
    <3>2. /\ Insertable \in [1 .. capacity' -> Contents]
          /\ \A c \in 1 .. capacity' : c <= capacity => Insertable[c] = data[c]
      BY <3>1, ResizedMemory
    <3>3. capacity' \in Nat /\ capacity' >= MinCapacity /\ count + 1 < capacity'
      BY <2>1, <3>1 DEF GrowsToInsert
    <3>4. QED
      BY <3>2, <3>3
  <2>2. CASE ~GrowsToInsert
    BY <2>2 DEF Insert, GrowsToInsert, Insertable
  <2>3. QED
    BY <2>1, <2>2
<1>2. CASE ~InBounds(i)
  <2>1. data' = Insertable /\ count' = count
    BY <1>2 DEF Insert
  <2>2. QED
    BY <1>1, <1>2, <2>1
<1>3. CASE InBounds(i)
  <2> DEFINE at == Wrap(i)
             moved == Moved(Insertable, at + 1, at, count + 1 - at)
  <2>1. /\ count' = count + 1
        /\ data' = Written(moved, at + 1, x)
        /\ at \in 0 .. count - 1
    BY <1>3 DEF Insert, InBounds
  <2>2. at \in Nat /\ at + 1 \in Nat /\ count + 1 - at \in Nat
        /\ at + 1 + (count + 1 - at) <= capacity' /\ at + 1 \in 1 .. capacity'
    BY <1>1, <2>1
  <2> HIDE DEF at
  <2> DEFINE to == at + 1
             k == count + 1 - at
  <2>a. to \in Nat /\ k \in Nat /\ to + k <= capacity'
    BY <2>2
  <2> HIDE DEF to, k
  <2>b. /\ Moved(Insertable, to, at, k) \in [1 .. capacity' -> Contents]
        /\ \A b \in 1 .. capacity' :
             Moved(Insertable, to, at, k)[b] =
               IF b \in to + 1 .. to + k THEN Cell(Insertable, b - to + at)
               ELSE Insertable[b]
    BY <1>1, <2>2, <2>a, MovedMemory
  <2>3. /\ moved \in [1 .. capacity' -> Contents]
        /\ \A b \in 1 .. capacity' :
             moved[b] = IF b \in (at + 1) + 1 .. (at + 1) + (count + 1 - at)
                        THEN Cell(Insertable, b - (at + 1) + at) ELSE Insertable[b]
    BY <2>b DEF to, k
  <2> HIDE DEF moved
  <2>4. /\ data' \in [1 .. capacity' -> Contents]
        /\ \A b \in 1 .. capacity' : data'[b] = IF b = at + 1 THEN x ELSE moved[b]
    BY <1>1, <2>1, <2>2, <2>3, WrittenMemory
  <2>5. ASSUME NEW c \in 1 .. count + 1
        PROVE  data'[c] = IF c <= at THEN data[c]
                          ELSE IF c = at + 1 THEN x ELSE data[c - 1]
    <3>1. c \in 1 .. capacity'
      BY <1>1
    <3>2. CASE c = at + 1
      BY <2>2, <2>4, <3>1, <3>2
    <3>3. CASE c < at + 1
      <4>1. data'[c] = Insertable[c] /\ c \in 1 .. count
        BY <2>1, <2>2, <2>3, <2>4, <3>1, <3>3
      <4>2. QED
        BY <1>1, <2>2, <3>3, <4>1
    <3>4. CASE c > at + 1
      <4>1. c \in (at + 1) + 1 .. (at + 1) + (count + 1 - at)
        BY <2>2, <3>4
      <4>2. data'[c] = Cell(Insertable, c - (at + 1) + at)
        BY <2>2, <2>3, <2>4, <3>1, <3>4, <4>1
      <4>3. c - (at + 1) + at = c - 1 /\ c - 1 \in 1 .. count /\ c - 1 \in 1 .. capacity'
        BY <1>1, <2>2, <3>4
      <4>4. data'[c] = Insertable[c - 1]
        BY <1>1, <4>2, <4>3, CellContents
      <4>5. QED
        BY <1>1, <2>2, <3>4, <4>3, <4>4
    <3>5. QED
      BY <2>2, <3>2, <3>3, <3>4
  <2>6. \A c \in 1 .. count + 1 : data'[c] \in Elems
    <3> SUFFICES ASSUME NEW c \in 1 .. count + 1 PROVE data'[c] \in Elems
      OBVIOUS
    <3>1. (c <= at => c \in 1 .. count) /\ (c > at + 1 => c - 1 \in 1 .. count)
      BY <2>1, <2>2
    <3>2. QED
      BY <2>2, <2>5, <3>1
  <2>7. MemoryInv'
    BY <1>1, <2>1, <2>4, <2>6
  <2>8. QED
    BY <1>3, <2>1, <2>5, <2>7 DEF at
<1>4. QED
  BY <1>2, <1>3

(* del: it shrinks only to what the items that are left fit in.            *)
LEMMA DeleteKeeps ==
  ASSUME RunningInv, NEW i \in 0 .. count - 1, Delete(i)
  PROVE  /\ MemoryInv'
         /\ count' = count - 1
         /\ \A c \in 1 .. count' : data'[c] = IF c <= i THEN data[c] ELSE data[c + 1]
<1> USE ListAssumption DEF RunningInv, MemoryInv
<1>1. /\ Closed(i) \in [1 .. capacity -> Contents]
      /\ \A b \in 1 .. capacity :
           Closed(i)[b] = IF b \in i + 1 .. i + (count - i + 1)
                          THEN Cell(data, b - i + (i + 1)) ELSE data[b]
  <2> DEFINE k == count - i + 1
             from == i + 1
  <2>1. i \in Nat /\ k \in Nat /\ from \in Nat /\ i + k <= capacity
    OBVIOUS
  <2> HIDE DEF k, from
  <2>2. /\ Moved(data, i, from, k) \in [1 .. capacity -> Contents]
        /\ \A b \in 1 .. capacity :
             Moved(data, i, from, k)[b] =
               IF b \in i + 1 .. i + k THEN Cell(data, b - i + from) ELSE data[b]
    <3>1. capacity \in Nat /\ data \in [1 .. capacity -> Contents]
      OBVIOUS
    <3>2. QED
      BY ONLY <2>1, <3>1, MovedMemory
  <2>3. QED
    BY <2>2 DEF Closed, k, from
<1> DEFINE left == Forgotten(Closed(i), count')
<1>2. count' = count - 1 /\ count' \in Nat
  BY DEF Delete
<1>3. /\ left \in [1 .. capacity -> Contents]
      /\ \A c \in 1 .. capacity : c <= count' => left[c] = Closed(i)[c]
  BY <1>1, <1>2, ForgottenMemory
<1>4. ASSUME NEW c \in 1 .. count'
      PROVE  /\ left[c] = IF c <= i THEN data[c] ELSE data[c + 1]
             /\ left[c] \in Elems
  <2>1. c \in 1 .. capacity /\ left[c] = Closed(i)[c] /\ c \in 1 .. count
    BY <1>2, <1>3
  <2>2. CASE c < i + 1
    BY <1>1, <2>1, <2>2
  <2>3. CASE c >= i + 1
    <3>1. c \in i + 1 .. i + (count - i + 1) /\ c - i + (i + 1) = c + 1
      BY <2>1, <2>3
    <3>2. left[c] = Cell(data, c + 1) /\ c + 1 \in 1 .. count /\ c + 1 \in 1 .. capacity
      BY <1>1, <1>2, <2>1, <3>1
    <3>3. left[c] = data[c + 1] /\ data[c + 1] \in Elems
      BY <3>2, CellContents
    <3>4. QED
      BY <2>1, <2>3, <3>3
  <2>4. QED
    BY <2>2, <2>3
<1> HIDE DEF left
<1>5. CASE Sparse(count')
  <2>1. capacity' = Smaller /\ data' = Resized(left, capacity')
    BY <1>5 DEF Delete, left
  <2>2. 100 * count' <= 35 * capacity
    BY <1>5 DEF Sparse, ShrinkPercent
  <2>3. capacity' \in Nat /\ capacity' >= MinCapacity /\ count' < capacity'
    <3>1. capacity \div 2 \in Nat /\ capacity <= 2 * (capacity \div 2) + 1
      OBVIOUS
    <3>2. capacity' = IF capacity \div 2 < MinCapacity THEN MinCapacity ELSE capacity \div 2
      BY <2>1 DEF Smaller, ShrinkDivisor
    <3>3. QED
      BY <1>2, <2>2, <3>1, <3>2
  <2>4. /\ data' \in [1 .. capacity' -> Contents]
        /\ \A c \in 1 .. capacity' : c <= capacity => data'[c] = left[c]
    BY <1>3, <2>1, <2>3, ResizedMemory
  <2>5. \A c \in 1 .. count' : data'[c] = left[c]
    BY <1>2, <2>3, <2>4
  <2>6. QED
    BY <1>2, <1>4, <2>3, <2>4, <2>5
<1>6. CASE ~Sparse(count')
  <2>1. capacity' = capacity /\ data' = left
    BY <1>6 DEF Delete, left
  <2>2. QED
    BY <1>2, <1>3, <1>4, <2>1
<1>7. QED
  BY <1>5, <1>6

(* set_item, clear and reverse                                             *)
LEMMA SetKeeps ==
  ASSUME RunningInv, NEW i \in Indices, NEW x \in Elems, SetItem(i, x)
  PROVE  /\ MemoryInv'
         /\ \A c \in 1 .. count : data'[c] = IF c = Wrap(i) + 1 THEN x ELSE data[c]
<1> USE ListAssumption DEF RunningInv, MemoryInv
<1>1. Wrap(i) + 1 \in 1 .. capacity /\ data' = Written(data, Wrap(i) + 1, x)
  BY DEF SetItem, InBounds
<1> DEFINE c == Wrap(i) + 1
<1>2. c \in 1 .. capacity /\ data' = Written(data, c, x)
  BY <1>1
<1> HIDE DEF c
<1>3. /\ data' \in [1 .. capacity -> Contents]
      /\ \A b \in 1 .. capacity : data'[b] = IF b = c THEN x ELSE data[b]
  BY <1>2, WrittenMemory
<1>4. count' = count /\ capacity' = capacity
  BY DEF SetItem
<1>5. QED
  BY <1>3, <1>4 DEF c

LEMMA ClearKeeps ==
  ASSUME RunningInv, Clear
  PROVE  MemoryInv'
<1> USE ListAssumption DEF RunningInv, MemoryInv
<1>1. Resized(data, MinCapacity) \in [1 .. MinCapacity -> Contents]
  BY ResizedMemory
<1>2. Forgotten(Resized(data, MinCapacity), 0) \in [1 .. MinCapacity -> Contents]
  BY <1>1, ForgottenMemory
<1>3. QED
  BY <1>2 DEF Clear

LEMMA ReverseKeeps ==
  ASSUME RunningInv, ReverseItems
  PROVE  MemoryInv'
<1> USE ListAssumption DEF RunningInv, MemoryInv
<1>1. DOMAIN data = 1 .. capacity
  BY LengthOfMemory
<1>2. data' = [c \in 1 .. capacity |-> IF c <= count THEN data[count + 1 - c] ELSE data[c]]
  BY <1>1 DEF ReverseItems
<1>3. \A c \in 1 .. count :
        count + 1 - c \in 1 .. count /\ data[count + 1 - c] \in Elems
  OBVIOUS
<1>4. count' = count /\ capacity' = capacity
  BY DEF ReverseItems
<1>5. data' \in [1 .. capacity -> Contents]
  BY <1>2, <1>3 DEF Contents
<1>6. \A c \in 1 .. count : data'[c] \in Elems
  BY <1>2, <1>3
<1>7. QED
  BY <1>4, <1>5, <1>6

LEMMA SortKeeps ==
  ASSUME RunningInv, NEW reverse \in BOOLEAN, Sort(reverse)
  PROVE  MemoryInv'
<1> USE ListAssumption DEF RunningInv, MemoryInv
<1>1. DOMAIN data = 1 .. capacity
  BY LengthOfMemory
<1>2. PICK s \in [1 .. count -> Elems] :
        data' = [c \in 1 .. capacity |-> IF c <= count THEN s[c] ELSE data[c]]
  BY <1>1 DEF Sort
<1>3. count' = count /\ capacity' = capacity
  BY DEF Sort
<1>4. data' \in [1 .. capacity -> Contents]
  BY <1>2 DEF Contents
<1>5. \A c \in 1 .. count : data'[c] \in Elems
  BY <1>2
<1>6. QED
  BY <1>3, <1>4, <1>5

(* memcpy leaves what was there and puts the other items behind it.        *)
LEMMA CopiedMemory ==
  ASSUME RunningInv, NEW other \in Others
  PROVE  LET n == count + Len(other)
         IN  /\ n \in Nat
             /\ Copied(other) \in Seq(Contents)
             /\ n < capacity => Copied(other) \in [1 .. capacity -> Contents]
             /\ \A c \in 1 .. n :
                  /\ Copied(other)[c] = IF c <= count THEN data[c] ELSE other[c - count]
                  /\ Cell(Copied(other), c) = Copied(other)[c]
                  /\ Copied(other)[c] \in Elems
<1> USE ListAssumption DEF RunningInv, MemoryInv
<1> DEFINE n == count + Len(other)
           room == IF n <= capacity THEN capacity ELSE n
           d == Copied(other)
<1>1. /\ other \in Seq(Elems) /\ Len(other) \in Nat /\ n \in Nat /\ room \in Nat
      /\ Len(data) = capacity
      /\ \A c \in count + 1 .. n : other[c - count] \in Elems
  <2>1. other \in Seq(Elems) /\ Len(other) \in Nat
    OBVIOUS
  <2>2. \A c \in count + 1 .. n : c - count \in 1 .. Len(other)
    BY <2>1
  <2>3. QED
    BY <2>1, <2>2, LengthOfMemory
<1>2. d = [c \in 1 .. room |-> IF c \in count + 1 .. n THEN other[c - count] ELSE Cell(data, c)]
  BY <1>1 DEF Copied
<1>3. \A c \in 1 .. room : d[c] \in Contents
  BY <1>1, <1>2, CellContents DEF Contents
<1> HIDE DEF d
<1>4. d \in [1 .. room -> Contents] /\ d \in Seq(Contents) /\ DOMAIN d = 1 .. room
  <2>1. d = [c \in 1 .. room |-> d[c]]
    BY <1>2
  <2>2. d \in [1 .. room -> Contents] /\ room \in Nat
    BY <1>1, <1>3, <2>1
  <2> HIDE DEF room
  <2>3. QED
    BY ONLY <2>2
<1>5. ASSUME NEW c \in 1 .. n
      PROVE  /\ d[c] = IF c <= count THEN data[c] ELSE other[c - count]
             /\ Cell(d, c) = d[c]
             /\ d[c] \in Elems
  <2>1. c \in 1 .. room
    BY <1>1
  <2>2. CASE c <= count
    <3>1. c \in 1 .. count /\ c \in 1 .. capacity /\ d[c] = Cell(data, c)
      BY <1>1, <1>2, <2>1, <2>2
    <3>2. d[c] = data[c]
      BY <3>1, CellContents
    <3>3. QED
      BY <1>4, <2>1, <2>2, <3>1, <3>2 DEF Cell
  <2>3. CASE c > count
    <3>1. c \in count + 1 .. n
      BY <1>1, <2>3
    <3>2. QED
      BY <1>1, <1>2, <1>4, <2>1, <2>3, <3>1 DEF Cell
  <2>4. QED
    BY <1>1, <2>2, <2>3
<1>6. n < capacity => room = capacity
  BY <1>1
<1>7. QED
  BY <1>1, <1>4, <1>5, <1>6 DEF d

(* extend and add, when the other list fits                                *)
LEMMA JoinKeeps ==
  ASSUME RunningInv, NEW other \in Others, Joined(other)
  PROVE  MemoryInv'
<1> DEFINE n == count + Len(other)
<1>1. /\ capacity \in Nat /\ capacity >= MinCapacity
      /\ count' = n /\ data' = Copied(other) /\ capacity' = capacity
      /\ n \in Nat /\ Len(other) \in Nat /\ count \in Nat
      /\ capacity >= count + Len(other) + 1
  BY ListAssumption DEF Joined, CopyItems, Fits, RunningInv, MemoryInv
<1>2. n < capacity
  BY <1>1
<1>3. data' \in [1 .. capacity -> Contents] /\ \A c \in 1 .. n : data'[c] \in Elems
  BY <1>1, <1>2, CopiedMemory
<1>4. QED
  BY <1>1, <1>2, <1>3 DEF MemoryInv

(* and when it does not                                                    *)
LEMMA JoinEnds ==
  ASSUME RunningInv, NEW other \in Others, JoinedOutside(other)
  PROVE  EndedInv'
<1>1. /\ count' = count + Len(other) /\ data' = Copied(other) /\ capacity' = capacity
      /\ capacity \in Nat
  BY DEF JoinedOutside, CopyItems, RunningInv, MemoryInv
<1>2. QED
  BY <1>1, CopiedMemory DEF EndedInv

(* A product of two numbers keeps a strict order when multiplied.          *)
LEMMA Scaling ==
  ASSUME NEW m \in Nat, NEW k \in Nat, NEW n \in Nat, m < k
  PROVE  /\ n * m \in Nat /\ n * k \in Nat
         /\ n = 0 => n * m = 0
         /\ n # 0 => n * m < n * k
OBVIOUS

(* mult: the capacity grows with the count.                                *)
LEMMA MultKeeps ==
  ASSUME RunningInv, NEW n \in Factors, Mult(n)
  PROVE  MemoryInv'
<1> USE ListAssumption DEF RunningInv, MemoryInv
<1> DEFINE total == n * count
<1>1. /\ RoomFor(n) \in Nat /\ RoomFor(n) >= MinCapacity
      /\ total \in Nat /\ total < RoomFor(n)
  <2>1. n \in Int
    OBVIOUS
  <2>2. CASE n >= 0
    <3>1. n \in Nat
      BY <2>1, <2>2
    <3>2. total \in Nat /\ n * capacity \in Nat /\ (n = 0 => total = 0)
          /\ (n # 0 => total < n * capacity)
      BY <3>1, Scaling
    <3> DEFINE room == n * capacity
    <3>3. total \in Nat /\ room \in Nat /\ (total = 0 \/ total < room)
      BY <3>2
    <3>4. RoomFor(n) = IF room < MinCapacity THEN MinCapacity ELSE room
      BY DEF RoomFor
    <3> HIDE DEF total, room
    <3>5. QED
      BY <3>3, <3>4
  <2>3. CASE count = 0
    <3>1. total = 0 /\ n * capacity \in Int
      BY <2>1, <2>3
    <3> DEFINE room == n * capacity
    <3>2. RoomFor(n) = IF room < MinCapacity THEN MinCapacity ELSE room
      BY DEF RoomFor
    <3>3. room \in Int
      BY <3>1
    <3> HIDE DEF total, room
    <3>4. QED
      BY <3>1, <3>2, <3>3
  <2>4. QED
    BY <2>2, <2>3 DEF Mult
<1>2. /\ count' = total /\ capacity' = RoomFor(n)
      /\ data' = [c \in 1 .. RoomFor(n) |->
                    IF c <= total THEN data[((c - 1) % count) + 1] ELSE Garbage]
  BY DEF Mult
<1>3. ASSUME NEW c \in 1 .. total
      PROVE  data[((c - 1) % count) + 1] \in Elems
  <2>1. count # 0
    <3>1. count = 0 => total = 0
      OBVIOUS
    <3>2. QED
      BY <1>1, <3>1
  <2>2. c - 1 \in Nat
    BY <1>1
  <2> HIDE DEF total
  <2>3. (c - 1) % count \in 0 .. count - 1
    BY <2>1, <2>2
  <2>4. QED
    BY <2>3
<1> HIDE DEF total
<1>4. data' \in [1 .. capacity' -> Contents]
  <2>1. \A c \in 1 .. RoomFor(n) : c <= total => c \in 1 .. total
    BY <1>1
  <2>2. QED
    BY <1>1, <1>2, <1>3, <2>1 DEF Contents
<1>5. \A c \in 1 .. total : c \in 1 .. RoomFor(n) /\ data'[c] \in Elems
  BY <1>1, <1>2, <1>3
<1>6. QED
  BY <1>1, <1>2, <1>4, <1>5

-----------------------------------------------------------------------------
(* The inductive invariant                                                 *)

(* Answering, and everything else that leaves the list alone               *)
LEMMA UntouchedKeeps ==
  ASSUME RunningInv, UNCHANGED <<data, count, capacity>>
  PROVE  MemoryInv'
BY DEF RunningInv, MemoryInv

(* The places where a value is found are positions, and countable.         *)
LEMMA EqualType ==
  ASSUME RunningInv, NEW x \in Elems
  PROVE  /\ Equal(x) \subseteq 0 .. count - 1
         /\ Cardinality(Equal(x)) \in Nat
<1>1. Equal(x) \subseteq 0 .. count - 1
  BY DEF Equal
<1>2. IsFiniteSet(0 .. count - 1)
  BY FS_Interval DEF RunningInv, MemoryInv
<1>3. QED
  BY <1>1, <1>2, FS_Subset, FS_CardinalityType

(* Every step but one that is outside keeps the allocation whole, even if  *)
(* it ends the behaviour.                                                  *)
LEMMA StepKeeps ==
  ASSUME RunningInv, [Next]_vars, \A other \in Others : ~JoinedOutside(other)
  PROVE  RunningInv'
<1> USE ListAssumption
<1>0. /\ \A c \in Int : Cell(data, c) \in Contents
      /\ \A i \in Indices : InBounds(i) => Wrap(i) \in 0 .. count - 1 /\ Wrap(i) + 1 \in Int
      /\ data \in [1 .. capacity -> Contents]
  BY CellContents DEF RunningInv, MemoryInv, InBounds
<1>1. ASSUME NEW x \in Elems, AppendItem(x) PROVE RunningInv'
  BY <1>1, AppendKeeps DEF AppendItem, RunningInv, RestInv, Results
<1>2. ASSUME NEW i \in Indices, NEW x \in Elems, Insert(i, x) PROVE RunningInv'
  BY <1>2, InsertKeeps DEF Insert, RunningInv, RestInv, Results
<1>3. ASSUME NEW i \in Indices, NEW x \in Elems, SetItem(i, x) PROVE RunningInv'
  BY <1>3, SetKeeps DEF SetItem, RunningInv, RestInv, Results
<1>4. ASSUME NEW i \in Indices, Pop(i) PROVE RunningInv'
  <2>1. Wrap(i) \in 0 .. count - 1 /\ Delete(Wrap(i)) /\ result' \in Contents
    BY <1>0, <1>4 DEF Pop
  <2>2. MemoryInv'
    BY <2>1, DeleteKeeps
  <2>3. QED
    BY <1>4, <2>1, <2>2 DEF Pop, Delete, RunningInv, RestInv, Results, Contents
<1>5. ASSUME NEW i \in Indices, GetItem(i) PROVE RunningInv'
  <2>1. result' \in Contents /\ UNCHANGED <<list, yielded, status>>
    BY <1>0, <1>5 DEF GetItem, Answer
  <2>2. MemoryInv'
    BY <2>1, UntouchedKeeps DEF list
  <2>3. QED
    BY <2>1, <2>2 DEF list, RunningInv, RestInv, Results, Contents
<1>6. ASSUME NEW i \in Indices, OutOfBounds(i) PROVE RunningInv'
  BY <1>6, UntouchedKeeps DEF OutOfBounds, Raise, list, RunningInv, RestInv, Results
<1>7. ASSUME NEW x \in Elems, Index(x) PROVE RunningInv'
  <2>1. PICK i \in Equal(x) : Answer(i)
    BY <1>7 DEF Index
  <2>2. i \in Nat
    BY <2>1, EqualType DEF RunningInv, MemoryInv
  <2>3. MemoryInv'
    BY <2>1, UntouchedKeeps DEF Answer, list
  <2>4. QED
    BY <2>1, <2>2, <2>3 DEF Answer, list, RunningInv, RestInv, Results
<1>8. ASSUME NEW x \in Elems, Remove(x) PROVE RunningInv'
  <2>1. PICK i \in Equal(x) : Delete(i)
    BY <1>8 DEF Remove
  <2>2. i \in 0 .. count - 1
    BY <2>1, EqualType
  <2>3. MemoryInv'
    BY <2>1, <2>2, DeleteKeeps
  <2>4. QED
    BY <1>8, <2>1, <2>3 DEF Remove, Delete, RunningInv, RestInv, Results
<1>9. ASSUME NEW x \in Elems, NotThere(x) PROVE RunningInv'
  BY <1>9, UntouchedKeeps DEF NotThere, Raise, list, RunningInv, RestInv, Results
<1>10. ASSUME NEW x \in Elems, Count(x) PROVE RunningInv'
  BY <1>10, UntouchedKeeps, EqualType DEF Count, Answer, list, RunningInv, RestInv, Results
<1>11. CASE Unsearchable
  BY <1>11, UntouchedKeeps DEF Unsearchable, Undefined, list, RunningInv, RestInv
<1>12. CASE Clear
  BY <1>12, ClearKeeps DEF Clear, RunningInv, RestInv, Results
<1>13. CASE ReverseItems
  BY <1>13, ReverseKeeps DEF ReverseItems, RunningInv, RestInv, Results
<1>14. ASSUME NEW reverse \in BOOLEAN, Sort(reverse) PROVE RunningInv'
  BY <1>14, SortKeeps DEF Sort, RunningInv, RestInv, Results
<1>15. CASE SortUnordered
  BY <1>15, UntouchedKeeps DEF SortUnordered, Raise, list, RunningInv, RestInv, Results
<1>16. CASE Copy
  BY <1>16, UntouchedKeeps DEF Copy, RunningInv, RestInv, Results
<1>17. ASSUME NEW other \in Others, Extend(other) PROVE RunningInv'
  BY <1>17, JoinKeeps DEF Extend, Joined, CopyItems, RunningInv, RestInv, Results
<1>18. ASSUME NEW other \in Others, Add(other) PROVE RunningInv'
  BY <1>18, JoinKeeps DEF Add, Joined, CopyItems, RunningInv, RestInv, Results
<1>19. ASSUME NEW other \in Others, ExtendOutside(other) \/ AddOutside(other) PROVE RunningInv'
  BY <1>19 DEF ExtendOutside, AddOutside
<1>20. ASSUME NEW n \in Factors, Mult(n) PROVE RunningInv'
  BY <1>20, MultKeeps DEF Mult, RunningInv, RestInv, Results
<1>21. ASSUME NEW n \in Factors, MultNegative(n) PROVE RunningInv'
  BY <1>21, UntouchedKeeps DEF MultNegative, Undefined, list, RunningInv, RestInv
<1>22. CASE Iterate
  BY <1>22, UntouchedKeeps DEF Iterate, list, RunningInv, RestInv
<1>23. CASE NextItem
  <2>1. yielded \in Nat /\ yielded + 1 \in Nat
    BY <1>23 DEF NextItem, RunningInv, RestInv
  <2>2. result' \in Contents /\ yielded' \in Nat /\ UNCHANGED <<list, status>>
    BY <1>0, <1>23, <2>1 DEF NextItem
  <2>3. MemoryInv'
    BY <2>2, UntouchedKeeps DEF list
  <2>4. QED
    BY <2>2, <2>3 DEF list, RunningInv, RestInv, Results, Contents
<1>24. CASE Exhausted
  BY <1>24, UntouchedKeeps DEF Exhausted, list, RunningInv, RestInv, Results
<1>25. CASE NextOutside
  BY <1>25, UntouchedKeeps DEF NextOutside, Undefined, list, RunningInv, RestInv
<1>26. CASE UNCHANGED vars
  BY <1>26, UntouchedKeeps DEF vars, list, RunningInv, RestInv
<1>27. QED
  BY <1>1, <1>2, <1>3, <1>4, <1>5, <1>6, <1>7, <1>8, <1>9, <1>10, <1>11, <1>12, <1>13,
     <1>14, <1>15, <1>16, <1>17, <1>18, <1>19, <1>20, <1>21, <1>22, <1>23, <1>24, <1>25,
     <1>26 DEF Next

(* Nothing happens after an undefined operation.                           *)
LEMMA NextRuns == Next => Running
BY DEF Next, AppendItem, Insert, SetItem, Pop, GetItem, OutOfBounds, Index, Remove, NotThere,
       Count, Unsearchable, Clear, ReverseItems, Sort, SortUnordered, Copy, Extend, Add,
       ExtendOutside, AddOutside, Mult, MultNegative, Iterate, NextItem, Exhausted,
       NextOutside, Alone

(* An allocation that is whole is one that has its items.                  *)
LEMMA WholeMemory ==
  ASSUME NEW n \in Nat, NEW d \in [1 .. n -> Contents], NEW k \in Nat, k < n,
         \A c \in 1 .. k : d[c] \in Elems
  PROVE  /\ d \in Seq(Contents)
         /\ \A c \in 1 .. k : Cell(d, c) \in Elems
<1>1. \A c \in 1 .. k : c \in 1 .. n /\ Cell(d, c) = d[c]
  BY CellContents
<1>2. QED
  BY <1>1, LengthOfMemory

LEMMA NextInv == IInv /\ [Next]_vars => IInv'
<1> SUFFICES ASSUME IInv, [Next]_vars PROVE IInv'
  OBVIOUS
<1>1. CASE Running /\ \E other \in Others : JoinedOutside(other)
  <2>1. RunningInv /\ Next
    BY <1>1 DEF IInv, RunningInv, JoinedOutside, Running, vars
  <2>2. EndedInv'
    BY <1>1, <2>1, JoinEnds
  <2>3. PICK other \in Others : JoinedOutside(other)
    BY <1>1
  <2>4. status' = "undefined" /\ result' = None /\ yielded' = yielded
    BY <2>3 DEF JoinedOutside, CopyItems
  <2>5. functions' \in BOOLEAN
    BY <2>1, <2>4 DEF RunningInv, RestInv, Next, AppendItem, Insert, SetItem, Pop, GetItem, OutOfBounds,
       Index, Remove, NotThere, Count, Unsearchable, Clear, ReverseItems, Sort, SortUnordered,
       Copy, Extend, Add, ExtendOutside, AddOutside, Mult, MultNegative, Iterate, NextItem,
       Exhausted, NextOutside, Answer, Raise, Undefined, Delete, list
  <2>6. QED
    BY <2>1, <2>2, <2>4, <2>5 DEF IInv, Running, RunningInv, RestInv, Results
<1>2. CASE Running /\ \A other \in Others : ~JoinedOutside(other)
  <2>1. RunningInv'
    BY <1>2, StepKeeps DEF IInv, RunningInv
  <2>2. EndedInv'
    BY <2>1, WholeMemory DEF RunningInv, MemoryInv, EndedInv
  <2>3. QED
    BY <2>1, <2>2 DEF IInv, RunningInv
<1>3. CASE ~Running
  <2>1. UNCHANGED vars
    BY <1>3, NextRuns
  <2>2. QED
    BY <2>1 DEF vars, list, IInv, Running, RestInv, MemoryInv, EndedInv
<1>4. QED
  BY <1>1, <1>2, <1>3

THEOREM ListInvariant == Spec => []IInv
<1>1. Init => IInv
  BY InitInv
<1>2. IInv /\ [Next]_vars => IInv'
  BY NextInv
<1>3. QED
  BY <1>1, <1>2, PTL DEF Spec

(* However a behaviour ends, the items are there.                          *)
LEMMA AlwaysThere == IInv => EndedInv
<1>1. ASSUME MemoryInv PROVE EndedInv
  BY <1>1, WholeMemory DEF MemoryInv, EndedInv
<1>2. QED
  BY <1>1 DEF IInv

-----------------------------------------------------------------------------
(* The properties of the run                                               *)

(* Every variable of the list keeps its shape.                             *)
THEOREM ListTypes == Spec => []TypeOK
<1>1. IInv => TypeOK
  BY AlwaysThere DEF TypeOK, IInv, EndedInv, RestInv, Results, Contents
<1>2. QED
  BY <1>1, ListInvariant, PTL

(* append, insert, del, mult, and extend and add where the other list      *)
(* fits, write within the allocation and leave a cell to spare.  Where it  *)
(* does not fit they write behind it, and the behaviour ends.              *)
THEOREM ListWritesInside == Spec => []WritesInside
<1>1. IInv => WritesInside
  BY LengthOfMemory DEF IInv, MemoryInv, WritesInside
<1>2. QED
  BY <1>1, ListInvariant, PTL

(* No operation makes an item of what was left behind in the allocation.   *)
THEOREM ListNoGarbage == Spec => []NoGarbage
<1>1. IInv => NoGarbage
  BY AlwaysThere DEF EndedInv, NoGarbage
<1>2. QED
  BY <1>1, ListInvariant, PTL

-----------------------------------------------------------------------------
(* Memory is given back                                                    *)

Share(n) == MinCapacity * (IF n = 0 THEN 1 ELSE n)

(* A share is four cells an item at least; one more at most doubles it.    *)
LEMMA ShareBounds ==
  ASSUME NEW n \in Nat
  PROVE  /\ Share(n) \in Nat /\ Share(n) >= MinCapacity /\ Share(n) >= 4 * n
         /\ Share(n + 1) >= Share(n)
         /\ n > 0 => 2 * Share(n) >= Share(n + 1)
<1>1. MinCapacity \in Nat /\ MinCapacity >= 4
  BY ListAssumption
<1>2. CASE n = 0
  BY <1>1, <1>2 DEF Share
<1>3. CASE n > 0
  <2> DEFINE share == MinCapacity * n
  <2>1. Share(n) = share /\ Share(n + 1) = share + MinCapacity
    BY <1>1, <1>3 DEF Share
  <2>2. share \in Nat /\ share >= 4 * n /\ share >= MinCapacity
    BY <1>1, <1>3
  <2> HIDE DEF share
  <2>3. QED
    BY <1>1, <1>3, <2>1, <2>2
<1>4. QED
  BY <1>2, <1>3

(* More items are entitled to more.                                        *)
LEMMA ShareGrows ==
  ASSUME NEW n \in Nat, NEW m \in Nat, n <= m
  PROVE  Share(n) <= Share(m)
<1>1. MinCapacity \in Nat
  BY ListAssumption
<1>2. CASE n = 0
  <2>1. Share(n) = MinCapacity
    BY <1>1, <1>2 DEF Share
  <2>2. QED
    BY <1>1, <2>1, ShareBounds
<1>3. CASE n > 0
  <2>1. MinCapacity * n <= MinCapacity * m
    BY <1>1
  <2>2. QED
    BY <1>3, <2>1 DEF Share
<1>4. QED
  BY <1>2, <1>3

(* del gives memory back before it is too much.                            *)
LEMMA DeleteIsThrifty ==
  ASSUME RunningInv, NEW i \in 0 .. count - 1, Delete(i), capacity <= Share(count)
  PROVE  capacity' <= Share(count')
<1> DEFINE n == count - 1
<1>1. /\ n \in Nat /\ count = n + 1 /\ count' = n
      /\ capacity \in Nat /\ MinCapacity \in Nat /\ MinCapacity >= 4
      /\ MinCapacity <= capacity
  BY ListAssumption DEF RunningInv, MemoryInv, Delete
<1> HIDE DEF n
<1>2. /\ Share(n) \in Nat /\ Share(n) >= MinCapacity /\ Share(n) >= 4 * n
      /\ n > 0 => 2 * Share(n) >= capacity
      /\ n = 0 => capacity <= MinCapacity
  <2>1. CASE n = 0
    <3>1. Share(count) = MinCapacity
      BY <1>1, <2>1 DEF Share
    <3>2. QED
      BY <1>1, <2>1, <3>1, ShareBounds
  <2>2. CASE n > 0
    <3>1. /\ Share(n) \in Nat /\ Share(n) >= MinCapacity /\ Share(n) >= 4 * n
          /\ 2 * Share(n) >= Share(n + 1)
      BY <1>1, <2>2, ShareBounds
    <3>2. capacity <= Share(n + 1) /\ Share(n + 1) \in Nat
      BY <1>1, ShareBounds
    <3>3. QED
      BY <1>1, <2>2, <3>1, <3>2
  <2>3. QED
    BY <1>1, <2>1, <2>2
<1>3. CASE Sparse(n)
  <2>1. capacity' = IF capacity \div 2 < MinCapacity THEN MinCapacity ELSE capacity \div 2
    BY <1>1, <1>3 DEF Delete, Smaller, ShrinkDivisor
  <2>2. capacity \div 2 \in Nat /\ 2 * (capacity \div 2) <= capacity
    BY <1>1
  <2>3. capacity # MinCapacity
    BY <1>3 DEF Sparse
  <2>4. n > 0
    BY <1>1, <1>2, <2>3
  <2>5. QED
    BY <1>1, <1>2, <2>1, <2>2, <2>4
<1>4. CASE ~Sparse(n)
  <2>1. capacity' = capacity
    BY <1>1, <1>4 DEF Delete
  <2>2. capacity = MinCapacity \/ 100 * n > 35 * capacity
    BY <1>1, <1>4 DEF Sparse, ShrinkPercent
  <2>3. QED
    BY <1>1, <1>2, <2>1, <2>2
<1>5. QED
  BY <1>3, <1>4

LEMMA StepIsThrifty ==
  ASSUME RunningInv, EndedInv', Next, capacity <= Share(count),
         ~(count = 0 /\ \E n \in Factors : Mult(n))
  PROVE  capacity' <= Share(count')
<1> USE ListAssumption
<1>0. /\ count \in Nat /\ capacity \in Nat /\ MinCapacity \in Nat /\ MinCapacity >= 4
      /\ capacity >= MinCapacity /\ count < capacity
      /\ count' \in Nat /\ capacity' \in Nat
  BY DEF RunningInv, MemoryInv, EndedInv
<1>a. /\ Share(count) \in Nat /\ Share(count) >= 4 * count
      /\ Share(count + 1) \in Nat /\ Share(count + 1) >= 4 * (count + 1)
      /\ Share(count + 1) >= Share(count)
  BY <1>0, ShareBounds
<1>1. ASSUME UNCHANGED <<count, capacity>> PROVE capacity' <= Share(count')
  BY <1>1 DEF Share
<1>2. ASSUME NEW x \in Elems, AppendItem(x) PROVE capacity' <= Share(count')
  <2>1. count' = count + 1 /\ (capacity' = capacity \/ capacity' = 2 * count')
    BY <1>2 DEF AppendItem, FullWith, GrowFactor
  <2>2. QED
    BY <1>0, <1>a, <2>1
<1>3. ASSUME NEW i \in Indices, NEW x \in Elems, Insert(i, x)
      PROVE  capacity' <= Share(count')
  <2>1. /\ count' \in {count, count + 1}
        /\ capacity' = capacity \/ (capacity' = 2 * capacity /\ count = capacity - 1)
    BY <1>3 DEF Insert, GrowsToInsert, GrowFactor
  <2>2. Share(count') \in Nat /\ Share(count') >= Share(count)
    BY <1>a, <2>1
  <2>3. QED
    BY <1>0, <1>a, <2>1, <2>2
<1>4. ASSUME NEW i \in Indices, Pop(i) PROVE capacity' <= Share(count')
  <2>1. Wrap(i) \in 0 .. count - 1
    BY <1>4 DEF Pop, InBounds
  <2>2. QED
    BY <1>4, <2>1, DeleteIsThrifty DEF Pop
<1>5. ASSUME NEW x \in Elems, Remove(x) PROVE capacity' <= Share(count')
  <2>1. PICK i \in Equal(x) : Delete(i)
    BY <1>5 DEF Remove
  <2>2. i \in 0 .. count - 1
    BY <2>1, EqualType
  <2>3. QED
    BY <2>1, <2>2, DeleteIsThrifty
<1>6. CASE Clear
  BY <1>0, <1>6 DEF Clear, Share
<1>7. ASSUME NEW other \in Others, CopyItems(other) PROVE capacity' <= Share(count')
  <2>1. Len(other) \in Nat
    OBVIOUS
  <2>2. count' = count + Len(other) /\ capacity' = capacity /\ count <= count'
    BY <1>0, <1>7, <2>1 DEF CopyItems
  <2>3. Share(count) <= Share(count') /\ Share(count) \in Nat /\ Share(count') \in Nat
    BY <1>0, <2>2, ShareGrows, ShareBounds
  <2>4. QED
    BY <1>0, <2>2, <2>3
<1>8. ASSUME NEW n \in Factors, Mult(n) PROVE capacity' <= Share(count')
  <2>1. count > 0
    BY <1>0, <1>8
  <2>2. n \in Nat
    BY <1>8, <2>1 DEF Mult
  <2>3. /\ count' = n * count
        /\ capacity' = IF n * capacity < MinCapacity THEN MinCapacity ELSE n * capacity
    BY <1>8 DEF Mult, RoomFor
  <2>4. n * capacity <= n * (MinCapacity * count)
    <3>1. capacity <= MinCapacity * count
      BY <1>0, <2>1 DEF Share
    <3> DEFINE share == MinCapacity * count
    <3>2. share \in Nat /\ capacity <= share
      BY <1>0, <3>1
    <3> HIDE DEF share
    <3>3. n * capacity <= n * share
      BY <1>0, <2>2, <3>2
    <3>4. QED
      BY <3>3 DEF share
  <2>5. n * (MinCapacity * count) = MinCapacity * count'
    BY <1>0, <2>2, <2>3
  <2>6. n * capacity <= Share(count')
    <3>1. CASE count' = 0
      <4>1. n = 0
        BY <2>1, <2>2, <2>3, <3>1, <1>0
      <4>2. QED
        BY <1>0, <4>1, ShareBounds
    <3>2. CASE count' # 0
      BY <2>4, <2>5, <3>2 DEF Share
    <3>3. QED
      BY <3>1, <3>2
  <2>7. QED
    BY <1>0, <2>3, <2>6, ShareBounds
<1>9. QED
  BY <1>1, <1>2, <1>3, <1>4, <1>5, <1>6, <1>7, <1>8
  DEF Next, SetItem, GetItem, OutOfBounds, Index, NotThere, Count, Unsearchable,
      ReverseItems, Sort, SortUnordered, Copy, Extend, Add, ExtendOutside, AddOutside,
      Joined, JoinedOutside, MultNegative, Iterate, NextItem, Exhausted, NextOutside, Answer, Raise,
      Undefined, list

(* However it grew and shrank, a list holds no more than the smallest      *)
(* capacity for every item, unless an empty one was multiplied.            *)
THEOREM ListThrifty == Spec => Thrifty
<1>1. Spec => []IInv
  BY ListInvariant
<1>2. IInv /\ IInv' /\ [Next]_vars =>
        [Wasteful' => Wasteful \/ (count = 0 /\ \E n \in Factors : Mult(n))]_vars
  <2> SUFFICES ASSUME IInv, IInv', Next, ~Wasteful,
                      ~(count = 0 /\ \E n \in Factors : Mult(n))
               PROVE  ~Wasteful'
    OBVIOUS
  <2>a. RunningInv /\ EndedInv'
    <3>1. MemoryInv' => EndedInv'
      BY WholeMemory DEF MemoryInv, EndedInv
    <3>2. QED
      BY <3>1, NextRuns DEF IInv, RunningInv
  <2>1. /\ count \in Nat /\ capacity \in Nat
        /\ count' \in Nat /\ capacity' \in Nat
    BY <2>a DEF RunningInv, MemoryInv, EndedInv
  <2>2. Share(count) \in Nat /\ Share(count') \in Nat
    BY <2>1, ShareBounds
  <2>3. capacity <= Share(count)
    BY <2>1, <2>2 DEF Wasteful, Share
  <2>4. capacity' <= Share(count')
    BY <2>a, <2>3, StepIsThrifty
  <2>5. Wasteful' <=> capacity' > Share(count')
    BY DEF Wasteful, Share
  <2>6. QED
    BY <2>1, <2>2, <2>4, <2>5
<1>3. QED
  BY <1>1, <1>2, PTL DEF Spec, Thrifty

-----------------------------------------------------------------------------
(***************************************************************************)
(* The list of the runtime is Python's: every step of List is a step of    *)
(* PythonList or leaves what PythonList sees alone.                        *)
(***************************************************************************)

Items == SubSeq(data, 1, count)

-----------------------------------------------------------------------------
(* Sequences                                                               *)

(* Sequences are equal if they agree everywhere.                           *)
LEMMA SameSequence ==
  ASSUME NEW S, NEW s \in Seq(S), NEW t \in Seq(S), Len(s) = Len(t),
         \A p \in 1 .. Len(s) : s[p] = t[p]
  PROVE  s = t
OBVIOUS

(* An item is put in front of another.                                     *)
LEMMA InsertAtItems ==
  ASSUME NEW s \in Seq(Elems), NEW i \in 1 .. Len(s), NEW x \in Elems
  PROVE  /\ Python!InsertAt(s, i, x) \in Seq(Elems)
         /\ Len(Python!InsertAt(s, i, x)) = Len(s) + 1
         /\ \A p \in 1 .. Len(s) + 1 :
              Python!InsertAt(s, i, x)[p] =
                IF p < i THEN s[p] ELSE IF p = i THEN x ELSE s[p - 1]
<1> DEFINE front == SubSeq(s, 1, i - 1)
           back == SubSeq(s, i, Len(s))
           head == front \o <<x>>
<1>1. /\ front \in Seq(Elems) /\ Len(front) = i - 1
      /\ \A p \in 1 .. i - 1 : front[p] = s[p]
  BY SubSeqProperties
<1>2. /\ back \in Seq(Elems) /\ Len(back) = Len(s) - i + 1
      /\ \A p \in 1 .. Len(s) - i + 1 : back[p] = s[i + p - 1]
  BY SubSeqProperties
<1>3. <<x>> \in Seq(Elems) /\ Len(<<x>>) = 1 /\ <<x>>[1] = x
  OBVIOUS
<1> HIDE DEF front, back
<1>4. /\ head \in Seq(Elems) /\ Len(head) = i
      /\ \A p \in 1 .. i : head[p] = IF p < i THEN s[p] ELSE x
  <2>1. /\ head \in Seq(Elems) /\ Len(head) = Len(front) + Len(<<x>>)
        /\ \A p \in 1 .. Len(front) + Len(<<x>>) :
             head[p] = IF p <= Len(front) THEN front[p] ELSE <<x>>[p - Len(front)]
    BY <1>1, <1>3, ConcatProperties
  <2>2. QED
    BY <1>1, <1>3, <2>1
<1> HIDE DEF head
<1>5. /\ head \o back \in Seq(Elems) /\ Len(head \o back) = Len(s) + 1
      /\ \A p \in 1 .. Len(s) + 1 :
           (head \o back)[p] = IF p <= i THEN head[p] ELSE back[p - i]
  <2>1. /\ head \o back \in Seq(Elems) /\ Len(head \o back) = Len(head) + Len(back)
        /\ \A p \in 1 .. Len(head) + Len(back) :
             (head \o back)[p] = IF p <= Len(head) THEN head[p] ELSE back[p - Len(head)]
    BY <1>2, <1>4, ConcatProperties
  <2>2. Len(head) = i /\ Len(head) + Len(back) = Len(s) + 1
    BY <1>2, <1>4
  <2>3. QED
    BY <2>1, <2>2
<1>6. Python!InsertAt(s, i, x) = head \o back
  BY DEF Python!InsertAt, head, front, back
<1>7. ASSUME NEW p \in 1 .. Len(s) + 1
      PROVE  (head \o back)[p] = IF p < i THEN s[p] ELSE IF p = i THEN x ELSE s[p - 1]
  BY <1>2, <1>4, <1>5
<1>8. QED
  BY <1>5, <1>6, <1>7

(* An item is taken out.                                                   *)
LEMMA RemoveAtItems ==
  ASSUME NEW s \in Seq(Elems), NEW i \in 1 .. Len(s)
  PROVE  /\ Python!RemoveAt(s, i) \in Seq(Elems)
         /\ Len(Python!RemoveAt(s, i)) = Len(s) - 1
         /\ \A p \in 1 .. Len(s) - 1 :
              Python!RemoveAt(s, i)[p] = IF p < i THEN s[p] ELSE s[p + 1]
<1> DEFINE front == SubSeq(s, 1, i - 1)
           back == SubSeq(s, i + 1, Len(s))
<1>1. /\ front \in Seq(Elems) /\ Len(front) = i - 1
      /\ \A p \in 1 .. i - 1 : front[p] = s[p]
  BY SubSeqProperties
<1>2. /\ back \in Seq(Elems) /\ Len(back) = Len(s) - i
      /\ \A p \in 1 .. Len(s) - i : back[p] = s[i + p]
  BY SubSeqProperties
<1>3. Python!RemoveAt(s, i) = front \o back
  BY DEF Python!RemoveAt
<1> HIDE DEF front, back
<1>4. /\ front \o back \in Seq(Elems) /\ Len(front \o back) = Len(s) - 1
      /\ \A p \in 1 .. Len(s) - 1 :
           (front \o back)[p] = IF p <= i - 1 THEN front[p] ELSE back[p - (i - 1)]
  BY <1>1, <1>2, ConcatProperties
<1>5. ASSUME NEW p \in 1 .. Len(s) - 1
      PROVE  (front \o back)[p] = IF p < i THEN s[p] ELSE s[p + 1]
  BY <1>1, <1>2, <1>4
<1>6. QED
  BY <1>3, <1>4, <1>5

(* The items are the first count cells, before a step and after it.        *)
LEMMA FirstCells ==
  ASSUME NEW d, NEW n \in Nat, \A p \in 1 .. n : d[p] \in Elems
  PROVE  /\ SubSeq(d, 1, n) \in Seq(Elems)
         /\ Len(SubSeq(d, 1, n)) = n
         /\ DOMAIN SubSeq(d, 1, n) = 1 .. n
         /\ \A p \in 1 .. n : SubSeq(d, 1, n)[p] = d[p]
<1>1. /\ SubSeq(d, 1, n) \in Seq(Elems)
      /\ Len(SubSeq(d, 1, n)) = n
      /\ \A p \in 1 .. n : SubSeq(d, 1, n)[p] = d[p]
  BY SubSeqProperties
<1>2. QED
  BY <1>1

LEMMA ItemsAre ==
  ASSUME RunningInv
  PROVE  /\ Items \in Seq(Elems)
         /\ Len(Items) = count
         /\ DOMAIN Items = 1 .. count
         /\ \A p \in 1 .. count : Items[p] = data[p]
BY FirstCells DEF RunningInv, MemoryInv, Items

LEMMA ItemsBecome ==
  ASSUME MemoryInv'
  PROVE  /\ Items' \in Seq(Elems)
         /\ Len(Items') = count'
         /\ DOMAIN Items' = 1 .. count'
         /\ \A p \in 1 .. count' : Items'[p] = data'[p]
BY FirstCells DEF MemoryInv, Items

(* Where a sequence is described item by item, it is what the items become. *)
LEMMA Becoming ==
  ASSUME MemoryInv', NEW s \in Seq(Elems), Len(s) = count',
         \A p \in 1 .. count' : s[p] = data'[p]
  PROVE  Items' = s
BY ItemsBecome, SameSequence

-----------------------------------------------------------------------------
(* One step for each operation that changes the items                      *)

(* Positions of the program are the same to both.                          *)
LEMMA SamePosition ==
  ASSUME RunningInv, NEW i \in Indices
  PROVE  /\ Python!At(i) = Wrap(i) + 1
         /\ Python!Inside(i) <=> InBounds(i)
         /\ InBounds(i) => Wrap(i) + 1 \in 1 .. count
<1> USE ListAssumption
<1>1. count \in Nat
  BY DEF RunningInv, MemoryInv
<1>2. Python!At(i) = Wrap(i) + 1
  BY <1>1, ItemsAre DEF Python!At, Wrap, Items
<1>3. Python!Inside(i) <=> Wrap(i) + 1 \in 1 .. count
  BY <1>2, ItemsAre DEF Python!Inside, Items
<1>4. Wrap(i) \in Int
  BY <1>1 DEF Wrap
<1>5. QED
  BY <1>1, <1>2, <1>3, <1>4 DEF InBounds

LEMMA AppendIsAdd ==
  ASSUME RunningInv, NEW x \in Elems, AppendItem(x)
  PROVE  Python!Add(x)
<1>1. /\ MemoryInv' /\ count' = count + 1
      /\ \A c \in 1 .. count' : data'[c] = IF c = count + 1 THEN x ELSE data[c]
  BY AppendKeeps
<1> DEFINE s == Append(Items, x)
<1>2. /\ s \in Seq(Elems) /\ Len(s) = count + 1
      /\ \A p \in 1 .. count : s[p] = data[p]
      /\ s[count + 1] = x
  BY ItemsAre, AppendProperties
<1> HIDE DEF s
<1>3. ASSUME NEW p \in 1 .. count'
      PROVE  s[p] = data'[p]
  <2>1. count \in Nat
    BY DEF RunningInv, MemoryInv
  <2>2. QED
    BY <1>1, <1>2, <2>1
<1>4. Items' = s
  BY <1>1, <1>2, <1>3, Becoming
<1>5. QED
  BY <1>4 DEF AppendItem, Python!Add, Python!Become, Items, s

LEMMA InsertIsInsert ==
  ASSUME RunningInv, NEW i \in Indices, NEW x \in Elems, Insert(i, x)
  PROVE  Python!Insert(i, x) \/ Python!Outside(i)
<1>1. CASE InBounds(i)
  <2> DEFINE at == Python!At(i)
             s == Python!InsertAt(Items, at, x)
  <2>1. /\ at = Wrap(i) + 1 /\ at \in 1 .. count /\ Python!Inside(i)
    BY <1>1, SamePosition
  <2>2. /\ MemoryInv' /\ count' = count + 1
        /\ \A c \in 1 .. count' :
             data'[c] = IF c <= Wrap(i) THEN data[c]
                        ELSE IF c = Wrap(i) + 1 THEN x ELSE data[c - 1]
    BY <1>1, InsertKeeps
  <2> HIDE DEF at
  <2>3. /\ s \in Seq(Elems) /\ Len(s) = count + 1
        /\ \A p \in 1 .. count + 1 :
             s[p] = IF p < at THEN Items[p] ELSE IF p = at THEN x ELSE Items[p - 1]
    <3>1. Items \in Seq(Elems) /\ Len(Items) = count /\ at \in 1 .. Len(Items)
      BY <2>1, ItemsAre
    <3>2. /\ s \in Seq(Elems) /\ Len(s) = Len(Items) + 1
          /\ \A p \in 1 .. Len(Items) + 1 :
               s[p] = IF p < at THEN Items[p] ELSE IF p = at THEN x ELSE Items[p - 1]
      BY <3>1, InsertAtItems
    <3>3. QED
      BY <3>1, <3>2
  <2> HIDE DEF s
  <2>4. count \in Nat /\ Wrap(i) = at - 1
    BY <2>1, ListAssumption DEF RunningInv, MemoryInv, Wrap
  <2>5. ASSUME NEW p \in 1 .. count'
        PROVE  s[p] = data'[p]
    <3>1. p \in 1 .. count + 1 /\ (p < at => p \in 1 .. count) /\ (p > at => p - 1 \in 1 .. count)
      BY <2>1, <2>2, <2>4
    <3>2. QED
      BY <2>1, <2>2, <2>3, <2>4, <3>1, ItemsAre
  <2>6. Items' = s
    BY <2>2, <2>3, <2>5, Becoming
  <2>7. result' = None /\ yielded' = yielded
    BY <1>1 DEF Insert
  <2>8. QED
    BY <2>1, <2>6, <2>7 DEF Python!Insert, Python!Become, Items, s, at
<1>2. CASE ~InBounds(i)
  <2>1. MemoryInv' /\ count' = count /\ \A c \in 1 .. count : data'[c] = data[c]
    BY <1>2, InsertKeeps
  <2>2. Items' = Items
    BY <2>1, ItemsAre, Becoming
  <2>3. result' = IndexError /\ yielded' = yielded
    BY <1>2 DEF Insert
  <2>4. QED
    BY <1>2, <2>2, <2>3, SamePosition DEF Python!Outside, Python!Answer, Items
<1>3. QED
  BY <1>1, <1>2

LEMMA DeleteIsRemoveAt ==
  ASSUME RunningInv, NEW i \in 0 .. count - 1, Delete(i)
  PROVE  Items' = Python!RemoveAt(Items, i + 1)
<1> DEFINE s == Python!RemoveAt(Items, i + 1)
<1>1. /\ MemoryInv' /\ count' = count - 1
      /\ \A c \in 1 .. count' : data'[c] = IF c <= i THEN data[c] ELSE data[c + 1]
  BY DeleteKeeps
<1>2. count \in Nat /\ i + 1 \in 1 .. count
  BY DEF RunningInv, MemoryInv
<1>3. /\ s \in Seq(Elems) /\ Len(s) = count - 1
      /\ \A p \in 1 .. count - 1 : s[p] = IF p < i + 1 THEN Items[p] ELSE Items[p + 1]
  BY <1>2, ItemsAre, RemoveAtItems
<1> HIDE DEF s
<1>4. ASSUME NEW p \in 1 .. count'
      PROVE  s[p] = data'[p]
  <2>1. p \in 1 .. count - 1 /\ p \in 1 .. count /\ p + 1 \in 1 .. count
    BY <1>1, <1>2
  <2>2. QED
    BY <1>1, <1>2, <1>3, <2>1, ItemsAre
<1>5. QED
  BY <1>1, <1>3, <1>4, Becoming DEF s

LEMMA PopIsPop ==
  ASSUME RunningInv, NEW i \in Indices, Pop(i)
  PROVE  Python!Pop(i)
<1>1. /\ Python!At(i) = Wrap(i) + 1 /\ Wrap(i) + 1 \in 1 .. count
      /\ Python!Inside(i) /\ Wrap(i) \in 0 .. count - 1
  BY SamePosition DEF Pop, InBounds
<1>2. Items' = Python!RemoveAt(Items, Python!At(i))
  BY <1>1, DeleteIsRemoveAt DEF Pop
<1>3. result' = Items[Python!At(i)] /\ yielded' = yielded
  <2>1. Wrap(i) + 1 \in 1 .. capacity
    BY <1>1 DEF RunningInv, MemoryInv
  <2>2. Cell(data, Wrap(i) + 1) = data[Wrap(i) + 1]
    BY <2>1, CellContents DEF RunningInv, MemoryInv
  <2>3. QED
    BY <1>1, <2>2, ItemsAre DEF Pop
<1>4. QED
  BY <1>1, <1>2, <1>3 DEF Python!Pop, Items

LEMMA SetIsPut ==
  ASSUME RunningInv, NEW i \in Indices, NEW x \in Elems, SetItem(i, x)
  PROVE  Python!Put(i, x)
<1> DEFINE at == Python!At(i)
           s == [Items EXCEPT ![at] = x]
<1>1. at = Wrap(i) + 1 /\ at \in 1 .. count /\ Python!Inside(i)
  BY SamePosition DEF SetItem
<1>2. /\ MemoryInv' /\ count' = count
      /\ \A c \in 1 .. count : data'[c] = IF c = Wrap(i) + 1 THEN x ELSE data[c]
  BY SetKeeps DEF SetItem
<1> HIDE DEF at
<1>3. /\ s \in Seq(Elems) /\ Len(s) = count
      /\ \A p \in 1 .. count : s[p] = IF p = at THEN x ELSE data[p]
  BY <1>1, ItemsAre
<1> HIDE DEF s
<1>4. Items' = s
  BY <1>1, <1>2, <1>3, Becoming
<1>5. QED
  BY <1>1, <1>4 DEF SetItem, Python!Put, Python!Become, Items, s, at

LEMMA ClearIsClear ==
  ASSUME RunningInv, Clear
  PROVE  Python!Clear
<1>1. Items' = <<>>
  BY SubSeqEmpty DEF Clear, Items
<1>2. QED
  BY <1>1 DEF Clear, Python!Clear, Python!Become, Items

LEMMA ReverseIsRev ==
  ASSUME RunningInv, ReverseItems
  PROVE  Python!Rev
<1> DEFINE s == Python!Reverse(Items)
<1>1. MemoryInv' /\ count' = count /\ count \in Nat
  BY ReverseKeeps DEF ReverseItems, RunningInv, MemoryInv
<1>2. /\ s \in Seq(Elems) /\ Len(s) = count
      /\ \A p \in 1 .. count : s[p] = Items[count - p + 1]
  BY <1>1, ItemsAre DEF Python!Reverse
<1>3. \A p \in 1 .. count : data'[p] = data[count + 1 - p]
  <2>1. DOMAIN data = 1 .. capacity /\ \A p \in 1 .. count : p \in 1 .. capacity
    BY LengthOfMemory DEF RunningInv, MemoryInv
  <2>2. QED
    BY <2>1 DEF ReverseItems
<1> HIDE DEF s
<1>4. ASSUME NEW p \in 1 .. count
      PROVE  s[p] = data'[p]
  <2>1. count - p + 1 = count + 1 - p /\ count + 1 - p \in 1 .. count
    BY <1>1
  <2>2. QED
    BY <1>2, <1>3, <2>1, ItemsAre
<1>5. Items' = s
  BY <1>1, <1>2, <1>4, Becoming
<1>6. QED
  BY <1>5 DEF ReverseItems, Python!Rev, Python!Become, Items, s

(* The items arrive, wherever they are written.                            *)
LEMMA CopiedIsJoin ==
  ASSUME RunningInv, NEW other \in Others, CopyItems(other)
  PROVE  Python!Join(other)
<1> DEFINE s == Items \o other
           n == count + Len(other)
<1>1. other \in Seq(Elems) /\ Len(other) \in Nat
  BY ListAssumption
<1>2. data' = Copied(other) /\ count' = n
  BY DEF CopyItems
<1>3. /\ s \in Seq(Elems) /\ Len(s) = n
      /\ \A p \in 1 .. n : s[p] = IF p <= count THEN Items[p] ELSE other[p - count]
  <2>1. Items \in Seq(Elems) /\ Len(Items) = count
    BY ItemsAre
  <2>2. /\ s \in Seq(Elems) /\ Len(s) = Len(Items) + Len(other)
        /\ \A p \in 1 .. Len(Items) + Len(other) :
             s[p] = IF p <= Len(Items) THEN Items[p] ELSE other[p - Len(Items)]
    BY <1>1, <2>1, ConcatProperties
  <2>3. QED
    BY <2>1, <2>2
<1>4. /\ n \in Nat
      /\ \A p \in 1 .. n :
           /\ data'[p] = IF p <= count THEN data[p] ELSE other[p - count]
           /\ data'[p] \in Elems
  BY <1>2, CopiedMemory
<1>5. count \in Nat
  BY DEF RunningInv, MemoryInv
<1> HIDE DEF s, n
<1>6. /\ Items' \in Seq(Elems) /\ Len(Items') = n
      /\ \A p \in 1 .. n : Items'[p] = data'[p]
  BY <1>2, <1>4, FirstCells DEF Items
<1>7. ASSUME NEW p \in 1 .. n
      PROVE  s[p] = Items'[p]
  <2>1. CASE p <= count
    BY <1>3, <1>4, <1>5, <1>6, <2>1, ItemsAre
  <2>2. CASE p > count
    BY <1>3, <1>4, <1>5, <1>6, <2>2
  <2>3. QED
    BY <1>4, <1>5, <2>1, <2>2
<1>8. Items' = s
  BY <1>3, <1>6, <1>7, SameSequence
<1>9. QED
  BY <1>8 DEF CopyItems, Python!Join, Python!Become, Items, s

(* Where the count is 0 there is nothing to repeat, and the product is     *)
(* empty whatever the factor.                                              *)
LEMMA MultIsRepeat ==
  ASSUME RunningInv, NEW n \in Factors, Mult(n)
  PROVE  Python!Repeat(n)
<1> DEFINE s == Python!Times(Items, n)
           total == n * count
<1>1. MemoryInv' /\ count' = total /\ total \in Nat
  BY MultKeeps DEF Mult, MemoryInv
<1>2. s = [p \in 1 .. total |-> Items[((p - 1) % count) + 1]]
  BY ItemsAre DEF Python!Times
<1>3. \A p \in 1 .. total : data'[p] = data[((p - 1) % count) + 1]
  <2>1. data' = [c \in 1 .. RoomFor(n) |->
                   IF c <= total THEN data[((c - 1) % count) + 1] ELSE Garbage]
    BY DEF Mult
  <2>2. capacity' = RoomFor(n) /\ capacity' \in Nat /\ total < capacity'
    BY <1>1 DEF Mult, MemoryInv
  <2> HIDE DEF total
  <2>3. \A p \in 1 .. total : p \in 1 .. RoomFor(n) /\ p <= total
    BY <1>1, <2>2
  <2>4. QED
    BY <2>1, <2>3
<1>4. ASSUME NEW p \in 1 .. total
      PROVE  ((p - 1) % count) + 1 \in 1 .. count
  <2>1. count \in Nat
    BY DEF RunningInv, MemoryInv
  <2>2. count # 0
    <3>1. count = 0 => total = 0
      BY ListAssumption
    <3>2. QED
      BY <1>1, <3>1
  <2>3. p - 1 \in Nat
    BY <1>1
  <2> HIDE DEF total
  <2>4. (p - 1) % count \in 0 .. count - 1
    BY <2>1, <2>2, <2>3
  <2>5. QED
    BY <2>1, <2>4
<1> HIDE DEF total
<1>5. \A p \in 1 .. total : s[p] = data'[p] /\ s[p] \in Elems
  <2> SUFFICES ASSUME NEW p \in 1 .. total PROVE s[p] = data'[p] /\ s[p] \in Elems
    OBVIOUS
  <2> DEFINE q == ((p - 1) % count) + 1
  <2>1. s[p] = Items[q] /\ data'[p] = data[q]
    BY <1>2, <1>3
  <2>2. q \in 1 .. count
    BY <1>4
  <2> HIDE DEF q
  <2>3. Items[q] = data[q] /\ Items[q] \in Elems
    BY <2>2, ItemsAre DEF RunningInv, MemoryInv
  <2>4. QED
    BY <2>1, <2>3
<1>6. s \in Seq(Elems) /\ Len(s) = total
  <2>1. s \in [1 .. total -> Elems]
    BY <1>2, <1>5
  <2> HIDE DEF s
  <2>2. QED
    BY <1>1, <2>1
<1> HIDE DEF s
<1>7. Items' = s
  BY <1>1, <1>5, <1>6, Becoming
<1>8. QED
  BY <1>7 DEF Mult, Python!Repeat, Python!Become, Items, s

-----------------------------------------------------------------------------
(* Searching and sorting                                                   *)

(* Both modules count alike.                                               *)
LEMMA SameCardinality ==
  ASSUME NEW S
  PROVE  Python!Cardinality(S) = Cardinality(S)
BY DEF Python!Cardinality, Cardinality

(* Positions of the program count from 0, places from 1.                   *)
LEMMA SamePlaces ==
  ASSUME RunningInv, NEW x \in Elems
  PROVE  /\ \A i \in Equal(x) : i \in 0 .. count - 1 /\ i + 1 \in Python!Places(x)
         /\ \A p \in Python!Places(x) : p - 1 \in Equal(x)
         /\ Python!Occurrences(x, Items) = Cardinality(Equal(x))
<1>1. count \in Nat
  BY DEF RunningInv, MemoryInv
<1>2. Python!Places(x) = {p \in 1 .. count : data[p] = x}
  BY ItemsAre DEF Python!Places, Items
<1>3. /\ \A i \in Equal(x) : i \in 0 .. count - 1 /\ i + 1 \in Python!Places(x)
      /\ \A p \in Python!Places(x) : p - 1 \in Equal(x) /\ (p - 1) + 1 = p
  BY <1>1, <1>2 DEF Equal
<1> DEFINE f == [i \in Equal(x) |-> i + 1]
<1>4. f \in Bijection(Equal(x), Python!Places(x))
  <2>1. f \in [Equal(x) -> Python!Places(x)]
    BY <1>3
  <2>2. \A i, j \in Equal(x) : f[i] = f[j] => i = j
    BY <1>3
  <2>3. \A p \in Python!Places(x) : f[p - 1] = p
    BY <1>3
  <2>4. QED
    BY <1>3, <2>1, <2>2, <2>3 DEF Bijection, Injection, IsInjective, Surjection
<1>5. IsFiniteSet(Equal(x))
  <2>1. IsFiniteSet(0 .. count - 1)
    BY <1>1, FS_Interval
  <2>2. QED
    BY <1>3, <2>1, FS_Subset
<1>6. Cardinality(Python!Places(x)) = Cardinality(Equal(x))
  <2>1. ExistsBijection(Equal(x), Python!Places(x))
    BY <1>4 DEF ExistsBijection
  <2>2. QED
    BY <1>5, <2>1, FS_Bijection
<1>7. Python!Occurrences(x, Items) = Cardinality(Python!Places(x))
  BY SameCardinality DEF Python!Occurrences, Python!Places, Items
<1>8. QED
  BY <1>3, <1>6, <1>7

LEMMA IndexIsFind ==
  ASSUME RunningInv, NEW x \in Elems, Index(x)
  PROVE  Python!Find(x)
<1>1. PICK i \in Equal(x) : Answer(i)
  BY DEF Index
<1>2. i + 1 \in Python!Places(x) /\ (i + 1) - 1 = i
  BY SamePlaces
<1>3. Python!Answer((i + 1) - 1)
  BY <1>1, <1>2 DEF Answer, list, Python!Answer
<1>4. QED
  BY <1>2, <1>3 DEF Python!Find

LEMMA RemoveIsDiscard ==
  ASSUME RunningInv, NEW x \in Elems, Remove(x)
  PROVE  Python!Discard(x)
<1>1. PICK i \in Equal(x) : Delete(i)
  BY DEF Remove
<1>2. i \in 0 .. count - 1 /\ i + 1 \in Python!Places(x)
  BY SamePlaces
<1>3. Items' = Python!RemoveAt(Items, i + 1)
  BY <1>1, <1>2, DeleteIsRemoveAt
<1>4. Python!Become(Python!RemoveAt(Items, i + 1))
  BY <1>3 DEF Remove, Python!Become, Items
<1>5. QED
  BY <1>2, <1>4 DEF Python!Discard, Items

LEMMA NotThereIsFind ==
  ASSUME RunningInv, NEW x \in Elems, NotThere(x)
  PROVE  Python!Find(x)
<1>1. Python!Places(x) = {}
  BY SamePlaces DEF NotThere
<1>2. Python!Answer(ValueError)
  BY DEF NotThere, Raise, list, Python!Answer
<1>3. QED
  BY <1>1, <1>2 DEF Python!Find

LEMMA CountIsCount ==
  ASSUME RunningInv, NEW x \in Elems, Count(x)
  PROVE  Python!Count(x)
BY SamePlaces DEF Count, Answer, list, Python!Count, Python!Answer, Items

LEMMA SortIsSort ==
  ASSUME RunningInv, NEW reverse \in BOOLEAN, Sort(reverse)
  PROVE  Python!Sort(reverse)
<1>1. MemoryInv' /\ count' = count
  BY SortKeeps DEF Sort
<1>2. PICK s \in [1 .. count -> Elems] :
        /\ \A x \in Elems :
             Cardinality({c \in 1 .. count : s[c] = x}) = Cardinality(Equal(x))
        /\ data' = [c \in DOMAIN data |-> IF c <= count THEN s[c] ELSE data[c]]
  BY DEF Sort
<1>3. \A c \in 1 .. count : data'[c] = s[c]
  <2>1. DOMAIN data = 1 .. capacity /\ \A c \in 1 .. count : c \in 1 .. capacity
    BY LengthOfMemory DEF RunningInv, MemoryInv
  <2>2. QED
    BY <1>2, <2>1
<1>4. s \in Seq(Elems) /\ Len(s) = count /\ DOMAIN s = 1 .. count
  BY DEF RunningInv, MemoryInv
<1>5. Items' = s
  BY <1>1, <1>3, <1>4, Becoming
<1>6. Items' \in [DOMAIN Items -> Elems]
  BY <1>5, ItemsAre
<1>7. ASSUME NEW x \in Elems
      PROVE  Python!Occurrences(x, Items') = Python!Occurrences(x, Items)
  <2>1. Python!Occurrences(x, Items') = Cardinality({c \in 1 .. count : s[c] = x})
    BY <1>4, <1>5, SameCardinality DEF Python!Occurrences
  <2>2. Python!Occurrences(x, Items) = Cardinality(Equal(x))
    BY SamePlaces
  <2>3. QED
    BY <1>2, <2>1, <2>2
<1>8. Python!Ordered(Items', reverse)
  BY <1>3, <1>4, <1>5 DEF Sort, InOrder, Python!Ordered
<1>9. QED
  BY <1>6, <1>7, <1>8 DEF Sort, Python!Sort, Items

-----------------------------------------------------------------------------
(* The refinement                                                          *)

LEMMA InitIsInit == Init => Python!Init
<1> SUFFICES ASSUME Init PROVE Python!Init
  OBVIOUS
<1>1. SubSeq(data, 1, count) = <<>>
  BY SubSeqEmpty DEF Init
<1>2. QED
  BY <1>1 DEF Init, Python!Init, NotIterating

(* What ends the behaviour is nothing PythonList sees.                     *)
LEMMA UndefinedIsStutter == Undefined => UNCHANGED Python!vars
BY DEF Undefined, list, Python!vars

LEMMA StepIsStep ==
  IInv /\ [Next]_vars => [Python!Next]_(Python!vars)
<1> SUFFICES ASSUME IInv, Next \/ UNCHANGED vars
             PROVE  Python!Next \/ UNCHANGED Python!vars
  OBVIOUS
<1>a. CASE UNCHANGED vars
  BY <1>a DEF vars, list, Python!vars
<1> SUFFICES ASSUME RunningInv, Next
             PROVE  Python!Next \/ UNCHANGED Python!vars
  BY <1>a, NextRuns DEF IInv, RunningInv
<1>1. ASSUME NEW x \in Elems, AppendItem(x) PROVE Python!Next
  BY <1>1, AppendIsAdd DEF Python!Next
<1>2. ASSUME NEW i \in Indices, NEW x \in Elems, Insert(i, x) PROVE Python!Next
  BY <1>2, InsertIsInsert DEF Python!Next
<1>3. ASSUME NEW i \in Indices, NEW x \in Elems, SetItem(i, x) PROVE Python!Next
  BY <1>3, SetIsPut DEF Python!Next
<1>4. ASSUME NEW i \in Indices, Pop(i) PROVE Python!Next
  BY <1>4, PopIsPop DEF Python!Next
<1>5. ASSUME NEW i \in Indices, GetItem(i) PROVE Python!Next
  <2>1. /\ Python!At(i) = Wrap(i) + 1 /\ Wrap(i) + 1 \in 1 .. count
        /\ Python!Inside(i)
    BY <1>5, SamePosition DEF GetItem
  <2>2. Cell(data, Wrap(i) + 1) = data[Wrap(i) + 1]
    BY <2>1, CellContents DEF RunningInv, MemoryInv
  <2>3. result' = Items[Python!At(i)] /\ UNCHANGED <<list, yielded>>
    BY <1>5, <2>1, <2>2, ItemsAre DEF GetItem, Answer
  <2>4. Python!Get(i)
    BY <2>1, <2>3 DEF list, Python!Get, Python!Answer, Items
  <2>5. QED
    BY <2>4 DEF Python!Next
<1>6. ASSUME NEW i \in Indices, OutOfBounds(i) PROVE Python!Next
  <2>1. Python!Outside(i)
    BY <1>6, SamePosition DEF OutOfBounds, Raise, list, Python!Outside, Python!Answer
  <2>2. QED
    BY <2>1 DEF Python!Next
<1>7. ASSUME NEW x \in Elems, Index(x) PROVE Python!Next
  BY <1>7, IndexIsFind DEF Python!Next
<1>8. ASSUME NEW x \in Elems, Remove(x) PROVE Python!Next
  BY <1>8, RemoveIsDiscard DEF Python!Next
<1>9. ASSUME NEW x \in Elems, NotThere(x) PROVE Python!Next
  BY <1>9, NotThereIsFind DEF Python!Next
<1>10. ASSUME NEW x \in Elems, Count(x) PROVE Python!Next
  BY <1>10, CountIsCount DEF Python!Next
<1>11. CASE Unsearchable
  BY <1>11, UndefinedIsStutter DEF Unsearchable
<1>12. CASE Clear
  BY <1>12, ClearIsClear DEF Python!Next
<1>13. CASE ReverseItems
  BY <1>13, ReverseIsRev DEF Python!Next
<1>14. ASSUME NEW reverse \in BOOLEAN, Sort(reverse) PROVE Python!Next
  BY <1>14, SortIsSort DEF Python!Next
<1>15. CASE SortUnordered
  <2>1. Python!Sort(TRUE)
    BY <1>15 DEF SortUnordered, Raise, list, Python!Sort, Python!Answer
  <2>2. QED
    BY <2>1 DEF Python!Next
<1>16. CASE Copy
  <2>1. Python!Copy
    BY <1>16 DEF Copy, Python!Copy, Python!Become
  <2>2. QED
    BY <2>1 DEF Python!Next
<1>17. ASSUME NEW other \in Others, Extend(other) PROVE Python!Next
  BY <1>17, CopiedIsJoin DEF Extend, Joined, Python!Next
<1>18. ASSUME NEW other \in Others, Add(other) PROVE Python!Next
  BY <1>18, CopiedIsJoin DEF Add, Joined, Python!Next
<1>19. ASSUME NEW other \in Others, ExtendOutside(other) \/ AddOutside(other)
       PROVE  Python!Next
  BY <1>19, CopiedIsJoin DEF ExtendOutside, AddOutside, JoinedOutside, Python!Next
<1>20. ASSUME NEW n \in Factors, Mult(n) PROVE Python!Next
  BY <1>20, MultIsRepeat DEF Python!Next
<1>21. ASSUME NEW n \in Factors, MultNegative(n) PROVE UNCHANGED Python!vars
  BY <1>21, UndefinedIsStutter DEF MultNegative
<1>22. CASE Iterate
  <2>1. Python!Iterate
    BY <1>22 DEF Iterate, Alone, NotIterating, list, Python!Iterate
  <2>2. QED
    BY <2>1 DEF Python!Next
<1>23. CASE NextItem
  <2>1. /\ count \in Nat /\ yielded \in Nat
        /\ yielded + 1 \in 1 .. count /\ yielded + 1 \in 1 .. capacity
    BY <1>23 DEF NextItem, Stops, NotIterating, RunningInv, MemoryInv, RestInv
  <2>2. Cell(data, yielded + 1) = data[yielded + 1]
    BY <2>1, CellContents DEF RunningInv, MemoryInv
  <2>3. /\ yielded + 1 \in DOMAIN Items
        /\ result' = Items[yielded + 1]
        /\ yielded' + 1 = (yielded + 1) + 1
        /\ UNCHANGED list
    BY <1>23, <2>1, <2>2, ItemsAre DEF NextItem
  <2>4. Python!NextItem
    BY <2>3 DEF list, Python!NextItem, Items
  <2>5. QED
    BY <2>4 DEF Python!Next
<1>24. CASE Exhausted
  <2>1. /\ yielded + 1 > Len(Items) /\ result' = None /\ yielded' + 1 = 0
        /\ UNCHANGED list
    BY <1>24, ItemsAre DEF Exhausted, Stops, NotIterating, RunningInv, MemoryInv
  <2>2. Python!Exhausted
    BY <2>1 DEF list, Python!Exhausted, Items
  <2>3. QED
    BY <2>2 DEF Python!Next
<1>25. CASE NextOutside
  BY <1>25, UndefinedIsStutter DEF NextOutside
<1>26. QED
  BY <1>1, <1>2, <1>3, <1>4, <1>5, <1>6, <1>7, <1>8, <1>9, <1>10, <1>11, <1>12, <1>13,
     <1>14, <1>15, <1>16, <1>17, <1>18, <1>19, <1>20, <1>21, <1>22, <1>23, <1>24, <1>25
  DEF Next

(* The list of the runtime is Python's list, until the program does what   *)
(* the runtime leaves undefined: the allocation, its capacity, what is     *)
(* left behind in it and the search from the end cannot be told.           *)
THEOREM ListRefinesPython == Spec => RefinesList
<1>1. Spec => []IInv
  BY ListInvariant
<1>2. QED
  BY <1>1, InitIsInit, StepIsStep, PTL DEF Spec, RefinesList, Python!Spec
=============================================================================
