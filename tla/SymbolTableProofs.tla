-------------------------- MODULE SymbolTableProofs --------------------------
(***************************************************************************)
(* Proofs about module SymbolTable, for every hash function and every size *)
(* of symbols and of the first buffer: a table keeps the first symbol put  *)
(* under a name, and finds it, however names collide and however often the *)
(* table has grown.                                                        *)
(***************************************************************************)
EXTENDS SymbolTable, SequenceFacts, FiniteSetTheorems

(* A set of symbols whose names can be hashed, as any string can.          *)
Hashed(S) == \A symbol \in S : Hash(symbol.name) \in Nat

Tables(S) ==
  [bytes : Nat, elements : Seq(S), capacity : Nat \ {0},
   lookup : UNION {[0 .. 2 * c - 1 -> Nat] : c \in Nat}]

Table(bytes, elements, capacity, lookup) ==
  [bytes |-> bytes, elements |-> elements, capacity |-> capacity, lookup |-> lookup]

NameAt(hm, slot) == hm.elements[hm.lookup[slot]].name

(* The first m symbols have a slot each, other slots are unused, and so is *)
(* no slot a probe for one of them passes.                                 *)
Leads(hm, m) ==
  /\ hm.lookup \in [Slots(hm) -> 0 .. m]
  /\ \A i \in 1 .. m : \E p \in Slots(hm) : hm.lookup[p] = i
  /\ \A p, q \in Slots(hm) : hm.lookup[p] # 0 /\ hm.lookup[p] = hm.lookup[q] => p = q
  /\ \A p, q \in Slots(hm) :
       hm.lookup[p] # 0 /\ Distance(hm, NameAt(hm, p), q) < Distance(hm, NameAt(hm, p), p) =>
         hm.lookup[q] # 0

NamesDiffer(elements) ==
  \A i, j \in DOMAIN elements : elements[i].name = elements[j].name => i = j

(* A table between two operations.                                         *)
Sound(hm, S) ==
  /\ hm \in Tables(S)
  /\ hm.capacity = hm.bytes \div UnitBytes
  /\ Len(hm.elements) <= hm.capacity
  /\ Leads(hm, Len(hm.elements))
  /\ NamesDiffer(hm.elements)

-----------------------------------------------------------------------------
(* Probing                                                                 *)

(* The remainder of a division.                                            *)
LEMMA Remainder ==
  ASSUME NEW x \in Int, NEW d \in Nat \ {0}
  PROVE  /\ x \div d \in Int
         /\ x % d \in 0 .. d - 1
         /\ x = d * (x \div d) + (x % d)
  OBVIOUS

(* Numbers less than d apart have different remainders.                    *)
LEMMA RemaindersDiffer ==
  ASSUME NEW d \in Nat \ {0}, NEW x \in Int, NEW y \in Int,
         x - y < d, y - x < d, x % d = y % d
  PROVE  x = y
<1> DEFINE a == x \div d
           b == y \div d
           r == x % d
<1>1. /\ a \in Int /\ b \in Int /\ r \in Int
      /\ x = d * a + r /\ y = d * b + r
  BY Remainder
<1> HIDE DEF a, b, r
<1>2. ASSUME NEW u \in Int, NEW v \in Int, u > v, d * u - d * v < d
      PROVE  FALSE
  <2>1. PICK e \in Nat : u = v + 1 + e
    <3>1. u - v - 1 \in Nat /\ u = v + 1 + (u - v - 1)
      BY <1>2
    <3>2. QED
      BY <3>1
  <2>2. d * u = d * v + d + d * e
    BY <2>1
  <2>3. d * e \in Nat /\ d * v \in Int
    OBVIOUS
  <2>4. QED
    BY <1>2, <2>2, <2>3
<1>3. d * a \in Int /\ d * b \in Int
  BY <1>1
<1>4. d * a - d * b < d /\ d * b - d * a < d
  BY <1>1, <1>3
<1>5. a = b
  BY <1>1, <1>2, <1>4
<1>6. QED
  BY <1>1, <1>5

(* Two slots are never equally far from where probing for a name starts.   *)
LEMMA DistanceFacts ==
  ASSUME NEW hm, hm.capacity \in Nat \ {0}, NEW name, Hash(name) \in Nat
  PROVE  /\ \A p \in Slots(hm) : Distance(hm, name, p) \in Nat
         /\ \A p, q \in Slots(hm) : Distance(hm, name, p) = Distance(hm, name, q) => p = q
<1> DEFINE d == 2 * hm.capacity
           h == Hash(name)
<1>1. d \in Nat \ {0} /\ h \in Nat
  OBVIOUS
<1>2. Slots(hm) = 0 .. d - 1 /\ \A p : Distance(hm, name, p) = (p - h) % d
  BY DEF Slots, Distance
<1> HIDE DEF d, h
<1>3. ASSUME NEW p \in 0 .. d - 1 PROVE (p - h) % d \in Nat
  <2>1. p - h \in Int
    BY <1>1
  <2>2. QED
    BY <1>1, <2>1, Remainder
<1>4. ASSUME NEW p \in 0 .. d - 1, NEW q \in 0 .. d - 1, (p - h) % d = (q - h) % d
      PROVE  p = q
  <2>1. /\ p - h \in Int /\ q - h \in Int
        /\ (p - h) - (q - h) < d /\ (q - h) - (p - h) < d
    BY <1>1
  <2>2. p - h = q - h
    BY <1>1, <1>4, <2>1, RemaindersDiffer
  <2>3. QED
    BY <1>1, <2>2
<1>5. QED
  BY <1>2, <1>3, <1>4

(* Half of the slots are unused at least: there is no probe without end.   *)
LEMMA SomeSlotUnused ==
  ASSUME NEW hm, hm.capacity \in Nat \ {0}, NEW m \in Nat, m <= hm.capacity, Leads(hm, m)
  PROVE  \E p \in Slots(hm) : hm.lookup[p] = 0
<1>1. SUFFICES ASSUME \A p \in Slots(hm) : hm.lookup[p] # 0 PROVE FALSE
  OBVIOUS
<1> DEFINE n == 2 * hm.capacity
           f == hm.lookup
<1>2. n \in Nat /\ m < n /\ Slots(hm) = 0 .. n - 1
  BY DEF Slots
<1>3. f \in [0 .. n - 1 -> 1 .. m]
  BY <1>1, <1>2 DEF Leads
<1>4. \A p, q \in 0 .. n - 1 : f[p] = f[q] => p = q
  BY <1>1, <1>2 DEF Leads
<1> HIDE DEF n, f
<1>5. IsFiniteSet(0 .. n - 1) /\ Cardinality(0 .. n - 1) = n
  <2>1. 0 \in Int /\ n - 1 \in Int
    BY <1>2
  <2>2. Cardinality(0 .. n - 1) = IF 0 > n - 1 THEN 0 ELSE n - 1 - 0 + 1
    BY <2>1, FS_Interval
  <2>3. QED
    BY <1>2, <2>1, <2>2, FS_Interval
<1>6. IsFiniteSet(1 .. m) /\ Cardinality(1 .. m) = m
  <2>1. 1 \in Int /\ m \in Int
    OBVIOUS
  <2>2. Cardinality(1 .. m) = IF 1 > m THEN 0 ELSE m - 1 + 1
    BY <2>1, FS_Interval
  <2>3. QED
    BY <2>1, <2>2, FS_Interval
<1>7. Cardinality(1 .. m) < Cardinality(0 .. n - 1)
  BY <1>2, <1>5, <1>6
<1>8. \E p, q \in 0 .. n - 1 : p # q /\ f[p] = f[q]
  <2> DEFINE A == 0 .. n - 1
             B == 1 .. m
  <2>1. IsFiniteSet(A) /\ IsFiniteSet(B) /\ Cardinality(B) < Cardinality(A) /\ f \in [A -> B]
    BY <1>3, <1>5, <1>6, <1>7
  <2> HIDE DEF A, B
  <2>2. \E p, q \in A : p # q /\ f[p] = f[q]
    BY <2>1, FS_PigeonHole
  <2>3. QED
    BY <2>2 DEF A
<1>9. QED
  BY <1>4, <1>8

EndsAt(hm, name, slot) ==
  /\ Stops(hm, name, slot)
  /\ \A other \in Slots(hm) :
       Stops(hm, name, other) => Distance(hm, name, slot) <= Distance(hm, name, other)

(* A probe stops at the first slot where it may.                           *)
LEMMA ProbedIs ==
  ASSUME NEW hm, hm.capacity \in Nat \ {0}, NEW m \in Nat, m <= hm.capacity, Leads(hm, m),
         NEW name, Hash(name) \in Nat
  PROVE  Probed(hm, name) \in Slots(hm) /\ EndsAt(hm, name, Probed(hm, name))
<1> DEFINE D(p) == Distance(hm, name, p)
           T == {D(p) : p \in {q \in Slots(hm) : Stops(hm, name, q)}}
<1>1. \A p \in Slots(hm) : D(p) \in Nat
  BY DistanceFacts
<1>2. PICK p \in Slots(hm) : hm.lookup[p] = 0
  BY SomeSlotUnused
<1>3. Stops(hm, name, p)
  BY <1>2 DEF Stops
<1>4. T \in SUBSET Nat /\ T # {}
  BY <1>1, <1>3
<1>5. PICK n \in T : \A k \in T : n <= k
  <2> HIDE DEF T
  <2>1. QED
    BY <1>4, LeastNumber
<1>6. PICK s \in Slots(hm) : Stops(hm, name, s) /\ D(s) = n
  BY <1>5
<1>7. EndsAt(hm, name, s)
  BY <1>5, <1>6 DEF EndsAt
<1>8. Probed(hm, name) = CHOOSE slot \in Slots(hm) : EndsAt(hm, name, slot)
  BY DEF Probed, EndsAt
<1>9. QED
  BY <1>6, <1>7, <1>8

(* A probe for a name the table has ends at the slot of its symbol.        *)
LEMMA ProbeFinds ==
  ASSUME NEW S, Hashed(S), NEW hm \in Tables(S), NEW m \in Nat, m <= hm.capacity,
         m <= Len(hm.elements), Leads(hm, m), NamesDiffer(hm.elements), NEW i \in 1 .. m
  PROVE  hm.lookup[Probed(hm, hm.elements[i].name)] = i
<1> DEFINE name == hm.elements[i].name
           s == Probed(hm, name)
<1>1. /\ hm.capacity \in Nat \ {0} /\ hm.elements \in Seq(S)
      /\ \A k \in 1 .. m : k \in DOMAIN hm.elements /\ hm.elements[k] \in S
  BY DEF Tables
<1>2. Hash(name) \in Nat
  BY <1>1 DEF Hashed
<1>3. s \in Slots(hm) /\ EndsAt(hm, name, s)
  BY <1>1, <1>2, ProbedIs
<1>4. PICK p \in Slots(hm) : hm.lookup[p] = i
  BY DEF Leads
<1>5. NameAt(hm, p) = name /\ hm.lookup[p] # 0
  BY <1>4 DEF NameAt
<1>6. Stops(hm, name, p)
  BY <1>5 DEF Stops, NameAt
<1> HIDE DEF s
<1>7. Distance(hm, name, s) <= Distance(hm, name, p)
  BY <1>3, <1>6 DEF EndsAt
<1>8. CASE hm.lookup[s] = 0
  <2>1. ~(Distance(hm, name, s) < Distance(hm, name, p))
    BY <1>3, <1>5, <1>8 DEF Leads
  <2>2. Distance(hm, name, s) = Distance(hm, name, p)
    BY <1>1, <1>2, <1>3, <1>7, <2>1, DistanceFacts
  <2>3. s = p
    BY <1>1, <1>2, <1>3, <2>2, DistanceFacts
  <2>4. QED
    BY <1>5, <1>8, <2>3
<1>9. CASE hm.lookup[s] # 0
  <2>1. hm.lookup[s] \in 1 .. m
    BY <1>3, <1>9 DEF Leads
  <2>2. hm.elements[hm.lookup[s]].name = name
    BY <1>3, <1>9 DEF EndsAt, Stops
  <2>3. QED
    BY <1>1, <2>1, <2>2 DEF NamesDiffer, s
<1>10. QED
  BY <1>8, <1>9 DEF s

(* A probe for a name the table does not have ends at an unused slot, the  *)
(* first on its way.                                                       *)
LEMMA ProbeFails ==
  ASSUME NEW S, NEW hm \in Tables(S), NEW m \in Nat, m <= hm.capacity, Leads(hm, m),
         NEW name, Hash(name) \in Nat, \A i \in 1 .. m : hm.elements[i].name # name
  PROVE  LET p == Probed(hm, name)
         IN  /\ p \in Slots(hm) /\ hm.lookup[p] = 0
             /\ \A q \in Slots(hm) :
                  Distance(hm, name, q) < Distance(hm, name, p) => hm.lookup[q] # 0
<1> DEFINE p == Probed(hm, name)
<1>1. hm.capacity \in Nat \ {0}
  BY DEF Tables
<1>2. p \in Slots(hm) /\ EndsAt(hm, name, p)
  BY <1>1, ProbedIs
<1> HIDE DEF p
<1>3. hm.lookup[p] = 0
  <2>1. hm.lookup[p] \in 0 .. m
    BY <1>2 DEF Leads
  <2>2. QED
    BY <1>2, <2>1 DEF EndsAt, Stops
<1>4. ASSUME NEW q \in Slots(hm), Distance(hm, name, q) < Distance(hm, name, p),
             hm.lookup[q] = 0
      PROVE  FALSE
  <2>1. Distance(hm, name, p) <= Distance(hm, name, q)
    BY <1>2, <1>4 DEF EndsAt, Stops
  <2>2. Distance(hm, name, p) \in Nat /\ Distance(hm, name, q) \in Nat
    BY <1>1, <1>2, DistanceFacts
  <2>3. QED
    BY <1>4, <2>1, <2>2
<1>5. QED
  BY <1>2, <1>3, <1>4 DEF p

-----------------------------------------------------------------------------
(* Entering                                                                *)

(* The next symbol gets the first unused slot a probe for it finds.        *)
LEMMA EnteringLeads ==
  ASSUME NEW hm, NEW t, NEW m \in Nat, NEW name, NEW p \in Slots(hm),
         hm.capacity \in Nat \ {0}, Leads(hm, m), hm.lookup[p] = 0,
         \A q \in Slots(hm) : Distance(hm, name, q) < Distance(hm, name, p) => hm.lookup[q] # 0,
         t.capacity = hm.capacity, t.lookup = [hm.lookup EXCEPT ![p] = m + 1],
         t.elements[m + 1].name = name,
         \A i \in 1 .. m : t.elements[i].name = hm.elements[i].name
  PROVE  Leads(t, m + 1)
<1>1. Slots(t) = Slots(hm) /\ \A k, q : Distance(t, k, q) = Distance(hm, k, q)
  BY DEF Slots, Distance
<1>2. hm.lookup \in [Slots(hm) -> 0 .. m]
  BY DEF Leads
<1>3. t.lookup[p] = m + 1 /\ \A q \in Slots(hm) \ {p} : t.lookup[q] = hm.lookup[q]
  BY <1>2
<1>4. t.lookup \in [Slots(t) -> 0 .. m + 1]
  <2>1. \A x \in 0 .. m : x \in 0 .. m + 1
    OBVIOUS
  <2>2. m + 1 \in 0 .. m + 1
    OBVIOUS
  <2> DEFINE T == 0 .. m + 1
  <2>3. hm.lookup \in [Slots(hm) -> T] /\ m + 1 \in T
    BY <1>2, <2>1, <2>2
  <2> HIDE DEF T
  <2>4. t.lookup \in [Slots(hm) -> T]
    BY <2>3
  <2>5. QED
    BY <1>1, <2>4 DEF T
<1>5. \A q \in Slots(hm) : hm.lookup[q] \in 0 .. m /\ hm.lookup[q] # m + 1
  BY <1>2
<1>6. ASSUME NEW i \in 1 .. m + 1 PROVE \E q \in Slots(t) : t.lookup[q] = i
  <2>1. CASE i = m + 1
    BY <1>1, <1>3, <2>1
  <2>2. CASE i # m + 1
    <3>1. i \in 1 .. m /\ i # 0
      BY <2>2
    <3>2. PICK q \in Slots(hm) : hm.lookup[q] = i
      BY <3>1 DEF Leads
    <3>3. QED
      BY <1>1, <1>3, <3>1, <3>2
  <2>3. QED
    BY <2>1, <2>2
<1>7. ASSUME NEW q \in Slots(hm), NEW r \in Slots(hm), t.lookup[q] # 0,
             t.lookup[q] = t.lookup[r]
      PROVE  q = r
  BY <1>3, <1>5, <1>7 DEF Leads
<1>8. NameAt(t, p) = name
  BY <1>3 DEF NameAt
<1>9. ASSUME NEW q \in Slots(hm), q # p, hm.lookup[q] # 0
      PROVE  NameAt(t, q) = NameAt(hm, q)
  <2>1. hm.lookup[q] \in 1 .. m
    BY <1>2, <1>9
  <2>2. QED
    BY <1>3, <1>9, <2>1 DEF NameAt
<1>10. ASSUME NEW q \in Slots(hm), NEW r \in Slots(hm), t.lookup[q] # 0,
              Distance(hm, NameAt(t, q), r) < Distance(hm, NameAt(t, q), q)
       PROVE  t.lookup[r] # 0
  <2>1. m + 1 # 0
    OBVIOUS
  <2>2. CASE r = p
    BY <1>3, <2>1, <2>2
  <2>3. CASE r # p /\ q = p
    BY <1>3, <1>8, <1>10, <2>3
  <2>4. CASE r # p /\ q # p
    <3>1. hm.lookup[q] # 0
      BY <1>3, <1>10, <2>4
    <3>2. NameAt(t, q) = NameAt(hm, q)
      BY <1>9, <2>4, <3>1
    <3>3. hm.lookup[r] # 0
      BY <1>10, <3>1, <3>2 DEF Leads
    <3>4. QED
      BY <1>3, <2>4, <3>3
  <2>5. QED
    BY <2>2, <2>3, <2>4
<1>11. QED
  BY <1>1, <1>4, <1>6, <1>7, <1>10 DEF Leads

(* What a step of laying out anew leaves of a table.                       *)
LEMMA InsertLeads ==
  ASSUME NEW S, Hashed(S), NEW hm \in Tables(S), NEW m \in Nat, m + 1 <= hm.capacity,
         m + 1 <= Len(hm.elements), Leads(hm, m), NamesDiffer(hm.elements)
  PROVE  LET t == hm_lookup_insert(hm, m + 1, hm.elements[m + 1].name)
         IN  /\ t \in Tables(S) /\ Leads(t, m + 1)
             /\ t.elements = hm.elements /\ t.capacity = hm.capacity /\ t.bytes = hm.bytes
<1> DEFINE name == hm.elements[m + 1].name
           p == Probed(hm, name)
           lookup == [hm.lookup EXCEPT ![p] = m + 1]
           t == [hm EXCEPT !.lookup[p] = m + 1]
<1>1. /\ hm.elements \in Seq(S) /\ Len(hm.elements) \in Nat
      /\ hm.capacity \in Nat \ {0} /\ hm.bytes \in Nat
  BY DEF Tables
<1>2. m + 1 \in DOMAIN hm.elements /\ hm.elements[m + 1] \in S
  BY <1>1
<1>3. Hash(name) \in Nat
  BY <1>2 DEF Hashed
<1>4. \A i \in 1 .. m : hm.elements[i].name # name
  <2>1. \A i \in 1 .. m : i \in DOMAIN hm.elements /\ i # m + 1
    BY <1>1
  <2>2. QED
    BY <1>2, <2>1 DEF NamesDiffer
<1>5. m <= hm.capacity
  BY <1>1
<1>6. /\ p \in Slots(hm) /\ hm.lookup[p] = 0
      /\ \A q \in Slots(hm) : Distance(hm, name, q) < Distance(hm, name, p) => hm.lookup[q] # 0
  BY <1>3, <1>4, <1>5, ProbeFails
<1>7. hm_lookup_insert(hm, m + 1, name) = t
  BY <1>6 DEF hm_lookup_insert
<1>8. /\ t.lookup = lookup /\ t.elements = hm.elements
      /\ t.capacity = hm.capacity /\ t.bytes = hm.bytes
      /\ t = [bytes |-> t.bytes, elements |-> t.elements, capacity |-> t.capacity,
              lookup |-> t.lookup]
  <2> DEFINE b == hm.bytes
             e == hm.elements
             c == hm.capacity
             l == hm.lookup
  <2>1. hm = [bytes |-> b, elements |-> e, capacity |-> c, lookup |-> l]
    BY DEF Tables
  <2> HIDE DEF b, e, c, l, p
  <2>2. [hm EXCEPT !.lookup[p] = m + 1] =
          [bytes |-> b, elements |-> e, capacity |-> c, lookup |-> [l EXCEPT ![p] = m + 1]]
    BY <2>1
  <2>3. QED
    BY <2>2 DEF b, e, c, l
<1> HIDE DEF p, t
<1>9. Leads(t, m + 1)
  BY <1>1, <1>6, <1>8, EnteringLeads
<1>10. t \in Tables(S)
  <2>1. t.lookup \in [0 .. 2 * hm.capacity - 1 -> Nat]
    BY <1>8, <1>9 DEF Leads, Slots
  <2>2. QED
    BY <1>1, <1>8, <2>1 DEF Tables
<1>11. QED
  BY <1>7, <1>8, <1>9, <1>10

-----------------------------------------------------------------------------
(* Laying out anew                                                         *)

LaidStep(hm, before, i) ==
  IF i = 0 THEN hm ELSE hm_lookup_insert(before, i, hm.elements[i].name)

(* What rehash has entered after every symbol.                             *)
LaidUpTo(f, hm, n) == f = [i \in 0 .. n |-> LaidStep(hm, f[i - 1], i)]

LEMMA LaidAt ==
  ASSUME NEW hm, NEW n \in Nat, NEW f, LaidUpTo(f, hm, n), NEW i \in 0 .. n
  PROVE  f[i] = LaidStep(hm, f[i - 1], i)
<1> DEFINE e == [k \in 0 .. n |-> LaidStep(hm, f[k - 1], k)]
<1>1. f = e
  BY DEF LaidUpTo
<1>2. e[i] = LaidStep(hm, f[i - 1], i)
  OBVIOUS
<1> HIDE DEF e
<1>3. QED
  BY <1>1, <1>2

LEMMA LaidOneMore ==
  ASSUME NEW hm, NEW n \in Nat, NEW f, LaidUpTo(f, hm, n)
  PROVE  \E g : LaidUpTo(g, hm, n + 1)
<1> DEFINE More(i) == IF i <= n THEN f[i] ELSE LaidStep(hm, f[i - 1], i)
           g == [i \in 0 .. n + 1 |-> More(i)]
<1>1. ASSUME NEW i \in 0 .. n + 1 PROVE More(i) = LaidStep(hm, g[i - 1], i)
  <2>1. More(i) = LaidStep(hm, f[i - 1], i)
    <3> DEFINE fi == f[i]
               si == LaidStep(hm, f[i - 1], i)
    <3>1. ASSUME i <= n PROVE fi = si
      <4>1. i \in 0 .. n
        BY <3>1
      <4>2. QED
        BY <4>1, LaidAt
    <3>2. More(i) = IF i <= n THEN fi ELSE si
      OBVIOUS
    <3> HIDE DEF fi, si, More
    <3>3. More(i) = si
      BY <3>1, <3>2
    <3>4. QED
      BY <3>3 DEF si
  <2>2. LaidStep(hm, f[i - 1], i) = LaidStep(hm, g[i - 1], i)
    <3>1. CASE i = 0
      BY <3>1 DEF LaidStep
    <3>2. CASE i # 0
      <4>1. i - 1 \in 0 .. n + 1 /\ i - 1 <= n
        BY <3>2
      <4>2. g[i - 1] = More(i - 1)
        BY <4>1
      <4>3. More(i - 1) = f[i - 1]
        BY <4>1
      <4> HIDE DEF g, More
      <4>4. QED
        BY <4>2, <4>3
    <3>3. QED
      BY <3>1, <3>2
  <2> HIDE DEF g, More
  <2>3. QED
    BY <2>1, <2>2
<1>2. g = [i \in 0 .. n + 1 |-> LaidStep(hm, g[i - 1], i)]
  <2>1. g = [i \in 0 .. n + 1 |-> More(i)]
    OBVIOUS
  <2> HIDE DEF g, More
  <2>2. QED
    BY <1>1, <2>1
<1> HIDE DEF g
<1>3. LaidUpTo(g, hm, n + 1)
  BY <1>2 DEF LaidUpTo
<1>4. QED
  BY <1>3

LEMMA LaidExists ==
  ASSUME NEW hm, NEW n \in Nat
  PROVE  \E f : LaidUpTo(f, hm, n)
<1> DEFINE T == {k \in Nat : \E f : LaidUpTo(f, hm, k)}
<1>1. 0 \in T
  <2> DEFINE f == [i \in 0 .. 0 |-> hm]
  <2>1. \A i \in 0 .. 0 : LaidStep(hm, f[i - 1], i) = hm
    BY DEF LaidStep
  <2>2. f = [i \in 0 .. 0 |-> LaidStep(hm, f[i - 1], i)]
    <3>1. f = [i \in 0 .. 0 |-> hm]
      OBVIOUS
    <3> HIDE DEF f
    <3>2. QED
      BY <2>1, <3>1
  <2> HIDE DEF f
  <2>3. LaidUpTo(f, hm, 0)
    BY <2>2 DEF LaidUpTo
  <2>4. QED
    BY <2>3
<1>2. \A k \in Nat : k \in T => k + 1 \in T
  BY LaidOneMore
<1> HIDE DEF T
<1>3. n \in T
  BY <1>1, <1>2, InductionOnNat
<1>4. QED
  BY <1>3 DEF T

LEMMA RehashIs ==
  ASSUME NEW hm, Len(hm.elements) \in Nat
  PROVE  \E f : LaidUpTo(f, hm, Len(hm.elements)) /\ rehash(hm) = f[Len(hm.elements)]
<1> DEFINE n == Len(hm.elements)
           f == CHOOSE laid : laid = [i \in 0 .. n |->
                  IF i = 0 THEN hm ELSE hm_lookup_insert(laid[i - 1], i, hm.elements[i].name)]
<1>1. rehash(hm) = f[n]
  BY DEF rehash
<1>2. LaidUpTo(f, hm, n)
  BY LaidExists DEF LaidUpTo, LaidStep
<1> HIDE DEF f
<1>3. QED
  BY <1>1, <1>2

SoundWith(hm, S, bytes, elements) ==
  Sound(hm, S) /\ hm.elements = elements /\ hm.bytes = bytes

(* Laid out anew in a buffer with room for them, the symbols of a table    *)
(* are found again, in the order they had.                                 *)
LEMMA LayoutIsSound ==
  ASSUME NEW S, Hashed(S), NEW bytes \in Nat, NEW elements \in Seq(S), NamesDiffer(elements),
         bytes \div UnitBytes # 0, Len(elements) <= bytes \div UnitBytes,
         NEW capacity, NEW lookup
  PROVE  SoundWith(layout_hm_memory(Table(bytes, elements, capacity, lookup)), S, bytes, elements)
<1> DEFINE hm == Table(bytes, elements, capacity, lookup)
           c == bytes \div UnitBytes
           n == Len(elements)
           clear == [slot \in 0 .. 2 * c - 1 |-> 0]
           t == LaidOut(hm, c)
<1>1. c \in Nat \ {0} /\ n \in Nat /\ n <= c
  BY TableAssumption
<1>2. layout_hm_memory(hm) = rehash(t)
  BY DEF layout_hm_memory, Table
<1>3. t = [bytes |-> bytes, elements |-> elements, capacity |-> c, lookup |-> clear]
  <2>1. t = [hm EXCEPT !.capacity = c, !.lookup = clear]
    BY DEF LaidOut
  <2>2. hm = [bytes |-> bytes, elements |-> elements, capacity |-> capacity, lookup |-> lookup]
    BY DEF Table
  <2> HIDE DEF t, c, clear, hm
  <2>3. QED
    BY <2>1, <2>2
<1> HIDE DEF t, c, n, clear, hm
<1>4. /\ t.bytes = bytes /\ t.elements = elements /\ t.capacity = c /\ t.lookup = clear
  BY <1>3
<1>5. clear \in [0 .. 2 * c - 1 -> Nat] /\ \A q \in 0 .. 2 * c - 1 : clear[q] = 0
  BY DEF clear
<1>6. t \in Tables(S)
  BY <1>1, <1>3, <1>5 DEF Tables
<1>7. Leads(t, 0)
  <2>1. Slots(t) = 0 .. 2 * c - 1
    BY <1>4 DEF Slots
  <2>2. \A q \in Slots(t) : t.lookup[q] = 0
    BY <1>4, <1>5, <2>1
  <2>3. t.lookup \in [Slots(t) -> 0 .. 0]
    BY <1>4, <1>5, <2>1
  <2>4. QED
    BY <2>2, <2>3 DEF Leads
<1>8. PICK f : LaidUpTo(f, t, n) /\ rehash(t) = f[n]
  BY <1>1, <1>4, RehashIs DEF n
<1> DEFINE Ok(u, i) == /\ u \in Tables(S) /\ Leads(u, i)
                       /\ u.elements = elements /\ u.capacity = c /\ u.bytes = bytes
           T == {i \in Nat : i <= n => Ok(f[i], i)}
<1>9. 0 \in T
  <2>1. 0 \in 0 .. n
    BY <1>1
  <2>2. f[0] = LaidStep(t, f[0 - 1], 0)
    BY <1>1, <1>8, <2>1, LaidAt
  <2>3. f[0] = t
    BY <2>2 DEF LaidStep
  <2>4. QED
    BY <1>4, <1>6, <1>7, <2>3
<1>10. \A i \in Nat : i \in T => i + 1 \in T
  <2>1. TAKE i \in Nat
  <2>2. HAVE i \in T
  <2>3. ASSUME i + 1 <= n PROVE Ok(f[i + 1], i + 1)
    <3>1. i + 1 \in 0 .. n /\ i + 1 # 0 /\ i + 1 - 1 = i /\ i <= n
      BY <1>1, <2>3
    <3>2. f[i + 1] = hm_lookup_insert(f[i], i + 1, t.elements[i + 1].name)
      <4>1. f[i + 1] = LaidStep(t, f[i + 1 - 1], i + 1)
        <5>1. PICK k \in 0 .. n : k = i + 1
          BY <3>1
        <5>2. f[k] = LaidStep(t, f[k - 1], k)
          BY <1>1, <1>8, LaidAt
        <5>3. QED
          BY <5>1, <5>2
      <4>2. f[i + 1] = LaidStep(t, f[i], i + 1)
        BY <3>1, <4>1
      <4>3. QED
        BY <3>1, <4>2 DEF LaidStep
    <3> DEFINE u == f[i]
    <3>3. Ok(u, i)
      BY <2>2, <3>1
    <3>4. f[i + 1] = hm_lookup_insert(u, i + 1, u.elements[i + 1].name)
      BY <1>4, <3>2, <3>3
    <3> HIDE DEF u
    <3>5. i + 1 <= u.capacity /\ i + 1 <= Len(u.elements) /\ NamesDiffer(u.elements)
      <4>1. u.capacity = c /\ Len(u.elements) = n /\ i + 1 <= c
        BY <1>1, <2>3, <3>3 DEF n
      <4>2. NamesDiffer(u.elements)
        BY <3>3
      <4>3. QED
        BY <2>3, <4>1, <4>2
    <3> DEFINE v == hm_lookup_insert(u, i + 1, u.elements[i + 1].name)
    <3>6. /\ v \in Tables(S) /\ Leads(v, i + 1)
          /\ v.elements = u.elements /\ v.capacity = u.capacity /\ v.bytes = u.bytes
      BY <3>3, <3>5, InsertLeads
    <3> HIDE DEF v
    <3>7. Ok(v, i + 1)
      BY <3>3, <3>6
    <3>8. QED
      BY <3>4, <3>7 DEF v
  <2>4. QED
    BY <2>3
<1> HIDE DEF T
<1>11. n \in T
  BY <1>1, <1>9, <1>10, InductionOnNat
<1>12. Ok(rehash(t), n)
  BY <1>1, <1>8, <1>11 DEF T
<1> DEFINE r == rehash(t)
<1>13. /\ r \in Tables(S) /\ Leads(r, n)
       /\ r.elements = elements /\ r.capacity = c /\ r.bytes = bytes
  BY <1>12
<1> HIDE DEF r
<1>14. Sound(r, S)
  BY <1>1, <1>13 DEF Sound, c, n
<1>15. QED
  BY <1>2, <1>13, <1>14 DEF r, hm, SoundWith

-----------------------------------------------------------------------------
(* The operations                                                          *)

(* A new table is sound.                                                   *)
LEMMA InitIsSound ==
  ASSUME NEW S, Hashed(S)
  PROVE  Sound(symbol_hm_init, S) /\ symbol_hm_init.elements = <<>>
<1>1. TableBytes \in Nat /\ TableBytes \div UnitBytes \in Nat \ {0}
  <2> DEFINE u == UnitBytes
             q == TableBytes \div u
  <2>1. u \in Nat \ {0} /\ TableBytes \in Nat /\ TableBytes >= u
    BY TableAssumption
  <2>2. q \in Nat /\ TableBytes % u < u /\ TableBytes = u * q + (TableBytes % u)
    BY <2>1
  <2> HIDE DEF q
  <2>3. q # 0
    BY <2>1, <2>2
  <2>4. QED
    BY <2>1, <2>2, <2>3 DEF q
<1>2. PICK e : e = <<>>
  OBVIOUS
<1>3. PICK b : b = TableBytes
  OBVIOUS
<1>4. e \in Seq(S) /\ NamesDiffer(e) /\ Len(e) = 0
  BY <1>2 DEF NamesDiffer
<1>5. b \in Nat /\ b \div UnitBytes # 0 /\ Len(e) <= b \div UnitBytes
  BY <1>1, <1>3, <1>4
<1> DEFINE r == layout_hm_memory(Table(b, e, 0, <<>>))
<1>6. Hashed(S)
  OBVIOUS
<1>7. SoundWith(r, S, b, e)
  BY <1>4, <1>5, <1>6, LayoutIsSound
<1>8. symbol_hm_init = r
  BY <1>2, <1>3 DEF symbol_hm_init, Table
<1>9. QED
  BY <1>2, <1>7, <1>8 DEF SoundWith

(* A buffer of twice the size has room for twice as many symbols.          *)
LEMMA TwiceTheRoom ==
  ASSUME NEW x \in Nat, NEW d \in Nat \ {0}, NEW c \in Nat \ {0}, c = x \div d
  PROVE  (2 * x) \div d \in Nat /\ c < (2 * x) \div d
<1> DEFINE e == (2 * x) \div d
           r == x % d
           s == (2 * x) % d
<1>1. /\ r \in Nat /\ x = d * c + r
  OBVIOUS
<1>2. e \in Nat /\ s \in Nat /\ s < d /\ 2 * x = d * e + s
  OBVIOUS
<1> HIDE DEF e, r, s
<1>3. ASSUME e <= c PROVE FALSE
  <2>1. PICK k \in Nat : c = e + k
    <3>1. c - e \in Nat /\ c = e + (c - e)
      BY <1>2, <1>3
    <3>2. QED
      BY <3>1
  <2>2. d * c = d * e + d * k
    BY <1>2, <2>1
  <2>3. PICK j \in Nat : c = j + 1
    <3>1. c - 1 \in Nat /\ c = c - 1 + 1
      OBVIOUS
    <3>2. QED
      BY <3>1
  <2>4. d * c = d * j + d
    BY <2>3
  <2>5. d * j \in Nat /\ d * k \in Nat /\ d * e \in Nat /\ d * c \in Nat
    BY <1>2
  <2>6. QED
    BY <1>1, <1>2, <2>2, <2>4, <2>5
<1>4. QED
  BY <1>2, <1>3 DEF e

(* A table with room is as it was but for its buffer.                      *)
LEMMA RoomIsMade ==
  ASSUME NEW S, Hashed(S), NEW hm, Sound(hm, S)
  PROVE  /\ Sound(WithRoom(hm), S)
         /\ WithRoom(hm).elements = hm.elements
         /\ Len(hm.elements) < WithRoom(hm).capacity
<1>1. /\ hm.bytes \in Nat /\ hm.elements \in Seq(S) /\ hm.capacity \in Nat \ {0}
      /\ Len(hm.elements) \in Nat /\ Len(hm.elements) <= hm.capacity
      /\ hm.capacity = hm.bytes \div UnitBytes /\ NamesDiffer(hm.elements)
  BY DEF Sound, Tables
<1>2. CASE Len(hm.elements) # hm.capacity
  <2>1. WithRoom(hm) = hm
    BY <1>2 DEF WithRoom
  <2>2. QED
    BY <1>1, <1>2, <2>1
<1>3. CASE Len(hm.elements) = hm.capacity
  <2> DEFINE b == 2 * hm.bytes
             c == hm.capacity
             e == hm.elements
             l == hm.lookup
             larger == Table(b, e, c, l)
  <2>1. WithRoom(hm) = layout_hm_memory(larger)
    <3>1. hm = [bytes |-> hm.bytes, elements |-> e, capacity |-> c, lookup |-> l]
      BY DEF Sound, Tables
    <3> HIDE DEF e, c, l
    <3>2. [hm EXCEPT !.bytes = 2 * @] = larger
      BY <3>1 DEF Table
    <3> HIDE DEF larger
    <3>3. QED
      BY <1>3, <3>2 DEF WithRoom
  <2>2. b \div UnitBytes \in Nat /\ c < b \div UnitBytes
    BY <1>1, TwiceTheRoom, TableAssumption
  <2>3. b \in Nat /\ b \div UnitBytes # 0 /\ Len(e) <= b \div UnitBytes
    BY <1>1, <1>3, <2>2
  <2> DEFINE r == layout_hm_memory(larger)
  <2> HIDE DEF b
  <2>4. Sound(r, S) /\ r.elements = e /\ r.bytes = b
    <3>1. e \in Seq(S) /\ NamesDiffer(e)
      BY <1>1
    <3> HIDE DEF e, c, l
    <3>2. SoundWith(r, S, b, e)
      BY <2>3, <3>1, LayoutIsSound
    <3> HIDE DEF r
    <3>3. QED
      BY <3>2 DEF SoundWith
  <2> HIDE DEF r, larger
  <2>5. Len(e) < r.capacity
    BY <1>3, <2>2, <2>4 DEF Sound
  <2>6. QED
    BY <2>1, <2>4, <2>5 DEF r
<1>4. QED
  BY <1>2, <1>3

Holds(hm, name) == \E i \in DOMAIN hm.elements : hm.elements[i].name = name

(* A symbol put into a table comes last, if its name is new.               *)
LEMMA PutIsSound ==
  ASSUME NEW S, Hashed(S), NEW hm, Sound(hm, S), NEW symbol \in S
  PROVE  /\ Sound(symbol_hm_put(hm, symbol), S)
         /\ symbol_hm_put(hm, symbol).elements =
              IF Holds(hm, symbol.name) THEN hm.elements ELSE Append(hm.elements, symbol)
<1> DEFINE r == WithRoom(hm)
           n == Len(hm.elements)
           name == symbol.name
           p == Probed(r, name)
<1>1. Sound(r, S) /\ r.elements = hm.elements /\ n < r.capacity
  BY RoomIsMade
<1>2. symbol_hm_put(hm, symbol) = Entered(r, p, symbol)
  BY DEF symbol_hm_put, PutWithRoom
<1> HIDE DEF r
<1>3. /\ r \in Tables(S) /\ r.elements \in Seq(S) /\ n = Len(r.elements) /\ n \in Nat
      /\ r.capacity \in Nat \ {0} /\ r.bytes \in Nat /\ n <= r.capacity
      /\ Leads(r, n) /\ NamesDiffer(r.elements) /\ DOMAIN r.elements = 1 .. n
  BY <1>1 DEF Sound, Tables
<1>4. Hash(name) \in Nat
  BY DEF Hashed
<1>5. CASE Holds(hm, name)
  <2>1. PICK i \in 1 .. n : r.elements[i].name = name
    BY <1>1, <1>3, <1>5 DEF Holds
  <2>2. r.lookup[Probed(r, r.elements[i].name)] = i
    BY <1>3, ProbeFinds
  <2>3. r.lookup[p] # 0
    BY <2>1, <2>2
  <2>4. Entered(r, p, symbol) = r
    BY <2>3 DEF Entered
  <2>5. QED
    BY <1>1, <1>2, <1>5, <2>4
<1>6. CASE ~Holds(hm, name)
  <2>1. \A i \in 1 .. n : r.elements[i].name # name
    BY <1>1, <1>3, <1>6 DEF Holds
  <2>2. /\ p \in Slots(r) /\ r.lookup[p] = 0
        /\ \A q \in Slots(r) : Distance(r, name, q) < Distance(r, name, p) => r.lookup[q] # 0
    BY <1>3, <1>4, <2>1, ProbeFails
  <2> HIDE DEF p
  <2> DEFINE b == r.bytes
             e == r.elements
             c == r.capacity
             l == r.lookup
             e2 == Append(e, symbol)
             l2 == [l EXCEPT ![p] = n + 1]
             t == Entered(r, p, symbol)
  <2>3. t = [bytes |-> b, elements |-> e2, capacity |-> c, lookup |-> l2]
    <3>1. r = [bytes |-> b, elements |-> e, capacity |-> c, lookup |-> l]
      BY <1>3 DEF Tables
    <3>2. t = [r EXCEPT !.elements = e2, !.lookup = l2]
      <4>1. t = [r EXCEPT !.elements = Append(@, symbol), !.lookup[p] = Len(r.elements) + 1]
        BY <2>2 DEF Entered
      <4>2. Len(r.elements) + 1 = n + 1
        BY <1>3
      <4> HIDE DEF n, t
      <4>3. QED
        BY <4>1, <4>2
    <3> HIDE DEF b, e, c, l, e2, l2, t
    <3>3. QED
      BY <3>1, <3>2
  <2>4. /\ e2 \in Seq(S) /\ Len(e2) = n + 1 /\ e2[n + 1] = symbol /\ n + 1 <= c
        /\ DOMAIN e2 = 1 .. n + 1
        /\ \A i \in 1 .. n : e2[i] = e[i]
    BY <1>1, <1>3
  <2> HIDE DEF t, e2
  <2>5. t.bytes = b /\ t.elements = e2 /\ t.capacity = c /\ t.lookup = l2
    BY <2>3
  <2>6. Leads(t, n + 1)
    <3>1. /\ t.elements[n + 1].name = name
          /\ \A i \in 1 .. n : t.elements[i].name = r.elements[i].name
      BY <2>4, <2>5
    <3> HIDE DEF n, name
    <3>2. QED
      BY <1>3, <2>2, <2>5, <3>1, EnteringLeads
  <2>7. NamesDiffer(e2)
    <3>1. ASSUME NEW i \in 1 .. n + 1, NEW j \in 1 .. n + 1, e2[i].name = e2[j].name
          PROVE  i = j
      <4>1. CASE i = n + 1 /\ j = n + 1
        BY <4>1
      <4>2. CASE i = n + 1 /\ j # n + 1
        <5>1. j \in 1 .. n
          BY <1>3, <4>2
        <5>2. QED
          BY <2>1, <2>4, <3>1, <4>2, <5>1
      <4>3. CASE i # n + 1 /\ j = n + 1
        <5>1. i \in 1 .. n
          BY <1>3, <4>3
        <5>2. QED
          BY <2>1, <2>4, <3>1, <4>3, <5>1
      <4>4. CASE i # n + 1 /\ j # n + 1
        <5>1. i \in 1 .. n /\ j \in 1 .. n
          BY <1>3, <4>4
        <5>2. QED
          BY <1>3, <2>4, <3>1, <5>1 DEF NamesDiffer
      <4>5. QED
        BY <4>1, <4>2, <4>3, <4>4
    <3>2. QED
      BY <2>4, <3>1 DEF NamesDiffer
  <2>8. t \in Tables(S)
    <3>1. l2 \in [0 .. 2 * c - 1 -> Nat]
      <4>1. t.lookup \in [0 .. 2 * c - 1 -> 0 .. n + 1]
        BY <2>5, <2>6 DEF Leads, Slots
      <4>2. QED
        BY <1>3, <2>5, <4>1
    <3> HIDE DEF b, c, l2
    <3>2. b \in Nat /\ c \in Nat \ {0}
      BY <1>3 DEF b, c
    <3>3. QED
      BY <2>3, <2>4, <3>1, <3>2 DEF Tables
  <2>9. c = b \div UnitBytes
    BY <1>1 DEF Sound
  <2>10. Sound(t, S)
    BY <2>4, <2>5, <2>6, <2>7, <2>8, <2>9 DEF Sound
  <2>11. QED
    BY <1>1, <1>2, <1>6, <2>5, <2>10 DEF t, e2
<1>7. QED
  BY <1>5, <1>6

(* Looking up a name gives its symbol, or none.                            *)
LEMMA GetIs ==
  ASSUME NEW S, Hashed(S), NEW hm, Sound(hm, S)
  PROVE  /\ \A i \in DOMAIN hm.elements :
              symbol_hm_get(hm, hm.elements[i].name) = hm.elements[i]
         /\ \A name : Hash(name) \in Nat /\ ~Holds(hm, name) => symbol_hm_get(hm, name) = NoSymbol
<1> DEFINE n == Len(hm.elements)
<1>1. /\ hm \in Tables(S) /\ n \in Nat /\ DOMAIN hm.elements = 1 .. n
      /\ n <= hm.capacity /\ Leads(hm, n) /\ NamesDiffer(hm.elements)
  BY DEF Sound, Tables
<1>2. ASSUME NEW i \in 1 .. n
      PROVE  symbol_hm_get(hm, hm.elements[i].name) = hm.elements[i]
  <2>1. hm.lookup[Probed(hm, hm.elements[i].name)] = i
    BY <1>1, ProbeFinds
  <2>2. i # 0
    OBVIOUS
  <2>3. QED
    BY <2>1, <2>2 DEF symbol_hm_get
<1>3. ASSUME NEW name, Hash(name) \in Nat, ~Holds(hm, name)
      PROVE  symbol_hm_get(hm, name) = NoSymbol
  <2>1. \A i \in 1 .. n : hm.elements[i].name # name
    BY <1>1, <1>3 DEF Holds
  <2>2. hm.lookup[Probed(hm, name)] = 0
    BY <1>1, <1>3, <2>1, ProbeFails
  <2>3. QED
    BY <2>2 DEF symbol_hm_get
<1>4. QED
  BY <1>1, <1>2, <1>3

-----------------------------------------------------------------------------
(* The theorems                                                            *)

(* A table is sound when it is made, and stays so when a symbol is put     *)
(* into it, whether it grows for that or not (symbol_hm_init,              *)
(* symbol_hm_put, layout_hm_memory, rehash).  Symbols stay in the order    *)
(* they were entered, and only the first of a name is.                     *)
THEOREM TablesStaySound ==
  ASSUME NEW S, Hashed(S)
  PROVE  /\ Sound(symbol_hm_init, S) /\ symbol_hm_init.elements = <<>>
         /\ \A hm : \A symbol \in S : Sound(hm, S) =>
              /\ Sound(symbol_hm_put(hm, symbol), S)
              /\ symbol_hm_put(hm, symbol).elements =
                   IF Holds(hm, symbol.name) THEN hm.elements ELSE Append(hm.elements, symbol)
BY InitIsSound, PutIsSound

(* A sound table finds its symbols, no two of the same name, and a probe   *)
(* for any name ends: what NamesFound of Parser says of the table of every *)
(* scope (symbol_hm_get, hm_lookup_insert).                                *)
THEOREM SoundTablesFind ==
  ASSUME NEW S, Hashed(S), NEW hm, Sound(hm, S)
  PROVE  FindsItsSymbols(hm)
<1>1. \A symbol \in Range(hm.elements) : symbol_hm_get(hm, symbol.name) = symbol
  BY GetIs DEF Range
<1>2. IsInjective(hm.elements)
  <2>1. NamesDiffer(hm.elements)
    BY DEF Sound
  <2>2. QED
    BY <2>1 DEF IsInjective, NamesDiffer
<1>3. \E slot \in Slots(hm) : hm.lookup[slot] = 0
  <2>1. /\ hm.capacity \in Nat \ {0} /\ Len(hm.elements) \in Nat
        /\ Len(hm.elements) <= hm.capacity /\ Leads(hm, Len(hm.elements))
    BY DEF Sound, Tables
  <2>2. QED
    BY <2>1, SomeSlotUnused
<1>4. QED
  BY <1>1, <1>2, <1>3 DEF FindsItsSymbols

(* Putting a symbol changes what is found under its name if that is new,   *)
(* and under no other name, collide as they may (symbol_hm_put,            *)
(* symbol_hm_get).                                                         *)
THEOREM FirstSymbolIsFound ==
  ASSUME NEW S, Hashed(S), NEW hm, Sound(hm, S), NEW symbol \in S,
         NEW name, Hash(name) \in Nat
  PROVE  symbol_hm_get(symbol_hm_put(hm, symbol), name) =
           IF name = symbol.name /\ ~Holds(hm, name) THEN symbol ELSE symbol_hm_get(hm, name)
<1> DEFINE t == symbol_hm_put(hm, symbol)
           e == hm.elements
<1>1. /\ Sound(t, S)
      /\ t.elements = IF Holds(hm, symbol.name) THEN e ELSE Append(e, symbol)
  BY PutIsSound
<1>2. e \in Seq(S)
  BY DEF Sound, Tables
<1> HIDE DEF t
<1>3. CASE Holds(hm, symbol.name)
  <2>1. CASE Holds(hm, name)
    <3>1. PICK i \in DOMAIN e : e[i].name = name
      BY <2>1 DEF Holds
    <3>2. QED
      BY <1>1, <1>3, <2>1, <3>1, GetIs DEF t
  <2>2. CASE ~Holds(hm, name)
    <3>1. ~Holds(t, name)
      BY <1>1, <1>3, <2>2 DEF Holds
    <3>2. QED
      BY <1>1, <1>3, <2>2, <3>1, GetIs DEF t
  <2>3. QED
    BY <2>1, <2>2
<1>4. CASE ~Holds(hm, symbol.name)
  <2> DEFINE f == Append(e, symbol)
  <2>1. /\ DOMAIN e = 1 .. Len(e) /\ DOMAIN f = 1 .. Len(e) + 1 /\ Len(e) \in Nat
        /\ f[Len(e) + 1] = symbol /\ \A i \in 1 .. Len(e) : f[i] = e[i]
    BY <1>2
  <2>2. t.elements = f
    BY <1>1, <1>4
  <2> HIDE DEF f
  <2>3. CASE name = symbol.name
    <3>1. Len(e) + 1 \in DOMAIN t.elements /\ t.elements[Len(e) + 1] = symbol
      BY <2>1, <2>2
    <3>2. symbol_hm_get(t, symbol.name) = symbol
      BY <1>1, <3>1, GetIs
    <3>3. QED
      BY <1>4, <2>3, <3>2 DEF t
  <2>4. CASE name # symbol.name /\ Holds(hm, name)
    <3>1. PICK i \in DOMAIN e : e[i].name = name
      BY <2>4 DEF Holds
    <3>2. i \in DOMAIN t.elements /\ t.elements[i] = e[i]
      BY <2>1, <2>2
    <3>3. symbol_hm_get(t, name) = e[i] /\ symbol_hm_get(hm, name) = e[i]
      BY <1>1, <3>1, <3>2, GetIs
    <3>4. QED
      BY <2>4, <3>3 DEF t
  <2>5. CASE name # symbol.name /\ ~Holds(hm, name)
    <3>1. ~Holds(t, name)
      <4>1. ASSUME NEW i \in DOMAIN t.elements, t.elements[i].name = name PROVE FALSE
        <5>1. i \in 1 .. Len(e) + 1
          BY <2>1, <2>2
        <5>2. i # Len(e) + 1
          BY <2>1, <2>2, <2>5, <4>1
        <5>3. i \in DOMAIN e /\ f[i] = e[i]
          BY <2>1, <5>1, <5>2
        <5>4. QED
          BY <2>2, <2>5, <4>1, <5>3 DEF Holds
      <4>2. QED
        BY <4>1 DEF Holds
    <3>2. QED
      BY <1>1, <2>5, <3>1, GetIs DEF t
  <2>6. QED
    BY <2>3, <2>4, <2>5
<1>5. QED
  BY <1>3, <1>4

=============================================================================
